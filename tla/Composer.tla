-------------------------------- MODULE Composer --------------------------------
(***************************************************************************)
(* The box a line is typed into: one for each pane, mounted afresh with    *)
(* the conversation the pane shows.  What is typed is kept as a draft, what *)
(* was sent can be walked back through, and a line that is refused comes   *)
(* back.  Every box of a conversation shares its draft, history and reply. *)
(***************************************************************************)
EXTENDS Sequences, Naturals

CONSTANTS
    Views, Targets,
    Lines,          \* what may be typed
    SortOf,         \* [Lines -> Sorts]
    Completes,      \* [Lines -> Seq(Lines)]: what Tab makes of a line, press by press
    Replies,        \* messages that may be replied to
    INPUT_HISTORY_CAP,
    MaxEdits, MaxSends, MaxMoves,
    None

Sorts == {"said", "secret", "join", "connection"}
Texts == Lines \cup {""}
ComposerAssumption ==
    /\ "" \notin Lines /\ SortOf \in [Lines -> Sorts] /\ Completes \in [Lines -> Seq(Lines)]
    /\ None \notin Replies /\ None \notin Texts
    /\ {INPUT_HISTORY_CAP, MaxEdits, MaxSends, MaxMoves} \subseteq Nat

VARIABLES
    at, mount,      \* the conversation each pane is on, and which composer it is
    value, browsing, completion, hydrated, unsaved, typing,
    error,          \* by pane, in the store
    history, replyTo, presence,     \* by conversation, in the store
    disk,           \* the drafts the backend keeps
    calls,          \* what is asked of the backend
    own,            \* by conversation, what the reader last wrote in it or left in it
    tabbed,         \* where a line being looked at was completed
    lost,           \* where a box gave up the stored draft before it had read it
    shared,         \* conversations two panes have been on
    edits, sends

box == <<value, browsing, completion, hydrated, unsaved, presence>>
vars == <<at, mount, box, typing, error, history, replyTo, disk, calls, own, tabbed,
          lost, shared, edits, sends>>

\* A line being looked at is not a draft: what was typed before it is.
draft(v) == IF browsing[v] = None THEN value[v] ELSE browsing[v].pending
\* A plausible slip in Box: what is in the box is what is saved.
BoxAsShown(v, text, looking, tab, read) ==
    /\ value' = [value EXCEPT ![v] = text] /\ browsing' = [browsing EXCEPT ![v] = looking]
    /\ completion' = [completion EXCEPT ![v] = tab] /\ hydrated' = [hydrated EXCEPT ![v] = read]
    /\ LET changed == read /\ (text # value[v] \/ ~hydrated[v])
       IN  /\ unsaved' = IF changed THEN [unsaved EXCEPT ![v] = text] ELSE unsaved
           /\ presence' = IF changed THEN [presence EXCEPT ![at[v]] = text # ""] ELSE presence
\* What the box holds and, once the stored draft was read, the effects that follow from
\* another draft: the sidebar's mark at once, the save when the reader pauses.
Box(v, text, looking, tab, read) ==
    /\ value' = [value EXCEPT ![v] = text] /\ browsing' = [browsing EXCEPT ![v] = looking]
    /\ completion' = [completion EXCEPT ![v] = tab] /\ hydrated' = [hydrated EXCEPT ![v] = read]
    /\ LET next == IF looking = None THEN text ELSE looking.pending
           changed == read /\ (next # draft(v) \/ ~hydrated[v])
       IN  /\ unsaved' = IF changed THEN [unsaved EXCEPT ![v] = next] ELSE unsaved
           /\ presence' = IF changed THEN [presence EXCEPT ![at[v]] = next # ""] ELSE presence

-----------------------------------------------------------------------------
(* Typing.                                                                 *)

\* What is written counts from when the stored draft was read: DraftRead takes in what
\* was written before.
Typed(v, text) ==
    IF hydrated[v]
    THEN /\ own' = [own EXCEPT ![at[v]] = text]
         /\ tabbed' = tabbed \ {at[v]} /\ lost' = lost \ {at[v]}
    ELSE UNCHANGED <<own, tabbed, lost>>
setTyping(v, on) == typing' = [typing EXCEPT ![v] = on]
stopTyping(v) == setTyping(v, FALSE)
Edit == edits < MaxEdits /\ edits' = edits + 1
Elsewhere == UNCHANGED <<at, mount, error, history, replyTo, disk, calls, shared, sends>>

onChange(v, next) ==
    /\ Edit /\ next # value[v] /\ Box(v, next, None, None, hydrated[v]) /\ Typed(v, next)
    /\ IF next = "" THEN stopTyping(v) ELSE setTyping(v, TRUE)
    /\ Elsewhere
\* The first Tab starts on what is in the box, the next ones go round what it matched.
startCompletion(line) == [of |-> line, index |-> 1, text |-> Completes[line][1]]
cycleCompletion(tab) ==
    LET i == (tab.index % Len(Completes[tab.of])) + 1
    IN  [tab EXCEPT !.index = i, !.text = Completes[tab.of][i]]
complete(v) ==
    LET again == completion[v] # None /\ completion[v].text = value[v] IN
    /\ value[v] # "" /\ (again \/ Completes[value[v]] # <<>>) /\ Edit
    /\ LET tab == IF again THEN cycleCompletion(completion[v]) ELSE startCompletion(value[v])
       IN  /\ Box(v, tab.text, browsing[v], tab, hydrated[v])
           /\ own' = IF hydrated[v] THEN [own EXCEPT ![at[v]] = tab.text] ELSE own
           /\ tabbed' = IF browsing[v] # None THEN tabbed \cup {at[v]} ELSE tabbed
    /\ UNCHANGED <<typing, lost>> /\ Elsewhere

older(v) ==
    LET i == IF browsing[v] = None THEN 1 ELSE browsing[v].index + 1
        pending == IF browsing[v] = None THEN value[v] ELSE browsing[v].pending
    IN  /\ i <= Len(history[at[v]]) /\ Edit
        /\ Box(v, history[at[v]][i], [index |-> i, pending |-> pending], None, hydrated[v])
        /\ UNCHANGED <<typing, own, tabbed, lost>> /\ Elsewhere
newer(v) ==
    /\ browsing[v] # None /\ Edit
    /\ IF browsing[v].index = 1
       THEN /\ Box(v, browsing[v].pending, None, None, hydrated[v])
            /\ Typed(v, browsing[v].pending)
       ELSE /\ Box(v, history[at[v]][browsing[v].index - 1],
                   [browsing[v] EXCEPT !.index = @ - 1], None, hydrated[v])
            /\ UNCHANGED <<own, tabbed, lost>>
    /\ UNCHANGED typing /\ Elsewhere
Escape(v, closesPicker) ==
    /\ completion' = [completion EXCEPT ![v] = None] /\ error' = [error EXCEPT ![v] = FALSE]
    /\ replyTo' = IF closesPicker THEN replyTo ELSE [replyTo EXCEPT ![at[v]] = None]
    /\ UNCHANGED <<at, mount, value, browsing, hydrated, unsaved, presence, typing, history, disk,
                   calls, own, tabbed, lost, shared, edits, sends>>
setReplyTo(t, msgid) ==
    /\ replyTo[t] # msgid /\ replyTo' = [replyTo EXCEPT ![t] = msgid]
    /\ UNCHANGED <<at, mount, box, typing, error, history, disk, calls, own, tabbed, lost, shared,
                   edits, sends>>

-----------------------------------------------------------------------------
(* Drafts.                                                                 *)

Here(call) == call.mount = mount[call.view]
\* The stored draft goes into a box that is still empty, and only then is one written.
Hydrates(v, text) ==
    LET t == at[v] IN
    /\ Box(v, IF value[v] = "" THEN text ELSE value[v], browsing[v], completion[v], TRUE)
    /\ own' = IF draft(v) # "" THEN [own EXCEPT ![t] = draft(v)] ELSE own
    /\ lost' = IF (IF browsing[v] = None THEN value'[v] ELSE browsing[v].pending) = "" /\ own[t] # "" THEN lost \cup {t} ELSE lost \ {t}
    /\ UNCHANGED tabbed
DraftRead(c) ==
    /\ c.what = "read" /\ calls' = calls \ {c}
    /\ IF Here(c) THEN Hydrates(c.view, c.text) ELSE UNCHANGED <<box, own, tabbed, lost>>
    /\ UNCHANGED <<at, mount, typing, error, history, replyTo, disk, shared, edits, sends>>
\* Where it could not be read the reason is shown, and what the box holds is the draft.
DraftFails(c) ==
    /\ c.what = "read" /\ Here(c) /\ calls' = calls \ {c}
    /\ Hydrates(c.view, "") /\ error' = [error EXCEPT ![c.view] = TRUE]
    /\ UNCHANGED <<at, mount, typing, history, replyTo, disk, shared, edits, sends>>
SaveDraft(v) ==
    /\ unsaved[v] # None /\ disk' = [disk EXCEPT ![at[v]] = unsaved[v]]
    /\ unsaved' = [unsaved EXCEPT ![v] = None]
    /\ UNCHANGED <<at, mount, value, browsing, completion, hydrated, presence, typing, error, history,
                   replyTo, calls, own, tabbed, lost, shared, edits, sends>>

\* Another composer in the pane: the one that goes writes what it has, and the one
\* that comes asks for what is stored.  The requests are answered in the order made.
Mounts(v, t) ==
    LET kept == IF hydrated[v] THEN [disk EXCEPT ![at[v]] = draft(v)] ELSE disk
    IN  /\ mount[v] < MaxMoves /\ mount' = [mount EXCEPT ![v] = @ + 1]
        /\ at' = [at EXCEPT ![v] = t] /\ disk' = kept
        /\ typing' = [typing EXCEPT ![v] = FALSE]
        /\ value' = [value EXCEPT ![v] = ""] /\ browsing' = [browsing EXCEPT ![v] = None]
        /\ completion' = [completion EXCEPT ![v] = None]
        /\ hydrated' = [hydrated EXCEPT ![v] = FALSE] /\ unsaved' = [unsaved EXCEPT ![v] = None]
        /\ UNCHANGED <<own, tabbed, lost>>
        /\ shared' = shared \cup {at'[w] : w \in {w \in Views \ {v} : at[w] = t}}
        /\ error' = [error EXCEPT ![v] = @ /\ t = at[v]]
Reading(v, t) == [what |-> "read", view |-> v, mount |-> mount'[v], text |-> disk'[t]]
\* The pane is pointed at another conversation, or the layout rebuilt under the same one.
Show(v, t) ==
    /\ Mounts(v, t) /\ calls' = calls \cup {Reading(v, t)}
    /\ UNCHANGED <<history, replyTo, presence, edits, sends>>

-----------------------------------------------------------------------------
(* Sending.                                                                *)

carriesACredential(line) == SortOf[line] = "secret"
rememberInput(t, line) ==
    IF history[t] # <<>> /\ Head(history[t]) = line THEN history
    ELSE LET all == <<line>> \o history[t]
         IN  [history EXCEPT ![t] = SubSeq(all, 1, IF Len(all) < INPUT_HISTORY_CAP THEN Len(all)
                                                  ELSE INPUT_HISTORY_CAP)]
\* Everything submitted is recallable, refusals included, unless it carries a password.
send(v) ==
    LET line == value[v] IN
    /\ line # "" /\ sends < MaxSends /\ sends' = sends + 1
    /\ Box(v, "", None, None, hydrated[v]) /\ stopTyping(v)
    /\ IF hydrated[v] THEN Typed(v, "")
       ELSE lost' = lost \cup {at[v]} /\ UNCHANGED <<own, tabbed>>
    /\ history' = IF carriesACredential(line) THEN history ELSE rememberInput(at[v], line)
    /\ disk' = [disk EXCEPT ![at[v]] = ""] /\ error' = [error EXCEPT ![v] = FALSE]
    /\ calls' = calls \cup {[what |-> "submit", view |-> v, mount |-> mount[v], n |-> sends,
                             target |-> at[v], line |-> line, reply |-> replyTo[at[v]]]}
    /\ UNCHANGED <<at, mount, replyTo, shared, edits>>

\* A line that was said takes whatever reply is staged by then.
Sent(c) ==
    /\ c.what = "submit" /\ SortOf[c.line] = "said" /\ calls' = calls \ {c}
    /\ replyTo' = [replyTo EXCEPT ![c.target] = None]
    /\ UNCHANGED <<at, mount, box, typing, error, history, disk, own, tabbed, lost, shared,
                   edits, sends>>
\* The reason is the pane's, and the line goes back only where the box is still empty.
\* A command about the connection that failed gives its reason and not its line.
refuse(c) ==
    /\ c.what = "submit" /\ calls' = calls \ {c}
    /\ error' = [error EXCEPT ![c.view] = TRUE]
    /\ LET v == c.view IN
       IF Here(c) /\ value[v] = "" /\ SortOf[c.line] # "connection"
       THEN Box(v, c.line, browsing[v], completion[v], hydrated[v])
            /\ IF browsing[v] = None THEN Typed(v, c.line) ELSE UNCHANGED <<own, tabbed, lost>>
       ELSE UNCHANGED <<box, own, tabbed, lost>>
    /\ UNCHANGED <<at, mount, typing, history, replyTo, disk, shared, edits, sends>>
\* Carried out with nothing said; a join is read where it lands, in whichever pane has
\* the focus by then.
Done(c, f, t) ==
    /\ c.what = "submit" /\ SortOf[c.line] # "said"
    /\ IF SortOf[c.line] = "join" /\ at[f] # t
       THEN Mounts(f, t) /\ calls' = (calls \ {c}) \cup {Reading(f, t)}
       ELSE /\ calls' = calls \ {c}
            /\ UNCHANGED <<at, mount, value, browsing, completion, hydrated, unsaved, typing, error,
                           disk, own, tabbed, lost, shared>>
    /\ UNCHANGED <<history, replyTo, presence, edits, sends>>

Init ==
    /\ at \in [Views -> Targets]
    /\ mount = [v \in Views |-> 0] /\ value = [v \in Views |-> ""]
    /\ browsing = [v \in Views |-> None] /\ completion = browsing /\ unsaved = browsing
    /\ hydrated = [v \in Views |-> FALSE] /\ typing = hydrated /\ error = hydrated
    /\ history = [t \in Targets |-> <<>>] /\ replyTo = [t \in Targets |-> None]
    /\ disk \in [Targets -> {"", CHOOSE l \in Lines : SortOf[l] = "said"}]
    /\ presence = [t \in Targets |-> disk[t] # ""]
    /\ calls = {[what |-> "read", view |-> v, mount |-> 0, text |-> disk[at[v]]] : v \in Views}
    /\ own = disk /\ tabbed = {} /\ lost = {}
    /\ shared = {at[v] : v \in {v \in Views : \E w \in Views \ {v} : at[w] = at[v]}}
    /\ edits = 0 /\ sends = 0
Next ==
    \/ \E v \in Views :
         \/ \E next \in Texts : onChange(v, next)
         \/ complete(v) \/ older(v) \/ newer(v) \/ SaveDraft(v) \/ send(v)
         \/ \E closesPicker \in BOOLEAN : Escape(v, closesPicker)
         \/ \E t \in Targets : Show(v, t)
    \/ \E t \in Targets, msgid \in Replies \cup {None} : setReplyTo(t, msgid)
    \/ \E c \in calls : DraftRead(c) \/ DraftFails(c) \/ Sent(c) \/ refuse(c)
                          \/ \E f \in Views, t \in Targets : Done(c, f, t)
Spec == Init /\ [][Next]_vars

-----------------------------------------------------------------------------
\* No box of a conversation has anything left to read or to save.
Settled(t) == \A v \in Views : at[v] = t => hydrated[v] /\ unsaved[v] = None

\* At rest, what the reader last wrote in a conversation is what is kept as its draft,
\* however they went back through what was sent, left and came back, or had a line
\* refused.  Let off are a conversation two panes were ever on (shared), a line looked
\* at that Tab completed (tabbed), and a stored draft the box gave up (lost): its
\* reading failed, or came while an earlier line was being looked at, or a line was
\* sent and the conversation left before it came.
DraftIsWhatWasTyped ==
    \A t \in Targets \ (shared \cup tabbed \cup lost) : Settled(t) => disk[t] = own[t]

\* At rest, the sidebar marks a draft just where there is one, over moves, sends and
\* refusals; a conversation two panes were on is let off, and one a line was sent from
\* before its draft was read (lost).
DraftsAreMarked ==
    \A t \in Targets \ (shared \cup lost) : Settled(t) => (presence[t] <=> disk[t] # "")

\* Every write waits on the stored draft having arrived: it is not overwritten with the
\* empty box where its reading failed.
\* The code does not keep it (README, section 7).
StoredDraftIsKept ==
    \A t \in Targets \ (shared \cup tabbed) : Settled(t) => disk[t] = own[t]

\* The last keystrokes survive the leaving of a conversation: also those made before
\* its stored draft was read.
\* The code does not keep it (README, section 7).
KeystrokesSurvive ==
    [][\A v \in Views : mount'[v] # mount[v] /\ draft(v) # "" => disk'[at[v]] = draft(v)]_vars

\* From the moment a line that was looked at is edited it is being typed: as the code
\* says of every edit, Tab's included.
\* The code does not keep it (README, section 7).
AnEditIsTyped == \A v \in Views : at[v] \notin shared \cup lost /\ Settled(at[v]) => draft(v) = own[at[v]]

\* Only a line that was said consumes a reply: the one it was sent with.
\* The code does not keep it (README, section 7).
ReplyGoesWithItsLine ==
    [][\A c \in calls \ calls' : c.what = "submit" /\ replyTo'[c.target] # replyTo[c.target] =>
         c.reply = replyTo[c.target]]_vars
=============================================================================
