--------------------------- MODULE NotificationPrefs ---------------------------
(***************************************************************************)
(* The Notifications page.  Its settings are shown before they are saved   *)
(* and put back where saving fails; its rows are read again after each     *)
(* change; its switches wait for the desktop's permission.  Every request  *)
(* is a call on its way, and several may be out together.                  *)
(***************************************************************************)
EXTENDS Naturals, FiniteSets

CONSTANTS
    Lists,          \* what is typed: words that raise, nicknames that never do
    Switches,       \* what is chosen and kept by the backend: away, tray
    Rows,           \* what is read back: muted, ignored, watched
    Names,          \* what a list, a switch or a row may hold
    Gated, Free,    \* desktop switches that need permission, and those that do not
    MaxEdits,
    None

PrefsAssumption ==
    /\ Lists \cap Switches = {} /\ Rows \cap (Lists \cup Switches) = {} /\ Gated \cap Free = {} /\ MaxEdits \in Nat
    /\ None \notin Lists \cup Switches \cup Rows \cup Names

VARIABLES
    shown, saved, inForce,  \* of a setting: on the page, in the backend, in the client
    unread,     \* settings the page has not read yet
    writes,     \* saves on their way
    rows, kept,     \* of the rows: on the page, in the backend
    sets, reads,    \* changes to them on their way, and reads of them
    notify, stored, asking, allowed, \* the desktop's switches and its permission
    edits,
    crossed,    \* settings two saves of which were out together, and rows two reads of which
    blind,      \* lists saved from a page that had not read them
    stale,      \* lists the client failed to read, and so holds as it did before
    old         \* rows the page failed to read, and so shows as it did before

settings == <<shown, saved, inForce, unread, writes, blind, stale>>
rowVars == <<rows, kept, sets, reads, old>>
desktop == <<notify, stored, asking, allowed>>
vars == <<settings, rowVars, desktop, edits, crossed>>

Settings == Lists \cup Switches
\* The words are awaited before anything is drawn, the tray's group before it is.
Drawn == "words" \notin unread
Edited == Drawn /\ edits < MaxEdits /\ edits' = edits + 1
Out(s) == {w \in writes : w.setting = s}

-----------------------------------------------------------------------------
(* Settings shown first and saved after.                                   *)

\* The page opens and reads what the backend holds; a list not read is drawn empty,
\* and one whose reading failed stays unread.
ReadArrives(s) ==
    /\ s \in unread /\ unread' = unread \ {s}
    /\ shown' = [shown EXCEPT ![s] = saved[s]]
    /\ UNCHANGED <<saved, inForce, writes, blind, stale, rowVars, desktop, edits, crossed>>

commit(s, next) ==
    /\ Edited /\ (s \in unread => s = "hushed")
    /\ shown' = [shown EXCEPT ![s] = next]
    /\ writes' = writes \cup {[id |-> edits, setting |-> s, next |-> next, before |-> shown[s],
                               at |-> "sent", read |-> None]}
    /\ crossed' = IF Out(s) # {} THEN crossed \cup {s} ELSE crossed
    /\ blind' = IF s \in unread THEN blind \cup {s} ELSE blind
    /\ UNCHANGED <<saved, inForce, unread, stale, rowVars, desktop>>
\* A name typed that is on the list already is refused; a switch is one name or none.
add(l, n) == n \notin shown[l] /\ commit(l, shown[l] \cup {n})
remove(l, n) == n \in shown[l] /\ commit(l, shown[l] \ {n})
choose(s, value) == value # shown[s] /\ commit(s, value)

Becomes(w, at) == writes' = (writes \ {w}) \cup {[w EXCEPT !.at = at]}
\* A save that has nothing of its setting beside it, of what the page shows, settles it.
Settles(w) == Out(w.setting) = {w} /\ w.setting \notin unread /\ shown[w.setting] = w.next
Written(w) ==
    /\ w.at = "sent" /\ saved' = [saved EXCEPT ![w.setting] = w.next]
    /\ crossed' = IF Settles(w) THEN crossed \ {w.setting} ELSE crossed
    /\ blind' = IF Settles(w) THEN blind \ {w.setting} ELSE blind
    /\ IF w.setting \in Lists THEN Becomes(w, "saved") /\ UNCHANGED inForce
       ELSE writes' = writes \ {w} /\ inForce' = [inForce EXCEPT ![w.setting] = w.next]
    /\ UNCHANGED <<shown, unread, stale, rowVars, desktop, edits>>
Refused(w) ==
    /\ w.at = "sent" /\ Becomes(w, "refused")
    /\ UNCHANGED <<shown, saved, inForce, unread, blind, stale, rowVars, desktop, edits, crossed>>

\* A save that failed puts back what the screen showed before it.
PutBack(w) ==
    /\ w.at = "refused" /\ writes' = writes \ {w}
    /\ shown' = [shown EXCEPT ![w.setting] = w.before]
    /\ UNCHANGED <<saved, inForce, unread, blind, stale, rowVars, desktop, edits, crossed>>

\* loadHighlightWords and loadHushedNicks: the client reads what was saved.  Where it
\* cannot it goes on with what it held, and the page is not told.
Reread(w) ==
    /\ w.at = "saved"
    /\ writes' = (writes \ {w}) \cup {[w EXCEPT !.at = "read", !.read = saved[w.setting]]}
    /\ UNCHANGED <<shown, saved, inForce, unread, blind, stale, rowVars, desktop, edits, crossed>>
Loaded(w) ==
    /\ w.at = "read" /\ writes' = writes \ {w}
    /\ inForce' = [inForce EXCEPT ![w.setting] = w.read] /\ stale' = stale \ {w.setting}
    /\ UNCHANGED <<shown, saved, unread, blind, rowVars, desktop, edits, crossed>>
RereadFails(w) ==
    /\ w.at = "saved" /\ writes' = writes \ {w} /\ stale' = stale \cup {w.setting}
    /\ UNCHANGED <<shown, saved, inForce, unread, blind, rowVars, desktop, edits, crossed>>

-----------------------------------------------------------------------------
(* Rows changed and read again.                                            *)

ReadsOf(r) == {q \in reads : q.rows = r}
\* set_muted, set_ignored and set_watched: asked for, done or refused, and answered.
setRow(r, n) ==
    /\ Edited
    /\ sets' = sets \cup {[id |-> edits, rows |-> r, name |-> n, off |-> n \in rows[r], done |-> FALSE]}
    /\ UNCHANGED <<settings, rows, kept, reads, old, desktop, crossed>>
RowSet(c) ==
    /\ ~c.done /\ sets' = (sets \ {c}) \cup {[c EXCEPT !.done = TRUE]}
    /\ kept' = [kept EXCEPT ![c.rows] = IF c.off THEN @ \ {c.name} ELSE @ \cup {c.name}]
    /\ UNCHANGED <<settings, rows, reads, old, desktop, edits, crossed>>
RowRefused(c) ==
    /\ ~c.done /\ sets' = sets \ {c}
    /\ UNCHANGED <<settings, rows, kept, reads, old, desktop, edits, crossed>>
\* The rows are read again, beside whatever reads of them are out already.
RowAnswered(c) ==
    /\ c.done /\ sets' = sets \ {c}
    /\ reads' = reads \cup {[id |-> c.id, rows |-> c.rows, answer |-> None]}
    /\ crossed' = IF ReadsOf(c.rows) # {} THEN crossed \cup {c.rows} ELSE crossed
    /\ UNCHANGED <<settings, rows, kept, old, desktop, edits>>
RowsRead(q) ==
    /\ q.answer = None /\ reads' = (reads \ {q}) \cup {[q EXCEPT !.answer = kept[q.rows]]}
    /\ crossed' = IF ReadsOf(q.rows) = {q} THEN crossed \ {q.rows} ELSE crossed
    /\ UNCHANGED <<settings, rows, kept, sets, old, desktop, edits>>
RowsArrive(q) ==
    /\ q.answer # None /\ reads' = reads \ {q}
    /\ rows' = [rows EXCEPT ![q.rows] = q.answer] /\ old' = old \ {q.rows}
    /\ UNCHANGED <<settings, kept, sets, desktop, edits, crossed>>
\* A read that fails says so and leaves the rows.
RowsFail(q) ==
    /\ reads' = reads \ {q} /\ old' = old \cup {q.rows}
    /\ UNCHANGED <<settings, rows, kept, sets, desktop, edits, crossed>>

-----------------------------------------------------------------------------
(* Switches the desktop is asked about.                                    *)

TurningOn(next) == (next \ stored) \cap Gated # {}
Stored(next) == notify' = next /\ stored' = next
toggle(n) ==
    LET next == IF n \in notify THEN notify \ {n} ELSE notify \cup {n}
    IN  /\ Edited
        /\ IF TurningOn(next) THEN asking' = asking \cup {next} /\ UNCHANGED <<notify, stored>>
           ELSE Stored(next) /\ UNCHANGED asking
        /\ UNCHANGED <<allowed, settings, rowVars, crossed>>
\* allowedToNotify asks the desktop once; a refusal leaves the switch as it was.
AllowedToNotify(next, yes) ==
    /\ allowed = TRUE => yes
    /\ allowed' = yes /\ asking' = asking \ {next}
    /\ IF yes THEN Stored(next) ELSE UNCHANGED <<notify, stored>>
    /\ UNCHANGED <<settings, rowVars, edits, crossed>>

-----------------------------------------------------------------------------
Init ==
    /\ saved \in [Settings -> SUBSET Names]
    /\ \A s \in Switches : Cardinality(saved[s]) <= 1
    /\ unread = Settings \ {"away"} /\ stale \in SUBSET Lists /\ old = {} /\ sets = {}
    /\ inForce = [s \in Settings |-> IF s \in stale THEN {} ELSE saved[s]]
    /\ shown = [s \in Settings |-> IF s \in unread THEN {} ELSE saved[s]]
    /\ writes = {} /\ blind = {}
    /\ rows = [r \in Rows |-> {}] /\ kept = rows
    /\ reads = {[id |-> None, rows |-> r, answer |-> None] : r \in Rows}
    /\ notify = {} /\ stored = {} /\ asking = {} /\ allowed = None
    /\ edits = 0 /\ crossed = {}
Next ==
    \/ \E s \in Settings : ReadArrives(s)
    \/ \E l \in Lists, n \in Names : add(l, n) \/ remove(l, n)
    \/ \E s \in Switches, v \in {{}} \cup {{n} : n \in Names} : choose(s, v)
    \/ \E w \in writes : Written(w) \/ Refused(w) \/ PutBack(w) \/ Reread(w) \/ Loaded(w) \/ RereadFails(w)
    \/ \E r \in Rows, n \in Names : setRow(r, n)
    \/ \E c \in sets : RowSet(c) \/ RowRefused(c) \/ RowAnswered(c)
    \/ \E q \in reads : RowsRead(q) \/ RowsArrive(q) \/ RowsFail(q)
    \/ \E n \in Gated \cup Free : toggle(n)
    \/ \E next \in asking, yes \in BOOLEAN : AllowedToNotify(next, yes)
Spec == Init /\ [][Next]_vars

-----------------------------------------------------------------------------
TypeOK ==
    /\ shown \in [Settings -> SUBSET Names] /\ saved \in [Settings -> SUBSET Names]
    /\ rows \in [Rows -> SUBSET Names] /\ notify \subseteq Gated \cup Free
    /\ \A w \in writes : w.setting \in Settings

Still(r) == ReadsOf(r) = {} /\ \A c \in sets : c.rows = r => ~c.done

\* Whatever was saved, refused and failed to be read again, what the page shows at rest
\* is what is saved, and what raises a line is what is saved.  The exceptions: a list
\* the client failed to read is in force as it was (stale) and rows the page failed to
\* read are shown as they were (old), until the next reading of them; two saves of one
\* setting out together, the first of which may put back what the second changed, two
\* readings of rows out together, which arrive in any order (crossed), and a list saved
\* before the page had read it (blind), until one alone puts them right.
ScreenIsSaved ==
    /\ \A s \in Settings \ (unread \cup crossed \cup blind) :
         Out(s) = {} => shown[s] = saved[s] /\ (s \notin stale => inForce[s] = saved[s])
    /\ \A r \in Rows \ (crossed \cup old) : Still(r) => rows[r] = kept[r]

\* A switch that reads as on is one the desktop allowed: neither a refusal nor a
\* permission still being asked for leaves it on.
OnIsAllowed == stored \cap Gated # {} => allowed = TRUE /\ stored = notify

\* As loadHushedNicks has it, a list that cannot be read never hides a line somebody
\* wanted: who is hushed is somebody the page says is.
\* The code does not keep it (README, section 7).
UnreadHidesNobody ==
    Out("hushed") = {} /\ "hushed" \notin unread \cup crossed \cup blind =>
        inForce["hushed"] \subseteq shown["hushed"]

\* As the page has it, the screen is put back where a save fails: also where another
\* save of the same setting was out beside it.
\* The code does not keep it (README, section 7).
PutBackIsSaved == \A s \in Settings \ (unread \cup blind) : Out(s) = {} => shown[s] = saved[s]

\* As the page has it, a list not read yet is a page that hushes nobody, which is
\* the state the client is in anyway: a name typed on to a list takes nobody off it.
\* The code does not keep it (README, section 7).
TypingTakesNobodyOff ==
    [][\A s \in Lists \ crossed :
         saved'[s] # saved[s] /\ ~(saved'[s] \subseteq saved[s]) => saved[s] \subseteq saved'[s]]_vars
=============================================================================
