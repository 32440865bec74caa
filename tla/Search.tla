-------------------------------- MODULE Search --------------------------------
(***************************************************************************)
(* The search overlay: what is asked of the archive as the reader types,   *)
(* what is listed, the notes kept on bookmarks, and the jump to a message. *)
(* Calls are served in any order, and answered in any order once served.   *)
(***************************************************************************)
EXTENDS Naturals, Sequences, FiniteSets, SequencesExt

CONSTANTS
    Messages,       \* [id |-> [place, query, self, says, raised]]
    Places, Texts, Filters,
    Matches(_, _, _),   \* whether the archive finds a message for a text and the filters
    Notes,
    LIMIT,          \* how many searches are kept
    MaxOpens, MaxAsks, MaxSaves, MaxMoves, None

SearchAssumption ==
    /\ {LIMIT, MaxOpens, MaxAsks, MaxSaves, MaxMoves} \subseteq Nat
    /\ "" \in Texts /\ "" \notin Notes
    /\ \A m \in DOMAIN Messages : Messages[m].place \in Places

VARIABLES
    open, opened, mode, text, filter, hits, error, editingNote, saved,
    due,            \* the debounce is running
    asking,         \* the request whose answer is still wanted, or 0
    calls,          \* requests, note saves and jumps that are out
    asks, saves, moves,
    active,         \* the conversation in the focused pane, or None
    messageJump,
    unreadFrom,     \* by conversation, the messages from its unread line on
    notes,          \* the archive's: what is written on each bookmark
    refused,        \* the last list asked for was refused
    again,          \* the pressed mode was pressed again: its list is emptied, not asked for
    crossed         \* a note was written past a list that was already read, or by an earlier overlay

asked == <<mode, text, filter, active>>
ghosts == <<refused, again, crossed>>
vars == <<open, opened, asked, hits, error, editingNote, saved, due, asking, calls, asks, saves,
          moves, messageJump, unreadFrom, notes, ghosts>>

MODES == {"search", "bookmarks", "attention"}
tooShort(m, t) == m = "search" /\ t = ""

\* What is unread and was meant for the reader, of the conversations that are open.
attentionHits ==
    {m \in UNION {unreadFrom[p] : p \in Places} :
        /\ ~Messages[m].self /\ Messages[m].says
        /\ Messages[m].query \/ Messages[m].raised}
Here(m, place) == place = None \/ Messages[m].place = place
Found(m, t, f, place) ==
    {id \in DOMAIN Messages : Here(id, place) /\ (m = "search" => Matches(id, t, f))}
Hits(c) == {[id |-> id, note |-> IF c.mode = "bookmarks" THEN notes[id] ELSE ""] :
               id \in Found(c.mode, c.text, c.filter, c.place)}
shown ==
    IF mode = "attention" THEN {[id |-> id, note |-> ""] : id \in attentionHits}
    ELSE IF tooShort(mode, text) THEN {} ELSE hits

\* Anything the list is of has changed: what was asked before is not wanted any more.
Reasks(m, t) ==
    /\ due' = ~(m = "attention" \/ tooShort(m, t)) /\ asking' = 0
    /\ again' = FALSE /\ refused' = FALSE

openSearch(m) ==
    /\ ~open /\ opened < MaxOpens /\ opened' = opened + 1 /\ open' = TRUE
    /\ mode' = m /\ text' = "" /\ filter' = "any" /\ hits' = {} /\ error' = FALSE
    /\ editingNote' = None /\ Reasks(m, "")
    /\ UNCHANGED <<active, saved, calls, asks, saves, moves, messageJump, unreadFrom, notes, crossed>>
\* The overlay goes, and what it held with it; what it asked for is still out.
closeSearch ==
    /\ open' = FALSE /\ mode' = "search" /\ text' = "" /\ filter' = "any" /\ hits' = {}
    /\ error' = FALSE /\ editingNote' = None /\ due' = FALSE /\ asking' = 0
    /\ refused' = FALSE /\ again' = FALSE
close ==
    /\ open /\ closeSearch
    /\ UNCHANGED <<opened, active, saved, calls, asks, saves, moves, messageJump, unreadFrom, notes,
                   crossed>>
setMode(m) ==
    /\ open /\ mode' = m /\ hits' = {}
    /\ IF m # mode THEN Reasks(m, text)
       ELSE again' = (m # "attention") /\ UNCHANGED <<due, asking, refused>>
    /\ UNCHANGED <<open, opened, text, filter, active, error, editingNote, saved, calls, asks,
                   saves, moves, messageJump, unreadFrom, notes, crossed>>
\* The text, typed or taken from the kept searches, and who said it and since when.
setQuery(t, f) ==
    /\ open /\ mode = "search" /\ <<t, f>> # <<text, filter>> /\ text' = t /\ filter' = f
    /\ Reasks(mode, t)
    /\ UNCHANGED <<open, opened, mode, active, hits, error, editingNote, saved, calls, asks, saves,
                   moves, messageJump, unreadFrom, notes, crossed>>
Keeps(list) ==
    /\ open /\ mode = "search" /\ saved' = SubSeq(list, 1, IF Len(list) < LIMIT THEN Len(list) ELSE LIMIT)
    /\ UNCHANGED <<open, opened, asked, hits, error, editingNote, due, asking, calls, asks, saves,
                   moves, messageJump, unreadFrom, notes, ghosts>>
saveSearch == text # "" /\ text \notin ToSet(saved) /\ Keeps(<<text>> \o saved)
removeSavedSearch(t) == t \in ToSet(saved) /\ Keeps(SelectSeq(saved, LAMBDA held : held # t))
\* The pane shows another conversation, or the one it showed was closed.
Moves(place) ==
    /\ place # active /\ moves < MaxMoves /\ moves' = moves + 1 /\ active' = place
    /\ IF open THEN Reasks(mode, text) ELSE UNCHANGED <<due, asking, again, refused>>
    /\ UNCHANGED <<open, opened, mode, text, filter, hits, error, editingNote, saved, calls, asks,
                   saves, messageJump, unreadFrom, notes, crossed>>
\* A conversation is left unread from somewhere on, or read.
Unread(place, from) ==
    /\ from # unreadFrom[place] /\ moves < MaxMoves /\ moves' = moves + 1
    /\ from \subseteq {m \in DOMAIN Messages : Messages[m].place = place}
    /\ unreadFrom' = [unreadFrom EXCEPT ![place] = from]
    /\ UNCHANGED <<open, opened, asked, hits, error, editingNote, saved, due, asking, calls, asks,
                   saves, messageJump, notes, ghosts>>

Ask(c) == calls' = calls \cup {c}
Fires ==
    /\ due /\ asks < MaxAsks /\ asks' = asks + 1 /\ due' = FALSE /\ asking' = asks + 1
    /\ Ask([what |-> "list", no |-> asks + 1, mode |-> mode, text |-> text, filter |-> filter,
            place |-> active, answer |-> None])
    /\ UNCHANGED <<open, opened, asked, hits, error, editingNote, saved, saves, moves, messageJump,
                   unreadFrom, notes, ghosts>>
jump(h) ==
    /\ open /\ h \in shown /\ moves < MaxMoves /\ moves' = moves + 1
    /\ Ask([what |-> "jump", opened |-> opened, id |-> h.id, answer |-> None])
    /\ UNCHANGED <<open, opened, asked, hits, error, editingNote, saved, due, asking, asks, saves,
                   messageJump, unreadFrom, notes, ghosts>>
\* A note is begun, changed or given up.
setEditingNote(e) ==
    /\ open /\ mode = "bookmarks" /\ e # editingNote /\ editingNote' = e
    /\ e # None => e.id \in {h.id : h \in shown}
    /\ UNCHANGED <<open, opened, asked, hits, error, saved, due, asking, calls, asks, saves, moves,
                   messageJump, unreadFrom, notes, ghosts>>
saveNote ==
    /\ open /\ mode = "bookmarks" /\ editingNote # None /\ saves < MaxSaves /\ saves' = saves + 1
    /\ editingNote.id \in {h.id : h \in shown}
    /\ Ask([what |-> "note", opened |-> opened, id |-> editingNote.id, note |-> editingNote.note,
            answer |-> None])
    /\ UNCHANGED <<open, opened, asked, hits, error, editingNote, saved, due, asking, asks, moves,
                   messageJump, unreadFrom, notes, ghosts>>

-----------------------------------------------------------------------------
(* The archive.                                                            *)

\* It reads or writes; a jump finds the message or that it is gone.
Served(c, answer) ==
    /\ c.answer = None /\ calls' = (calls \ {c}) \cup {[c EXCEPT !.answer = answer]}
    /\ notes' = IF c.what = "note" THEN [notes EXCEPT ![c.id] = c.note] ELSE notes
    /\ crossed' = (crossed \/ (c.what = "note" /\ (c.opened # opened
                                \/ \E o \in calls : o.what # "jump" /\ o.answer # None)))
    /\ UNCHANGED <<open, opened, asked, hits, error, editingNote, saved, due, asking, asks, saves,
                   moves, messageJump, unreadFrom, refused, again>>
Serves(c) ==
    \/ c.what = "list" /\ Served(c, Hits(c))
    \/ c.what = "note" /\ Served(c, {})
    \/ c.what = "jump" /\ \E held \in SUBSET {c.id} : Served(c, held)

\* A plausible slip in Listed: an answer is drawn whatever was asked since.
ListedLate(c) ==
    /\ c.what = "list" /\ c.answer # None /\ calls' = calls \ {c}
    /\ IF open THEN hits' = c.answer /\ error' = FALSE /\ asking' = (IF asking = c.no THEN 0 ELSE asking)
                    /\ again' = FALSE
       ELSE UNCHANGED <<hits, error, asking, again>>
    /\ UNCHANGED <<open, opened, asked, editingNote, saved, due, asks, saves, moves, messageJump,
                   unreadFrom, notes, refused, crossed>>
Listed(c) ==
    /\ c.what = "list" /\ c.answer # None /\ calls' = calls \ {c}
    /\ IF asking = c.no THEN hits' = c.answer /\ error' = FALSE /\ asking' = 0 /\ again' = FALSE
       ELSE UNCHANGED <<hits, error, asking, again>>
    /\ UNCHANGED <<open, opened, asked, editingNote, saved, due, asks, saves, moves, messageJump,
                   unreadFrom, notes, refused, crossed>>
\* The note that was saved is drawn, and whatever note is being edited by then put away.
NoteSaved(c) ==
    /\ c.what = "note" /\ c.answer # None /\ calls' = calls \ {c}
    /\ IF open /\ c.opened = opened
       THEN /\ hits' = {IF h.id = c.id THEN [h EXCEPT !.note = c.note] ELSE h : h \in hits}
            /\ editingNote' = None /\ error' = FALSE
       ELSE UNCHANGED <<hits, editingNote, error>>
    /\ UNCHANGED <<open, opened, asked, saved, due, asking, asks, saves, moves, messageJump,
                   unreadFrom, notes, ghosts>>
\* The window round the message is shown, and the overlay that is open by then closed.
Jumped(c) ==
    /\ c.what = "jump" /\ c.answer = {c.id} /\ calls' = calls \ {c}
    /\ active' = Messages[c.id].place /\ messageJump' = c.id /\ closeSearch
    /\ UNCHANGED <<opened, saved, asks, saves, moves, unreadFrom, notes, crossed>>
\* A call was refused, or the message is no longer there: the overlay that asked says so.
Refused(c) ==
    /\ c.answer = None \/ (c.what = "jump" /\ c.answer = {})
    /\ calls' = calls \ {c}
    /\ LET mine == open /\ IF c.what = "list" THEN asking = c.no ELSE c.opened = opened
       IN  /\ error' = (error \/ mine) /\ refused' = (refused \/ (mine /\ c.what = "list"))
           /\ IF mine /\ c.what = "list" THEN hits' = {} /\ asking' = 0 ELSE UNCHANGED <<hits, asking>>
    /\ UNCHANGED <<open, opened, asked, editingNote, saved, due, asks, saves, moves, messageJump,
                   unreadFrom, notes, again, crossed>>

Init ==
    /\ open = FALSE /\ opened = 0 /\ mode = "search" /\ text = "" /\ filter = "any" /\ hits = {}
    /\ error = FALSE /\ editingNote = None /\ saved = <<>> /\ due = FALSE /\ asking = 0
    /\ calls = {} /\ asks = 0 /\ saves = 0 /\ moves = 0 /\ active \in Places \cup {None}
    /\ messageJump = None /\ unreadFrom = [p \in Places |-> {}]
    /\ notes = [m \in DOMAIN Messages |-> ""]
    /\ refused = FALSE /\ again = FALSE /\ crossed = FALSE
Edits == {None} \cup [id : DOMAIN Messages, note : Notes \cup {""}]
Next ==
    \/ \E m \in MODES : openSearch(m) \/ setMode(m)
    \/ close \/ saveSearch \/ Fires \/ saveNote
    \/ \E t \in Texts, f \in Filters : setQuery(t, f)
    \/ \E t \in Texts : removeSavedSearch(t)
    \/ \E p \in Places \cup {None} : Moves(p)
    \/ \E p \in Places : \E from \in SUBSET DOMAIN Messages : Unread(p, from)
    \/ \E h \in shown : jump(h)
    \/ \E e \in Edits : setEditingNote(e)
    \/ \E c \in calls : Serves(c) \/ Listed(c) \/ NoteSaved(c) \/ Jumped(c) \/ Refused(c)
Spec == Init /\ [][Next]_vars

-----------------------------------------------------------------------------
AtRest == open /\ ~due /\ asking = 0 /\ ~refused /\ ~again

\* With nothing on its way, what is listed is what the archive has for the mode, the text
\* and the conversation that are chosen now, whatever order the answers came in.  The
\* exceptions: the last list asked for was refused, which leaves the hits with a word
\* that it was (refused), and the pressed mode was pressed again, which empties its
\* list and asks for none (again): until the next answer.
HitsAreOfWhatIsAsked ==
    AtRest => {h.id : h \in shown} =
                IF mode = "attention" THEN attentionHits
                ELSE IF tooShort(mode, text) THEN {} ELSE Found(mode, text, filter, active)

\* With no note on its way, the notes beside the bookmarks are the archive's: a refused
\* note is not drawn, and a saved one is on its own message.  The exceptions: those of
\* the hits, and a note saved past a list that had been read before it was, or by an
\* overlay closed since (crossed).
NotesAreKept ==
    (AtRest /\ mode = "bookmarks" /\ ~crossed /\ \A c \in calls : c.what # "note")
        => \A h \in hits : h.note = notes[h.id]
=============================================================================
