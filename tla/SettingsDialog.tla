----------------------------- MODULE SettingsDialog -----------------------------
(***************************************************************************)
(* The settings dialog: which page is up, the one flag its pages raise     *)
(* while a request is in flight, and the ways out of it.  A page mounted   *)
(* again is another page, with a flag of its own that starts down.         *)
(***************************************************************************)
EXTENDS Naturals, FiniteSets

CONSTANTS
    Sections,       \* the pages of the dialog
    Guarded,        \* those whose controls are off while a request of theirs is out
    MaxRequests, MaxMoves,
    None

DialogAssumption ==
    Guarded \subseteq Sections /\ None \notin Sections /\ {MaxRequests, MaxMoves} \subseteq Nat

VARIABLES
    settings,   \* the section on screen, or None
    setup,      \* whether the networks page shows its form
    busy,       \* the flag of the dialog on screen
    busyHere,   \* the flag of the page on screen
    mounts,     \* [dialog, page]: how many there have been of each
    flying,     \* requests in flight, with where each was made
    requests, moves,
    crossed,    \* two requests were in flight together
    left,       \* a page was left for another with a request in flight
    unseen      \* a failure was told to a page that had gone

vars == <<settings, setup, busy, busyHere, mounts, flying, requests, moves, crossed, left, unseen>>

Here == [dialog |-> mounts.dialog, page |-> mounts.page]
Moved == moves < MaxMoves /\ moves' = moves + 1

\* A page comes up: nothing of the last one's state is carried across.
Mounts(section, dialog) ==
    /\ settings' = section /\ busyHere' = FALSE
    /\ busy' = (busy /\ dialog = mounts.dialog)
    /\ mounts' = [dialog |-> dialog, page |-> mounts.page + 1]
    /\ left' = (left \/ flying # {})

\* Opened from outside, on a section or on a network's form; an open one moves.
openSettings(section) ==
    /\ Moved /\ section # settings
    /\ Mounts(section, IF settings = None THEN mounts.dialog + 1 ELSE mounts.dialog)
    /\ UNCHANGED <<setup, flying, requests, crossed, unseen>>
openSetup ==
    /\ Moved /\ "networks" \in Sections /\ ~setup /\ setup' = TRUE
    /\ IF settings = "networks" THEN UNCHANGED <<settings, busyHere, busy, mounts, left>>
       ELSE Mounts("networks", IF settings = None THEN mounts.dialog + 1 ELSE mounts.dialog)
    /\ UNCHANGED <<flying, requests, crossed, unseen>>
\* The form's own way out, and Escape from inside it.
closeSetup ==
    /\ setup /\ setup' = FALSE
    /\ UNCHANGED <<settings, busy, busyHere, mounts, flying, requests, moves, crossed, left, unseen>>

\* The dialog's own list of sections.
setSettingsSection(section) ==
    /\ Moved /\ settings # None /\ section # settings
    /\ Mounts(section, mounts.dialog) /\ setup' = FALSE
    /\ UNCHANGED <<flying, requests, crossed, unseen>>

\* Done, Escape and a click outside.
closeSettings ==
    /\ settings # None /\ ~busy
    /\ settings' = None /\ setup' = FALSE /\ busy' = FALSE /\ busyHere' = FALSE
    /\ UNCHANGED <<mounts, flying, requests, moves, crossed, left, unseen>>

\* A control of the page is used; a guarded page's are off while its own flag is up.
Request ==
    /\ settings # None /\ requests < MaxRequests /\ requests' = requests + 1
    /\ settings \in Guarded => ~busyHere
    /\ busy' = TRUE /\ busyHere' = TRUE
    /\ flying' = flying \cup {[id |-> requests, from |-> Here]}
    /\ crossed' = (crossed \/ flying # {})
    /\ UNCHANGED <<settings, setup, mounts, moves, left, unseen>>

\* Whichever request ends, the flag of the dialog it was made in comes down.
Answered(request, failed) ==
    /\ flying' = flying \ {request}
    /\ busy' = (busy /\ (settings = None \/ request.from.dialog # mounts.dialog))
    /\ busyHere' = (busyHere /\ request.from # Here)
    /\ unseen' = (unseen \/ (failed /\ (settings = None \/ request.from # Here)))
    /\ UNCHANGED <<settings, setup, mounts, requests, moves, crossed, left>>

Init ==
    /\ settings = None /\ setup = FALSE /\ busy = FALSE /\ busyHere = FALSE
    /\ mounts = [dialog |-> 0, page |-> 0] /\ flying = {} /\ requests = 0 /\ moves = 0
    /\ crossed = FALSE /\ left = FALSE /\ unseen = FALSE
Next ==
    \/ \E s \in Sections : openSettings(s) \/ setSettingsSection(s)
    \/ openSetup \/ closeSetup \/ closeSettings \/ Request
    \/ \E r \in flying, failed \in BOOLEAN : Answered(r, failed)
Spec == Init /\ [][Next]_vars

-----------------------------------------------------------------------------
TypeOK ==
    /\ settings \in Sections \cup {None} /\ {setup, busy, busyHere} \subseteq BOOLEAN
    /\ Cardinality(flying) <= requests

\* The dialog is not closed out from under a request, whatever else was opened and
\* left before: every answer has a dialog to come back to, where no two requests
\* were out together (the first of two to end takes the flag down).
ClosesAtRest == settings = None /\ ~crossed => flying = {}

\* As the dialog has it, every way out is declined while a page has a request in
\* flight: a failure is never told to a screen that has gone.
\* The code does not keep it (README, section 7).
FailureIsSeen == ~crossed => ~unseen
=============================================================================
