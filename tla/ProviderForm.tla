------------------------------ MODULE ProviderForm ------------------------------
(***************************************************************************)
(* The Uploads page: a draft of the provider, a secret that is written and *)
(* never read back, and what the page can say about it; and the Transfers  *)
(* page, whose folder is picked in a dialog of the desktop's.  The backend *)
(* is what its commands make of a row and one slot of the keyring          *)
(* (src-tauri/src/commands.rs, upload.rs, crates/ircx-store/src/lib.rs).   *)
(***************************************************************************)
EXTENDS Naturals, FiniteSets

CONSTANTS
    Ports,          \* what may stand in a port field, beside nothing
    MaxPort,        \* the highest port there is
    MaxEdits, MaxSaves,
    None

FormAssumption ==
    /\ Ports \subseteq Nat /\ {MaxPort, MaxEdits, MaxSaves} \subseteq Nat
    /\ None \notin {"header", "s3", "open"} \cup Nat

VARIABLES
    draft, setup, stored, savedKind, \* the page, None until it has read
    row, keyring,   \* the backend: what the provider needs, and whose secret is held
    calls, saving,  \* saves and removals on their way, and which is the page's
    halfway,        \* a request failed between the two stores, or two were out together
    early,          \* the page was opened with a request of the one before it out
    transfer, ports, directory, picking, \* the Transfers page and what is kept of it
    edits, saves

page == <<draft, setup, stored, savedKind>>
backend == <<row, keyring>>
requests == <<calls, saving, halfway, early>>
transfers == <<transfer, ports, directory, picking>>
vars == <<page, backend, requests, transfers, edits, saves>>

Kinds == {"header", "s3"}
\* What of a draft the rules look at: fields that are filled, and the kind.
EMPTY == [endpoint |-> FALSE, kind |-> "header", named |-> TRUE, key |-> FALSE, form |-> FALSE,
          field |-> TRUE, token |-> FALSE]
CATBOX == [EMPTY EXCEPT !.endpoint = TRUE, !.form = TRUE, !.named = FALSE]
\* Which credential this provider carries; one with no header needs none.
needs(kind, named) == IF kind = "s3" THEN "s3" ELSE IF named THEN "header" ELSE None
\* The page's and the backend's answer to what the secret that is held is for.
savedFor == IF row \in Kinds /\ keyring # None THEN row ELSE None

Edited == edits < MaxEdits /\ edits' = edits + 1
Saves == saves < MaxSaves /\ saves' = saves + 1

\* The page is opened and reads the provider; what it read of one is its draft.  The
\* sidebar leaves a page whatever it has out, and the answer then finds no page.
Opens == Edited /\ saving' = None /\ early' = (calls # {}) /\ UNCHANGED <<backend, calls, halfway, transfers, saves>>
Open ==
    /\ Opens /\ stored' = (row # None) /\ savedKind' = savedFor
    /\ draft' = IF row = None THEN EMPTY
                ELSE [EMPTY EXCEPT !.endpoint = TRUE, !.kind = IF row = "s3" THEN "s3" ELSE "header",
                                   !.named = (row = "header"), !.key = (row = "s3")]
    /\ setup' \in IF row = "open" THEN {"catbox", "custom"} ELSE {"custom"}
\* A provider that could not be read leaves nothing to edit.
OpenFails == Opens /\ draft' = None /\ setup' = "custom" /\ stored' = FALSE /\ savedKind' = None
chooseSetup(next) ==
    /\ Edited /\ draft # None /\ next # setup
    /\ setup' = next /\ draft' = IF next = "catbox" THEN CATBOX ELSE EMPTY
    /\ UNCHANGED <<stored, savedKind, backend, requests, transfers, saves>>
\* Fields stay open while a save is out.
Edit(field) ==
    /\ Edited /\ draft # None /\ setup = "custom"
    /\ draft' = [draft EXCEPT ![field] = IF field = "kind" THEN IF @ = "s3" THEN "header" ELSE "s3"
                                         ELSE ~@]
    /\ UNCHANGED <<setup, stored, savedKind, backend, requests, transfers, saves>>

Complete == /\ draft.endpoint /\ (draft.kind = "s3" => draft.key)
            /\ (draft.kind = "header" /\ draft.form => draft.field)
Request(what, wanted, kind, token) ==
    /\ Saves /\ saving = None /\ saving' = saves
    /\ calls' = {[c EXCEPT !.alone = FALSE] : c \in calls} \cup
                {[id |-> saves, what |-> what, wanted |-> wanted, kind |-> kind, token |-> token,
                  claim |-> savedKind, alone |-> calls = {}, wrote |-> FALSE]}
    /\ halfway' = (halfway \/ calls # {})
    /\ UNCHANGED <<page, backend, early, transfers, edits>>
save ==
    /\ draft # None /\ Complete
    /\ LET wanted == needs(draft.kind, draft.named)
       IN  Request("save", wanted, draft.kind,
                   IF wanted = None THEN "clear" ELSE IF draft.token THEN "given" ELSE "kept")
remove == draft # None /\ stored /\ Request("remove", None, None, "clear")

\* A provider whose credential is missing, or is the other kind's, is refused.
refuse_save(c) == c.what = "save" /\ c.wanted # None /\ c.token # "given" /\ savedFor # c.wanted
Row(wanted) == IF wanted = None THEN "open" ELSE wanted
Secret(c) == CASE c.token = "given" -> c.wanted
               [] c.token = "clear" -> None
               [] c.token = "kept" -> keyring
\* The first of the two stores: the keyring of a save, the row of a removal.
Written(c) ==
    /\ ~c.wrote /\ ~refuse_save(c)
    /\ calls' = (calls \ {c}) \cup {[c EXCEPT !.wrote = TRUE]}
    /\ IF c.what = "save" THEN keyring' = Secret(c) /\ UNCHANGED row
       ELSE row' = None /\ UNCHANGED keyring
    /\ UNCHANGED <<page, saving, halfway, early, transfers, edits, saves>>
\* The page's own, and nothing beside it, that says the secret anew puts all right.
Mends(c) == saving = c.id /\ c.alone /\ c.token # "kept"
Ends(c) ==
    /\ c.wrote /\ calls' = calls \ {c} /\ saving' = (IF saving = c.id THEN None ELSE saving)
    /\ halfway' = (halfway /\ ~Mends(c)) /\ early' = (early /\ ~Mends(c))
    /\ UNCHANGED <<transfers, edits, saves>>
\* The second of them; the page that asked says what follows from what it sent.
Saved(c) ==
    /\ c.what = "save" /\ Ends(c) /\ row' = Row(c.wanted)
    /\ IF saving # c.id THEN UNCHANGED <<stored, savedKind>>
       ELSE /\ stored' = TRUE
            /\ savedKind' = CASE c.token = "clear" -> None
                              [] c.token = "given" -> c.kind
                              [] c.token = "kept" -> c.claim
    /\ UNCHANGED <<draft, setup, keyring>>
Removed(c) ==
    /\ c.what = "remove" /\ Ends(c) /\ keyring' = None
    /\ IF saving # c.id THEN UNCHANGED page
       ELSE stored' = FALSE /\ savedKind' = None /\ setup' = "custom" /\ draft' = EMPTY
    /\ UNCHANGED row
\* Refused or failed, before or between the two stores: the page stays as it was.
SavingFails(c) ==
    /\ calls' = calls \ {c} /\ saving' = (IF saving = c.id THEN None ELSE saving)
    /\ halfway' = (halfway \/ c.wrote)
    /\ UNCHANGED <<page, backend, early, transfers, edits, saves>>

-----------------------------------------------------------------------------
(* The Transfers page.                                                     *)

\* Two whole port numbers, or neither; anything else is not saved.
whole(port) == port # None /\ port > 0 /\ port <= MaxPort
portsOf == transfer.first = None /\ transfer.last = None
Range == portsOf \/ (whole(transfer.first) /\ whole(transfer.last))
EditTransfer(field, value) ==
    /\ Edited /\ transfer[field] # value /\ transfer' = [transfer EXCEPT ![field] = value]
    /\ UNCHANGED <<page, backend, requests, ports, directory, picking, saves>>
\* Saved where the backend takes the range, whose first is no higher than its last.
saveTransfer ==
    /\ Saves /\ Range
    /\ transfer.first # None => transfer.first <= transfer.last
    /\ ports' = <<transfer.first, transfer.last>> /\ directory' = transfer.directory
    /\ UNCHANGED <<page, backend, requests, transfer, picking, edits>>
\* The draft as it was when the folder was asked for, with the folder in it.
pickFolder ==
    /\ picking = None /\ picking' = transfer
    /\ UNCHANGED <<page, backend, requests, transfer, ports, directory, edits, saves>>
Picked(folder) ==
    /\ picking # None /\ picking' = None
    /\ transfer' = IF folder = None THEN transfer ELSE [picking EXCEPT !.directory = folder]
    /\ UNCHANGED <<page, backend, requests, ports, directory, edits, saves>>

-----------------------------------------------------------------------------
Init ==
    /\ draft = None /\ setup = "custom" /\ stored = FALSE /\ savedKind = None
    /\ row \in Kinds \cup {"open", None}
    /\ keyring = IF row \in Kinds THEN row ELSE None
    /\ halfway = FALSE /\ early = FALSE /\ calls = {} /\ saving = None
    /\ transfer = [first |-> None, last |-> None, directory |-> "home"]
    /\ ports = <<None, None>> /\ directory = "home" /\ picking = None
    /\ edits = 0 /\ saves = 0
Next ==
    \/ Open \/ OpenFails \/ save \/ remove \/ saveTransfer \/ pickFolder
    \/ \E next \in {"catbox", "custom"} : chooseSetup(next)
    \/ \E field \in DOMAIN EMPTY : Edit(field)
    \/ \E c \in calls : Written(c) \/ Saved(c) \/ Removed(c) \/ SavingFails(c)
    \/ \E field \in {"first", "last"}, port \in Ports \cup {None} : EditTransfer(field, port)
    \/ \E folder \in {"away", None} : Picked(folder)
Spec == Init /\ [][Next]_vars

-----------------------------------------------------------------------------
TypeOK ==
    /\ row \in Kinds \cup {"open", None} /\ keyring \in Kinds \cup {None}
    /\ savedKind \in Kinds \cup {None}

\* What the page says is in the keyring is there, and is for the kind of provider
\* that is stored: a provider is never said to have a secret it will fail without on
\* its first file, however it was edited, refused, saved and removed in between.  The
\* exceptions, until one request of the page's, alone, says the secret anew: one that
\* failed between the two stores or had another beside it (halfway), and a page opened
\* while one of the page before it was out, which says what was there before (early).
SecretIsAsSaid ==
    draft # None /\ saving = None /\ ~halfway /\ ~early =>
        savedKind = savedFor /\ keyring = savedKind /\ (row \in Kinds => keyring = row)

\* As the page has it, what it says the secret in the keyring is for is which draft it
\* answers, also where the page was left in the middle of a save and opened again.
\* The code does not keep it (README, section 7).
SecretIsAlwaysAsSaid == draft # None /\ calls = {} /\ ~halfway => savedKind = savedFor

\* What is kept of the ports is none of them or a range within those there are.
PortsAreARange ==
    ports = <<None, None>> \/ (1 <= ports[1] /\ ports[1] <= ports[2] /\ ports[2] <= MaxPort)
=============================================================================
