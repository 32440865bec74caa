-------------------------------- MODULE Onboarding --------------------------------
(***************************************************************************)
(* Adding a network and changing one: a way in is chosen, a form filled,   *)
(* the draft saved, and the connection that follows watched until it is    *)
(* up.  The form stays open while a save is out, and so does the way back. *)
(***************************************************************************)
EXTENDS Naturals, FiniteSets

CONSTANTS
    Passwords,      \* what may be typed into the password field
    MaxDrafts, MaxSaves, MaxEdits,
    None

OnboardingAssumption ==
    /\ "" \notin Passwords /\ None \notin Passwords \cup Nat
    /\ {MaxDrafts, MaxSaves, MaxEdits} \subseteq Nat

VARIABLES
    step, form,     \* the screen, and the form "Edit settings" goes back to
    started,        \* the flow was opened on a form, with no chooser behind it
    draft, networkId, busy,
    flow,           \* how many flows there have been; another one is another component
    calls,          \* saves, attempts and removals on their way
    networks,       \* what is configured: id -> what was saved, and the draft it was of
    keyring,        \* id -> password
    status,         \* id -> how the client knows the connection to stand
    drafts, saves, edits,
    strayed         \* another way in was chosen with a save out

flowVars == <<step, form, started, draft, networkId, busy, flow>>
backend == <<networks, keyring>>
vars == <<flowVars, calls, backend, status, drafts, saves, edits, strayed>>

Forms == {"public", "bouncer", "server", "advanced"}
Mechanisms == {"none", "PLAIN", "EXTERNAL"}
Mine == {c \in calls : c.flow = flow}

needsPassword(mechanism) == mechanism = "PLAIN"
\* The field says "saved" where it would stand empty and the network has an id.
hasStoredPassword(d) == d.id # None /\ needsPassword(d.mechanism) /\ d.password = None
\* What the form refuses before it is sent, its text fields being well formed.
draftProblems(d) == d.mechanism = "EXTERNAL" /\ ~d.certificate
toConfig(d) ==
    [of |-> d.of, mechanism |-> d.mechanism, certificate |-> d.certificate,
     password |-> IF needsPassword(d.mechanism) THEN d.password ELSE None]

emptyDraft(of) == [id |-> None, of |-> of, mechanism |-> "none",
                   password |-> None, certificate |-> FALSE]
draftOf(id) == [id |-> id, of |-> networks[id].of,
                mechanism |-> networks[id].mechanism, password |-> None,
                certificate |-> networks[id].certificate]

-----------------------------------------------------------------------------
(* The flow.                                                               *)

choose(next) ==
    /\ step = "choose" /\ drafts < MaxDrafts /\ drafts' = drafts + 1
    /\ step' = next /\ form' = next
    /\ draft' = IF next = "bouncer" THEN [emptyDraft(drafts + 1) EXCEPT !.mechanism = "PLAIN",
                                                                       !.password = ""]
                ELSE emptyDraft(drafts + 1)
    /\ strayed' = (strayed \/ \E c \in Mine : c.what = "save")
    /\ UNCHANGED <<started, networkId, busy, flow, calls, backend, status, saves, edits>>
openAdvanced ==
    /\ step \in Forms \ {"advanced"} /\ step' = "advanced" /\ form' = "advanced"
    /\ UNCHANGED <<started, draft, networkId, busy, flow, calls, backend, status, drafts, saves, edits,
                   strayed>>
\* Opened from the list, the sidebar or a menu: a form of its own, read from what is saved.
OpenNetwork(id) ==
    /\ edits < MaxEdits /\ edits' = edits + 1
    /\ step' = "advanced" /\ form' = "advanced" /\ started' = TRUE
    /\ draft' = draftOf(id) /\ networkId' = id /\ busy' = FALSE /\ flow' = flow + 1
    /\ UNCHANGED <<calls, backend, status, drafts, saves, strayed>>
OpenNew ==
    /\ step = "gone" /\ edits < MaxEdits /\ edits' = edits + 1
    /\ step' = "choose" /\ started' = FALSE /\ networkId' = None /\ busy' = FALSE
    /\ flow' = flow + 1 /\ draft' = emptyDraft(0)
    /\ UNCHANGED <<form, calls, backend, status, drafts, saves, strayed>>

change(d) ==
    /\ step \in Forms /\ edits < MaxEdits /\ edits' = edits + 1 /\ d # draft /\ draft' = d
    /\ UNCHANGED <<step, form, started, networkId, busy, flow, calls, backend, status, drafts, saves,
                   strayed>>
Mechanism(m) == change([draft EXCEPT !.mechanism = m])
Certificate == draft.mechanism = "EXTERNAL" /\ change([draft EXCEPT !.certificate = TRUE])
Password(p) ==
    /\ needsPassword(draft.mechanism)
    /\ IF hasStoredPassword(draft) THEN change([draft EXCEPT !.password = ""])
       ELSE change([draft EXCEPT !.password = p])
\* Names, login and commands come from another network; its password does not.
applyIdentity(source) ==
    /\ source # draft.id
    /\ change([draft EXCEPT !.mechanism = networks[source].mechanism,
                            !.password = IF needsPassword(networks[source].mechanism) THEN "" ELSE None,
                            !.certificate = networks[source].mechanism = "EXTERNAL"
                                              /\ networks[source].certificate])

Back ==
    /\ step \in Forms /\ step' = IF started THEN "gone" ELSE "choose"
    /\ UNCHANGED <<form, started, draft, networkId, busy, flow, calls, backend, status, drafts, saves,
                   edits, strayed>>
EditSettings ==
    /\ step = "connect" /\ step' = form
    /\ UNCHANGED <<form, started, draft, networkId, busy, flow, calls, backend, status, drafts, saves,
                   edits, strayed>>
\* Continued without waiting for, skipped, or closed because the connection is up.
onDone ==
    /\ step \in {"choose", "connect"} /\ step' = "gone"
    /\ UNCHANGED <<form, started, draft, networkId, busy, flow, calls, backend, status, drafts, saves,
                   edits, strayed>>

-----------------------------------------------------------------------------
(* What it asks for.                                                       *)

Asked(call) == calls' = calls \cup {call}
save ==
    /\ step \in Forms /\ ~busy /\ ~draftProblems(draft) /\ saves < MaxSaves /\ saves' = saves + 1
    /\ busy' = TRUE
    /\ Asked([what |-> "save", n |-> saves, flow |-> flow, id |-> draft.id, config |-> toConfig(draft)])
    /\ UNCHANGED <<step, form, started, draft, networkId, flow, backend, status, drafts, edits, strayed>>
\* A password is written where there is one; a login taken off takes its password.
Kept(id, config) ==
    CASE config.mechanism = "none" -> None
      [] config.mechanism # "none" /\ config.password \in Passwords -> config.password
      [] OTHER -> IF id \in DOMAIN keyring THEN keyring[id] ELSE None
With(f, id, value) == [x \in DOMAIN f \cup {id} |-> IF x = id THEN value ELSE f[x]]

\* The network has an id from then on, and the draft it: a second save is an update.
\* The page goes to the connection whichever screen it is on.
SaveAnswered(c) ==
    /\ c.what = "save"
    /\ LET id == IF c.id = None THEN Cardinality(DOMAIN networks) + 1 ELSE c.id
       IN  /\ networks' = With(networks, id, [of |-> c.config.of, mechanism |-> c.config.mechanism,
                                               certificate |-> c.config.certificate])
           /\ keyring' = With(keyring, id, Kept(id, c.config))
           /\ status' = With(status, id, "connecting")
           /\ IF c.flow # flow THEN calls' = calls \ {c} /\ UNCHANGED <<step, draft, networkId>>
              ELSE /\ networkId' = id /\ step' = "connect"
                   /\ draft' = [draft EXCEPT !.id = id, !.password = None]
                   /\ calls' = (calls \ {c}) \cup {[what |-> "attempt", n |-> c.n, flow |-> flow]}
    /\ UNCHANGED <<form, started, busy, flow, drafts, saves, edits, strayed>>
\* A save or an attempt that ends, or fails, lets the form be used again.
CallEnds(c) ==
    /\ calls' = calls \ {c} /\ busy' = (busy /\ c.flow # flow)
    /\ UNCHANGED <<step, form, started, draft, networkId, flow, backend, status, drafts, saves, edits,
                   strayed>>
StatusChanged(id, next) ==
    /\ status[id] # next /\ status' = [status EXCEPT ![id] = next]
    /\ step' = IF step = "connect" /\ networkId = id /\ next = "connected" THEN "gone" ELSE step
    /\ UNCHANGED <<form, started, draft, networkId, busy, flow, calls, backend, drafts, saves, edits,
                   strayed>>

remove ==
    /\ step \in {"server", "advanced"} /\ draft.id # None /\ ~busy /\ busy' = TRUE
    /\ Asked([what |-> "remove", n |-> draft.id, flow |-> flow])
    /\ UNCHANGED <<step, form, started, draft, networkId, flow, backend, status, drafts, saves, edits,
                   strayed>>
\* What is told of a removal is the page, which puts away the form that is up by then.
\* The row stands as a tombstone here, so that an id is never given twice.
Removed(c) ==
    /\ c.what = "remove" /\ calls' = calls \ {c} /\ step' = "gone"
    /\ networks' = [networks EXCEPT ![c.n] = [of |-> 0, mechanism |-> "none", certificate |-> FALSE]]
    /\ keyring' = [keyring EXCEPT ![c.n] = None]
    /\ status' = [status EXCEPT ![c.n] = "removed"]
    /\ UNCHANGED <<form, started, draft, networkId, busy, flow, drafts, saves, edits, strayed>>

Init ==
    /\ step = "choose" /\ form = "public" /\ started = FALSE /\ draft = emptyDraft(0)
    /\ networkId = None /\ busy = FALSE /\ flow = 0 /\ calls = {}
    /\ networks = <<>> /\ keyring = <<>> /\ status = <<>>
    /\ drafts = 0 /\ saves = 0 /\ edits = 0 /\ strayed = FALSE
Live == {id \in DOMAIN networks : networks[id].of # 0}
Next ==
    \/ \E next \in Forms : choose(next)
    \/ openAdvanced \/ OpenNew \/ Certificate \/ Back \/ EditSettings \/ onDone
    \/ save \/ remove
    \/ \E id \in Live : OpenNetwork(id) \/ applyIdentity(id)
    \/ \E m \in Mechanisms : Mechanism(m)
    \/ \E p \in Passwords : Password(p)
    \/ \E c \in calls : SaveAnswered(c) \/ CallEnds(c) \/ Removed(c)
    \/ \E id \in Live, next \in {"connected", "failed"} : StatusChanged(id, next)
Spec == Init /\ [][Next]_vars

-----------------------------------------------------------------------------
TypeOK ==
    /\ step \in Forms \cup {"choose", "connect", "gone"} /\ draft.mechanism \in Mechanisms
    /\ DOMAIN keyring = DOMAIN networks /\ DOMAIN status = DOMAIN networks

\* However often a draft is saved, left and gone back to, it is one network and no
\* other's: no two networks are of one draft, and the connection being watched is that
\* of the draft the form would go back to, unless another way in was chosen with a
\* save out.
OneDraftOneNetwork ==
    ~strayed =>
        /\ \A a, b \in Live : networks[a].of = networks[b].of => a = b
        /\ step = "connect" /\ networkId \in Live =>
             draft.id = networkId /\ networks[networkId].of = draft.of

\* As the form has it, a password field that says "Saved in your system keyring" is
\* one whose password the keyring holds.
\* The code does not keep it (README, section 7).
SavedIsSaved ==
    step = "advanced" /\ draft.id \in Live /\ calls = {} =>
        (hasStoredPassword(draft) => keyring[draft.id] # None)
=============================================================================
