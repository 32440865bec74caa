------------------------------- MODULE PluginHooks -------------------------------
(***************************************************************************)
(* The notification rules of plugins (ircx-core task.rs): what arrives in  *)
(* a conversation queues for one worker, which asks every rule that has    *)
(* not been dropped, and what a rule raises goes back to the session       *)
(* through its inbox. The annotator is its twin, without the raise.        *)
(*                                                                         *)
(* A rule has one count of failures for all conversations, and each        *)
(* conversation a worker of its own.                                       *)
(***************************************************************************)
EXTENDS Naturals, Sequences, FiniteSets, SequencesExt

CONSTANTS
    Conversations,
    Plugins,        \* with a rule for every conversation
    HOOK_WAITING,   \* arrivals that may wait
    HOOK_STRIKES,   \* failures in a row that drop a rule
    MaxArrivals, MaxChanges,
    None

HooksAssumption == {HOOK_WAITING, HOOK_STRIKES, MaxArrivals} \subseteq Nat \ {0} /\ MaxChanges \in Nat

VARIABLES
    arrivals, draining, missed, \* Waiting, by conversation
    workers,        \* each with the arrival it is on, the rules left to ask and the one it asks
    strikes, inbox,
    taken,          \* arrivals a worker went to the rules with, in order
    raised,         \* the session's: messages the badge was counted up for
    told,           \* how often the reader was told that a rule stopped
    arrived, changes, revived

waiting == <<arrivals, draining, missed>>
vars == <<waiting, workers, strikes, inbox, taken, raised, told, arrived, changes, revived>>

Idle(c) == [target |-> c, batch |-> None, left |-> {}, asking |-> None, already |-> {}]
out(p) == strikes[p] >= HOOK_STRIKES
Rules == {p \in Plugins : ~out(p)}
Becomes(w, x) == workers' = (workers \ {w}) \cup {x}

\* A worker's place is held under the lock the arrival is queued under.
notify(c) ==
    /\ arrived < MaxArrivals /\ arrived' = arrived + 1
    /\ LET queue == Append(arrivals[c], arrived + 1)
           over == Len(queue) > HOOK_WAITING
       IN  /\ arrivals' = [arrivals EXCEPT ![c] = IF over THEN Tail(queue) ELSE queue]
           /\ missed' = IF over THEN missed \cup {Head(queue)} ELSE missed
    /\ draining' = draining \cup {c}
    /\ workers' = IF c \in draining THEN workers ELSE workers \cup {Idle(c)}
    /\ UNCHANGED <<strikes, inbox, taken, raised, told, changes, revived>>

Free(w) == w.batch = None
\* The next arrival, which may have waited too long.
NextArrival(w) ==
    /\ Free(w) /\ arrivals[w.target] # <<>>
    /\ arrivals' = [arrivals EXCEPT ![w.target] = Tail(@)]
    /\ LET m == Head(arrivals[w.target])
       IN  \/ missed' = missed \cup {m} /\ UNCHANGED <<workers, taken>>
           \/ /\ Becomes(w, [w EXCEPT !.batch = m, !.left = Rules, !.already = {}])
              /\ taken' = [taken EXCEPT ![w.target] = Append(@, m)] /\ UNCHANGED missed
    /\ UNCHANGED <<draining, strikes, inbox, raised, told, arrived, changes, revived>>
\* A plausible slip: the place is given up after the lock.
StandDownLate(w) ==
    /\ Free(w) /\ workers' = workers \ {w}
    /\ draining' = draining \ {w.target}
    /\ UNCHANGED <<arrivals, missed, strikes, inbox, taken, raised, told, arrived, changes, revived>>
StandDown(w) ==
    /\ Free(w) /\ arrivals[w.target] = <<>>
    /\ workers' = workers \ {w} /\ draining' = draining \ {w.target}
    /\ UNCHANGED <<arrivals, missed, strikes, inbox, taken, raised, told, arrived, changes, revived>>

\* The next rule, in the library's order, which nothing here depends on.
Ask(w) ==
    /\ ~Free(w) /\ w.asking = None
    /\ \/ w.left = {} /\ Becomes(w, Idle(w.target))
       \/ \E p \in w.left : Becomes(w, [w EXCEPT !.asking = p, !.left = @ \ {p}])
    /\ UNCHANGED <<waiting, strikes, inbox, taken, raised, told, arrived, changes, revived>>

strike(p) == strikes' = [strikes EXCEPT ![p] = @ + 1]
RuleFails(w) ==
    /\ w.asking # None /\ strike(w.asking) /\ Becomes(w, [w EXCEPT !.asking = None])
    /\ inbox' = IF strikes[w.asking] + 1 = HOOK_STRIKES
                THEN Append(inbox, [what |-> "PluginStopped", plugin |-> w.asking]) ELSE inbox
    /\ UNCHANGED <<waiting, taken, raised, told, arrived, changes, revived>>
\* Two rules that raise one message are one raise.
RuleAnswers(w, raises) ==
    /\ w.asking # None /\ strikes' = [strikes EXCEPT ![w.asking] = 0]
    /\ revived' = (revived \/ out(w.asking))
    /\ Becomes(w, [w EXCEPT !.asking = None, !.already = IF raises THEN @ \cup {w.batch} ELSE @])
    /\ inbox' = IF raises /\ w.batch \notin w.already
                THEN Append(inbox, [what |-> "Raised", message |-> w.batch]) ELSE inbox
    /\ UNCHANGED <<waiting, taken, raised, told, arrived, changes>>

\* The session takes what the workers sent it.
apply ==
    /\ inbox # <<>> /\ inbox' = Tail(inbox)
    /\ LET c == Head(inbox)
       IN  \/ c.what = "Raised" /\ raised' = Append(raised, c.message) /\ UNCHANGED told
           \/ c.what = "PluginStopped" /\ told' = [told EXCEPT ![c.plugin] = @ + 1] /\ UNCHANGED raised
    /\ UNCHANGED <<waiting, workers, strikes, taken, arrived, changes, revived>>
\* The reader installed a plugin again.
PluginChanged(p) ==
    /\ changes < MaxChanges /\ changes' = changes + 1 /\ strikes' = [strikes EXCEPT ![p] = 0]
    /\ UNCHANGED <<waiting, workers, inbox, taken, raised, told, arrived, revived>>

-----------------------------------------------------------------------------
Init ==
    /\ arrivals = [c \in Conversations |-> <<>>] /\ draining = {} /\ missed = {}
    /\ workers = {} /\ strikes = [p \in Plugins |-> 0] /\ inbox = <<>>
    /\ taken = [c \in Conversations |-> <<>>] /\ raised = <<>>
    /\ told = [p \in Plugins |-> 0] /\ arrived = 0 /\ changes = 0 /\ revived = FALSE
Next ==
    \/ apply
    \/ \E c \in Conversations : notify(c)
    \/ \E p \in Plugins : PluginChanged(p)
    \/ \E w \in workers : \/ NextArrival(w) \/ StandDown(w) \/ Ask(w) \/ RuleFails(w)
                          \/ \E raises \in BOOLEAN : RuleAnswers(w, raises)
Spec == Init /\ [][Next]_vars

-----------------------------------------------------------------------------
TypeOK ==
    /\ draining \subseteq Conversations /\ missed \subseteq 1..arrived
    /\ \A c \in Conversations : Len(arrivals[c]) <= HOOK_WAITING
    /\ \A w \in workers : w.asking \in Plugins \cup {None} /\ w.already \subseteq 1..arrived

\* What waits has a worker that will come to it, and a conversation has one
\* worker at most, however arriving and standing down cross.
OneWorkerEach ==
    \A c \in Conversations :
        LET its == {w \in workers : w.target = c}
        IN  /\ Cardinality(its) = (IF c \in draining THEN 1 ELSE 0)
            /\ arrivals[c] # <<>> => its # {}

\* Every arrival waits, was passed over or went to the rules, once and in its
\* turn, and a message is raised once however many rules ask for it.
TakenOnce ==
    /\ \A c \in Conversations : LET said == taken[c] \o arrivals[c]
                                IN  \A k \in 1..(Len(said) - 1) : said[k] < said[k + 1]
    /\ \A m \in 1..arrived :
         Cardinality({c \in Conversations : m \in ToSet(taken[c]) \cup ToSet(arrivals[c])})
             = (IF m \in missed THEN 0 ELSE 1)
    /\ LET asks == raised \o [k \in DOMAIN inbox |-> IF inbox[k].what = "Raised" THEN inbox[k].message ELSE None]
       IN  \A k, l \in DOMAIN asks : k # l /\ asks[k] = asks[l] => asks[k] = None

\* A rule that was dropped is not dropped in silence: the reader was told, or is
\* about to be.
DroppedIsSaid ==
    \A p \in Plugins : out(p) =>
        told[p] > 0 \/ \E k \in DOMAIN inbox : inbox[k].what = "PluginStopped" /\ inbox[k].plugin = p

\* "A hook is dropped for the life of the connection" (session.rs, plugin_stopped);
\* it is asked again once its plugin changed.
\* The code does not keep it (README, section 7).
DroppedStaysDropped == ~revived
=============================================================================
