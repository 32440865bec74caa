-------------------------------- MODULE Palette --------------------------------
(***************************************************************************)
(* The command palette: a list built when it opens and whenever what it is *)
(* built from changes, narrowed as the reader types, ranked, and run.  It   *)
(* paints the theme it stands on, and closes when what it ran is answered. *)
(***************************************************************************)
EXTENDS Fuzzy

CONSTANTS
    Catalogue,      \* every row there may be: kind, label, key and what Enter does
    Alphabet, NeedsArgument, Themes,
    RESULT_LIMIT, MaxQuery, MaxRuns, None

KIND_ORDER == [run |-> 0, channel |-> 1, query |-> 2, draft |-> 3, network |-> 4, command |-> 5,
               action |-> 6, theme |-> 7]
PaletteAssumption ==
    /\ {RESULT_LIMIT, MaxQuery, MaxRuns} \subseteq Nat
    /\ \A i \in DOMAIN Catalogue : Catalogue[i].kind \in DOMAIN KIND_ORDER

VARIABLES
    open, query, selected, error,
    candidates,     \* the rows, built when it opens and when what they are built from changes
    there,          \* which conversations' rows there are
    connected,      \* whether the network has a session
    narrowing,      \* the last keystroke's survivors, while the list is the same
    recent, themeId, painted,
    calls, runs, opened,
    shut            \* a palette was closed by an answer to an earlier one

world == <<there, connected, recent, themeId>>
vars == <<open, query, selected, error, world, candidates, narrowing, painted, calls, runs, opened,
          shut>>

\* What the rows are built from: a network's connect row says what running it will do.
buildCandidates(keys, up) ==
    LET built(c) == IF c.kind # "action" \/ c.action # "connect" THEN c
                    ELSE IF up THEN [c EXCEPT !.action = "disconnect"] ELSE c
    IN  [i \in DOMAIN SelectSeq(Catalogue, LAMBDA c : c.key = None \/ c.key \in keys) |->
           built(SelectSeq(Catalogue, LAMBDA c : c.key = None \/ c.key \in keys)[i])]

Fresh(list, q) ==
    {i \in DOMAIN list : q = <<>> \/ Alignments(q, list[i].label) # {}}
Scores(list, q, from) ==
    {m \in {[index |-> i, score |-> scoreMatch(q, list[i].label)] :
               i \in {i \in from : canMatch(queryMask(q), list[i].label)}} : m.score > NO_MATCH}
Indices(state) == {m.index : m \in state.matches}
\* A plausible slip in filterMatches: the survivors are kept whatever is typed next.
filterMatchesKept(list, q, prior) ==
    LET from == IF prior # None /\ prior.query # <<>> THEN Indices(prior) ELSE DOMAIN list
    IN  [query |-> q, matches |->
           IF q = <<>> THEN {[index |-> i, score |-> 0] : i \in DOMAIN list}
           ELSE Scores(list, q, from)]
\* Typing on can only take matches away, so it is the survivors that are scored again.
filterMatches(list, q, prior) ==
    LET reusable == prior # None /\ prior.query # <<>> /\ IsPrefix(prior.query, q)
        from == IF reusable THEN Indices(prior) ELSE DOMAIN list
    IN  [query |-> q, matches |->
           IF q = <<>> THEN {[index |-> i, score |-> 0] : i \in DOMAIN list}
           ELSE Scores(list, q, from)]

Recency(key) ==
    Min({i \in DOMAIN recent : recent[i] = key} \cup {Len(recent) + 1})
\* Best first, then most recently visited, then by kind, then shortest, then as listed.
Measured(list, state) ==
    {[index |-> m.index, kind |-> list[m.index].kind,
      measure |-> <<0 - m.score, Recency(list[m.index].key), KIND_ORDER[list[m.index].kind],
                    Len(list[m.index].label), m.index>>] : m \in state.matches}
Better(a, b) ==
    \E k \in 1..5 : a[k] < b[k] /\ \A l \in 1..(k - 1) : a[l] = b[l]
Ranked(all) ==
    {[index |-> m.index, kind |-> m.kind,
      rank |-> Cardinality({o \in all : Better(o.measure, m.measure)})] : m \in all}
Kept(ranked) == {r \in ranked : r.rank < RESULT_LIMIT}
\* Group after group: a kind stands where the best of it does.
Placed(kept) ==
    LET group(o) == Min({q.rank : q \in {q \in kept : q.kind = o.kind}})
        grouped == {[index |-> o.index, kind |-> o.kind, rank |-> o.rank, group |-> group(o)]
                    : o \in kept}
    IN  UNION {{[index |-> r.index,
                 place |-> Cardinality({o \in all : o.group < r.group
                                                      \/ (o.kind = r.kind /\ o.rank < r.rank)}) + 1]
                : r \in all} : all \in {grouped}}
rankMatches(list, state) ==
    LET ranked == The({Ranked(all) : all \in {Measured(list, state)}})
        placed == The({Placed(Kept(all)) : all \in {ranked}})
    IN  The({[k \in 1..Cardinality(all) |-> (CHOOSE m \in all : m.place = k).index]
             : all \in {placed}})
\* The command the query already is, unless it still wants an argument.
commandLineCandidate(q) ==
    IF Len(q) >= 2 /\ q[1] = "/" /\ q \notin NeedsArgument
    THEN <<[kind |-> "run", label |-> q, key |-> None, action |-> "run"]>> ELSE <<>>
Results ==
    commandLineCandidate(query)
      \o The({[k \in DOMAIN ranked |-> candidates[ranked[k]]] :
               ranked \in {rankMatches(candidates, narrowing)}})
Standing(results, at) ==
    IF results = <<>> THEN None
    ELSE results[IF at <= Len(results) THEN at ELSE Len(results)]
Highlighted == The({Standing(results, selected) : results \in {Results}})

\* Moving onto a theme puts it on the window; moving off it, or closing, puts back the
\* one that is chosen by then.
Paints(chosen) ==
    painted' = IF ~open' THEN chosen
               ELSE LET on == Highlighted'
                        looked == on # None /\ on.kind = "theme" /\ on.action \in Themes
                    IN  IF looked THEN on.action ELSE chosen

-----------------------------------------------------------------------------
(* The reader.                                                             *)

Narrowed(q) ==
    /\ query' = q /\ narrowing' = filterMatches(candidates, q, narrowing) /\ UNCHANGED candidates
\* Another list, which starts over.
Rebuilt(q) ==
    /\ query' = q /\ candidates' = buildCandidates(there', connected')
    /\ narrowing' = filterMatches(candidates', q, None)
togglePalette ==
    /\ ~open /\ opened < MaxRuns /\ opened' = opened + 1 /\ open' = TRUE
    /\ selected' = 1 /\ error' = FALSE
    /\ UNCHANGED <<world, calls, runs, shut>> /\ Rebuilt(<<>>)
    /\ Paints(themeId)
Typing(q) ==
    /\ open /\ q # query /\ selected' = 1 /\ error' = FALSE
    /\ UNCHANGED <<open, world, calls, runs, opened, shut>> /\ Narrowed(q)
    /\ Paints(themeId)
Type(ch) == Len(query) < MaxQuery /\ Typing(Append(query, ch))
Backspace == query # <<>> /\ Typing(Front(query))
move(delta) ==
    /\ open
    /\ UNCHANGED <<open, query, error, world, candidates, narrowing, calls, runs, opened, shut>>
    /\ LET n == Len(Results)
           at == IF selected <= n THEN selected ELSE n
       IN  n > 1 /\ selected' = ((at - 1 + delta + n) % n) + 1
    /\ Paints(themeId)
Closes == open' = FALSE /\ UNCHANGED <<query, selected, error, candidates, narrowing>>
close ==
    /\ open /\ Closes /\ UNCHANGED <<world, calls, runs, opened, shut>> /\ Paints(themeId)

Visited(key) == SubSeq(<<key>> \o SelectSeq(recent, LAMBDA k : k # key), 1,
                       Cardinality(ToSet(recent) \cup {key}))
run ==
    /\ open /\ Highlighted # None /\ runs < MaxRuns /\ runs' = runs + 1
    /\ LET on == Highlighted IN
       \/ /\ on.action = "activate" /\ recent' = Visited(on.key) /\ Closes
          /\ UNCHANGED <<there, connected, themeId, calls>>
       \/ /\ on.kind = "command" /\ Narrowed(on.label)
          /\ selected' = 1 /\ error' = FALSE /\ UNCHANGED <<open, world, calls>>
       \/ /\ on.action \in {"run", "connect", "disconnect"}
          /\ calls' = calls \cup {[what |-> on.action, opened |-> opened]}
          /\ UNCHANGED <<open, query, selected, error, candidates, narrowing, world>>
       \/ /\ on.action \in Themes /\ themeId' = on.action /\ Closes
          /\ UNCHANGED <<there, connected, recent, calls>>
       \/ /\ on.action = "problem" /\ error' = TRUE
          /\ UNCHANGED <<open, query, selected, candidates, narrowing, world, calls>>
    /\ UNCHANGED <<opened, shut>> /\ Paints(themeId')

\* A call that ends well closes the palette that is open by then; one that does not
\* gives its reason to the one that asked, if it is still there.
Answered(c, fails) ==
    /\ calls' = calls \ {c}
    /\ connected' = IF fails \/ c.what = "run" THEN connected ELSE c.what = "connect"
    /\ open' = (open /\ fails) /\ error' = (error \/ (fails /\ open /\ c.opened = opened))
    /\ shut' = (shut \/ (open /\ ~fails /\ c.opened # opened))
    /\ UNCHANGED <<selected, there, recent, themeId, runs, opened>>
    /\ IF connected' = connected \/ ~open' THEN UNCHANGED <<query, candidates, narrowing>>
       ELSE Rebuilt(query)
    /\ Paints(themeId)
\* A conversation comes or goes.
ListChanges(key) ==
    /\ open /\ there' = (there \cup {key}) \ (there \cap {key})
    /\ UNCHANGED <<open, selected, error, connected, recent, themeId, calls, runs, opened, shut>>
    /\ Rebuilt(query) /\ Paints(themeId)

Init ==
    /\ open = FALSE /\ query = <<>> /\ selected = 1 /\ error = FALSE
    /\ narrowing = None /\ candidates = <<>>
    /\ there = {} /\ connected = FALSE /\ recent = <<>>
    /\ themeId \in Themes /\ painted = themeId /\ calls = {} /\ runs = 0 /\ opened = 0
    /\ shut = FALSE
Keys == {Catalogue[i].key : i \in DOMAIN Catalogue} \ {None}
Next ==
    \/ togglePalette \/ Backspace \/ close \/ run \/ move(1) \/ move(-1)
    \/ \E ch \in Alphabet : Type(ch)
    \/ \E c \in calls, fails \in BOOLEAN : Answered(c, fails)
    \/ \E key \in Keys : ListChanges(key)
Spec == Init /\ [][Next]_vars

-----------------------------------------------------------------------------
\* However the query was arrived at, what is listed is what a search from scratch would
\* list, each row scored as the best way to lay the query on it.
ResultsAreFresh ==
    open => LET list == candidates IN
        /\ list = buildCandidates(there, connected)
        /\ narrowing.query = query /\ Indices(narrowing) = Fresh(list, query)
        /\ \A i \in DOMAIN list : IsBestMatch(query, list[i].label)

\* A theme that was only looked at does not stay: with the palette closed, by a choice,
\* by Escape or by an answer, the window has the theme that was chosen.
ClosedShowsChosen == ~open => painted = themeId
=============================================================================
