------------------------------ MODULE PaneLayout ------------------------------
(***************************************************************************)
(* How the panes divide the window: src/src/store/layout.ts.  The tree is  *)
(* kept by the routes to its nodes, each route a sequence of 0 (the first  *)
(* child) and 1 (the second): `leaves` gives the view at the end of each   *)
(* route and `splits` the direction and the share of each node above one.  *)
(***************************************************************************)
EXTENDS Integers, Sequences, SequencesExt, FiniteSets

EVEN_SPLIT == 50
MIN_SHARE == 15

OnePane(view) == [leaves |-> [route \in {<<>>} |-> view], splits |-> <<>>]

Other(step) == 1 - step
Upto(route, i) == SubSeq(route, 1, i)

\* A tree is what its routes say: each node above a leaf has two sides.
IsLayout(layout) ==
    LET routes == DOMAIN layout.leaves IN
    /\ routes # {}
    /\ \A p, q \in routes : IsPrefix(p, q) => p = q
    /\ \A p \in routes : \A i \in DOMAIN p :
         \E q \in routes : IsPrefix(Append(Upto(p, i - 1), Other(p[i])), q)
    /\ DOMAIN layout.splits = UNION {{Upto(p, i - 1) : i \in DOMAIN p} : p \in routes}

Before(p, q) ==
    \E i \in DOMAIN p \cap DOMAIN q :
      /\ Upto(p, i - 1) = Upto(q, i - 1)
      /\ p[i] < q[i]

\* Depth first, left to right: a leaf's place is behind those before it.
Place(layout, p) == 1 + Cardinality({q \in DOMAIN layout.leaves \ {p} : Before(q, p)})
RoutesInOrder(layout) ==
    LET routes == DOMAIN layout.leaves
    IN  [i \in 1..Cardinality(routes) |-> CHOOSE p \in routes : Place(layout, p) = i]
paneOrder(layout) ==
    LET routes == RoutesInOrder(layout) IN [i \in DOMAIN routes |-> layout.leaves[routes[i]]]

RouteTo(layout, view) == CHOOSE p \in DOMAIN layout.leaves : layout.leaves[p] = view

splitLeaf(layout, view, direction, added) ==
    LET at == RouteTo(layout, view)
    IN  [leaves |-> [p \in (DOMAIN layout.leaves \ {at}) \cup {at \o <<0>>, at \o <<1>>} |->
                       IF p = at \o <<0>> THEN view
                       ELSE IF p = at \o <<1>> THEN added ELSE layout.leaves[p]],
         splits |-> (at :> [direction |-> direction, ratio |-> EVEN_SPLIT]) @@ layout.splits]

\* A side with nothing left in it collapses its split, and the other side takes
\* the split's place: the route to what is left is shorter by that step.
Nth(steps, k) == CHOOSE i \in steps : Cardinality({j \in steps : j <= i}) = k
Shortened(route, kept) ==
    LET divided == {i \in DOMAIN route :
                      \E q \in kept : IsPrefix(Append(Upto(route, i - 1), Other(route[i])), q)}
    IN  [k \in 1..Cardinality(divided) |-> route[Nth(divided, k)]]

Divides(node, kept) ==
    \A side \in {0, 1} : \E q \in kept : IsPrefix(Append(node, side), q)

Pruned(layout, kept) ==
    LET nodes == {n \in DOMAIN layout.splits : Divides(n, kept)}
    IN  IF kept = DOMAIN layout.leaves THEN layout
        ELSE
        [leaves |-> [p \in {Shortened(q, kept) : q \in kept} |->
                       layout.leaves[CHOOSE q \in kept : Shortened(q, kept) = p]],
         splits |-> [n \in {Shortened(m, kept) : m \in nodes} |->
                       layout.splits[CHOOSE m \in nodes : Shortened(m, kept) = n]]]

removeLeaf(layout, view) == Pruned(layout, DOMAIN layout.leaves \ {RouteTo(layout, view)})

setRatio(layout, node, ratio) ==
    LET held == IF ratio < MIN_SHARE THEN MIN_SHARE
                ELSE IF ratio > 100 - MIN_SHARE THEN 100 - MIN_SHARE ELSE ratio
    IN  [layout EXCEPT !.splits[node].ratio = held]

\* The tree as the conversations it holds, and the other way about.
Relabelled(layout, label(_)) ==
    [layout EXCEPT !.leaves = [p \in DOMAIN layout.leaves |-> label(layout.leaves[p])]]

=============================================================================
