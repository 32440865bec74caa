-------------------------------- MODULE Fuzzy --------------------------------
(***************************************************************************)
(* How well what was typed matches a label: the alignment scored row by    *)
(* row, the letters the best one takes, and the list kept from keystroke   *)
(* to keystroke.  A text is a sequence of characters, already lower case.  *)
(***************************************************************************)
EXTENDS Integers, Sequences, FiniteSets, SequencesExt, FiniteSetsExt

CONSTANTS Separators, Letters

BONUS_HEAD == 16
BONUS_BOUNDARY == 12
BONUS_CONSECUTIVE == 12
GAP_LEADING == -1
GAP_INNER == -3
GAP_TRAILING == -1
NO_MATCH == -1000000

\* The one member of a set: what is bound in it is worked out once.
The(S) == CHOOSE x \in S : TRUE
Largest(a, b) == IF a > b THEN a ELSE b
bonus(hay) ==
    [j \in DOMAIN hay |-> IF j = 1 THEN BONUS_HEAD
                          ELSE IF hay[j - 1] \in Separators THEN BONUS_BOUNDARY ELSE 0]
\* One bit a letter, and one for everything that is not.
charBit(ch) == IF ch \in Letters THEN ch ELSE "other"
queryMask(query) == {charBit(query[i]) : i \in DOMAIN query}
canMatch(mask, hay) == mask \subseteq queryMask(hay)

step(score, delta) == IF score <= NO_MATCH THEN NO_MATCH ELSE score + delta

Column(row, score, gap) ==
    LET running == IF row.best = <<>> THEN NO_MATCH ELSE step(Last(row.best), gap)
    IN  [match |-> Append(row.match, score), best |-> Append(row.best, Largest(score, running))]
\* One character of the query against every position, given the row before it: the best
\* score that ends at each position, and the best that ends there or earlier.
Scored(qc, i, n, hay, last) ==
    LET gap == IF i = n THEN GAP_TRAILING ELSE GAP_INNER
        at(j) == IF qc # hay[j] THEN NO_MATCH
                 ELSE IF i = 1 THEN (j - 1) * GAP_LEADING + bonus(hay)[j]
                 ELSE IF j = 1 THEN NO_MATCH
                 ELSE Largest(step(last.best[j - 1], bonus(hay)[j]),
                              step(last.match[j - 1], BONUS_CONSECUTIVE))
    IN  FoldLeft(LAMBDA row, j : The({Column(r, score, gap) : r \in {row}, score \in {at(j)}}),
                 [match |-> <<>>, best |-> <<>>], [j \in DOMAIN hay |-> j])
Table(query, hay) ==
    LET row(table, i) == Scored(query[i], i, Len(query), hay, IF i = 1 THEN <<>> ELSE Last(table))
    IN  FoldLeft(LAMBDA table, i : The({Append(t, row(t, i)) : t \in {table}}),
                 <<>>, [i \in DOMAIN query |-> i])

scoreMatch(query, hay) ==
    IF query = <<>> THEN 0
    ELSE IF Len(query) > Len(hay) THEN NO_MATCH ELSE Last(Last(Table(query, hay)).best)

\* Back through the table: a match that only scored by carrying on a run forces the
\* character before it onto the position before.
matchPositions(query, hay) ==
    IF query = <<>> \/ scoreMatch(query, hay) = NO_MATCH THEN <<>>
    ELSE LET table == The({Table(query, hay)})
             takes(i, j, inRun) == table[i].match[j] # NO_MATCH
                                     /\ (inRun \/ table[i].match[j] = table[i].best[j])
             back(way, k) ==
               LET i == Len(query) + 1 - k
                   j == Max({j \in 1..(way.j - 1) : takes(i, j, way.inRun)})
               IN  [j |-> j, positions |-> <<j>> \o way.positions,
                    inRun |-> i > 1 /\ j > 1
                      /\ table[i].match[j] = table[i - 1].match[j - 1] + BONUS_CONSECUTIVE]
             end == [j |-> Len(hay) + 1, positions |-> <<>>, inRun |-> FALSE]
         IN  FoldLeft(LAMBDA way, k : The({back(w, k) : w \in {way}}), end,
                      [k \in DOMAIN query |-> k]).positions

-----------------------------------------------------------------------------
(* What a score is of: the ways a query can be laid on a label.             *)

Alignments(query, hay) ==
    {p \in [DOMAIN query -> DOMAIN hay] :
        /\ \A i \in DOMAIN query : hay[p[i]] = query[i]
        /\ \A i \in 2..Len(query) : p[i - 1] < p[i]}
Worth(p, hay) ==
    (p[1] - 1) * GAP_LEADING + bonus(hay)[p[1]] + (Len(hay) - p[Len(p)]) * GAP_TRAILING
      + FoldLeft(LAMBDA sum, i :
          sum + IF p[i] = p[i - 1] + 1 THEN Largest(bonus(hay)[p[i]], BONUS_CONSECUTIVE)
                ELSE bonus(hay)[p[i]] + (p[i] - p[i - 1] - 1) * GAP_INNER,
        0, [k \in 1..(Len(p) - 1) |-> k + 1])

\* The score of a label is that of the best way to lay the query on it, the letters
\* picked out are such a way, and a label with none is turned down.
IsBestMatch(query, hay) ==
    LET ways == Alignments(query, hay) IN
    query # <<>> =>
        IF ways = {} THEN scoreMatch(query, hay) = NO_MATCH /\ matchPositions(query, hay) = <<>>
        ELSE /\ canMatch(queryMask(query), hay)
             /\ scoreMatch(query, hay) = Max({Worth(p, hay) : p \in ways})
             /\ matchPositions(query, hay) \in ways
             /\ Worth(matchPositions(query, hay), hay) = scoreMatch(query, hay)
=============================================================================
