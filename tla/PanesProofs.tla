----------------------------- MODULE PanesProofs -----------------------------
(***************************************************************************)
(* Proofs about Panes, for any conversations, kinds of what a pane holds   *)
(* and bounds: where the reader looks is a pane of the tree, the trail     *)
(* names it, what is left clears its seam, and what a pane holds for a     *)
(* conversation it never holds over another one.                           *)
(***************************************************************************)
EXTENDS Panes, SetBounds, FiniteSetTheorems, SequenceTheorems, TLAPS

-----------------------------------------------------------------------------
(* Trees of panes: the routes of a tree part two by two, so they stand in  *)
(* one order without gaps, and splitting a leaf, keeping some of the       *)
(* leaves or moving a divider leaves such a tree.                          *)

\* A tree is a record of its leaves and its splits, finitely many.
IsTree(tree) ==
    /\ tree = [leaves |-> tree.leaves, splits |-> tree.splits]
    /\ IsFiniteSet(DOMAIN tree.leaves)

\* Two routes part at the first step they differ in.
Fork(p, q, i) ==
    /\ i \in DOMAIN p \cap DOMAIN q
    /\ p[i] # q[i]
    /\ \A j \in 1..(i - 1) : p[j] = q[j]

Parted(routes) ==
    \A p, q \in routes : p # q => \E i \in DOMAIN p \cap DOMAIN q : p[i] # q[i]

\* A tree with leaves, at routes none of which goes on another.
Grown(tree) ==
    /\ IsTree(tree)
    /\ DOMAIN tree.leaves # {}
    /\ DOMAIN tree.leaves \subseteq Seq({0, 1})
    /\ Parted(DOMAIN tree.leaves)

\* No view stands on two leaves.
Single(tree) == \A p, q \in DOMAIN tree.leaves : tree.leaves[p] = tree.leaves[q] => p = q
OnLeaves(tree) == {tree.leaves[p] : p \in DOMAIN tree.leaves}

-----------------------------------------------------------------------------
(* Routes.                                                                 *)

\* The first steps of a route.
LEMMA UptoIs ==
  ASSUME NEW p \in Seq({0, 1}), NEW n \in 0..Len(p)
  PROVE  /\ Upto(p, n) \in Seq({0, 1})
         /\ Len(Upto(p, n)) = n
         /\ \A j \in 1..n : Upto(p, n)[j] = p[j]
<1>1. \A i \in 1..n : p[i] \in {0, 1}
  BY ElementOfSeq
<1>2. n \in Int /\ 1 \in Int /\ n \in Nat
  OBVIOUS
<1>3. /\ SubSeq(p, 1, n) \in Seq({0, 1})
      /\ Len(SubSeq(p, 1, n)) = IF 1 <= n THEN n - 1 + 1 ELSE 0
      /\ \A i \in 1..(n - 1 + 1) : SubSeq(p, 1, n)[i] = p[1 + i - 1]
  BY <1>1, <1>2, SubSeqProperties
<1>. QED
  BY <1>2, <1>3 DEF Upto

\* Two routes begin alike when they do step by step.
LEMMA UptoSame ==
  ASSUME NEW p \in Seq({0, 1}), NEW q \in Seq({0, 1}), NEW i \in DOMAIN p \cap DOMAIN q
  PROVE  Upto(p, i - 1) = Upto(q, i - 1) <=> \A j \in 1..(i - 1) : p[j] = q[j]
<1>1. i - 1 \in 0..Len(p) /\ i - 1 \in 0..Len(q)
  BY LenProperties
<1>2. /\ Upto(p, i - 1) \in Seq({0, 1}) /\ Upto(q, i - 1) \in Seq({0, 1})
      /\ Len(Upto(p, i - 1)) = i - 1 /\ Len(Upto(q, i - 1)) = i - 1
      /\ \A j \in 1..(i - 1) : Upto(p, i - 1)[j] = p[j] /\ Upto(q, i - 1)[j] = q[j]
  BY <1>1, UptoIs
<1>3. ASSUME Upto(p, i - 1) = Upto(q, i - 1)
      PROVE  \A j \in 1..(i - 1) : p[j] = q[j]
  BY <1>2, <1>3
<1>4. ASSUME \A j \in 1..(i - 1) : p[j] = q[j]
      PROVE  Upto(p, i - 1) = Upto(q, i - 1)
  BY <1>2, <1>4, SeqEqual
<1>. QED
  BY <1>3, <1>4

\* A route is before another when it goes to the first side where they part.
LEMMA BeforeIs ==
  ASSUME NEW p \in Seq({0, 1}), NEW q \in Seq({0, 1})
  PROVE  Before(p, q) <=> \E i : Fork(p, q, i) /\ p[i] = 0 /\ q[i] = 1
<1>1. \A i \in DOMAIN p \cap DOMAIN q : p[i] \in {0, 1} /\ q[i] \in {0, 1}
  BY ElementOfSeq, LenProperties
<1>2. ASSUME Before(p, q)
      PROVE  \E i : Fork(p, q, i) /\ p[i] = 0 /\ q[i] = 1
  <2>1. PICK i \in DOMAIN p \cap DOMAIN q : Upto(p, i - 1) = Upto(q, i - 1) /\ p[i] < q[i]
    BY <1>2 DEF Before
  <2>2. p[i] = 0 /\ q[i] = 1
    BY <1>1, <2>1
  <2>3. Fork(p, q, i)
    BY <2>1, <2>2, UptoSame DEF Fork
  <2>. QED
    BY <2>2, <2>3
<1>3. ASSUME NEW i, Fork(p, q, i), p[i] = 0, q[i] = 1
      PROVE  Before(p, q)
  BY <1>3, UptoSame DEF Before, Fork
<1>. QED
  BY <1>2, <1>3

\* A route leaves another's way at a step that a third goes the other way of.
LEMMA PrefixIsFork ==
  ASSUME NEW p \in Seq({0, 1}), NEW q \in Seq({0, 1}), NEW i \in DOMAIN p
  PROVE  IsPrefix(Append(Upto(p, i - 1), Other(p[i])), q) <=> Fork(p, q, i)
<1>. DEFINE way == Append(Upto(p, i - 1), Other(p[i]))
<1>1. i \in 1..Len(p) /\ Len(p) \in Nat /\ Len(q) \in Nat /\ DOMAIN q = 1..Len(q)
  BY LenProperties
<1>2. i - 1 \in 0..Len(p) /\ i \in Nat
  BY <1>1
<1>3. p[i] \in {0, 1} /\ Other(p[i]) \in {0, 1} /\ Other(p[i]) # p[i]
  <2>1. p[i] \in {0, 1}
    BY <1>1, ElementOfSeq
  <2>. QED
    BY <2>1 DEF Other
<1>4. /\ Upto(p, i - 1) \in Seq({0, 1}) /\ Len(Upto(p, i - 1)) = i - 1
      /\ \A j \in 1..(i - 1) : Upto(p, i - 1)[j] = p[j]
  BY <1>2, UptoIs
<1>5. /\ way \in Seq({0, 1}) /\ Len(way) = i /\ way[i] = Other(p[i])
      /\ \A j \in 1..(i - 1) : way[j] = p[j]
  BY <1>2, <1>3, <1>4
<1>. HIDE DEF way
<1>6. SubSeq(way, 1, i) = way
  BY <1>5, SubSeqFull
<1>7. i <= Len(q) => /\ SubSeq(q, 1, i) \in Seq({0, 1}) /\ Len(SubSeq(q, 1, i)) = i
                     /\ \A j \in 1..i : SubSeq(q, 1, i)[j] = q[j]
  BY <1>1, <1>2, UptoIs DEF Upto
<1>8. ASSUME IsPrefix(way, q)
      PROVE  Fork(p, q, i)
  <2>1. i <= Len(q) /\ way = SubSeq(q, 1, i)
    BY <1>8, <1>5, <1>6 DEF IsPrefix
  <2>2. \A j \in 1..i : way[j] = q[j]
    BY <2>1, <1>7
  <2>3. q[i] = Other(p[i]) /\ \A j \in 1..(i - 1) : q[j] = p[j]
    BY <2>2, <1>1, <1>5
  <2>. QED
    BY <2>1, <2>3, <1>1, <1>3 DEF Fork
<1>9. ASSUME Fork(p, q, i)
      PROVE  IsPrefix(way, q)
  <2>1. i <= Len(q) /\ q[i] # p[i] /\ \A j \in 1..(i - 1) : p[j] = q[j]
    BY <1>9, <1>1 DEF Fork
  <2>2. q[i] = Other(p[i])
    <3>1. q[i] \in {0, 1}
      BY <2>1, <1>1, ElementOfSeq
    <3>. QED
      BY <3>1, <2>1, <1>3 DEF Other
  <2>3. \A j \in 1..i : way[j] = SubSeq(q, 1, i)[j]
    <3>. SUFFICES ASSUME NEW j \in 1..i
                  PROVE  way[j] = q[j]
      BY <1>7, <2>1
    <3>1. CASE j = i
      BY <3>1, <2>2, <1>5
    <3>2. CASE j # i
      <4>1. j \in 1..(i - 1)
        BY <3>2, <1>2
      <4>. QED
        BY <4>1, <2>1, <1>5
    <3>. QED
      BY <3>1, <3>2
  <2>4. way = SubSeq(q, 1, i)
    BY <2>1, <2>3, <1>5, <1>7, SeqEqual
  <2>. QED
    BY <2>1, <2>4, <1>5, <1>6 DEF IsPrefix
<1>. QED
  BY <1>8, <1>9 DEF way

\* Routes that differ somewhere differ in a first step.
LEMMA ForkOf ==
  ASSUME NEW p \in Seq({0, 1}), NEW q \in Seq({0, 1}),
         NEW k \in DOMAIN p \cap DOMAIN q, p[k] # q[k]
  PROVE  \E i : Fork(p, q, i)
<1>. DEFINE apart == {i \in DOMAIN p \cap DOMAIN q : p[i] # q[i]}
<1>1. DOMAIN p = 1..Len(p) /\ DOMAIN q = 1..Len(q) /\ Len(p) \in Nat /\ Len(q) \in Nat
  BY LenProperties
<1>2. apart \in SUBSET Nat /\ apart # {}
  BY <1>1
<1>3. Min(apart) \in apart /\ \A x \in apart : Min(apart) <= x
  <2>. HIDE DEF apart
  <2>. QED
    BY <1>2, MinNat
<1>4. PICK i : i = Min(apart)
  OBVIOUS
<1>5. i \in apart /\ i \in Nat /\ \A x \in apart : i <= x
  BY <1>2, <1>3, <1>4
<1>6. \A j \in 1..(i - 1) : p[j] = q[j]
  <2>. SUFFICES ASSUME NEW j \in 1..(i - 1), p[j] # q[j]
                PROVE  FALSE
    OBVIOUS
  <2>1. j \in apart
    BY <1>1, <1>5
  <2>. QED
    BY <2>1, <1>5
<1>. QED
  BY <1>5, <1>6 DEF Fork

\* They part there in either order.
LEMMA ForkBack ==
  ASSUME NEW p, NEW q, NEW i, Fork(p, q, i)
  PROVE  Fork(q, p, i)
BY DEF Fork

-----------------------------------------------------------------------------
(* The order the panes are read in.                                        *)

\* No route is before itself.
LEMMA BeforeStrict == ASSUME NEW p \in Seq({0, 1}) PROVE ~Before(p, p)
BY BeforeIs DEF Fork

\* What is before one route is before those behind it.
LEMMA BeforeTrans ==
  ASSUME NEW p \in Seq({0, 1}), NEW q \in Seq({0, 1}), NEW r \in Seq({0, 1}),
         Before(p, q), Before(q, r)
  PROVE  Before(p, r)
<1>1. PICK i : Fork(p, q, i) /\ p[i] = 0 /\ q[i] = 1
  BY BeforeIs
<1>2. PICK k : Fork(q, r, k) /\ q[k] = 0 /\ r[k] = 1
  BY BeforeIs
<1>3. /\ DOMAIN p = 1..Len(p) /\ DOMAIN q = 1..Len(q) /\ DOMAIN r = 1..Len(r)
      /\ Len(p) \in Nat /\ Len(q) \in Nat /\ Len(r) \in Nat
  BY LenProperties
<1>4. i \in 1..Len(p) /\ i \in 1..Len(q) /\ k \in 1..Len(q) /\ k \in 1..Len(r)
  BY <1>1, <1>2, <1>3 DEF Fork
<1>5. \E n : Fork(p, r, n) /\ p[n] = 0 /\ r[n] = 1
  <2>1. CASE i < k
    <3>1. i \in 1..(k - 1) /\ \A j \in 1..(i - 1) : j \in 1..(k - 1)
      BY <2>1, <1>4
    <3>2. r[i] = 1 /\ \A j \in 1..(i - 1) : p[j] = r[j]
      BY <3>1, <1>1, <1>2 DEF Fork
    <3>3. i \in DOMAIN p \cap DOMAIN r
      BY <2>1, <1>3, <1>4
    <3>. QED
      BY <3>2, <3>3, <1>1 DEF Fork
  <2>2. CASE k < i
    <3>1. k \in 1..(i - 1) /\ \A j \in 1..(k - 1) : j \in 1..(i - 1)
      BY <2>2, <1>4
    <3>2. p[k] = 0 /\ \A j \in 1..(k - 1) : p[j] = r[j]
      BY <3>1, <1>1, <1>2 DEF Fork
    <3>3. k \in DOMAIN p \cap DOMAIN r
      BY <2>2, <1>3, <1>4
    <3>. QED
      BY <3>2, <3>3, <1>2 DEF Fork
  <2>3. i # k
    BY <1>1, <1>2
  <2>. QED
    BY <2>1, <2>2, <2>3, <1>4
<1>. QED
  BY <1>5, BeforeIs

\* Of two routes of a tree one is before the other.
LEMMA BeforeTotal ==
  ASSUME NEW p \in Seq({0, 1}), NEW q \in Seq({0, 1}),
         NEW k \in DOMAIN p \cap DOMAIN q, p[k] # q[k]
  PROVE  Before(p, q) \/ Before(q, p)
<1>1. PICK i : Fork(p, q, i)
  BY ForkOf
<1>2. p[i] \in {0, 1} /\ q[i] \in {0, 1} /\ p[i] # q[i]
  BY <1>1, ElementOfSeq, LenProperties DEF Fork
<1>3. Fork(q, p, i)
  BY <1>1, ForkBack
<1>. QED
  BY <1>1, <1>2, <1>3, BeforeIs

\* The place of a leaf is one of as many places as there are leaves.
LEMMA PlaceBound ==
  ASSUME NEW tree, IsTree(tree), NEW p \in DOMAIN tree.leaves
  PROVE  /\ Cardinality(DOMAIN tree.leaves) \in Nat
         /\ Place(tree, p) \in 1..Cardinality(DOMAIN tree.leaves)
<1>. DEFINE routes == DOMAIN tree.leaves
            others == routes \ {p}
            before == {q \in others : Before(q, p)}
<1>1. IsFiniteSet(routes)
  BY DEF IsTree
<1>2. IsFiniteSet(others) /\ Cardinality(others) = Cardinality(routes) - 1
  BY <1>1, FS_RemoveElement
<1>3. IsFiniteSet(before) /\ Cardinality(before) <= Cardinality(others)
  BY <1>2, FS_Subset
<1>4. Cardinality(routes) \in Nat /\ Cardinality(others) \in Nat /\ Cardinality(before) \in Nat
  BY <1>1, <1>2, <1>3, FS_CardinalityType
<1>5. Place(tree, p) = 1 + Cardinality(before)
  BY DEF Place
<1>. QED
  BY <1>2, <1>3, <1>4, <1>5

\* A leaf behind another has a later place: behind it are those before the other,
\* and the other.
LEMMA PlaceGrows ==
  ASSUME NEW tree, Grown(tree), NEW p \in DOMAIN tree.leaves, NEW q \in DOMAIN tree.leaves,
         Before(p, q)
  PROVE  Place(tree, p) < Place(tree, q)
<1>. DEFINE routes == DOMAIN tree.leaves
            ahead(r) == {s \in routes \ {r} : Before(s, r)}
<1>1. IsFiniteSet(routes) /\ \A r \in routes : r \in Seq({0, 1})
  BY DEF Grown, IsTree
<1>2. ahead(p) \cup {p} \subseteq ahead(q)
  <2>. SUFFICES ASSUME NEW s \in ahead(p) \cup {p}
                PROVE  s \in ahead(q)
    OBVIOUS
  <2>1. s \in routes /\ Before(s, q)
    BY <1>1, BeforeTrans
  <2>2. s # q
    BY <2>1, <1>1, BeforeStrict
  <2>. QED
    BY <2>1, <2>2
<1>3. IsFiniteSet(ahead(p)) /\ IsFiniteSet(ahead(q))
  <2>1. ahead(p) \in SUBSET routes /\ ahead(q) \in SUBSET routes
    OBVIOUS
  <2>. HIDE DEF ahead, routes
  <2>. QED
    BY <2>1, <1>1, FS_Subset
<1>4. p \notin ahead(p)
  OBVIOUS
<1>5. Place(tree, p) = 1 + Cardinality(ahead(p)) /\ Place(tree, q) = 1 + Cardinality(ahead(q))
  BY DEF Place
<1>. HIDE DEF ahead
<1>6. Cardinality(ahead(p) \cup {p}) = Cardinality(ahead(p)) + 1
  BY <1>3, <1>4, FS_AddElement
<1>7. Cardinality(ahead(p) \cup {p}) <= Cardinality(ahead(q))
  BY <1>2, <1>3, FS_Subset
<1>8. Cardinality(ahead(p)) \in Nat /\ Cardinality(ahead(q)) \in Nat
  BY <1>3, FS_CardinalityType
<1>. QED
  BY <1>5, <1>6, <1>7, <1>8

\* Two leaves do not share a place.
LEMMA PlaceSingle ==
  ASSUME NEW tree, Grown(tree), NEW p \in DOMAIN tree.leaves, NEW q \in DOMAIN tree.leaves,
         Place(tree, p) = Place(tree, q)
  PROVE  p = q
<1>. SUFFICES ASSUME p # q
              PROVE  FALSE
  OBVIOUS
<1>1. p \in Seq({0, 1}) /\ q \in Seq({0, 1}) /\ \E k \in DOMAIN p \cap DOMAIN q : p[k] # q[k]
  BY DEF Grown, Parted
<1>2. Before(p, q) \/ Before(q, p)
  BY <1>1, BeforeTotal
<1>3. Place(tree, p) \in Nat /\ Place(tree, q) \in Nat
  BY PlaceBound DEF Grown
<1>4. Place(tree, p) < Place(tree, q) \/ Place(tree, q) < Place(tree, p)
  BY <1>2, PlaceGrows
<1>. QED
  BY <1>3, <1>4

\* As many leaves as places, so every place is taken.
LEMMA PlaceTaken ==
  ASSUME NEW tree, Grown(tree), NEW i \in 1..Cardinality(DOMAIN tree.leaves)
  PROVE  \E p \in DOMAIN tree.leaves : Place(tree, p) = i
<1>. DEFINE routes == DOMAIN tree.leaves
            n == Cardinality(routes)
            place == [p \in routes |-> Place(tree, p)]
<1>1. IsFiniteSet(routes) /\ n \in Nat
  BY FS_CardinalityType DEF Grown, IsTree
<1>2. place \in [routes -> 1..n]
  BY PlaceBound DEF Grown
<1>3. \A p, q \in routes : place[p] = place[q] => p = q
  BY PlaceSingle
<1>4. place \in Injection(routes, 1..n)
  <2>. HIDE DEF place, routes, n
  <2>. QED
    BY <1>2, <1>3 DEF Injection, IsInjective
<1>5. IsFiniteSet(1..n) /\ Cardinality(1..n) = n
  BY <1>1, FS_Interval
<1>. HIDE DEF place
<1>6. place \in Surjection(routes, 1..n)
  BY <1>4, <1>5, FS_Injection
<1>7. \E p \in routes : place[p] = i
  BY <1>6 DEF Surjection
<1>. QED
  BY <1>7 DEF place

\* The panes in order: each leaf at its place, a leaf at each place.
LEMMA OrderIs ==
  ASSUME NEW tree, Grown(tree)
  PROVE  LET order == paneOrder(tree)
             n == Cardinality(DOMAIN tree.leaves)
         IN  /\ n \in Nat \ {0} /\ order \in Seq(OnLeaves(tree)) /\ Len(order) = n
             /\ DOMAIN order = 1..n
             /\ \A p \in DOMAIN tree.leaves : /\ Place(tree, p) \in 1..n
                                              /\ order[Place(tree, p)] = tree.leaves[p]
             /\ \A i \in 1..n : \E p \in DOMAIN tree.leaves :
                  Place(tree, p) = i /\ order[i] = tree.leaves[p]
<1>. DEFINE routes == DOMAIN tree.leaves
            n == Cardinality(routes)
            by == RoutesInOrder(tree)
            order == paneOrder(tree)
<1>1. IsFiniteSet(routes) /\ n \in Nat \ {0}
  <2>1. IsFiniteSet(routes) /\ routes # {}
    BY DEF Grown, IsTree
  <2>. QED
    BY <2>1, FS_CardinalityType, FS_EmptySet
<1>2. by = [i \in 1..n |-> CHOOSE p \in routes : Place(tree, p) = i]
  BY DEF RoutesInOrder
<1>3. \A i \in 1..n : by[i] \in routes /\ Place(tree, by[i]) = i
  <2>. SUFFICES ASSUME NEW i \in 1..n
                PROVE  by[i] \in routes /\ Place(tree, by[i]) = i
    OBVIOUS
  <2>1. \E p \in routes : Place(tree, p) = i
    BY PlaceTaken
  <2>2. by[i] = CHOOSE p \in routes : Place(tree, p) = i
    BY <1>2
  <2>. HIDE DEF by
  <2>. QED
    BY <2>1, <2>2
<1>4. DOMAIN by = 1..n /\ order = [i \in 1..n |-> tree.leaves[by[i]]]
  BY <1>2 DEF paneOrder
<1>. HIDE DEF by, order
<1>5. \A i \in 1..n : order[i] = tree.leaves[by[i]] /\ order[i] \in OnLeaves(tree)
  BY <1>3, <1>4 DEF OnLeaves
<1>6. order \in [1..n -> OnLeaves(tree)]
  BY <1>4, <1>5
<1>7. order \in Seq(OnLeaves(tree)) /\ Len(order) = n
  BY <1>1, <1>6, SeqDef
<1>8. \A p \in routes : Place(tree, p) \in 1..n /\ order[Place(tree, p)] = tree.leaves[p]
  <2>. SUFFICES ASSUME NEW p \in routes
                PROVE  Place(tree, p) \in 1..n /\ order[Place(tree, p)] = tree.leaves[p]
    OBVIOUS
  <2>1. Place(tree, p) \in 1..n
    BY PlaceBound DEF Grown
  <2>2. by[Place(tree, p)] = p
    BY <2>1, <1>3, PlaceSingle
  <2>. QED
    BY <2>1, <2>2, <1>5
<1>9. \A i \in 1..n : \E p \in routes : Place(tree, p) = i /\ order[i] = tree.leaves[p]
  BY <1>3, <1>5
<1>10. DOMAIN order = 1..n
  BY <1>4
<1>. QED
  BY <1>1, <1>7, <1>8, <1>9, <1>10 DEF order

\* A view that stands on one leaf is in the order once.
LEMMA OrderSingle ==
  ASSUME NEW tree, Grown(tree), Single(tree),
         NEW i \in DOMAIN paneOrder(tree), NEW k \in DOMAIN paneOrder(tree),
         paneOrder(tree)[i] = paneOrder(tree)[k]
  PROVE  i = k
<1>1. PICK p \in DOMAIN tree.leaves : Place(tree, p) = i /\ paneOrder(tree)[i] = tree.leaves[p]
  BY OrderIs
<1>2. PICK q \in DOMAIN tree.leaves : Place(tree, q) = k /\ paneOrder(tree)[k] = tree.leaves[q]
  BY OrderIs
<1>3. p = q
  BY <1>1, <1>2 DEF Single
<1>. QED
  BY <1>1, <1>2, <1>3

-----------------------------------------------------------------------------
(* What is left of a tree.                                                 *)

\* What the steps of a set are numbered by is their rank in it.
LEMMA NthOfRank ==
  ASSUME NEW S \in SUBSET Nat, IsFiniteSet(S), NEW i \in S
  PROVE  Nth(S, Rank(S, i)) = i
BY RankedOfRank DEF Nth, Ranked

LEMMA NthTaken ==
  ASSUME NEW S \in SUBSET Nat, IsFiniteSet(S), NEW k \in 1..Cardinality(S)
  PROVE  \E i \in S : Rank(S, i) = k /\ Nth(S, k) = i
BY RankTaken DEF Nth, Ranked

LEMMA NthIn ==
  ASSUME NEW S \in SUBSET Nat, IsFiniteSet(S), NEW k \in 1..Cardinality(S)
  PROVE  Nth(S, k) \in S
BY NthTaken

\* The steps of a route at which something of what is kept goes the other way.
Divided(p, kept) == {i \in DOMAIN p : \E q \in kept : Fork(p, q, i)}

\* The shorter route has those steps alone.
LEMMA ShortenedIs ==
  ASSUME NEW kept \in SUBSET Seq({0, 1}), NEW p \in Seq({0, 1})
  PROVE  /\ Divided(p, kept) \in SUBSET Nat /\ IsFiniteSet(Divided(p, kept))
         /\ Shortened(p, kept) = [k \in 1..Cardinality(Divided(p, kept)) |-> p[Nth(Divided(p, kept), k)]]
         /\ Shortened(p, kept) \in Seq({0, 1})
<1>. DEFINE D == Divided(p, kept)
            short == [k \in 1..Cardinality(D) |-> p[Nth(D, k)]]
<1>1. DOMAIN p = 1..Len(p) /\ Len(p) \in Nat
  BY LenProperties
<1>2. D \in SUBSET (1..Len(p)) /\ IsFiniteSet(1..Len(p))
  BY <1>1, FS_Interval DEF Divided
<1>3. D \in SUBSET Nat /\ IsFiniteSet(D)
  <2>1. IsFiniteSet(D)
    <3>. HIDE DEF D
    <3>. QED
      BY <1>2, FS_Subset
  <2>2. 1..Len(p) \in SUBSET Nat
    BY <1>1
  <2>. HIDE DEF D
  <2>. QED
    BY <1>2, <2>1, <2>2
<1>4. D = {i \in DOMAIN p : \E q \in kept : IsPrefix(Append(Upto(p, i - 1), Other(p[i])), q)}
  <2>1. \A i \in DOMAIN p : \A q \in kept :
          IsPrefix(Append(Upto(p, i - 1), Other(p[i])), q) <=> Fork(p, q, i)
    BY PrefixIsFork
  <2>. QED
    BY <2>1 DEF Divided
<1>5. Shortened(p, kept) = short
  BY <1>4 DEF Shortened
<1>. HIDE DEF D
<1>6. Cardinality(D) \in Nat
  BY <1>3, FS_CardinalityType
<1>7. \A k \in 1..Cardinality(D) : p[Nth(D, k)] \in {0, 1}
  <2>1. \A k \in 1..Cardinality(D) : Nth(D, k) \in D
    BY <1>3, NthIn
  <2>. QED
    BY <2>1, <1>2, ElementOfSeq
<1>8. short \in [1..Cardinality(D) -> {0, 1}]
  BY <1>7
<1>9. short \in Seq({0, 1})
  <2>. HIDE DEF short
  <2>. QED
    BY <1>6, <1>8, SeqDef
<1>. QED
  BY <1>3, <1>5, <1>9 DEF D

\* Routes that part still part once they are shortened, the same way: the step they
\* part at is divided for both, and what is divided before it is so for both or neither.
LEMMA ShortenedFork ==
  ASSUME NEW kept \in SUBSET Seq({0, 1}), NEW p \in kept, NEW q \in kept, NEW i, Fork(p, q, i)
  PROVE  \E k : /\ Fork(Shortened(p, kept), Shortened(q, kept), k)
                /\ Shortened(p, kept)[k] = p[i] /\ Shortened(q, kept)[k] = q[i]
<1>. DEFINE P == Divided(p, kept)
            Q == Divided(q, kept)
<1>1. p \in Seq({0, 1}) /\ q \in Seq({0, 1})
  OBVIOUS
<1>2. DOMAIN p = 1..Len(p) /\ Len(p) \in Nat /\ DOMAIN q = 1..Len(q) /\ Len(q) \in Nat
  BY <1>1, LenProperties
<1>3. /\ i \in DOMAIN p /\ i \in DOMAIN q /\ i \in Nat /\ p[i] # q[i]
      /\ \A j \in 1..(i - 1) : p[j] = q[j]
  BY <1>2 DEF Fork
<1>4. i \in P /\ i \in Q
  BY <1>3, ForkBack DEF Divided
<1>5. \A j \in 1..(i - 1) : \A r \in kept : Fork(p, r, j) <=> Fork(q, r, j)
  <2>. SUFFICES ASSUME NEW j \in 1..(i - 1), NEW r \in kept
                PROVE  Fork(p, r, j) <=> Fork(q, r, j)
    OBVIOUS
  <2>1. j \in DOMAIN p /\ j \in DOMAIN q
    BY <1>2, <1>3
  <2>2. p[j] = q[j] /\ \A n \in 1..(j - 1) : p[n] = q[n]
    BY <1>3
  <2>. QED
    BY <2>1, <2>2 DEF Fork
<1>6. \A j \in Nat : j <= i => (j \in P <=> j \in Q)
  <2>. SUFFICES ASSUME NEW j \in Nat, j <= i
                PROVE  j \in P <=> j \in Q
    OBVIOUS
  <2>1. CASE j = i
    BY <2>1, <1>4
  <2>2. CASE j # i /\ j # 0
    <3>1. j \in 1..(i - 1)
      BY <2>2, <1>3
    <3>2. j \in DOMAIN p /\ j \in DOMAIN q
      BY <3>1, <1>2, <1>3
    <3>. QED
      BY <3>1, <3>2, <1>5 DEF Divided
  <2>3. CASE j = 0
    BY <2>3, <1>2 DEF Divided
  <2>. QED
    BY <2>1, <2>2, <2>3
<1>7. /\ P \in SUBSET Nat /\ IsFiniteSet(P) /\ Q \in SUBSET Nat /\ IsFiniteSet(Q)
      /\ Shortened(p, kept) = [k \in 1..Cardinality(P) |-> p[Nth(P, k)]]
      /\ Shortened(q, kept) = [k \in 1..Cardinality(Q) |-> q[Nth(Q, k)]]
  BY <1>1, ShortenedIs
<1>. HIDE DEF P, Q
<1>8. \A x \in Nat : x <= i => Rank(P, x) = Rank(Q, x)
  <2>. SUFFICES ASSUME NEW x \in Nat, x <= i
                PROVE  Rank(P, x) = Rank(Q, x)
    OBVIOUS
  <2>1. \A j \in Nat : j <= x => j <= i
    BY <1>3
  <2>2. {j \in P : j <= x} = {j \in Q : j <= x}
    BY <2>1, <1>6, <1>7
  <2>. QED
    BY <2>2 DEF Rank
<1>9. PICK k : k = Rank(P, i)
  OBVIOUS
<1>10. /\ k \in 1..Cardinality(P) /\ Nth(P, k) = i /\ k \in 1..Cardinality(Q) /\ Nth(Q, k) = i
       /\ Cardinality(P) \in Nat /\ Cardinality(Q) \in Nat
  <2>1. k = Rank(Q, i)
    BY <1>3, <1>8, <1>9
  <2>2. Rank(P, i) \in 1..Cardinality(P) /\ Cardinality(P) \in Nat /\ Nth(P, Rank(P, i)) = i
    BY <1>4, <1>7, RankBound, NthOfRank
  <2>3. Rank(Q, i) \in 1..Cardinality(Q) /\ Cardinality(Q) \in Nat /\ Nth(Q, Rank(Q, i)) = i
    BY <1>4, <1>7, RankBound, NthOfRank
  <2>. QED
    BY <2>1, <2>2, <2>3, <1>9
<1>11. \A j \in 1..(k - 1) : Shortened(p, kept)[j] = Shortened(q, kept)[j]
  <2>. SUFFICES ASSUME NEW j \in 1..(k - 1)
                PROVE  Shortened(p, kept)[j] = Shortened(q, kept)[j]
    OBVIOUS
  <2>1. j \in 1..Cardinality(P) /\ j \in 1..Cardinality(Q)
    BY <1>10
  <2>2. PICK x \in P : Rank(P, x) = j /\ Nth(P, j) = x
    BY <2>1, <1>7, NthTaken
  <2>3. x \in Nat /\ x < i
    <3>1. x \in Nat
      BY <1>7
    <3>2. ~(i < x)
      <4>1. i < x => Rank(P, i) < Rank(P, x)
        BY <1>4, <1>7, RankGrows
      <4>. QED
        BY <4>1, <2>2, <1>9, <1>10
    <3>3. x # i
      BY <2>2, <1>9, <1>10
    <3>. QED
      BY <3>1, <3>2, <3>3, <1>3
  <2>4. x \in Q /\ Rank(Q, x) = j
    BY <2>2, <2>3, <1>3, <1>6, <1>8
  <2>5. Nth(Q, j) = x
    BY <2>4, <1>7, NthOfRank
  <2>6. p[x] = q[x]
    <3>1. x \in 1..(i - 1)
      <4>1. x \in DOMAIN p
        BY <2>2 DEF P, Divided
      <4>. QED
        BY <4>1, <2>3, <1>2, <1>3
    <3>. QED
      BY <3>1, <1>3
  <2>. QED
    BY <2>1, <2>2, <2>5, <2>6, <1>7
<1>12. /\ k \in DOMAIN Shortened(p, kept) \cap DOMAIN Shortened(q, kept)
       /\ Shortened(p, kept)[k] = p[i] /\ Shortened(q, kept)[k] = q[i]
  BY <1>7, <1>10
<1>. QED
  BY <1>3, <1>11, <1>12 DEF Fork

\* So what is read before stays before.
LEMMA ShortenedBefore ==
  ASSUME NEW kept \in SUBSET Seq({0, 1}), NEW p \in kept, NEW q \in kept, Before(p, q)
  PROVE  Before(Shortened(p, kept), Shortened(q, kept))
<1>1. p \in Seq({0, 1}) /\ q \in Seq({0, 1})
  OBVIOUS
<1>2. Shortened(p, kept) \in Seq({0, 1}) /\ Shortened(q, kept) \in Seq({0, 1})
  BY <1>1, ShortenedIs
<1>3. PICK i : Fork(p, q, i) /\ p[i] = 0 /\ q[i] = 1
  BY <1>1, BeforeIs
<1>4. \E k : /\ Fork(Shortened(p, kept), Shortened(q, kept), k)
             /\ Shortened(p, kept)[k] = 0 /\ Shortened(q, kept)[k] = 1
  BY <1>3, ShortenedFork
<1>. QED
  BY <1>2, <1>4, BeforeIs

-----------------------------------------------------------------------------
(* What is done to a tree leaves a tree.                                   *)

\* A layout of one pane.
LEMMA OneIsGrown ==
  ASSUME NEW view
  PROVE  /\ Grown(OnePane(view)) /\ Single(OnePane(view)) /\ OnLeaves(OnePane(view)) = {view}
<1>. DEFINE tree == OnePane(view)
<1>1. /\ tree = [leaves |-> tree.leaves, splits |-> tree.splits]
      /\ tree.leaves = [route \in {<<>>} |-> view]
  BY DEF OnePane
<1>. HIDE DEF tree
<1>2. DOMAIN tree.leaves = {<<>>} /\ tree.leaves[<<>>] = view
  BY <1>1
<1>3. IsFiniteSet({<<>>})
  BY FS_Singleton
<1>4. <<>> \in Seq({0, 1})
  BY EmptySeq
<1>5. IsTree(tree)
  BY <1>1, <1>2, <1>3 DEF IsTree
<1>6. Grown(tree)
  BY <1>2, <1>4, <1>5 DEF Grown, Parted
<1>7. Single(tree) /\ OnLeaves(tree) = {view}
  BY <1>2 DEF Single, OnLeaves
<1>. QED
  BY <1>6, <1>7 DEF tree

\* The one leaf a view stands on.
LEMMA RouteIs ==
  ASSUME NEW tree, NEW view \in OnLeaves(tree)
  PROVE  RouteTo(tree, view) \in DOMAIN tree.leaves /\ tree.leaves[RouteTo(tree, view)] = view
<1>1. \E p \in DOMAIN tree.leaves : tree.leaves[p] = view
  BY DEF OnLeaves
<1>. QED
  BY <1>1 DEF RouteTo

\* Splitting a leaf in two: the view that was there goes first, the new one second.
LEMMA SplitIsGrown ==
  ASSUME NEW tree, Grown(tree), NEW view \in OnLeaves(tree), NEW direction,
         NEW added, added \notin OnLeaves(tree)
  PROVE  LET new == splitLeaf(tree, view, direction, added)
         IN  /\ Grown(new) /\ OnLeaves(new) = OnLeaves(tree) \cup {added}
             /\ Single(tree) => Single(new)
<1>. DEFINE routes == DOMAIN tree.leaves
            new == splitLeaf(tree, view, direction, added)
<1>0. PICK at \in routes : at = RouteTo(tree, view) /\ tree.leaves[at] = view
  BY RouteIs
<1>1. PICK first, second : first = at \o <<0>> /\ second = at \o <<1>>
  OBVIOUS
<1>2. /\ new = [leaves |-> new.leaves, splits |-> new.splits]
      /\ new.leaves = [p \in (routes \ {at}) \cup {first, second} |->
                         IF p = first THEN view ELSE IF p = second THEN added ELSE tree.leaves[p]]
  BY <1>0, <1>1 DEF splitLeaf
<1>. HIDE DEF new
<1>3. at \in Seq({0, 1}) /\ Len(at) \in Nat /\ DOMAIN at = 1..Len(at)
      /\ <<0>> \in Seq({0, 1}) /\ <<1>> \in Seq({0, 1})
  BY LenProperties DEF Grown
<1>4. /\ first \in Seq({0, 1}) /\ Len(first) = Len(at) + 1 /\ first[Len(at) + 1] = 0
      /\ \A j \in 1..Len(at) : first[j] = at[j]
  BY <1>1, <1>3
<1>5. /\ second \in Seq({0, 1}) /\ Len(second) = Len(at) + 1 /\ second[Len(at) + 1] = 1
      /\ \A j \in 1..Len(at) : second[j] = at[j]
  BY <1>1, <1>3
<1>6. DOMAIN first = 1..(Len(at) + 1) /\ DOMAIN second = 1..(Len(at) + 1)
  BY <1>4, <1>5, LenProperties
<1>7. \A p \in routes \ {at} : \A end \in {first, second} :
        \E i \in DOMAIN p \cap DOMAIN end : p[i] # end[i]
  <2>. SUFFICES ASSUME NEW p \in routes \ {at}, NEW end \in {first, second}
                PROVE  \E i \in DOMAIN p \cap DOMAIN end : p[i] # end[i]
    OBVIOUS
  <2>1. PICK i \in DOMAIN p \cap DOMAIN at : p[i] # at[i]
    BY DEF Grown, Parted
  <2>2. i \in 1..Len(at) /\ i \in DOMAIN end /\ end[i] = at[i]
    BY <2>1, <1>3, <1>4, <1>5, <1>6
  <2>. QED
    BY <2>1, <2>2
<1>8. Len(at) + 1 \in DOMAIN first \cap DOMAIN second /\ first[Len(at) + 1] # second[Len(at) + 1]
  BY <1>3, <1>4, <1>5, <1>6
<1>9. first # second /\ first \notin routes \ {at} /\ second \notin routes \ {at}
  BY <1>7, <1>8
<1>10. DOMAIN new.leaves = (routes \ {at}) \cup {first, second}
  BY <1>2
<1>11. Parted(DOMAIN new.leaves)
  BY <1>7, <1>8, <1>10 DEF Grown, Parted
<1>12. IsFiniteSet(DOMAIN new.leaves)
  <2>1. IsFiniteSet(routes)
    BY DEF Grown, IsTree
  <2>2. IsFiniteSet(routes \ {at})
    BY <2>1, FS_RemoveElement
  <2>3. IsFiniteSet((routes \ {at}) \cup {first})
    BY <2>2, FS_AddElement
  <2>4. IsFiniteSet(((routes \ {at}) \cup {first}) \cup {second})
    BY <2>3, FS_AddElement
  <2>5. DOMAIN new.leaves = ((routes \ {at}) \cup {first}) \cup {second}
    BY <1>10
  <2>. QED
    BY <2>4, <2>5
<1>13. DOMAIN new.leaves \subseteq Seq({0, 1})
  BY <1>4, <1>5, <1>10 DEF Grown
<1>14. Grown(new)
  BY <1>2, <1>10, <1>11, <1>12, <1>13 DEF Grown, IsTree
<1>15. /\ new.leaves[first] = view /\ new.leaves[second] = added
       /\ \A p \in routes \ {at} : new.leaves[p] = tree.leaves[p]
  BY <1>2, <1>9
<1>16. OnLeaves(new) = OnLeaves(tree) \cup {added}
  <2>1. \A v \in OnLeaves(new) : v \in OnLeaves(tree) \cup {added}
    BY <1>10, <1>15 DEF OnLeaves
  <2>2. added \in OnLeaves(new) /\ view \in OnLeaves(new)
    BY <1>10, <1>15 DEF OnLeaves
  <2>3. \A v \in OnLeaves(tree) : v \in OnLeaves(new)
    <3>. SUFFICES ASSUME NEW p \in routes
                  PROVE  tree.leaves[p] \in OnLeaves(new)
      BY DEF OnLeaves
    <3>1. CASE p = at
      BY <3>1, <1>0, <2>2
    <3>2. CASE p # at
      BY <3>2, <1>10, <1>15 DEF OnLeaves
    <3>. QED
      BY <3>1, <3>2
  <2>. QED
    BY <2>1, <2>2, <2>3
<1>17. ASSUME Single(tree)
       PROVE  Single(new)
  <2>. SUFFICES ASSUME NEW p \in DOMAIN new.leaves, NEW q \in DOMAIN new.leaves,
                       new.leaves[p] = new.leaves[q]
                PROVE  p = q
    BY DEF Single
  <2>1. \A r \in routes \ {at} : tree.leaves[r] # view /\ tree.leaves[r] # added
    BY <1>0, <1>17 DEF Single, OnLeaves
  <2>2. view # added
    OBVIOUS
  <2>. QED
    BY <2>1, <2>2, <1>10, <1>15, <1>17 DEF Single
<1>. QED
  BY <1>14, <1>16, <1>17 DEF new

\* Keeping some of the leaves keeps what stands on them.
LEMMA PrunedIsGrown ==
  ASSUME NEW tree, Grown(tree), NEW kept \in SUBSET DOMAIN tree.leaves, kept # {}
  PROVE  /\ Grown(Pruned(tree, kept))
         /\ OnLeaves(Pruned(tree, kept)) = {tree.leaves[q] : q \in kept}
         /\ Single(tree) => Single(Pruned(tree, kept))
<1>1. CASE kept = DOMAIN tree.leaves
  BY <1>1 DEF Pruned, OnLeaves
<1>2. CASE kept # DOMAIN tree.leaves
  <2>. DEFINE ends == {Shortened(q, kept) : q \in kept}
              rest == Pruned(tree, kept)
  <2>1. /\ rest = [leaves |-> rest.leaves, splits |-> rest.splits]
        /\ rest.leaves = [p \in ends |-> tree.leaves[CHOOSE q \in kept : Shortened(q, kept) = p]]
    BY <1>2 DEF Pruned
  <2>2. DOMAIN rest.leaves = ends
    BY <2>1
  <2>3. kept \in SUBSET Seq({0, 1})
    BY DEF Grown
  <2>4. \A p, q \in kept : p # q =>
          \E k \in DOMAIN Shortened(p, kept) \cap DOMAIN Shortened(q, kept) :
            Shortened(p, kept)[k] # Shortened(q, kept)[k]
    <3>. SUFFICES ASSUME NEW p \in kept, NEW q \in kept, p # q
                  PROVE  \E k \in DOMAIN Shortened(p, kept) \cap DOMAIN Shortened(q, kept) :
                           Shortened(p, kept)[k] # Shortened(q, kept)[k]
      OBVIOUS
    <3>1. PICK i \in DOMAIN p \cap DOMAIN q : p[i] # q[i]
      BY DEF Grown, Parted
    <3>2. PICK f : Fork(p, q, f)
      BY <3>1, <2>3, ForkOf
    <3>3. PICK k : Fork(Shortened(p, kept), Shortened(q, kept), k)
      BY <3>2, <2>3, ShortenedFork
    <3>. QED
      BY <3>3 DEF Fork
  <2>5. \A p, q \in kept : Shortened(p, kept) = Shortened(q, kept) => p = q
    BY <2>4
  <2>6. \A q \in kept : rest.leaves[Shortened(q, kept)] = tree.leaves[q]
    <3>. SUFFICES ASSUME NEW q \in kept
                  PROVE  rest.leaves[Shortened(q, kept)] = tree.leaves[q]
      OBVIOUS
    <3>1. (CHOOSE r \in kept : Shortened(r, kept) = Shortened(q, kept)) = q
      BY <2>5
    <3>2. Shortened(q, kept) \in ends
      OBVIOUS
    <3>. QED
      BY <2>1, <3>1, <3>2
  <2>. HIDE DEF rest
  <2>7. Parted(ends)
    BY <2>4 DEF Parted
  <2>8. ends \subseteq Seq({0, 1}) /\ ends # {}
    <3>1. \A q \in kept : q \in Seq({0, 1})
      BY <2>3
    <3>2. \A q \in kept : Shortened(q, kept) \in Seq({0, 1})
      BY <2>3, <3>1, ShortenedIs
    <3>. QED
      BY <3>2
  <2>9. IsFiniteSet(ends)
    <3>. DEFINE short == [q \in kept |-> Shortened(q, kept)]
    <3>1. IsFiniteSet(kept)
      BY FS_Subset DEF Grown, IsTree
    <3>2. short \in Surjection(kept, ends)
      BY DEF Surjection
    <3>. QED
      BY <3>1, <3>2, FS_Surjection
  <2>10. Grown(rest)
    BY <2>1, <2>2, <2>7, <2>8, <2>9 DEF Grown, IsTree
  <2>11. OnLeaves(rest) = {tree.leaves[q] : q \in kept}
    BY <2>2, <2>6 DEF OnLeaves
  <2>12. Single(tree) => Single(rest)
    BY <2>2, <2>6 DEF Single
  <2>. QED
    BY <2>10, <2>11, <2>12 DEF rest
<1>. QED
  BY <1>1, <1>2

\* As many as they were, under other names.
LEMMA ImageCount ==
  ASSUME NEW S, IsFiniteSet(S), NEW f, \A x, y \in S : f[x] = f[y] => x = y
  PROVE  IsFiniteSet({f[x] : x \in S}) /\ Cardinality({f[x] : x \in S}) = Cardinality(S)
<1>. DEFINE T == {f[x] : x \in S}
            g == [x \in S |-> f[x]]
<1>1. g \in Surjection(S, T)
  BY DEF Surjection
<1>2. g \in Injection(S, T)
  BY DEF Injection, IsInjective
<1>. HIDE DEF g, T
<1>3. IsFiniteSet(T) /\ Cardinality(T) = Cardinality(S)
  BY <1>1, <1>2, FS_Surjection
<1>. QED
  BY <1>3 DEF T

\* What is kept of a tree stands in the same order, each leaf with what stood on it.
LEMMA PrunedOrder ==
  ASSUME NEW tree, Grown(tree), NEW kept \in SUBSET DOMAIN tree.leaves, kept # {}
  PROVE  \E short :
           /\ DOMAIN Pruned(tree, kept).leaves = {short[q] : q \in kept}
           /\ \A q \in kept : Pruned(tree, kept).leaves[short[q]] = tree.leaves[q]
           /\ \A p, q \in kept : short[p] = short[q] => p = q
           /\ \A p, q \in kept : Before(p, q) <=> Before(short[p], short[q])
<1>1. CASE kept = DOMAIN tree.leaves
  <2>. DEFINE short == [q \in kept |-> q]
  <2>1. Pruned(tree, kept) = tree /\ {short[q] : q \in kept} = kept
    BY <1>1 DEF Pruned
  <2>2. \A q \in kept : short[q] = q
    OBVIOUS
  <2>. HIDE DEF short
  <2>. QED
    BY <1>1, <2>1, <2>2
<1>2. CASE kept # DOMAIN tree.leaves
  <2>. DEFINE short == [q \in kept |-> Shortened(q, kept)]
              rest == Pruned(tree, kept)
  <2>1. rest.leaves = [p \in {Shortened(q, kept) : q \in kept} |->
                         tree.leaves[CHOOSE q \in kept : Shortened(q, kept) = p]]
    BY <1>2 DEF Pruned
  <2>2. kept \in SUBSET Seq({0, 1}) /\ \A q \in kept : q \in Seq({0, 1})
    BY DEF Grown
  <2>3. \A p, q \in kept : p # q => Before(p, q) \/ Before(q, p)
    <3>. SUFFICES ASSUME NEW p \in kept, NEW q \in kept, p # q
                  PROVE  Before(p, q) \/ Before(q, p)
      OBVIOUS
    <3>1. PICK i \in DOMAIN p \cap DOMAIN q : p[i] # q[i]
      BY DEF Grown, Parted
    <3>. QED
      BY <3>1, <2>2, BeforeTotal
  <2>4. \A p, q \in kept : Before(p, q) => Before(Shortened(p, kept), Shortened(q, kept))
    BY <2>2, ShortenedBefore
  <2>5. \A q \in kept : /\ Shortened(q, kept) \in Seq({0, 1})
                        /\ ~Before(Shortened(q, kept), Shortened(q, kept))
    <3>1. \A q \in kept : Shortened(q, kept) \in Seq({0, 1})
      BY <2>2, ShortenedIs
    <3>. QED
      BY <3>1, BeforeStrict
  <2>6. \A p, q \in kept : Shortened(p, kept) = Shortened(q, kept) => p = q
    BY <2>3, <2>4, <2>5
  <2>7. \A p, q \in kept : Before(Shortened(p, kept), Shortened(q, kept)) => Before(p, q)
    <3>. SUFFICES ASSUME NEW p \in kept, NEW q \in kept,
                         Before(Shortened(p, kept), Shortened(q, kept)), ~Before(p, q)
                  PROVE  FALSE
      OBVIOUS
    <3>1. Before(Shortened(q, kept), Shortened(p, kept))
      BY <2>3, <2>4, <2>5
    <3>2. Before(Shortened(p, kept), Shortened(p, kept))
      BY <3>1, <2>5, BeforeTrans
    <3>. QED
      BY <3>2, <2>5
  <2>8. \A q \in kept : rest.leaves[Shortened(q, kept)] = tree.leaves[q]
    <3>. SUFFICES ASSUME NEW q \in kept
                  PROVE  rest.leaves[Shortened(q, kept)] = tree.leaves[q]
      OBVIOUS
    <3>1. (CHOOSE r \in kept : Shortened(r, kept) = Shortened(q, kept)) = q
      BY <2>6
    <3>. QED
      BY <2>1, <3>1
  <2>9. \A q \in kept : short[q] = Shortened(q, kept)
    OBVIOUS
  <2>10. DOMAIN rest.leaves = {short[q] : q \in kept}
    BY <2>1
  <2>. HIDE DEF short, rest
  <2>11. /\ \A q \in kept : rest.leaves[short[q]] = tree.leaves[q]
         /\ \A p, q \in kept : short[p] = short[q] => p = q
         /\ \A p, q \in kept : Before(p, q) <=> Before(short[p], short[q])
    BY <2>4, <2>6, <2>7, <2>8, <2>9
  <2>. QED
    BY <2>10, <2>11 DEF rest
<1>. QED
  BY <1>1, <1>2

\* The leaves up to one, in the order they are read.
LEMMA PlaceUpto ==
  ASSUME NEW tree, Grown(tree), NEW p \in DOMAIN tree.leaves, NEW q \in DOMAIN tree.leaves
  PROVE  Place(tree, q) <= Place(tree, p) <=> q = p \/ Before(q, p)
<1>1. Place(tree, p) \in Nat /\ Place(tree, q) \in Nat
  BY PlaceBound DEF Grown
<1>2. CASE q = p
  BY <1>1, <1>2
<1>3. CASE Before(q, p)
  BY <1>1, <1>3, PlaceGrows
<1>4. CASE q # p /\ ~Before(q, p)
  <2>1. q \in Seq({0, 1}) /\ p \in Seq({0, 1}) /\ \E k \in DOMAIN p \cap DOMAIN q : p[k] # q[k]
    BY <1>4 DEF Grown, Parted
  <2>2. Before(p, q)
    BY <1>4, <2>1, BeforeTotal
  <2>. QED
    BY <1>1, <1>4, <2>2, PlaceGrows
<1>. QED
  BY <1>2, <1>3, <1>4

\* Pruning is read as what is left of the panes, in the order they were in.
LEMMA PrunedReads ==
  ASSUME NEW tree, Grown(tree), NEW kept \in SUBSET DOMAIN tree.leaves, kept # {}
  PROVE  LET left == {Place(tree, q) : q \in kept}
         IN  paneOrder(Pruned(tree, kept)) =
               [k \in 1..Cardinality(left) |-> paneOrder(tree)[Nth(left, k)]]
<1>. DEFINE rest == Pruned(tree, kept)
            place == [q \in kept |-> Place(tree, q)]
            left == {place[q] : q \in kept}
            n == Cardinality(kept)
<1>1. Grown(rest)
  BY PrunedIsGrown
<1>2. PICK short :
        /\ DOMAIN rest.leaves = {short[q] : q \in kept}
        /\ \A q \in kept : rest.leaves[short[q]] = tree.leaves[q]
        /\ \A p, q \in kept : short[p] = short[q] => p = q
        /\ \A p, q \in kept : Before(p, q) <=> Before(short[p], short[q])
  BY PrunedOrder
<1>. HIDE DEF rest
<1>3. IsFiniteSet(kept) /\ n \in Nat
  BY FS_Subset, FS_CardinalityType DEF Grown, IsTree
<1>4. \A p, q \in kept : place[p] = place[q] => p = q
  BY PlaceSingle
<1>5. \A q \in kept : place[q] = Place(tree, q) /\ place[q] \in Nat
  BY PlaceBound DEF Grown
<1>6. left = {Place(tree, q) : q \in kept}
  OBVIOUS
<1>. HIDE DEF place
<1>7. IsFiniteSet(left) /\ Cardinality(left) = n /\ left \in SUBSET Nat
  BY <1>3, <1>4, <1>5, ImageCount
<1>8. Cardinality(DOMAIN rest.leaves) = n
  BY <1>2, <1>3, ImageCount
<1>9. ASSUME NEW p \in kept
      PROVE  Place(rest, short[p]) = Rank(left, place[p])
  <2>. DEFINE upto == {q \in kept : q = p \/ Before(q, p)}
              ahead == {r \in DOMAIN rest.leaves \ {short[p]} : Before(r, short[p])}
  <2>1. IsFiniteSet(upto)
    BY <1>3, FS_Subset
  <2>2. {j \in left : j <= place[p]} = {place[q] : q \in upto}
    <3>1. \A q \in kept : place[q] <= place[p] <=> q \in upto
      BY <1>5, PlaceUpto
    <3>. HIDE DEF upto
    <3>2. upto \subseteq kept
      BY DEF upto
    <3>. QED
      BY <3>1, <3>2
  <2>3. ahead \cup {short[p]} = {short[q] : q \in upto}
    <3>1. \A q \in kept : short[q] \in ahead \cup {short[p]} <=> q \in upto
      BY <1>2
    <3>2. ahead \cup {short[p]} \subseteq {short[q] : q \in kept} /\ upto \subseteq kept
      BY <1>2
    <3>. HIDE DEF upto, ahead
    <3>. QED
      BY <3>1, <3>2
  <2>4. Rank(left, place[p]) = Cardinality(upto)
    <3>1. \A x, y \in upto : place[x] = place[y] => x = y
      BY <1>4
    <3>. HIDE DEF upto
    <3>2. Cardinality({place[q] : q \in upto}) = Cardinality(upto)
      BY <2>1, <3>1, ImageCount
    <3>. QED
      BY <2>2, <3>2 DEF Rank
  <2>5. IsFiniteSet(ahead \cup {short[p]}) /\ Cardinality(ahead \cup {short[p]}) = Cardinality(upto)
    <3>1. \A x, y \in upto : short[x] = short[y] => x = y
      BY <1>2
    <3>. HIDE DEF upto, ahead
    <3>. QED
      BY <2>1, <2>3, <3>1, ImageCount
  <2>6. short[p] \notin ahead
    OBVIOUS
  <2>7. Place(rest, short[p]) = 1 + Cardinality(ahead)
    BY DEF Place
  <2>. HIDE DEF ahead, upto
  <2>8. IsFiniteSet(ahead) /\ Cardinality(ahead) \in Nat
    BY <2>5, FS_Subset, FS_CardinalityType
  <2>9. Cardinality(ahead \cup {short[p]}) = Cardinality(ahead) + 1
    BY <2>6, <2>8, FS_AddElement
  <2>. QED
    BY <2>4, <2>5, <2>7, <2>8, <2>9
<1>10. DOMAIN paneOrder(rest) = 1..n /\ paneOrder(rest) \in Seq(OnLeaves(rest)) /\ Len(paneOrder(rest)) = n
  BY <1>1, <1>8, OrderIs
<1>11. \A k \in 1..n : paneOrder(rest)[k] = paneOrder(tree)[Nth(left, k)]
  <2>. SUFFICES ASSUME NEW k \in 1..n
                PROVE  paneOrder(rest)[k] = paneOrder(tree)[Nth(left, k)]
    OBVIOUS
  <2>1. PICK r \in DOMAIN rest.leaves : Place(rest, r) = k /\ paneOrder(rest)[k] = rest.leaves[r]
    BY <1>1, <1>8, OrderIs
  <2>2. PICK q \in kept : r = short[q]
    BY <1>2
  <2>3. Rank(left, place[q]) = k
    BY <1>9, <2>1, <2>2
  <2>4. Nth(left, k) = place[q]
    <3>1. place[q] \in left
      OBVIOUS
    <3>. HIDE DEF left
    <3>. QED
      BY <1>7, <2>3, <3>1, NthOfRank
  <2>5. paneOrder(tree)[Place(tree, q)] = tree.leaves[q]
    BY OrderIs
  <2>. QED
    BY <1>2, <1>5, <2>1, <2>2, <2>4, <2>5
<1>. HIDE DEF left
<1>12. paneOrder(rest) = [k \in 1..n |-> paneOrder(tree)[Nth(left, k)]]
  <2>1. paneOrder(rest) \in [1..n -> OnLeaves(rest)]
    BY <1>10, LenProperties
  <2>. QED
    BY <1>11, <2>1
<1>13. paneOrder(rest) = [k \in 1..Cardinality(left) |-> paneOrder(tree)[Nth(left, k)]]
  BY <1>7, <1>12
<1>. QED
  BY <1>6, <1>13 DEF rest

\* A divider is no leaf.
LEMMA RatioIsGrown ==
  ASSUME NEW tree, Grown(tree), NEW node, NEW ratio
  PROVE  Grown(setRatio(tree, node, ratio)) /\ setRatio(tree, node, ratio).leaves = tree.leaves
<1>1. \A share : [tree EXCEPT !.splits[node].ratio = share].leaves = tree.leaves
  BY DEF Grown, IsTree
<1>2. \A share : LET new == [tree EXCEPT !.splits[node].ratio = share]
                 IN  new = [leaves |-> new.leaves, splits |-> new.splits]
  BY DEF Grown, IsTree
<1>. QED
  BY <1>1, <1>2 DEF setRatio, Grown, IsTree

\* Nor is what stands on the leaves: other ids, or the targets they show.
LEMMA LeavesAreGrown ==
  ASSUME NEW tree, Grown(tree), NEW leaves, DOMAIN leaves = DOMAIN tree.leaves
  PROVE  /\ Grown([tree EXCEPT !.leaves = leaves])
         /\ [tree EXCEPT !.leaves = leaves].leaves = leaves
<1>1. [tree EXCEPT !.leaves = leaves] = [leaves |-> leaves, splits |-> tree.splits]
  BY DEF Grown, IsTree
<1>. QED
  BY <1>1 DEF Grown, IsTree

-----------------------------------------------------------------------------
(* Where the reader looks, and the trail behind it.                        *)

\* There is a tree with a leaf for each view, the reader in one of them, or the
\* window is empty.
TreeOrEmpty ==
    \/ layout = None /\ active = None /\ DOMAIN views = {}
    \/ /\ Grown(layout) /\ Single(layout) /\ OnLeaves(layout) = DOMAIN views
       /\ active \in DOMAIN views

WindowOK ==
    /\ minted \in Nat
    /\ DOMAIN views \subseteq 1..minted
    /\ \A v \in DOMAIN views : views[v] \in Targets
    /\ there \subseteq Convs
    /\ TreeOrEmpty

StoredIsTree == stored # None => Grown(stored) /\ OnLeaves(stored) \subseteq Targets

AsleepIsEmpty == ~ready => DOMAIN views = {} /\ active = None /\ layout = None

LookInv == WindowOK /\ StoredIsTree /\ AsleepIsEmpty

\* The trail is of conversations, no step of it stands still, and the one counted
\* from is where the reader is. Alt+Left always moves, so nothing is still to be
\* told from the reader's own step once it is done.
TrailInv ==
    /\ trail = [entries |-> trail.entries, index |-> trail.index]
    /\ trail.entries \in Seq(Convs)
    /\ trail.index \in 0..Len(trail.entries)
    /\ \A i \in 1..(Len(trail.entries) - 1) : trail.entries[i] # trail.entries[i + 1]
    /\ traversing = FALSE
    /\ HistoryNamesActive

-----------------------------------------------------------------------------
(* Targets.                                                                *)

\* A target is of a conversation, or nowhere.
LEMMA TargetIs ==
  ASSUME NEW t \in Targets
  PROVE  t.conv \in Convs \cup {None} /\ (t.conv = None <=> t = Nowhere)
BY PanesAssumption DEF Targets, Nowhere

LEMMA TargetOf ==
  ASSUME NEW c \in Convs
  PROVE  /\ Target(c) \in Targets /\ Target(c).conv = c /\ Target(c) # Nowhere
         /\ FoldedTarget(c) \in Targets /\ FoldedTarget(c).conv = c /\ FoldedTarget(c) # Nowhere
         /\ c # None
<1>1. c # None
  BY PanesAssumption
<1>2. (c \in Mixed) \in BOOLEAN
  OBVIOUS
<1>3. Target(c) = [conv |-> c, folded |-> FALSE]
      /\ FoldedTarget(c) = [conv |-> c, folded |-> c \in Mixed]
  BY DEF Target, FoldedTarget
<1>4. Target(c) \in Targets /\ FoldedTarget(c) \in Targets
  BY <1>2, <1>3 DEF Targets
<1>5. Target(c).conv = c /\ FoldedTarget(c).conv = c /\ Nowhere.conv = None
  BY <1>3 DEF Nowhere
<1>. QED
  BY <1>1, <1>4, <1>5

LEMMA NowhereIs == Nowhere \in Targets /\ Nowhere.conv = None
BY DEF Targets, Nowhere

\* A pane's id is no null.
LEMMA ActiveIs ==
  ASSUME WindowOK
  PROVE  /\ active \in DOMAIN views \/ active = None
         /\ \A v \in DOMAIN views : v # None
         /\ active = None => Focused = Nowhere
         /\ active \in DOMAIN views => Focused = views[active]
         /\ Focused \in Targets
<1>1. active \in DOMAIN views \/ active = None
  BY DEF WindowOK, TreeOrEmpty
<1>2. \A v \in DOMAIN views : v # None
  <2>1. \A v \in DOMAIN views : v \in Nat
    BY DEF WindowOK
  <2>. QED
    BY <2>1, PanesAssumption
<1>3. active = None => Focused = Nowhere
  BY DEF Focused, ActiveTarget
<1>4. active \in DOMAIN views => Focused = views[active]
  BY <1>2 DEF Focused, ActiveTarget
<1>5. Focused \in Targets
  BY <1>1, <1>3, <1>4, NowhereIs DEF WindowOK
<1>. QED
  BY <1>1, <1>2, <1>3, <1>4, <1>5

-----------------------------------------------------------------------------
(* Panes of the tree.                                                      *)

\* The first of some panes is one of them.
LEMMA FirstPaneIn ==
  ASSUME Grown(layout), NEW panes \in SUBSET OnLeaves(layout), panes # {}
  PROVE  FirstPane(panes) \in panes
<1>. DEFINE order == paneOrder(layout)
            n == Cardinality(DOMAIN layout.leaves)
            among == {i \in DOMAIN order : order[i] \in panes}
<1>1. n \in Nat /\ DOMAIN order = 1..n
  BY OrderIs
<1>2. PICK p \in DOMAIN layout.leaves : layout.leaves[p] \in panes
  BY DEF OnLeaves
<1>3. Place(layout, p) \in among
  BY <1>2, OrderIs
<1>4. among \in SUBSET Nat /\ among # {}
  BY <1>1, <1>3
<1>5. Min(among) \in among /\ \A x \in among : Min(among) <= x
  <2>. HIDE DEF among
  <2>. QED
    BY <1>4, MinNat
<1>6. PICK m \in among : \A x \in among : m <= x
  BY <1>5
<1>7. m \in 1..n /\ order[m] \in panes
  BY <1>1
<1>8. \A j \in 1..(m - 1) : order[j] \notin panes
  <2>. SUFFICES ASSUME NEW j \in 1..(m - 1), order[j] \in panes
                PROVE  FALSE
    OBVIOUS
  <2>1. j \in among
    BY <1>1, <1>7
  <2>. QED
    BY <2>1, <1>6, <1>7
<1>. HIDE DEF order
<1>9. \E i \in DOMAIN order : order[i] \in panes /\ \A j \in 1..(i - 1) : order[j] \notin panes
  BY <1>1, <1>7, <1>8
<1>10. FirstPane(panes) = order[CHOOSE i \in DOMAIN order :
                            order[i] \in panes /\ \A j \in 1..(i - 1) : order[j] \notin panes]
  BY DEF FirstPane, order
<1>. QED
  BY <1>9, <1>10

\* The first pane of a tree is one of it.
LEMMA HeadIn ==
  ASSUME NEW tree, Grown(tree)
  PROVE  Head(paneOrder(tree)) \in OnLeaves(tree)
<1>1. paneOrder(tree) \in Seq(OnLeaves(tree)) /\ Len(paneOrder(tree)) # 0
  BY OrderIs
<1>2. paneOrder(tree) # <<>>
  BY <1>1, EmptySeq
<1>. QED
  BY <1>1, <1>2, HeadTailProperties

\* The pane that takes the focus is another one.
LEMMA NeighbourIn ==
  ASSUME NEW tree, Grown(tree), Single(tree), NEW id \in OnLeaves(tree),
         Cardinality(OnLeaves(tree)) > 1
  PROVE  Neighbour(paneOrder(tree), id) \in OnLeaves(tree) \ {id}
<1>. DEFINE order == paneOrder(tree)
            n == Cardinality(DOMAIN tree.leaves)
<1>1. /\ n \in Nat \ {0} /\ DOMAIN order = 1..n /\ Len(order) = n
      /\ \A i \in 1..n : order[i] \in OnLeaves(tree)
  BY OrderIs DEF OnLeaves
<1>2. \A v \in OnLeaves(tree) : \E i \in 1..n : order[i] = v
  <2>1. \A p \in DOMAIN tree.leaves : Place(tree, p) \in 1..n /\ order[Place(tree, p)] = tree.leaves[p]
    BY OrderIs
  <2>. QED
    BY <2>1 DEF OnLeaves
<1>3. \A i, k \in 1..n : order[i] = order[k] => i = k
  BY <1>1, OrderSingle
<1>4. PICK at \in 1..n : order[at] = id /\ at = CHOOSE i \in DOMAIN order : order[i] = id
  BY <1>1, <1>2
<1>5. n > 1
  <2>1. OnLeaves(tree) # {id}
    <3>1. Cardinality({id}) = 1
      BY FS_Singleton
    <3>. QED
      BY <3>1
  <2>2. PICK other \in OnLeaves(tree) : other # id
    BY <2>1
  <2>3. PICK k \in 1..n : order[k] = other
    BY <1>2
  <2>4. k # at
    BY <1>4, <2>2, <2>3
  <2>. QED
    BY <2>4, <1>1
<1>6. Neighbour(order, id) = IF at < Len(order) THEN order[at + 1] ELSE order[at - 1]
  BY <1>4 DEF Neighbour
<1>. HIDE DEF order, n
<1>7. CASE at < n
  <2>1. at + 1 \in 1..n /\ at + 1 # at
    BY <1>1, <1>7
  <2>. QED
    BY <2>1, <1>1, <1>3, <1>4, <1>6, <1>7 DEF order
<1>8. CASE ~(at < n)
  <2>1. at - 1 \in 1..n /\ at - 1 # at
    BY <1>1, <1>5, <1>8
  <2>. QED
    BY <2>1, <1>1, <1>3, <1>4, <1>6, <1>8 DEF order
<1>. QED
  BY <1>7, <1>8

\* Without the leaf of a view, the others stand.
LEMMA RemoveLeafIs ==
  ASSUME NEW tree, Grown(tree), Single(tree), NEW id \in OnLeaves(tree), OnLeaves(tree) # {id}
  PROVE  /\ Grown(removeLeaf(tree, id)) /\ Single(removeLeaf(tree, id))
         /\ OnLeaves(removeLeaf(tree, id)) = OnLeaves(tree) \ {id}
<1>. DEFINE kept == DOMAIN tree.leaves \ {RouteTo(tree, id)}
<1>1. RouteTo(tree, id) \in DOMAIN tree.leaves /\ tree.leaves[RouteTo(tree, id)] = id
  BY RouteIs
<1>2. \A q \in DOMAIN tree.leaves : q \in kept <=> tree.leaves[q] # id
  BY <1>1 DEF Single
<1>3. {tree.leaves[q] : q \in kept} = OnLeaves(tree) \ {id}
  BY <1>2 DEF OnLeaves
<1>4. kept \in SUBSET DOMAIN tree.leaves /\ kept # {}
  BY <1>3
<1>5. removeLeaf(tree, id) = Pruned(tree, kept)
  BY DEF removeLeaf
<1>. HIDE DEF kept
<1>. QED
  BY <1>3, <1>4, <1>5, PrunedIsGrown

-----------------------------------------------------------------------------
(* What the actions are made of.                                           *)

\* What is written down is the tree of what is shown.
LEMMA SavedKeeps ==
  ASSUME StoredIsTree, WindowOK', Saved
  PROVE  StoredIsTree'
<1>1. CASE stored' = stored
  BY <1>1 DEF StoredIsTree
<1>2. CASE layout' # None /\ stored' = toStored(layout', views')
  <2>. DEFINE kept == {p \in DOMAIN layout'.leaves : Shows(views', p, layout')}
              rest == Pruned(layout', kept)
              shown == [p \in DOMAIN rest.leaves |-> views'[rest.leaves[p]]]
  <2>1. Grown(layout') /\ OnLeaves(layout') = DOMAIN views'
    BY <1>2 DEF WindowOK, TreeOrEmpty
  <2>2. kept \in SUBSET DOMAIN layout'.leaves
    OBVIOUS
  <2>3. \/ stored' = None
        \/ kept # {} /\ stored' = [rest EXCEPT !.leaves = shown]
    BY <1>2 DEF toStored, Relabelled
  <2>4. ASSUME kept # {}
        PROVE  Grown([rest EXCEPT !.leaves = shown]) /\ OnLeaves([rest EXCEPT !.leaves = shown]) \subseteq Targets
    <3>1. Grown(rest) /\ OnLeaves(rest) = {layout'.leaves[q] : q \in kept}
      <4>. HIDE DEF kept
      <4>. QED
        BY <2>1, <2>2, <2>4, PrunedIsGrown
    <3>2. OnLeaves(rest) \subseteq DOMAIN views'
      BY <2>1, <2>2, <3>1 DEF OnLeaves
    <3>. HIDE DEF rest
    <3>3. DOMAIN shown = DOMAIN rest.leaves /\ \A p \in DOMAIN shown : shown[p] \in Targets
      BY <3>2 DEF OnLeaves, WindowOK
    <3>. HIDE DEF shown
    <3>4. Grown([rest EXCEPT !.leaves = shown]) /\ [rest EXCEPT !.leaves = shown].leaves = shown
      BY <3>1, <3>3, LeavesAreGrown
    <3>. QED
      BY <3>3, <3>4 DEF OnLeaves
  <2>. HIDE DEF rest, shown, kept
  <2>. QED
    BY <2>3, <2>4 DEF StoredIsTree
<1>. QED
  BY <1>1, <1>2 DEF Saved

\* What is true once the reader is somewhere and the window is written down.
LEMMA AwakeKeeps ==
  ASSUME LookInv, WindowOK', Saved, ready'
  PROVE  LookInv'
BY SavedKeeps DEF LookInv, AsleepIsEmpty

\* The first view of a window.
LEMMA FirstViewIs ==
  ASSUME WindowOK, NEW t \in Targets, OpenFirstView(t), there' \subseteq Convs
  PROVE  WindowOK' /\ active' # None /\ Focused' = t
<1>1. /\ minted \in Nat /\ minted' = minted + 1 /\ active' = minted'
      /\ views' = [v \in {minted'} |-> t] /\ layout' = OnePane(minted')
  BY DEF OpenFirstView, WindowOK
<1>2. /\ minted' \in Nat /\ minted' \in 1..minted' /\ DOMAIN views' = {minted'}
      /\ views'[minted'] = t
  BY <1>1
<1>3. Grown(layout') /\ Single(layout') /\ OnLeaves(layout') = DOMAIN views' /\ active' \in DOMAIN views'
  BY <1>1, <1>2, OneIsGrown
<1>4. WindowOK'
  BY <1>1, <1>2, <1>3 DEF WindowOK, TreeOrEmpty
<1>5. active' # None
  BY <1>1, <1>2, PanesAssumption
<1>. QED
  BY <1>1, <1>2, <1>4, <1>5 DEF Focused, ActiveTarget

\* The reader is sent somewhere.
LEMMA SetActiveIs ==
  ASSUME WindowOK, NEW t \in Targets, t # Nowhere, setActive(t), there' \subseteq Convs
  PROVE  WindowOK' /\ Focused' = t
<1>1. CASE active = None
  BY <1>1, FirstViewIs DEF setActive
<1>2. CASE active # None
  <2>1. /\ views' = [views EXCEPT ![active] = t] /\ UNCHANGED <<layout, active, minted>>
        /\ active \in DOMAIN views
    BY <1>2, ActiveIs DEF setActive, Retargeted
  <2>2. DOMAIN views' = DOMAIN views /\ views'[active] = t /\ \A v \in DOMAIN views' : views'[v] \in Targets
    BY <2>1 DEF WindowOK
  <2>3. WindowOK'
    BY <2>1, <2>2 DEF WindowOK, TreeOrEmpty
  <2>. QED
    BY <2>1, <2>2, <2>3, <1>2 DEF Focused, ActiveTarget
<1>. QED
  BY <1>1, <1>2

\* Where the reader is changes among the panes that are there.
LEMMA SameWindow ==
  ASSUME WindowOK, UNCHANGED <<layout, views, minted>>, there' \subseteq Convs,
         active' = active \/ active' \in DOMAIN views
  PROVE  WindowOK'
BY DEF WindowOK, TreeOrEmpty

-----------------------------------------------------------------------------
(* Every action keeps the reader in a pane of the tree.                    *)

\* Showing what a pane shows already moves the focus there.
LEMMA ShownFirstIs ==
  ASSUME WindowOK, NEW c \in Convs, PanesShowing(c) # {}
  PROVE  /\ Grown(layout) /\ PanesShowing(c) \subseteq OnLeaves(layout)
         /\ FirstPane(PanesShowing(c)) \in PanesShowing(c)
<1>1. PanesShowing(c) \subseteq DOMAIN views
  BY DEF PanesShowing
<1>2. Grown(layout) /\ OnLeaves(layout) = DOMAIN views
  BY <1>1 DEF WindowOK, TreeOrEmpty
<1>. QED
  BY <1>1, <1>2, FirstPaneIn

LEMMA ShowLook == ASSUME LookInv, NEW c \in Convs, Show(c) PROVE LookInv'
<1>1. /\ WindowOK /\ showTarget(Target(c)) /\ Saved /\ ready' /\ there' \subseteq Convs
      /\ Target(c) \in Targets /\ Target(c) # Nowhere /\ Target(c).conv = c
  BY TargetOf DEF Show, Follows, LookInv, WindowOK, world
<1>2. CASE PanesShowing(c) = {}
  <2>1. WindowOK'
    BY <1>1, <1>2, SetActiveIs DEF showTarget
  <2>. QED
    BY <1>1, <2>1, AwakeKeeps
<1>3. CASE PanesShowing(c) # {}
  <2>1. active' \in DOMAIN views /\ UNCHANGED <<layout, views, minted>>
    BY <1>1, <1>3, ShownFirstIs DEF showTarget, PanesShowing
  <2>2. WindowOK'
    BY <1>1, <2>1, SameWindow
  <2>. QED
    BY <1>1, <2>2, AwakeKeeps
<1>. QED
  BY <1>2, <1>3

LEMMA GoLook == ASSUME LookInv, NEW c \in Convs, Go(c) PROVE LookInv'
<1>1. /\ WindowOK /\ setActive(FoldedTarget(c)) /\ Saved /\ ready' /\ there' \subseteq Convs
      /\ FoldedTarget(c) \in Targets /\ FoldedTarget(c) # Nowhere
  BY TargetOf DEF Go, Follows, LookInv, WindowOK, world
<1>2. WindowOK'
  BY <1>1, SetActiveIs
<1>. QED
  BY <1>1, <1>2, AwakeKeeps

\* Alt+Left goes to a conversation of the trail.
LEMMA TravelTarget ==
  ASSUME TrailInv, NEW delta \in {-1, 1}, trail.index + delta \in DOMAIN trail.entries
  PROVE  trail.entries[trail.index + delta] \in Convs
BY ElementOfSeq, LenProperties DEF TrailInv

LEMMA TravelLook ==
  ASSUME LookInv, TrailInv, NEW delta \in {-1, 1}, Travel(delta)
  PROVE  LookInv'
<1>. DEFINE key == trail.entries[trail.index + delta]
<1>1. /\ WindowOK /\ setActive(FoldedTarget(key)) /\ Saved /\ ready' /\ there' \subseteq Convs
      /\ key \in Convs
  BY TravelTarget DEF Travel, LookInv, WindowOK, world
<1>. HIDE DEF key
<1>2. FoldedTarget(key) \in Targets /\ FoldedTarget(key) # Nowhere
  BY <1>1, TargetOf
<1>3. WindowOK'
  BY <1>1, <1>2, SetActiveIs
<1>. QED
  BY <1>1, <1>3, AwakeKeeps

\* What is done to a pane that is there is done to an awake window with a tree.
LEMMA PaneIsThere ==
  ASSUME LookInv, active # None \/ DOMAIN views # {} \/ layout # None
  PROVE  /\ ready /\ Grown(layout) /\ Single(layout) /\ OnLeaves(layout) = DOMAIN views
         /\ active \in DOMAIN views /\ active # None /\ Focused = views[active]
<1>1. TreeOrEmpty /\ AsleepIsEmpty /\ WindowOK
  BY DEF LookInv, WindowOK
<1>2. ready /\ Grown(layout) /\ Single(layout) /\ OnLeaves(layout) = DOMAIN views /\ active \in DOMAIN views
  BY <1>1 DEF TreeOrEmpty, AsleepIsEmpty
<1>. QED
  BY <1>1, <1>2, ActiveIs

LEMMA SplitLook == ASSUME LookInv, NEW direction, splitActiveView(direction) PROVE LookInv'
<1>1. /\ WindowOK /\ Saved /\ active # None /\ minted \in Nat /\ minted' = minted + 1
      /\ layout' = splitLeaf(layout, active, direction, minted') /\ active' = minted'
      /\ views' = [v \in DOMAIN views \cup {minted'} |-> views[IF v = minted' THEN active ELSE v]]
      /\ ready' = ready /\ there' = there /\ DOMAIN views \subseteq 1..minted
  BY DEF splitActiveView, Follows, LookInv, WindowOK, world
<1>2. /\ ready /\ Grown(layout) /\ Single(layout) /\ OnLeaves(layout) = DOMAIN views
      /\ active \in DOMAIN views
  BY <1>1, PaneIsThere
<1>3. minted' \notin DOMAIN views /\ minted' \in Nat /\ DOMAIN views \cup {minted'} \subseteq 1..minted'
  BY <1>1
<1>4. Grown(layout') /\ Single(layout') /\ OnLeaves(layout') = DOMAIN views \cup {minted'}
  BY <1>1, <1>2, <1>3, SplitIsGrown
<1>5. DOMAIN views' = DOMAIN views \cup {minted'} /\ \A v \in DOMAIN views' : views'[v] \in Targets
  BY <1>1, <1>2 DEF WindowOK
<1>6. active' \in DOMAIN views'
  BY <1>1, <1>5
<1>7. WindowOK'
  BY <1>1, <1>3, <1>4, <1>5, <1>6 DEF WindowOK, TreeOrEmpty
<1>. QED
  BY <1>1, <1>2, <1>7, AwakeKeeps

LEMMA CloseLook == ASSUME LookInv, NEW id, closeView(id) PROVE LookInv'
<1>1. /\ WindowOK /\ Saved /\ layout' = removeLeaf(layout, id) /\ id \in DOMAIN views
      /\ views' = [v \in DOMAIN views \ {id} |-> views[v]] /\ Cardinality(DOMAIN views) > 1
      /\ active' = IF active = id THEN Neighbour(paneOrder(layout), id) ELSE active
      /\ minted' = minted /\ ready' = ready /\ there' = there
  BY DEF closeView, Follows, LookInv, world
<1>2. /\ ready /\ Grown(layout) /\ Single(layout) /\ OnLeaves(layout) = DOMAIN views
      /\ active \in DOMAIN views
  BY <1>1, PaneIsThere
<1>3. active' \in DOMAIN views \ {id}
  BY <1>1, <1>2, NeighbourIn
<1>4. Grown(layout') /\ Single(layout') /\ OnLeaves(layout') = DOMAIN views \ {id}
  BY <1>1, <1>2, <1>3, RemoveLeafIs
<1>5. DOMAIN views' = DOMAIN views \ {id} /\ \A v \in DOMAIN views' : views'[v] = views[v]
  BY <1>1
<1>6. WindowOK'
  BY <1>1, <1>3, <1>4, <1>5 DEF WindowOK, TreeOrEmpty
<1>. QED
  BY <1>1, <1>2, <1>6, AwakeKeeps

LEMMA FocusLook == ASSUME LookInv, NEW id, focusView(id) PROVE LookInv'
<1>1. /\ WindowOK /\ Saved /\ id \in DOMAIN views /\ active' = id
      /\ UNCHANGED <<layout, views, minted, ready, there>>
  BY DEF focusView, Follows, LookInv, world
<1>2. ready /\ WindowOK'
  BY <1>1, PaneIsThere, SameWindow DEF WindowOK
<1>. QED
  BY <1>1, <1>2, AwakeKeeps

LEMMA RatioLook ==
  ASSUME LookInv, layout # None, NEW node, NEW ratio, setSplitRatio(node, ratio)
  PROVE  LookInv'
<1>1. /\ WindowOK /\ Saved /\ layout' = setRatio(layout, node, ratio)
      /\ UNCHANGED <<views, active, minted, ready, there>>
  BY DEF setSplitRatio, Follows, LookInv, world
<1>2. /\ ready /\ Grown(layout) /\ Single(layout) /\ OnLeaves(layout) = DOMAIN views
      /\ active \in DOMAIN views
  BY PaneIsThere
<1>3. Grown(layout') /\ layout'.leaves = layout.leaves
  BY <1>1, <1>2, RatioIsGrown
<1>4. Single(layout') /\ OnLeaves(layout') = DOMAIN views
  BY <1>2, <1>3 DEF Single, OnLeaves
<1>5. WindowOK'
  BY <1>1, <1>2, <1>3, <1>4 DEF WindowOK, TreeOrEmpty
<1>. QED
  BY <1>1, <1>2, <1>5, AwakeKeeps

\* Nothing that is said of where the reader looks has changed.
LEMMA SameLook ==
  ASSUME LookInv, UNCHANGED <<ready, there, layout, views, active, minted, stored>>
  PROVE  LookInv'
BY DEF LookInv, WindowOK, TreeOrEmpty, StoredIsTree, AsleepIsEmpty

LEMMA HoldLook == ASSUME LookInv, NEW kind, NEW id, Hold(kind, id) PROVE LookInv'
BY SameLook DEF Hold, world, after

LEMMA JumpLook == ASSUME LookInv, NEW h, ActOnJump(h) PROVE LookInv'
BY SameLook DEF ActOnJump, world, after

LEMMA ArriveLook == ASSUME LookInv, NEW c, Arrive(c) PROVE LookInv'
BY SameLook DEF Arrive, window, after

\* An empty window opens on the first conversation that is listed.
LEMMA FirstListedIs ==
  ASSUME NEW cs \in SUBSET Convs, cs # {}
  PROVE  FirstListed(cs) \in cs
<1>. DEFINE n == Len(Conversations)
            among == {i \in DOMAIN Conversations : Conversations[i] \in cs}
<1>1. n \in Nat /\ DOMAIN Conversations = 1..n
  BY PanesAssumption, LenProperties
<1>2. among \in SUBSET Nat /\ among # {}
  BY <1>1 DEF Convs
<1>3. Min(among) \in among /\ \A x \in among : Min(among) <= x
  <2>. HIDE DEF among
  <2>. QED
    BY <1>2, MinNat
<1>4. PICK m \in among : \A x \in among : m <= x
  BY <1>3
<1>5. m \in 1..n /\ Conversations[m] \in cs
  BY <1>1
<1>6. \A j \in 1..(m - 1) : Conversations[j] \notin cs
  <2>. SUFFICES ASSUME NEW j \in 1..(m - 1), Conversations[j] \in cs
                PROVE  FALSE
    OBVIOUS
  <2>1. j \in among
    BY <1>1, <1>5
  <2>. QED
    BY <2>1, <1>4, <1>5
<1>7. \E i \in DOMAIN Conversations :
        /\ Conversations[i] \in cs
        /\ \A j \in 1..(i - 1) : Conversations[j] \notin cs
  BY <1>1, <1>5, <1>6
<1>. QED
  BY <1>7 DEF FirstListed

LEMMA OpenLook ==
  ASSUME LookInv, NEW cs \in SUBSET Convs, OpenIfEmpty(cs), there' \subseteq Convs
  PROVE  WindowOK'
<1>1. CASE layout = None /\ cs # {}
  <2>1. FirstListed(cs) \in Convs
    BY <1>1, FirstListedIs
  <2>2. Target(FirstListed(cs)) \in Targets /\ OpenFirstView(Target(FirstListed(cs)))
    BY <1>1, <2>1, TargetOf DEF OpenIfEmpty
  <2>. QED
    BY <2>2, FirstViewIs DEF LookInv
<1>2. CASE ~(layout = None /\ cs # {})
  BY <1>2, SameWindow DEF OpenIfEmpty, window, LookInv
<1>. QED
  BY <1>1, <1>2

LEMMA UpdateLook == ASSUME LookInv, NEW c \in Convs, Update(c) PROVE LookInv'
<1>1. there' \in SUBSET Convs /\ OpenIfEmpty(there') /\ Saved /\ ready'
  BY DEF Update, Follows, LookInv, WindowOK
<1>2. WindowOK'
  BY <1>1, OpenLook
<1>. QED
  BY <1>1, <1>2, AwakeKeeps

\* What dropPanesOn does, when a pane shows what is gone: the panes kept are those
\* that do not show it, or one that is emptied.
LEMMA DropIs ==
  ASSUME WindowOK, NEW c \in Convs, DropPanesOn(c), PanesShowing(c) # {}
  PROVE  \E emptied, dropped, kept :
           /\ emptied \subseteq PanesShowing(c)
           /\ emptied # {} => PanesShowing(c) = DOMAIN views
           /\ dropped = PanesShowing(c) \ emptied
           /\ kept = {p \in DOMAIN layout.leaves : layout.leaves[p] \notin dropped}
           /\ layout' = Pruned(layout, kept)
           /\ views' = [v \in DOMAIN views \ dropped |-> IF v \in emptied THEN Nowhere ELSE views[v]]
           /\ active' = IF active \in DOMAIN views' THEN active ELSE Head(paneOrder(layout'))
           /\ minted' = minted /\ held' \subseteq held
           /\ DOMAIN views \ dropped # {}
<1>. DEFINE emptied == IF PanesShowing(c) = DOMAIN views THEN {FirstPane(PanesShowing(c))} ELSE {}
<1>1. FirstPane(PanesShowing(c)) \in PanesShowing(c)
  BY ShownFirstIs
<1>2. emptied \in SUBSET PanesShowing(c)
  BY <1>1
<1>3. DOMAIN views \ (PanesShowing(c) \ emptied) # {}
  <2>1. PanesShowing(c) \subseteq DOMAIN views
    BY DEF PanesShowing
  <2>. QED
    BY <1>1, <2>1
<1>4. PICK out, dropped, kept :
        /\ out = emptied /\ dropped = PanesShowing(c) \ out
        /\ kept = {p \in DOMAIN layout.leaves : layout.leaves[p] \notin dropped}
  OBVIOUS
<1>5. /\ layout' = Pruned(layout, kept)
      /\ views' = [v \in DOMAIN views \ dropped |-> IF v \in out THEN Nowhere ELSE views[v]]
      /\ active' = IF active \in DOMAIN views' THEN active ELSE Head(paneOrder(layout'))
      /\ minted' = minted /\ held' \subseteq held
  BY <1>4 DEF DropPanesOn
<1>6. emptied # {} => PanesShowing(c) = DOMAIN views
  OBVIOUS
<1>. HIDE DEF emptied
<1>. QED
  BY <1>2, <1>3, <1>4, <1>5, <1>6

LEMMA RemoveLook == ASSUME LookInv, NEW c \in Convs, RemoveConversation(c) PROVE LookInv'
<1>1. WindowOK /\ DropPanesOn(c) /\ Saved /\ ready' /\ there' \subseteq Convs
  BY DEF RemoveConversation, Follows, LookInv, WindowOK
<1>2. CASE PanesShowing(c) = {}
  <2>1. WindowOK'
    BY <1>1, <1>2, SameWindow DEF DropPanesOn, window
  <2>. QED
    BY <1>1, <2>1, AwakeKeeps
<1>3. CASE PanesShowing(c) # {}
  <2>1. /\ Grown(layout) /\ Single(layout) /\ OnLeaves(layout) = DOMAIN views
    BY <1>1, <1>3 DEF PanesShowing, WindowOK, TreeOrEmpty
  <2>2. PICK emptied, dropped, kept :
           /\ emptied \subseteq PanesShowing(c)
           /\ emptied # {} => PanesShowing(c) = DOMAIN views
           /\ dropped = PanesShowing(c) \ emptied
           /\ kept = {p \in DOMAIN layout.leaves : layout.leaves[p] \notin dropped}
           /\ layout' = Pruned(layout, kept)
           /\ views' = [v \in DOMAIN views \ dropped |-> IF v \in emptied THEN Nowhere ELSE views[v]]
           /\ active' = IF active \in DOMAIN views' THEN active ELSE Head(paneOrder(layout'))
           /\ minted' = minted /\ held' \subseteq held
           /\ DOMAIN views \ dropped # {}
    BY <1>1, <1>3, DropIs, Zenon
  <2>3. {layout.leaves[q] : q \in kept} = DOMAIN views \ dropped
    BY <2>1, <2>2 DEF OnLeaves
  <2>4. kept \in SUBSET DOMAIN layout.leaves /\ kept # {}
    BY <2>2, <2>3
  <2>5. Grown(layout') /\ Single(layout') /\ OnLeaves(layout') = DOMAIN views \ dropped
    BY <2>1, <2>2, <2>3, <2>4, PrunedIsGrown
  <2>6. DOMAIN views' = DOMAIN views \ dropped /\ \A v \in DOMAIN views' : views'[v] \in Targets
    BY <1>1, <2>2, NowhereIs DEF WindowOK
  <2>7. active' \in DOMAIN views'
    BY <2>2, <2>5, <2>6, HeadIn
  <2>8. WindowOK'
    BY <1>1, <2>2, <2>5, <2>6, <2>7 DEF WindowOK, TreeOrEmpty
  <2>. QED
    BY <1>1, <2>8, AwakeKeeps
<1>. QED
  BY <1>2, <1>3

\* A view that is there shows something else, or nothing.
LEMMA OthersShown ==
  ASSUME WindowOK, there' \subseteq Convs, UNCHANGED <<layout, active, minted>>,
         DOMAIN views' = DOMAIN views, \A v \in DOMAIN views : views'[v] \in Targets
  PROVE  WindowOK'
BY DEF WindowOK, TreeOrEmpty

LEMMA RenameLook ==
  ASSUME LookInv, NEW from \in Queries, NEW to \in Queries, Rename(from, to)
  PROVE  LookInv'
<1>1. /\ WindowOK /\ Saved /\ ready' /\ UNCHANGED <<layout, active, minted>>
      /\ views' = [v \in DOMAIN views |-> IF views[v] = Target(from) THEN Target(to) ELSE views[v]]
      /\ there' = (there \ {from}) \cup {to} /\ there \subseteq Convs
  BY DEF Rename, Follows, LookInv, WindowOK
<1>2. to \in Convs
  BY PanesAssumption
<1>3. WindowOK'
  <2>1. Target(to) \in Targets
    BY <1>2, TargetOf
  <2>2. there' \subseteq Convs
    BY <1>1, <1>2
  <2>3. DOMAIN views' = DOMAIN views /\ \A v \in DOMAIN views : views'[v] \in Targets
    BY <1>1, <2>1 DEF WindowOK
  <2>. QED
    BY <1>1, <2>2, <2>3, OthersShown
<1>. QED
  BY <1>1, <1>3, AwakeKeeps

LEMMA RemoveNetworkLook == ASSUME LookInv, NEW n, RemoveNetwork(n) PROVE LookInv'
<1>1. /\ WindowOK /\ Saved /\ ready' /\ UNCHANGED <<layout, active, minted>>
      /\ DOMAIN views' = DOMAIN views /\ there' \subseteq Convs
      /\ \A v \in DOMAIN views : views'[v] \in {views[v], Nowhere}
  BY DEF RemoveNetwork, Follows, LookInv, WindowOK
<1>2. \A v \in DOMAIN views : views'[v] \in Targets
  BY <1>1, NowhereIs DEF WindowOK
<1>3. WindowOK'
  BY <1>1, <1>2, OthersShown
<1>. QED
  BY <1>1, <1>3, AwakeKeeps

\* A restored layout is of fresh ids in the order the panes are read, the reader in
\* the first.
LEMMA RestoreIs ==
  ASSUME LookInv, NEW cs \in SUBSET Convs, Restorable(cs), RestoreLayout(cs), there' \subseteq Convs
  PROVE  WindowOK'
<1>. DEFINE kept == {p \in DOMAIN stored.leaves : Exists(cs, stored.leaves[p])}
            tree == Pruned(stored, kept)
            id == [p \in DOMAIN tree.leaves |-> minted + Place(tree, p)]
            n == Cardinality(DOMAIN tree.leaves)
<1>1. /\ minted' = minted + n /\ active' = minted + 1
      /\ layout' = [tree EXCEPT !.leaves = id]
      /\ views' = [v \in {id[p] : p \in DOMAIN id} |->
                     tree.leaves[CHOOSE p \in DOMAIN id : id[p] = v]]
  BY DEF RestoreLayout
<1>2. minted \in Nat /\ Grown(stored) /\ OnLeaves(stored) \subseteq Targets
  BY DEF LookInv, WindowOK, StoredIsTree, Restorable
<1>3. kept \in SUBSET DOMAIN stored.leaves /\ kept # {}
  BY DEF Restorable
<1>4. Grown(tree) /\ OnLeaves(tree) \subseteq Targets
  <2>1. Grown(tree) /\ OnLeaves(tree) = {stored.leaves[q] : q \in kept}
    <3>. HIDE DEF kept
    <3>. QED
      BY <1>2, <1>3, PrunedIsGrown
  <2>2. {stored.leaves[q] : q \in kept} \subseteq OnLeaves(stored)
    BY DEF OnLeaves
  <2>. QED
    BY <1>2, <2>1, <2>2
<1>. HIDE DEF tree, kept
<1>5. n \in Nat \ {0} /\ \A p \in DOMAIN tree.leaves : Place(tree, p) \in 1..n
  BY <1>4, OrderIs
<1>6. DOMAIN id = DOMAIN tree.leaves /\ \A p \in DOMAIN id : id[p] = minted + Place(tree, p)
  OBVIOUS
<1>. HIDE DEF id, n
<1>7. \A p \in DOMAIN id : id[p] \in 1..minted'
  BY <1>1, <1>2, <1>5, <1>6
<1>8. \A p, q \in DOMAIN id : id[p] = id[q] => p = q
  <2>. SUFFICES ASSUME NEW p \in DOMAIN id, NEW q \in DOMAIN id, id[p] = id[q]
                PROVE  p = q
    OBVIOUS
  <2>1. Place(tree, p) = Place(tree, q)
    BY <1>2, <1>5, <1>6
  <2>. QED
    BY <2>1, <1>4, <1>6, PlaceSingle
<1>9. Grown(layout') /\ layout'.leaves = id
  BY <1>1, <1>4, <1>6, LeavesAreGrown
<1>10. DOMAIN views' = OnLeaves(layout') /\ Single(layout')
  BY <1>1, <1>8, <1>9 DEF OnLeaves, Single
<1>11. active' \in DOMAIN views'
  <2>1. PICK p \in DOMAIN tree.leaves : Place(tree, p) = 1
    <3>1. 1 \in 1..n
      BY <1>5
    <3>. QED
      BY <3>1, <1>4, PlaceTaken DEF n
  <2>2. id[p] = active' /\ p \in DOMAIN id
    BY <2>1, <1>1, <1>6
  <2>. QED
    BY <2>2, <1>1
<1>12. \A v \in DOMAIN views' : views'[v] \in Targets
  <2>. SUFFICES ASSUME NEW p \in DOMAIN id
                PROVE  views'[id[p]] \in Targets
    BY <1>1
  <2>1. views'[id[p]] = tree.leaves[p]
    BY <1>1, <1>8
  <2>. QED
    BY <2>1, <1>4, <1>6 DEF OnLeaves
<1>13. minted' \in Nat /\ DOMAIN views' \subseteq 1..minted'
  BY <1>1, <1>2, <1>5, <1>7
<1>. QED
  BY <1>9, <1>10, <1>11, <1>12, <1>13 DEF WindowOK, TreeOrEmpty

LEMMA StartLook == ASSUME LookInv, NEW cs \in SUBSET Convs, Start(cs) PROVE LookInv'
<1>1. /\ ready' /\ Saved /\ there' \subseteq Convs
      /\ \/ Restorable(cs) /\ RestoreLayout(cs)
         \/ OpenIfEmpty(cs)
  BY DEF Start, Follows
<1>2. WindowOK'
  BY <1>1, RestoreIs, OpenLook
<1>. QED
  BY <1>1, <1>2, AwakeKeeps

LEMMA RelaunchLook == ASSUME LookInv, Relaunch PROVE LookInv'
<1>1. /\ layout' = None /\ DOMAIN views' = {} /\ active' = None /\ minted' = 0
      /\ stored' = stored /\ there' = {}
  BY DEF Relaunch
<1>. QED
  BY <1>1 DEF LookInv, WindowOK, TreeOrEmpty, StoredIsTree, AsleepIsEmpty

LEMMA LookInit == Init => LookInv
<1>. SUFFICES ASSUME Init
              PROVE  LookInv
  OBVIOUS
<1>1. minted = 0 /\ DOMAIN views = {} /\ layout = None /\ stored = None /\ active = None /\ there = {}
  BY DEF Init
<1>. QED
  BY <1>1 DEF LookInv, WindowOK, TreeOrEmpty, StoredIsTree, AsleepIsEmpty

\* Every step of the window, and none at all.
LEMMA LookStep == LookInv /\ TrailInv /\ [Next]_vars => LookInv'
<1>. SUFFICES ASSUME LookInv, TrailInv, [Next]_vars
              PROVE  LookInv'
  OBVIOUS
<1>1. ASSUME NEW c \in Convs,
             Show(c) \/ Go(c) \/ Arrive(c) \/ Update(c) \/ RemoveConversation(c)
      PROVE  LookInv'
  BY <1>1, ShowLook, GoLook, ArriveLook, UpdateLook, RemoveLook
<1>2. ASSUME NEW delta \in {-1, 1}, Travel(delta)
      PROVE  LookInv'
  BY <1>2, TravelLook
<1>3. ASSUME NEW direction \in Directions, splitActiveView(direction)
      PROVE  LookInv'
  BY <1>3, SplitLook
<1>4. ASSUME NEW id \in DOMAIN views, closeView(id) \/ focusView(id)
      PROVE  LookInv'
  BY <1>4, CloseLook, FocusLook
<1>5. ASSUME NEW node \in IF layout = None THEN {} ELSE DOMAIN layout.splits, NEW ratio \in Ratios,
             setSplitRatio(node, ratio)
      PROVE  LookInv'
  <2>1. layout # None
    BY <1>5
  <2>. QED
    BY <2>1, <1>5, RatioLook
<1>6. ASSUME NEW kind \in Kinds, NEW id \in DOMAIN views, Hold(kind, id)
      PROVE  LookInv'
  BY <1>6, HoldLook
<1>7. ASSUME NEW from \in Queries, NEW to \in Queries, Rename(from, to)
      PROVE  LookInv'
  BY <1>7, RenameLook
<1>8. ASSUME NEW n \in Nets, RemoveNetwork(n)
      PROVE  LookInv'
  BY <1>8, RemoveNetworkLook
<1>9. ASSUME NEW cs \in SUBSET Convs, Start(cs)
      PROVE  LookInv'
  BY <1>9, StartLook
<1>10. CASE UNCHANGED vars
  BY <1>10, SameLook DEF vars, window, after, world
<1>11. ASSUME NEW h \in held, ActOnJump(h)
       PROVE  LookInv'
  BY <1>11, JumpLook
<1>. QED
  BY <1>1, <1>2, <1>3, <1>4, <1>5, <1>6, <1>7, <1>8, <1>9, <1>10, <1>11, RelaunchLook DEF Next

-----------------------------------------------------------------------------
(* The trail.                                                              *)

\* What is recorded is where the reader is.
LEMMA RecordedKeeps ==
  ASSUME WindowOK, WindowOK', TrailInv, Recorded
  PROVE  TrailInv'
<1>. DEFINE key == Focused'.conv
            past == SubSeq(trail.entries, 1, trail.index) \o <<key>>
            kept == IF Len(past) > HISTORY_CAP THEN Tail(past) ELSE past
<1>1. /\ trail.entries \in Seq(Convs) /\ trail.index \in 0..Len(trail.entries)
      /\ Len(trail.entries) \in Nat /\ trail.index \in Nat
  BY LenProperties DEF TrailInv
<1>2. Focused \in Targets
  BY ActiveIs
<1>3. Focused' \in Targets
  <2>1. ActiveTarget(views', active') \in Targets
    <3>1. active' \in DOMAIN views' \/ active' = None
      BY DEF WindowOK, TreeOrEmpty
    <3>. QED
      BY <3>1, NowhereIs DEF WindowOK, ActiveTarget
  <2>. QED
    BY <2>1 DEF Focused
<1>4. CASE Focused' = Nowhere \/ Focused = Focused'
  <2>1. UNCHANGED <<trail, traversing>>
    BY <1>4 DEF Recorded, Focused
  <2>2. HistoryNamesActive'
    BY <1>4, <2>1 DEF TrailInv, HistoryNamesActive
  <2>. QED
    BY <2>1, <2>2 DEF TrailInv
<1>5. CASE Focused' # Nowhere /\ Focused # Focused'
  <2>1. /\ traversing' = FALSE
        /\ trail' = IF trail.index > 0 /\ trail.entries[trail.index] = key
                    THEN trail ELSE [entries |-> kept, index |-> Len(kept)]
    BY <1>5 DEF Recorded, Focused, TrailInv
  <2>2. key \in Convs
    BY <1>3, <1>5, TargetIs
  <2>3. CASE trail.index > 0 /\ trail.entries[trail.index] = key
    BY <2>1, <2>3 DEF TrailInv, HistoryNamesActive
  <2>4. CASE ~(trail.index > 0 /\ trail.entries[trail.index] = key)
    <3>. DEFINE start == SubSeq(trail.entries, 1, trail.index)
    <3>1. /\ start \in Seq(Convs) /\ Len(start) = trail.index
          /\ \A i \in 1..trail.index : start[i] = trail.entries[i]
      <4>1. \A i \in 1..trail.index : trail.entries[i] \in Convs
        BY <1>1, ElementOfSeq
      <4>. QED
        BY <4>1, <1>1, SubSeqProperties
    <3>2. PICK n \in Nat : n = trail.index
      BY <1>1
    <3>. HIDE DEF start, key
    <3>3. <<key>> \in Seq(Convs) /\ Len(<<key>>) = 1 /\ <<key>>[1] = key
      BY <2>2
    <3>4. /\ past \in Seq(Convs) /\ Len(past) = n + 1 /\ past[n + 1] = key
          /\ \A i \in 1..n : past[i] = trail.entries[i]
      <4>1. past = start \o <<key>>
        BY DEF start
      <4>2. /\ start \o <<key>> \in Seq(Convs) /\ Len(start \o <<key>>) = n + 1
            /\ \A i \in 1..(n + 1) : (start \o <<key>>)[i] = IF i <= n THEN start[i] ELSE <<key>>[i - n]
        BY <3>1, <3>2, <3>3, ConcatProperties
      <4>. HIDE DEF past
      <4>3. past \in Seq(Convs) /\ Len(past) = n + 1
        BY <4>1, <4>2
      <4>4. past[n + 1] = key
        <5>1. n + 1 \in 1..(n + 1) /\ ~(n + 1 <= n) /\ (n + 1) - n = 1
          OBVIOUS
        <5>. QED
          BY <4>1, <4>2, <3>3, <5>1
      <4>5. ASSUME NEW i \in 1..n
            PROVE  past[i] = trail.entries[i]
        <5>1. i \in 1..(n + 1) /\ i <= n /\ i \in 1..trail.index
          BY <3>2
        <5>. QED
          BY <4>1, <4>2, <3>1, <5>1
      <4>. QED
        BY <4>3, <4>4, <4>5
    <3>5. \A i \in 1..n : past[i] # past[i + 1]
      <4>. SUFFICES ASSUME NEW i \in 1..n
                    PROVE  past[i] # past[i + 1]
        OBVIOUS
      <4>. HIDE DEF past
      <4>1. CASE i = n
        BY <4>1, <3>2, <3>4, <2>4
      <4>2. CASE i # n
        <5>1. i \in 1..(Len(trail.entries) - 1) /\ i + 1 \in 1..n
          BY <4>2, <3>2, <1>1
        <5>. QED
          BY <5>1, <3>4 DEF TrailInv
      <4>. QED
        BY <4>1, <4>2
    <3>6. /\ kept \in Seq(Convs) /\ Len(kept) \in Nat \ {0} /\ kept[Len(kept)] = key
          /\ \A i \in 1..(Len(kept) - 1) : kept[i] # kept[i + 1]
      <4>. HIDE DEF past
      <4>1. CASE Len(past) > HISTORY_CAP
        <5>1. past # <<>> /\ n > 0
          BY <4>1, <3>4, PanesAssumption, EmptySeq
        <5>2. /\ Tail(past) \in Seq(Convs) /\ Len(Tail(past)) = n
              /\ \A i \in 1..n : Tail(past)[i] = past[i + 1]
          BY <5>1, <3>4, HeadTailProperties
        <5>. HIDE DEF kept
        <5>3. kept = Tail(past)
          BY <4>1 DEF kept
        <5>4. \A i \in 1..(n - 1) : i + 1 \in 1..n /\ i \in 1..n
          OBVIOUS
        <5>. QED
          BY <5>1, <5>2, <5>3, <5>4, <3>4, <3>5
      <4>2. CASE ~(Len(past) > HISTORY_CAP)
        BY <4>2, <3>4, <3>5
      <4>. QED
        BY <4>1, <4>2
    <3>. HIDE DEF past, kept
    <3>7. trail' = [entries |-> kept, index |-> Len(kept)]
      BY <2>1, <2>4
    <3>8. HistoryNamesActive'
      BY <3>6, <3>7 DEF HistoryNamesActive, key
    <3>. QED
      BY <2>1, <3>6, <3>7, <3>8 DEF TrailInv
  <2>. QED
    BY <2>3, <2>4
<1>. QED
  BY <1>4, <1>5

\* Alt+Left and Alt+Right always move: no step of the trail stands still.
LEMMA TravelTrail ==
  ASSUME LookInv, LookInv', TrailInv, NEW delta \in {-1, 1}, Travel(delta)
  PROVE  TrailInv'
<1>0. PICK next \in Int : next = trail.index + delta
  BY LenProperties DEF TrailInv
<1>1. PICK key : key = trail.entries[next]
  OBVIOUS
<1>2. /\ next \in DOMAIN trail.entries /\ setActive(FoldedTarget(key))
      /\ trail' = [trail EXCEPT !.index = next]
      /\ traversing' = (Focused' = Focused)
  BY <1>0, <1>1 DEF Travel, Focused
<1>3. key \in Convs
  BY <1>0, <1>1, <1>2, TravelTarget
<1>4. WindowOK /\ there' \subseteq Convs
  BY DEF LookInv, WindowOK
<1>5. Focused' = FoldedTarget(key) /\ Focused'.conv = key
  BY <1>2, <1>3, <1>4, SetActiveIs, TargetOf
<1>6. /\ trail.entries \in Seq(Convs) /\ trail.index \in 0..Len(trail.entries)
      /\ Len(trail.entries) \in Nat /\ DOMAIN trail.entries = 1..Len(trail.entries)
  BY LenProperties DEF TrailInv
<1>7. Focused' # Focused
  <2>1. CASE Focused = Nowhere
    BY <2>1, <1>3, <1>5, TargetOf
  <2>2. CASE Focused # Nowhere
    <3>1. trail.index > 0 /\ trail.entries[trail.index] = Focused.conv
      BY <2>2 DEF TrailInv, HistoryNamesActive
    <3>2. trail.entries[trail.index] # key
      <4>1. CASE delta = 1
        BY <4>1, <1>0, <1>1, <1>2, <1>6, <3>1 DEF TrailInv
      <4>2. CASE delta = -1
        <5>1. next \in 1..(Len(trail.entries) - 1) /\ trail.index = next + 1
          BY <4>2, <1>0, <1>2, <1>6
        <5>. QED
          BY <5>1, <1>1 DEF TrailInv
      <4>. QED
        BY <4>1, <4>2
    <3>. QED
      BY <3>1, <3>2, <1>5
  <2>. QED
    BY <2>1, <2>2
<1>8. trail' = [entries |-> trail.entries, index |-> next]
  BY <1>2 DEF TrailInv
<1>9. HistoryNamesActive'
  BY <1>1, <1>2, <1>5, <1>6, <1>8 DEF HistoryNamesActive
<1>10. traversing' = FALSE
  BY <1>2, <1>7
<1>11. trail'.entries = trail.entries /\ trail'.index = next /\ next \in 0..Len(trail.entries)
  BY <1>2, <1>6, <1>8
<1>. QED
  BY <1>6, <1>8, <1>9, <1>10, <1>11 DEF TrailInv

\* Nothing that is said of the trail has changed.
LEMMA SameTrail ==
  ASSUME TrailInv, UNCHANGED <<trail, traversing, views, active>>
  PROVE  TrailInv'
BY DEF TrailInv, HistoryNamesActive, Focused, ActiveTarget

\* No trail yet, and nowhere to be.
LEMMA NoTrail ==
  ASSUME active = None, trail = [entries |-> <<>>, index |-> 0], traversing = FALSE
  PROVE  TrailInv
<1>1. <<>> \in Seq(Convs) /\ Len(<<>>) = 0
  BY EmptySeq
<1>2. Focused = Nowhere
  BY DEF Focused, ActiveTarget
<1>. QED
  BY <1>1, <1>2 DEF TrailInv, HistoryNamesActive

LEMMA RelaunchTrail == ASSUME Relaunch PROVE TrailInv'
<1>1. active' = None /\ trail' = [entries |-> <<>>, index |-> 0] /\ traversing' = FALSE
  BY DEF Relaunch
<1>2. <<>> \in Seq(Convs) /\ Len(<<>>) = 0
  BY EmptySeq
<1>3. Focused' = Nowhere
  BY <1>1 DEF Focused, ActiveTarget
<1>. QED
  BY <1>1, <1>2, <1>3 DEF TrailInv, HistoryNamesActive

LEMMA TrailInit == Init => TrailInv
BY NoTrail DEF Init

\* Every step but Alt+Left and those that touch no pane records where the reader is.
LEMMA TrailStep == LookInv /\ LookInv' /\ TrailInv /\ [Next]_vars => TrailInv'
<1>. SUFFICES ASSUME LookInv, LookInv', TrailInv, [Next]_vars
              PROVE  TrailInv'
  OBVIOUS
<1>1. WindowOK /\ WindowOK'
  BY DEF LookInv
<1>2. ASSUME Follows
      PROVE  TrailInv'
  BY <1>1, <1>2, RecordedKeeps DEF Follows
<1>3. ASSUME NEW c \in Convs,
             Show(c) \/ Go(c) \/ Update(c) \/ RemoveConversation(c)
      PROVE  Follows
  BY <1>3 DEF Show, Go, Update, RemoveConversation
<1>4. ASSUME NEW c \in Convs, Arrive(c)
      PROVE  TrailInv'
  BY <1>4, SameTrail DEF Arrive, window, after
<1>5. ASSUME NEW delta \in {-1, 1}, Travel(delta)
      PROVE  TrailInv'
  BY <1>5, TravelTrail
<1>6. ASSUME NEW id \in DOMAIN views, closeView(id) \/ focusView(id)
      PROVE  Follows
  BY <1>6 DEF closeView, focusView
<1>7. ASSUME NEW kind \in Kinds, NEW id \in DOMAIN views, Hold(kind, id)
      PROVE  TrailInv'
  BY <1>7, SameTrail DEF Hold, after
<1>8. CASE UNCHANGED vars
  BY <1>8, SameTrail DEF vars, window, after
<1>9. ASSUME NEW direction \in Directions, splitActiveView(direction)
      PROVE  Follows
  BY <1>9 DEF splitActiveView
<1>10. ASSUME NEW node, NEW ratio \in Ratios, setSplitRatio(node, ratio)
       PROVE  Follows
  BY <1>10 DEF setSplitRatio
<1>11. ASSUME NEW from \in Queries, NEW to \in Queries, Rename(from, to)
       PROVE  Follows
  BY <1>11 DEF Rename
<1>12. ASSUME NEW n \in Nets, RemoveNetwork(n)
       PROVE  Follows
  BY <1>12 DEF RemoveNetwork
<1>13. ASSUME NEW cs \in SUBSET Convs, Start(cs)
       PROVE  Follows
  BY <1>13 DEF Start
<1>14. ASSUME NEW h \in held, ActOnJump(h)
       PROVE  TrailInv'
  BY <1>14, SameTrail DEF ActOnJump, after
<1>. QED
  BY <1>2, <1>3, <1>4, <1>5, <1>6, <1>7, <1>8, <1>9, <1>10, <1>11, <1>12, <1>13, <1>14, RelaunchTrail DEF Next

-----------------------------------------------------------------------------
(* What a pane holds. NothingCarriedOver is not inductive: that a new pane *)
(* finds nothing held in its name needs ids that are fresh, those of a     *)
(* restored layout too.                                                    *)

IsHeld(h) == h = [kind |-> h.kind, view |-> h.view, conv |-> h.conv]

HeldInv ==
    /\ \A h \in held : IsHeld(h) /\ h.view \in 1..minted
    /\ NothingCarriedOver
    /\ ~ready => held = {}

\* Nothing new is held, and each pane is one of before that shows what it showed or
\* nothing, a new one, or one for which nothing of a conversation is held any more.
Shown(v) ==
    \/ v \in DOMAIN views /\ views'[v] \in {views[v], Nowhere}
    \/ v \in (minted + 1)..minted'
    \/ v \in DOMAIN views /\ \A h \in held' : h.view = v => h.kind \notin OfConversation

LEMMA NothingNew ==
  ASSUME LookInv, LookInv', HeldInv, minted <= minted', held' \subseteq held,
         \A v \in DOMAIN views' : Shown(v),
         ready' \/ ready' = ready
  PROVE  HeldInv'
<1>1. minted \in Nat /\ minted' \in Nat
  BY DEF LookInv, WindowOK
<1>2. \A v \in 1..minted : v \in 1..minted'
  BY <1>1
<1>3. \A h \in held' : IsHeld(h) /\ h.view \in 1..minted'
  BY <1>2 DEF HeldInv
<1>4. NothingCarriedOver'
  <2>. SUFFICES ASSUME NEW h \in held', h.kind \in OfConversation, h.view \in DOMAIN views'
                PROVE  views'[h.view] = Nowhere \/ views'[h.view].conv = h.conv
    BY DEF NothingCarriedOver
  <2>1. h \in held /\ h.view \in 1..minted
    BY DEF HeldInv
  <2>2. h.view \notin (minted + 1)..minted'
    BY <2>1, <1>1
  <2>3. h.view \in DOMAIN views /\ views'[h.view] \in {views[h.view], Nowhere}
    BY <2>2 DEF Shown
  <2>. QED
    BY <2>1, <2>3 DEF HeldInv, NothingCarriedOver
<1>5. ~ready' => held' = {}
  BY DEF HeldInv
<1>. QED
  BY <1>3, <1>4, <1>5 DEF HeldInv

\* Nothing that is said of what is held has changed.
LEMMA SameHeld ==
  ASSUME HeldInv, UNCHANGED <<held, views, minted>>, ready' \/ ready' = ready
  PROVE  HeldInv'
BY DEF HeldInv, NothingCarriedOver

\* The first view has an id that nothing is held for.
LEMMA FirstViewHeld ==
  ASSUME LookInv, LookInv', HeldInv, NEW t, OpenFirstView(t), ready'
  PROVE  HeldInv'
<1>1. /\ minted \in Nat /\ minted' = minted + 1 /\ held' = held /\ DOMAIN views' = {minted'}
  BY DEF OpenFirstView, LookInv, WindowOK
<1>2. minted' \in (minted + 1)..minted' /\ minted <= minted'
  BY <1>1
<1>3. \A v \in DOMAIN views' : Shown(v)
  BY <1>1, <1>2 DEF Shown
<1>. QED
  BY <1>1, <1>2, <1>3, NothingNew

\* A pane that is sent elsewhere drops what it held for where it was.
LEMMA SetActiveHeld ==
  ASSUME LookInv, LookInv', HeldInv, NEW t, setActive(t), ready'
  PROVE  HeldInv'
<1>1. ASSUME NEW one, OpenFirstView(one)
      PROVE  HeldInv'
  BY <1>1, FirstViewHeld
<1>2. ASSUME active # None, Retargeted(active, t), UNCHANGED <<layout, minted>>
      PROVE  HeldInv'
  <2>1. DOMAIN views' = DOMAIN views /\ held' \subseteq held /\ minted \in Nat
    BY <1>2 DEF Retargeted, LookInv, WindowOK
  <2>2. \A v \in DOMAIN views' : Shown(v)
    <3>. SUFFICES ASSUME NEW v \in DOMAIN views
                  PROVE  Shown(v)
      BY <2>1
    <3>1. CASE v # active
      BY <3>1, <1>2 DEF Retargeted, Shown
    <3>2. CASE v = active /\ views[active] = t
      BY <3>2, <1>2 DEF Retargeted, Shown
    <3>3. CASE v = active /\ views[active] # t
      BY <3>3, <1>2 DEF Retargeted, Shown
    <3>. QED
      BY <3>1, <3>2, <3>3
  <2>. QED
    BY <1>2, <2>1, <2>2, NothingNew
<1>. QED
  BY <1>1, <1>2 DEF setActive

\* Views that are there, or fewer of them, showing what they showed or nothing.
LEMMA FewerHeld ==
  ASSUME LookInv, LookInv', HeldInv, minted' = minted, held' \subseteq held,
         DOMAIN views' \subseteq DOMAIN views,
         \A v \in DOMAIN views' : views'[v] \in {views[v], Nowhere},
         ready' \/ ready' = ready
  PROVE  HeldInv'
<1>1. minted <= minted' /\ \A v \in DOMAIN views' : Shown(v)
  BY DEF Shown, LookInv, WindowOK
<1>. QED
  BY <1>1, NothingNew

LEMMA SplitHeld ==
  ASSUME LookInv, LookInv', HeldInv, NEW direction, splitActiveView(direction)
  PROVE  HeldInv'
<1>1. /\ minted \in Nat /\ minted' = minted + 1 /\ held' = held /\ ready' = ready
      /\ DOMAIN views' = DOMAIN views \cup {minted'}
      /\ \A v \in DOMAIN views : v # minted' => views'[v] = views[v]
  BY DEF splitActiveView, LookInv, WindowOK
<1>2. minted' \in (minted + 1)..minted' /\ minted <= minted'
  BY <1>1
<1>3. \A v \in DOMAIN views' : Shown(v)
  BY <1>1, <1>2 DEF Shown
<1>. QED
  BY <1>1, <1>2, <1>3, NothingNew

LEMMA CloseHeld ==
  ASSUME LookInv, LookInv', HeldInv, NEW id, closeView(id)
  PROVE  HeldInv'
BY FewerHeld DEF closeView

LEMMA HoldHeld ==
  ASSUME LookInv, HeldInv, NEW kind \in Kinds, NEW id, Hold(kind, id)
  PROVE  HeldInv'
<1>. DEFINE one == [kind |-> kind, view |-> id, conv |-> views[id].conv]
<1>1. /\ id \in DOMAIN views /\ views[id] # Nowhere /\ held' \subseteq held \cup {one}
      /\ UNCHANGED <<ready, views, minted>>
  BY DEF Hold
<1>2. ready /\ id \in 1..minted
  BY <1>1, PaneIsThere DEF LookInv, WindowOK
<1>. HIDE DEF one
<1>3. IsHeld(one) /\ one.view = id /\ one.conv = views[id].conv
  BY DEF one, IsHeld
<1>4. \A h \in held' : IsHeld(h) /\ h.view \in 1..minted
  BY <1>1, <1>2, <1>3 DEF HeldInv
<1>5. NothingCarriedOver'
  BY <1>1, <1>3 DEF HeldInv, NothingCarriedOver
<1>. QED
  BY <1>1, <1>2, <1>4, <1>5 DEF HeldInv

LEMMA JumpHeld == ASSUME LookInv, LookInv', HeldInv, NEW h, ActOnJump(h) PROVE HeldInv'
BY FewerHeld DEF ActOnJump

LEMMA RemoveHeld ==
  ASSUME LookInv, LookInv', HeldInv, NEW c \in Convs, RemoveConversation(c)
  PROVE  HeldInv'
<1>1. WindowOK /\ DropPanesOn(c) /\ ready'
  BY DEF RemoveConversation, LookInv
<1>2. CASE PanesShowing(c) = {}
  BY <1>1, <1>2, SameHeld DEF DropPanesOn, window
<1>3. CASE PanesShowing(c) # {}
  <2>1. PICK emptied, dropped, kept :
           /\ emptied \subseteq PanesShowing(c)
           /\ emptied # {} => PanesShowing(c) = DOMAIN views
           /\ dropped = PanesShowing(c) \ emptied
           /\ kept = {p \in DOMAIN layout.leaves : layout.leaves[p] \notin dropped}
           /\ layout' = Pruned(layout, kept)
           /\ views' = [v \in DOMAIN views \ dropped |-> IF v \in emptied THEN Nowhere ELSE views[v]]
           /\ active' = IF active \in DOMAIN views' THEN active ELSE Head(paneOrder(layout'))
           /\ minted' = minted /\ held' \subseteq held
           /\ DOMAIN views \ dropped # {}
    BY <1>1, <1>3, DropIs, Zenon
  <2>. QED
    BY <1>1, <2>1, FewerHeld
<1>. QED
  BY <1>2, <1>3

LEMMA RenameHeld ==
  ASSUME LookInv, HeldInv, NEW from, NEW to, Rename(from, to)
  PROVE  HeldInv'
<1>. DEFINE moved(h) == IF views[h.view] = Target(from) THEN [h EXCEPT !.conv = to] ELSE h
            shown == {g \in held : g.view \in DOMAIN views}
<1>1. /\ ready' /\ UNCHANGED <<layout, active, minted>>
      /\ views' = [v \in DOMAIN views |-> IF views[v] = Target(from) THEN Target(to) ELSE views[v]]
      /\ held' = {moved(h) : h \in shown}
  BY DEF Rename
<1>2. \A h \in shown : /\ moved(h).kind = h.kind /\ moved(h).view = h.view /\ IsHeld(moved(h))
                       /\ views[h.view] = Target(from) => moved(h).conv = to
                       /\ views[h.view] # Target(from) => moved(h).conv = h.conv
  BY <1>1 DEF HeldInv, IsHeld
<1>3. Target(to).conv = to
  BY DEF Target
<1>4. \A h \in shown : h \in held /\ h.view \in DOMAIN views /\ h.view \in 1..minted
  BY <1>1 DEF HeldInv
<1>. HIDE DEF moved, shown
<1>5. \A h \in held' : IsHeld(h) /\ h.view \in 1..minted'
  BY <1>1, <1>2, <1>4
<1>6. NothingCarriedOver'
  <2>. SUFFICES ASSUME NEW g \in shown, g.kind \in OfConversation
                PROVE  views'[g.view] = Nowhere \/ views'[g.view].conv = moved(g).conv
    BY <1>1, <1>2 DEF NothingCarriedOver
  <2>1. CASE views[g.view] = Target(from)
    BY <2>1, <1>1, <1>2, <1>3, <1>4
  <2>2. CASE views[g.view] # Target(from)
    BY <2>2, <1>1, <1>2, <1>4 DEF HeldInv, NothingCarriedOver
  <2>. QED
    BY <2>1, <2>2
<1>. QED
  BY <1>1, <1>5, <1>6 DEF HeldInv

LEMMA StartHeld ==
  ASSUME LookInv, LookInv', HeldInv, NEW cs, Start(cs)
  PROVE  HeldInv'
<1>1. /\ ~ready /\ ready'
      /\ \/ RestoreLayout(cs)
         \/ OpenIfEmpty(cs)
  BY DEF Start
<1>2. held' = {}
  BY <1>1 DEF RestoreLayout, OpenIfEmpty, OpenFirstView, window, HeldInv
<1>. QED
  BY <1>1, <1>2 DEF HeldInv, NothingCarriedOver

LEMMA HeldInit == Init => HeldInv
<1>. SUFFICES ASSUME Init
              PROVE  HeldInv
  OBVIOUS
<1>1. held = {}
  BY DEF Init
<1>. QED
  BY <1>1 DEF HeldInv, NothingCarriedOver

\* Every step of the window, and none at all.
LEMMA HeldStep == LookInv /\ LookInv' /\ HeldInv /\ [Next]_vars => HeldInv'
<1>. SUFFICES ASSUME LookInv, LookInv', HeldInv, [Next]_vars
              PROVE  HeldInv'
  OBVIOUS
<1>1. ASSUME NEW c \in Convs, Show(c)
      PROVE  HeldInv'
  <2>1. ready' /\ showTarget(Target(c))
    BY <1>1 DEF Show
  <2>2. CASE setActive(Target(c))
    BY <2>1, <2>2, SetActiveHeld
  <2>3. CASE UNCHANGED <<held, views, minted>>
    BY <2>1, <2>3, SameHeld
  <2>. QED
    BY <2>1, <2>2, <2>3 DEF showTarget
<1>2. ASSUME NEW c \in Convs, Go(c)
      PROVE  HeldInv'
  BY <1>2, SetActiveHeld DEF Go
<1>3. ASSUME NEW c \in Convs, Arrive(c)
      PROVE  HeldInv'
  BY <1>3, SameHeld DEF Arrive, window
<1>4. ASSUME NEW c \in Convs, Update(c)
      PROVE  HeldInv'
  <2>1. ready' /\ OpenIfEmpty(there')
    BY <1>4 DEF Update
  <2>. QED
    BY <2>1, FirstViewHeld, SameHeld DEF OpenIfEmpty, window
<1>5. ASSUME NEW delta \in {-1, 1}, Travel(delta)
      PROVE  HeldInv'
  <2>1. ready' /\ \E t : setActive(t)
    BY <1>5 DEF Travel
  <2>. QED
    BY <2>1, SetActiveHeld
<1>6. ASSUME NEW id \in DOMAIN views, focusView(id)
      PROVE  HeldInv'
  BY <1>6, SameHeld DEF focusView
<1>7. ASSUME NEW node, NEW ratio \in Ratios, setSplitRatio(node, ratio)
      PROVE  HeldInv'
  BY <1>7, SameHeld DEF setSplitRatio
<1>8. ASSUME NEW n \in Nets, RemoveNetwork(n)
      PROVE  HeldInv'
  <2>1. /\ ready' /\ minted' = minted /\ DOMAIN views' = DOMAIN views /\ held' \subseteq held
        /\ \A v \in DOMAIN views : views'[v] \in {views[v], Nowhere}
    BY <1>8 DEF RemoveNetwork
  <2>. QED
    BY <2>1, FewerHeld
<1>9. CASE Relaunch
  <2>1. held' = {}
    BY <1>9 DEF Relaunch
  <2>. QED
    BY <2>1 DEF HeldInv, NothingCarriedOver
<1>10. CASE UNCHANGED vars
  BY <1>10, SameHeld DEF vars, window
<1>11. ASSUME NEW c \in Convs, RemoveConversation(c)
       PROVE  HeldInv'
  BY <1>11, RemoveHeld
<1>12. ASSUME NEW direction \in Directions, splitActiveView(direction)
       PROVE  HeldInv'
  BY <1>12, SplitHeld
<1>13. ASSUME NEW id \in DOMAIN views, closeView(id)
       PROVE  HeldInv'
  BY <1>13, CloseHeld
<1>14. ASSUME NEW kind \in Kinds, NEW id \in DOMAIN views, Hold(kind, id)
       PROVE  HeldInv'
  BY <1>14, HoldHeld
<1>15. ASSUME NEW from \in Queries, NEW to \in Queries, Rename(from, to)
       PROVE  HeldInv'
  BY <1>15, RenameHeld
<1>16. ASSUME NEW cs \in SUBSET Convs, Start(cs)
       PROVE  HeldInv'
  BY <1>16, StartHeld
<1>17. ASSUME NEW h \in held, ActOnJump(h)
       PROVE  HeldInv'
  BY <1>17, JumpHeld
<1>. QED
  BY <1>1, <1>2, <1>3, <1>4, <1>5, <1>6, <1>7, <1>8, <1>9, <1>10, <1>11, <1>12, <1>13, <1>14,
     <1>15, <1>16, <1>17 DEF Next

-----------------------------------------------------------------------------
(* Leaving.                                                                *)

\* What the reader is on is still shown, or its seam is gone.
Keeps(c) == (\E v \in DOMAIN views' : views'[v].conv = c) \/ c \notin seam'

\* The focused pane keeps showing it.
LEMMA StillShown ==
  ASSUME LookInv, NEW c \in Convs, Focused = Target(c),
         active \in DOMAIN views => active \in DOMAIN views' /\ views'[active] = views[active]
  PROVE  Keeps(c)
<1>1. Target(c).conv = c /\ Target(c) # Nowhere
  BY TargetOf
<1>2. active \in DOMAIN views /\ Focused = views[active]
  BY <1>1, ActiveIs DEF LookInv
<1>. QED
  BY <1>1, <1>2 DEF Keeps

\* leftBehind: another pane shows it, or the seam goes.
LEMMA LeftBehindKeeps ==
  ASSUME NEW c \in Convs, Focused = Target(c), NEW t, LeftBehind(views', t),
         Focused = t => \E v \in DOMAIN views' : views'[v] = t
  PROVE  Keeps(c)
<1>1. Target(c).conv = c /\ Target(c) # Nowhere
  BY TargetOf
<1>2. CASE Focused = t \/ \E v \in DOMAIN views' : views'[v] = Focused
  BY <1>1, <1>2 DEF Keeps
<1>3. CASE ~(Focused = t \/ \E v \in DOMAIN views' : views'[v] = Focused)
  BY <1>1, <1>3 DEF Keeps, LeftBehind
<1>. QED
  BY <1>2, <1>3

LEMMA SetActiveLeaves ==
  ASSUME LookInv, NEW c \in Convs, Focused = Target(c), NEW t, t # Nowhere, setActive(t)
  PROVE  Keeps(c)
<1>1. active \in DOMAIN views /\ active # None
  BY TargetOf, ActiveIs DEF LookInv
<1>2. views' = [views EXCEPT ![active] = t] /\ LeftBehind(views', t)
  BY <1>1 DEF setActive, Retargeted
<1>3. active \in DOMAIN views' /\ views'[active] = t
  BY <1>1, <1>2
<1>. QED
  BY <1>2, <1>3, LeftBehindKeeps

LEMMA ShowLeaves ==
  ASSUME LookInv, NEW c \in Convs, Focused = Target(c), NEW d \in Convs, Show(d)
  PROVE  Keeps(c)
<1>1. showTarget(Target(d)) /\ Target(d) # Nowhere
  BY TargetOf DEF Show
<1>2. CASE setActive(Target(d))
  BY <1>1, <1>2, SetActiveLeaves
<1>3. CASE views' = views
  BY <1>3, StillShown
<1>. QED
  BY <1>1, <1>2, <1>3 DEF showTarget

LEMMA CloseLeaves ==
  ASSUME LookInv, NEW c \in Convs, Focused = Target(c), NEW id \in DOMAIN views, closeView(id)
  PROVE  Keeps(c)
<1>1. /\ views' = [v \in DOMAIN views \ {id} |-> views[v]]
      /\ seam' = IF active = id /\ ~\E v \in DOMAIN views' : views'[v] = views[id]
                 THEN seam \ {views[id].conv} ELSE seam
  BY DEF closeView
<1>2. CASE active # id
  BY <1>1, <1>2, StillShown
<1>3. CASE active = id
  <2>1. views[id] = Target(c) /\ Target(c).conv = c
    BY <1>3, TargetOf, ActiveIs DEF LookInv
  <2>. QED
    BY <1>1, <1>3, <2>1 DEF Keeps
<1>. QED
  BY <1>2, <1>3

\* Null is no layout.
NoneIsNoTree == \A l, s : None # [leaves |-> l, splits |-> s]

LEMMA OpenLeaves ==
  ASSUME NoneIsNoTree, LookInv, NEW c \in Convs, Focused = Target(c), NEW cs, OpenIfEmpty(cs)
  PROVE  Keeps(c)
<1>1. active \in DOMAIN views /\ active # None
  BY TargetOf, ActiveIs DEF LookInv
<1>2. Grown(layout)
  BY <1>1 DEF LookInv, WindowOK, TreeOrEmpty
<1>3. layout # None
  BY <1>2 DEF NoneIsNoTree, Grown, IsTree
<1>4. views' = views
  BY <1>3 DEF OpenIfEmpty, window
<1>. QED
  BY <1>4, StillShown

\* Another conversation is parted: the focused pane is none of its.
LEMMA RemoveLeaves ==
  ASSUME LookInv, NEW c \in Convs, Focused = Target(c), NEW d \in Convs, d # c,
         RemoveConversation(d)
  PROVE  Keeps(c)
<1>1. WindowOK /\ DropPanesOn(d)
  BY DEF RemoveConversation, LookInv
<1>2. CASE PanesShowing(d) = {}
  BY <1>1, <1>2, StillShown DEF DropPanesOn, window
<1>3. CASE PanesShowing(d) # {}
  <2>1. PICK emptied, dropped, kept :
           /\ emptied \subseteq PanesShowing(d)
           /\ emptied # {} => PanesShowing(d) = DOMAIN views
           /\ dropped = PanesShowing(d) \ emptied
           /\ kept = {p \in DOMAIN layout.leaves : layout.leaves[p] \notin dropped}
           /\ layout' = Pruned(layout, kept)
           /\ views' = [v \in DOMAIN views \ dropped |-> IF v \in emptied THEN Nowhere ELSE views[v]]
           /\ active' = IF active \in DOMAIN views' THEN active ELSE Head(paneOrder(layout'))
           /\ minted' = minted /\ held' \subseteq held
           /\ DOMAIN views \ dropped # {}
    BY <1>1, <1>3, DropIs, Zenon
  <2>2. active \in DOMAIN views => active \notin PanesShowing(d)
    BY <1>1, TargetOf, ActiveIs DEF PanesShowing
  <2>3. active \in DOMAIN views => active \in DOMAIN views' /\ views'[active] = views[active]
    BY <2>1, <2>2
  <2>. QED
    BY <2>3, StillShown
<1>. QED
  BY <1>2, <1>3

LEMMA RenameLeaves ==
  ASSUME LookInv, NEW c \in Convs, Focused = Target(c), NEW from \in Queries, NEW to \in Queries,
         from # c, Rename(from, to)
  PROVE  Keeps(c)
<1>1. views' = [v \in DOMAIN views |-> IF views[v] = Target(from) THEN Target(to) ELSE views[v]]
  BY DEF Rename
<1>2. Target(c) # Target(from)
  BY DEF Target
<1>3. active \in DOMAIN views => views[active] # Target(from)
  BY <1>2, ActiveIs DEF LookInv
<1>. QED
  BY <1>1, <1>3, StillShown

LEMMA RemoveNetworkLeaves ==
  ASSUME LookInv, NEW c \in Convs, Focused = Target(c), c \in there', NEW n, RemoveNetwork(n)
  PROVE  Keeps(c)
<1>1. /\ views' = [v \in DOMAIN views |->
                     IF v \in {u \in DOMAIN views : views[u].conv \in {d \in Convs : NetworkOf[d] = n}}
                     THEN Nowhere ELSE views[v]]
      /\ there' = there \ {d \in Convs : NetworkOf[d] = n}
  BY DEF RemoveNetwork
<1>2. active \in DOMAIN views => views[active].conv = c
  BY TargetOf, ActiveIs DEF LookInv
<1>. QED
  BY <1>1, <1>2, StillShown

\* Every step of an awake window, for a conversation that is there after it.
LEMMA LeavingStep ==
  ASSUME NoneIsNoTree, LookInv, LookInv', TrailInv, Next, ready, ready',
         NEW c \in there', Leaves(c)
  PROVE  c \notin seam'
<1>1. c \in Convs /\ Focused = Target(c)
  BY DEF LookInv, WindowOK, Leaves
<1>. SUFFICES Keeps(c)
  BY DEF Keeps, Leaves
<1>2. ASSUME NEW d \in Convs, Show(d)
      PROVE  Keeps(c)
  BY <1>1, <1>2, ShowLeaves
<1>3. ASSUME NEW d \in Convs, Go(d)
      PROVE  Keeps(c)
  BY <1>1, <1>3, TargetOf, SetActiveLeaves DEF Go
<1>4. ASSUME NEW d \in Convs, Arrive(d)
      PROVE  Keeps(c)
  BY <1>1, <1>4, StillShown DEF Arrive, window
<1>5. ASSUME NEW d \in Convs, Update(d)
      PROVE  Keeps(c)
  BY <1>1, <1>5, OpenLeaves DEF Update
<1>6. ASSUME NEW d \in Convs, RemoveConversation(d)
      PROVE  Keeps(c)
  <2>1. d # c
    BY <1>6 DEF RemoveConversation
  <2>. QED
    BY <1>1, <1>6, <2>1, RemoveLeaves
<1>7. ASSUME NEW delta \in {-1, 1}, Travel(delta)
      PROVE  Keeps(c)
  <2>1. PICK key : key = trail.entries[trail.index + delta]
    OBVIOUS
  <2>2. setActive(FoldedTarget(key)) /\ key \in Convs
    BY <1>7, <2>1, TravelTarget DEF Travel
  <2>. QED
    BY <1>1, <2>2, TargetOf, SetActiveLeaves
<1>8. ASSUME NEW direction \in Directions, splitActiveView(direction)
      PROVE  Keeps(c)
  <2>1. /\ minted \in Nat /\ DOMAIN views \subseteq 1..minted /\ minted' = minted + 1
        /\ views' = [v \in DOMAIN views \cup {minted'} |-> views[IF v = minted' THEN active ELSE v]]
    BY <1>8 DEF splitActiveView, LookInv, WindowOK
  <2>. QED
    BY <1>1, <2>1, StillShown
<1>9. ASSUME NEW id \in DOMAIN views, closeView(id)
      PROVE  Keeps(c)
  BY <1>1, <1>9, CloseLeaves
<1>10. ASSUME NEW id \in DOMAIN views, focusView(id)
       PROVE  Keeps(c)
  BY <1>1, <1>10, StillShown DEF focusView
<1>11. ASSUME NEW node, NEW ratio \in Ratios, setSplitRatio(node, ratio)
       PROVE  Keeps(c)
  BY <1>1, <1>11, StillShown DEF setSplitRatio
<1>12. ASSUME NEW kind \in Kinds, NEW id \in DOMAIN views, Hold(kind, id)
       PROVE  Keeps(c)
  BY <1>1, <1>12, StillShown DEF Hold
<1>13. ASSUME NEW from \in Queries, NEW to \in Queries, Rename(from, to)
       PROVE  Keeps(c)
  <2>1. from # c
    BY <1>13 DEF Rename
  <2>. QED
    BY <1>1, <1>13, <2>1, RenameLeaves
<1>14. ASSUME NEW n \in Nets, RemoveNetwork(n)
       PROVE  Keeps(c)
  BY <1>1, <1>14, RemoveNetworkLeaves
<1>15. ASSUME NEW cs \in SUBSET Convs, Start(cs)
       PROVE  Keeps(c)
  BY <1>15 DEF Start
<1>16. CASE Relaunch
  BY <1>16 DEF Relaunch
<1>17. ASSUME NEW h \in held, ActOnJump(h)
       PROVE  Keeps(c)
  BY <1>1, <1>17, StillShown DEF ActOnJump
<1>. QED
  BY <1>2, <1>3, <1>4, <1>5, <1>6, <1>7, <1>8, <1>9, <1>10, <1>11, <1>12, <1>13, <1>14, <1>15,
     <1>16, <1>17 DEF Next

-----------------------------------------------------------------------------
(* Relaunching.                                                            *)

\* The ids of a restored layout are handed out as its panes are read.
LEMMA RestoredReads ==
  ASSUME LookInv, LookInv', NEW cs \in SUBSET Convs, Restorable(cs), RestoreLayout(cs)
  PROVE  LET kept == {p \in DOMAIN stored.leaves : Exists(cs, stored.leaves[p])}
             tree == Pruned(stored, kept)
         IN  /\ [i \in DOMAIN paneOrder(layout') |-> views'[paneOrder(layout')[i]]] = paneOrder(tree)
             /\ active' = Head(paneOrder(layout'))
<1>. DEFINE kept == {p \in DOMAIN stored.leaves : Exists(cs, stored.leaves[p])}
            tree == Pruned(stored, kept)
            id == [p \in DOMAIN tree.leaves |-> minted + Place(tree, p)]
            n == Cardinality(DOMAIN tree.leaves)
            now == [i \in DOMAIN paneOrder(layout') |-> views'[paneOrder(layout')[i]]]
<1>1. /\ active' = minted + 1 /\ minted \in Nat
      /\ layout' = [tree EXCEPT !.leaves = id]
      /\ views' = [v \in {id[p] : p \in DOMAIN id} |->
                     tree.leaves[CHOOSE p \in DOMAIN id : id[p] = v]]
  BY DEF RestoreLayout, LookInv, WindowOK
<1>2. Grown(tree)
  <2>1. Grown(stored)
    BY DEF LookInv, StoredIsTree, Restorable
  <2>2. kept \in SUBSET DOMAIN stored.leaves /\ kept # {}
    BY DEF Restorable
  <2>. HIDE DEF kept
  <2>. QED
    BY <2>1, <2>2, PrunedIsGrown
<1>. HIDE DEF tree
<1>3. DOMAIN id = DOMAIN tree.leaves /\ \A p \in DOMAIN id : id[p] = minted + Place(tree, p)
  OBVIOUS
<1>. HIDE DEF id
<1>4. Grown(layout') /\ layout'.leaves = id
  BY <1>1, <1>2, <1>3, LeavesAreGrown
<1>5. \A p \in DOMAIN tree.leaves : Place(tree, p) \in 1..n
  BY <1>2, OrderIs
<1>6. \A p, q \in DOMAIN id : id[p] = id[q] => p = q
  <2>. SUFFICES ASSUME NEW p \in DOMAIN id, NEW q \in DOMAIN id, id[p] = id[q]
                PROVE  p = q
    OBVIOUS
  <2>1. Place(tree, p) = Place(tree, q)
    BY <1>1, <1>3, <1>5
  <2>. QED
    BY <2>1, <1>2, <1>3, PlaceSingle
<1>7. \A p \in DOMAIN tree.leaves : Place(layout', p) = Place(tree, p)
  BY <1>3, <1>4 DEF Place
<1>8. /\ n \in Nat \ {0} /\ DOMAIN paneOrder(tree) = 1..n
      /\ paneOrder(tree) \in Seq(OnLeaves(tree)) /\ Len(paneOrder(tree)) = n
  BY <1>2, OrderIs
<1>9. /\ DOMAIN paneOrder(layout') = 1..n /\ Len(paneOrder(layout')) = n
      /\ paneOrder(layout') \in Seq(OnLeaves(layout'))
  BY <1>3, <1>4, OrderIs
<1>10. \A i \in 1..n : /\ paneOrder(layout')[i] = minted + i
                       /\ views'[paneOrder(layout')[i]] = paneOrder(tree)[i]
  <2>. SUFFICES ASSUME NEW i \in 1..n
                PROVE  /\ paneOrder(layout')[i] = minted + i
                       /\ views'[paneOrder(layout')[i]] = paneOrder(tree)[i]
    OBVIOUS
  <2>1. PICK p \in DOMAIN tree.leaves : Place(tree, p) = i /\ paneOrder(tree)[i] = tree.leaves[p]
    BY <1>2, OrderIs
  <2>2. paneOrder(layout')[Place(layout', p)] = layout'.leaves[p]
    BY <1>3, <1>4, OrderIs
  <2>3. paneOrder(layout')[i] = id[p] /\ id[p] = minted + i
    BY <2>1, <2>2, <1>3, <1>4, <1>7
  <2>4. views'[id[p]] = tree.leaves[p]
    BY <1>1, <1>3, <1>6
  <2>. QED
    BY <2>1, <2>3, <2>4
<1>11. now = paneOrder(tree)
  <2>1. paneOrder(tree) \in [1..n -> OnLeaves(tree)]
    BY <1>8, LenProperties
  <2>. QED
    BY <2>1, <1>9, <1>10
<1>12. active' = Head(paneOrder(layout'))
  <2>1. 1 \in 1..n
    BY <1>8
  <2>2. paneOrder(layout')[1] = minted + 1
    BY <2>1, <1>10
  <2>3. paneOrder(layout') # <<>>
    BY <1>8, <1>9, EmptySeq
  <2>4. Head(paneOrder(layout')) = paneOrder(layout')[1]
    BY <1>9, <2>3
  <2>. QED
    BY <2>2, <2>4, <1>1
<1>. QED
  BY <1>11, <1>12 DEF tree

\* What is restored is what was written down, less what is gone.
LEMMA RestoredStep ==
  ASSUME LookInv, LookInv', Next, ~ready, ready', layout = None, stored # None,
         NEW left, left = {i \in DOMAIN paneOrder(stored) : paneOrder(stored)[i].conv \in there'},
         left # {}
  PROVE  /\ [i \in DOMAIN paneOrder(layout') |-> views'[paneOrder(layout')[i]]] =
              [k \in 1..Cardinality(left) |-> paneOrder(stored)[Nth(left, k)]]
         /\ active' = Head(paneOrder(layout'))
<1>1. PICK cs \in SUBSET Convs : Start(cs)
  <2>1. \A c : ~(Show(c) \/ Go(c) \/ Arrive(c) \/ Update(c) \/ RemoveConversation(c))
    BY DEF Show, Go, Arrive, Update, RemoveConversation
  <2>2. \A d : ~Travel(d) /\ ~splitActiveView(d)
    BY DEF Travel, splitActiveView
  <2>3. \A id : ~closeView(id) /\ ~focusView(id)
    BY DEF closeView, focusView
  <2>4. \A a, b : ~setSplitRatio(a, b) /\ ~Hold(a, b)
    BY DEF setSplitRatio, Hold
  <2>5. \A a, b : ~Rename(a, b) /\ ~RemoveNetwork(a)
    BY DEF Rename, RemoveNetwork
  <2>6. \A h : ~ActOnJump(h)
    BY DEF ActOnJump
  <2>. QED
    BY <2>1, <2>2, <2>3, <2>4, <2>5, <2>6 DEF Next, Relaunch
<1>. DEFINE kept == {p \in DOMAIN stored.leaves : Exists(cs, stored.leaves[p])}
<1>2. Grown(stored) /\ there' = cs
  BY <1>1 DEF Start, LookInv, StoredIsTree
<1>3. left = {Place(stored, q) : q \in kept}
  <2>1. \A p \in DOMAIN stored.leaves :
          /\ Place(stored, p) \in DOMAIN paneOrder(stored)
          /\ paneOrder(stored)[Place(stored, p)] = stored.leaves[p]
    BY <1>2, OrderIs
  <2>2. \A i \in DOMAIN paneOrder(stored) : \E p \in DOMAIN stored.leaves :
          Place(stored, p) = i /\ paneOrder(stored)[i] = stored.leaves[p]
    BY <1>2, OrderIs
  <2>. QED
    BY <1>2, <2>1, <2>2 DEF Exists
<1>4. kept # {} /\ kept \in SUBSET DOMAIN stored.leaves
  BY <1>3
<1>5. Restorable(cs)
  BY <1>4 DEF Restorable
<1>6. RestoreLayout(cs)
  BY <1>1, <1>5 DEF Start
<1>7. /\ [i \in DOMAIN paneOrder(layout') |-> views'[paneOrder(layout')[i]]]
           = paneOrder(Pruned(stored, kept))
      /\ active' = Head(paneOrder(layout'))
  BY <1>5, <1>6, RestoredReads
<1>. HIDE DEF kept
<1>8. paneOrder(Pruned(stored, kept)) =
        [k \in 1..Cardinality(left) |-> paneOrder(stored)[Nth(left, k)]]
  <2>. DEFINE places == {Place(stored, q) : q \in kept}
  <2>1. paneOrder(Pruned(stored, kept)) =
          [k \in 1..Cardinality(places) |-> paneOrder(stored)[Nth(places, k)]]
    BY <1>2, <1>4, PrunedReads
  <2>2. left = places
    BY <1>3
  <2>. QED
    BY <2>1, <2>2, Zenon
<1>. QED
  BY <1>7, <1>8

-----------------------------------------------------------------------------
(* Theorems.                                                               *)

\* All that is kept of the window.
PanesInv == LookInv /\ TrailInv /\ HeldInv

\* Every gesture, removal, rename and launch leaves the reader in a pane of a tree,
\* the trail at what that pane shows, and what panes hold to panes that were minted
\* (store/index.ts, store/layout.ts, useHotkeys.ts).
THEOREM PanesInvariant == Spec => []PanesInv
<1>1. Init => PanesInv
  BY LookInit, TrailInit, HeldInit DEF PanesInv
<1>2. PanesInv /\ [Next]_vars => PanesInv'
  BY LookStep, TrailStep, HeldStep DEF PanesInv
<1>. QED
  BY <1>1, <1>2, PTL DEF Spec

\* What a pane holds for a conversation - where it was scrolled to, what its roster
\* was narrowed to, a line half typed - is never shown over another one, however
\* panes are retargeted, split, closed, emptied, renamed and restored, for any
\* number of them (store/index.ts, retarget, dropPanesOn, queryRenamed).
THEOREM NothingCarriedOverCorrect == Spec => []NothingCarriedOver
<1>1. PanesInv => NothingCarriedOver
  BY DEF PanesInv, HeldInv
<1>. QED
  BY <1>1, PanesInvariant, PTL

\* Alt+Left and Alt+Right count from where the reader is, whatever they did in
\* between and however long the trail may get (useHotkeys.ts, useAppHotkeys).
THEOREM HistoryCorrect == Spec => []HistoryNamesActive
<1>1. PanesInv => HistoryNamesActive
  BY DEF PanesInv, TrailInv
<1>. QED
  BY <1>1, PanesInvariant, PTL

\* Leaving a conversation that stays clears the seam it was read under once no pane
\* shows it, by a retarget, by showing another pane or by closing its pane, in a
\* window of any number of panes (store/index.ts, leftBehind, closeView).
THEOREM LeavingCorrect ==
  ASSUME NoneIsNoTree
  PROVE  Spec => LeavingClearsTheSeam
<1>1. PanesInv /\ PanesInv' /\ Next => (ready /\ ready' => \A c \in there' : Leaves(c) => c \notin seam')
  BY LeavingStep DEF PanesInv
<1>2. PanesInv /\ PanesInv' /\ [Next]_vars =>
        [ready /\ ready' => \A c \in there' : Leaves(c) => c \notin seam']_vars
  BY <1>1
<1>. QED
  BY <1>2, PanesInvariant, PTL DEF Spec, LeavingClearsTheSeam

\* A launch brings back the panes of the last one in the order they were read, less
\* those of conversations that are gone, and looks at the first of them, for a
\* layout of any shape (store/layout.ts, fromStored; store/index.ts, openStored).
THEOREM RestoredCorrect == Spec => RestoredInOrder
<1>. DEFINE Back == ~ready /\ ready' /\ layout = None /\ stored # None =>
                      LET was == paneOrder(stored)
                          left == {i \in DOMAIN was : was[i].conv \in there'}
                          now == [i \in DOMAIN paneOrder(layout') |-> views'[paneOrder(layout')[i]]]
                      IN  left # {} => /\ now = [k \in 1..Cardinality(left) |-> was[Nth(left, k)]]
                                       /\ active' = Head(paneOrder(layout'))
<1>1. PanesInv /\ PanesInv' /\ Next => Back
  BY RestoredStep DEF PanesInv
<1>. HIDE DEF Back
<1>2. PanesInv /\ PanesInv' /\ [Next]_vars => [Back]_vars
  BY <1>1
<1>3. RestoredInOrder <=> [][Back]_vars
  BY PTL DEF RestoredInOrder, Back
<1>. QED
  BY <1>2, <1>3, PanesInvariant, PTL DEF Spec
=============================================================================
