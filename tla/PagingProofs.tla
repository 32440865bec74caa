----------------------------- MODULE PagingProofs -----------------------------
(***************************************************************************)
(* Proofs about Paging, for any messages, stamps, cap, page and bounds:    *)
(* however pages, live lines and jumps cross, the window is in the order   *)
(* of its stamps, shows nothing twice and keeps to its cap.  What merging  *)
(* two lists gives is stated first, by the places of what is merged.       *)
(***************************************************************************)
EXTENDS Paging, SetBounds, FiniteSetTheorems, SequenceTheorems, TLAPS

(* Lists of messages.                                                      *)

\* Each message of a list once, in the order of the stamps.
Ordered(list) ==
    \A i, j \in DOMAIN list : i < j => At[list[i]] <= At[list[j]] /\ list[i] # list[j]

LEMMA Stamped == \A m \in Ids : m \in Nat /\ At[m] \in Nat
BY TimelinesAssumption

LEMMA ListFacts ==
  ASSUME NEW s \in Seq(Ids)
  PROVE  /\ Len(s) \in Nat /\ DOMAIN s = 1..Len(s) /\ \A i \in 1..Len(s) : s[i] \in Ids
         /\ s = <<>> <=> Len(s) = 0
         /\ ToSet(s) = {s[i] : i \in 1..Len(s)} /\ ToSet(s) \subseteq Ids
         /\ s # <<>> => /\ Len(s) >= 1 /\ Head(s) = s[1] /\ Last(s) = s[Len(s)]
                        /\ Head(s) \in ToSet(s) /\ Last(s) \in ToSet(s)
         /\ s # <<>> <=> ToSet(s) # {}
<1>1. Len(s) \in Nat /\ DOMAIN s = 1..Len(s)
  BY LenProperties
<1>2. \A i \in 1..Len(s) : s[i] \in Ids
  BY ElementOfSeq
<1>3. s = <<>> <=> Len(s) = 0
  BY <1>1, EmptySeq
<1>4. ToSet(s) = {s[i] : i \in 1..Len(s)} /\ ToSet(s) \subseteq Ids
  BY <1>1, <1>2 DEF ToSet
<1>5. s # <<>> => Head(s) = s[1] /\ Last(s) = s[Len(s)] /\ Len(s) >= 1
  BY <1>1, <1>3 DEF Last
<1>. QED
  BY <1>1, <1>2, <1>3, <1>4, <1>5

\* A list given place by place.
LEMMA ListOf ==
  ASSUME NEW n \in Nat, NEW s \in [1..n -> Ids]
  PROVE  s \in Seq(Ids) /\ Len(s) = n /\ DOMAIN s = 1..n
<1>1. s \in Seq(Ids)
  BY SeqDef
<1>2. DOMAIN s = 1..n /\ DOMAIN s = 1..Len(s) /\ Len(s) \in Nat
  BY <1>1, LenProperties
<1>3. Len(s) = n
  <2>1. n >= 1 => n \in 1..Len(s)
    BY <1>2
  <2>2. Len(s) >= 1 => Len(s) \in 1..n
    BY <1>2
  <2>. QED
    BY <1>2, <2>1, <2>2
<1>. QED
  BY <1>1, <1>2, <1>3

LEMMA OrderedEnds ==
  ASSUME NEW s \in Seq(Ids), Ordered(s), s # <<>>, NEW x \in ToSet(s)
  PROVE  At[Head(s)] <= At[x] /\ At[x] <= At[Last(s)]
<1>1. PICK i \in 1..Len(s) : x = s[i]
  BY ListFacts
<1>2. /\ Len(s) \in Nat /\ Len(s) >= 1 /\ Head(s) = s[1] /\ Last(s) = s[Len(s)] /\ DOMAIN s = 1..Len(s)
      /\ s[1] \in Ids /\ s[Len(s)] \in Ids /\ s[i] \in Ids
  BY ListFacts
<1>3. 1 < i => At[s[1]] <= At[s[i]]
  BY <1>2 DEF Ordered
<1>4. i < Len(s) => At[s[i]] <= At[s[Len(s)]]
  BY <1>2 DEF Ordered
<1>5. At[s[1]] \in Nat /\ At[s[i]] \in Nat /\ At[s[Len(s)]] \in Nat
  BY <1>2, Stamped
<1>. QED
  BY <1>1, <1>2, <1>3, <1>4, <1>5

\* One list after another, when nothing of the second is older than the first.
LEMMA Joined ==
  ASSUME NEW a \in Seq(Ids), NEW b \in Seq(Ids), Ordered(a), Ordered(b),
         \A x \in ToSet(a), y \in ToSet(b) : At[x] <= At[y] /\ x # y
  PROVE  /\ a \o b \in Seq(Ids) /\ Ordered(a \o b)
         /\ ToSet(a \o b) = ToSet(a) \cup ToSet(b) /\ Len(a \o b) = Len(a) + Len(b)
         /\ b # <<>> => Last(a \o b) = Last(b)
         /\ b = <<>> => a \o b = a
<1>. DEFINE c == a \o b
<1>1. /\ c \in Seq(Ids) /\ Len(c) = Len(a) + Len(b)
      /\ \A i \in 1..(Len(a) + Len(b)) : c[i] = IF i <= Len(a) THEN a[i] ELSE b[i - Len(a)]
  BY ConcatProperties
<1>2. Len(a) \in Nat /\ Len(b) \in Nat /\ DOMAIN a = 1..Len(a) /\ DOMAIN b = 1..Len(b)
  BY ListFacts
<1>. HIDE DEF c
<1>3. DOMAIN c = 1..(Len(a) + Len(b))
  BY <1>1, ListFacts
<1>4. \A i \in 1..Len(a) : i \in DOMAIN c /\ c[i] = a[i] /\ a[i] \in ToSet(a)
  BY <1>1, <1>2, <1>3, ListFacts
<1>5. \A i \in 1..Len(b) : Len(a) + i \in DOMAIN c /\ c[Len(a) + i] = b[i] /\ b[i] \in ToSet(b)
  <2>. SUFFICES ASSUME NEW i \in 1..Len(b)
                PROVE  Len(a) + i \in DOMAIN c /\ c[Len(a) + i] = b[i] /\ b[i] \in ToSet(b)
    OBVIOUS
  <2>1. Len(a) + i \in 1..(Len(a) + Len(b)) /\ ~(Len(a) + i <= Len(a)) /\ (Len(a) + i) - Len(a) = i
    BY <1>2
  <2>2. b[i] \in ToSet(b)
    BY ListFacts
  <2>. QED
    BY <1>1, <1>3, <2>1, <2>2
<1>6. \A i \in DOMAIN c : i \in 1..Len(a) \/ \E k \in 1..Len(b) : i = Len(a) + k
  <2>. SUFFICES ASSUME NEW i \in 1..(Len(a) + Len(b)), i \notin 1..Len(a)
                PROVE  i - Len(a) \in 1..Len(b) /\ i = Len(a) + (i - Len(a))
    BY <1>3, <1>2
  <2>. QED
    BY <1>2
<1>7. Ordered(c)
  <2>. SUFFICES ASSUME NEW i \in DOMAIN c, NEW j \in DOMAIN c, i < j
                PROVE  At[c[i]] <= At[c[j]] /\ c[i] # c[j]
    BY DEF Ordered
  <2>1. CASE i \in 1..Len(a) /\ j \in 1..Len(a)
    BY <2>1, <1>2, <1>4 DEF Ordered
  <2>2. CASE i \in 1..Len(a) /\ j \notin 1..Len(a)
    BY <2>2, <1>4, <1>5, <1>6
  <2>3. CASE i \notin 1..Len(a)
    <3>1. PICK k \in 1..Len(b) : i = Len(a) + k
      BY <2>3, <1>6
    <3>2. j \notin 1..Len(a)
      BY <3>1, <1>2, <1>3
    <3>3. PICK n \in 1..Len(b) : j = Len(a) + n
      BY <3>2, <1>6
    <3>4. k < n
      BY <3>1, <3>3, <1>2
    <3>5. At[b[k]] <= At[b[n]] /\ b[k] # b[n]
      BY <3>4, <1>2 DEF Ordered
    <3>. QED
      BY <3>1, <3>3, <3>5, <1>5
  <2>. QED
    BY <2>1, <2>2, <2>3
<1>8. ToSet(c) = ToSet(a) \cup ToSet(b)
  <2>1. ToSet(c) = {c[i] : i \in DOMAIN c} /\ ToSet(a) = {a[i] : i \in 1..Len(a)}
        /\ ToSet(b) = {b[i] : i \in 1..Len(b)}
    BY <1>1, <1>3, ListFacts
  <2>2. \A x \in ToSet(c) : x \in ToSet(a) \cup ToSet(b)
    BY <2>1, <1>4, <1>5, <1>6
  <2>3. \A x \in ToSet(a) : x \in ToSet(c)
    BY <2>1, <1>4
  <2>4. \A x \in ToSet(b) : x \in ToSet(c)
    BY <2>1, <1>5
  <2>. QED
    BY <2>2, <2>3, <2>4
<1>9. b # <<>> => Last(c) = Last(b)
  <2>. SUFFICES ASSUME b # <<>>
                PROVE  Last(c) = Last(b)
    OBVIOUS
  <2>1. Len(b) \in 1..Len(b) /\ Last(b) = b[Len(b)]
    BY <1>2, ListFacts
  <2>2. Len(c) # 0
    BY <1>1, <1>2, <2>1
  <2>3. c # <<>> /\ Last(c) = c[Len(c)]
    BY <1>1, <2>2, ListFacts
  <2>. QED
    BY <2>1, <2>3, <1>1, <1>5
<1>10. b = <<>> => c = a
  BY ConcatEmptySeq DEF c
<1>. QED
  BY <1>1, <1>7, <1>8, <1>9, <1>10 DEF c

\* The messages from one to another, as a page of them is read.
LEMMA BetweenIs ==
  ASSUME NEW from \in Nat, NEW to \in Int, from..to \subseteq Ids
  PROVE  /\ Between(from, to) \in Seq(Ids) /\ Ordered(Between(from, to))
         /\ ToSet(Between(from, to)) = from..to
         /\ from <= to => /\ Len(Between(from, to)) = to - from + 1 /\ Between(from, to) # <<>>
                          /\ Head(Between(from, to)) = from /\ Last(Between(from, to)) = to
         /\ ~(from <= to) => Between(from, to) = <<>> /\ Len(Between(from, to)) = 0
<1>. DEFINE s == Between(from, to)
            n == IF from <= to THEN to - from + 1 ELSE 0
<1>0. n \in Nat
  OBVIOUS
<1>1. s = [i \in 1..n |-> from + i - 1]
  BY DEF Between
<1>2. \A i \in 1..n : from + i - 1 \in from..to
  OBVIOUS
<1>3. s \in [1..n -> Ids] /\ \A i \in 1..n : s[i] = from + i - 1
  <2>. HIDE DEF s, n
  <2>. QED
    BY <1>1, <1>2
<1>4. s \in Seq(Ids) /\ Len(s) = n /\ DOMAIN s = 1..n
  <2>. HIDE DEF s, n
  <2>. QED
    BY <1>0, <1>3, ListOf
<1>. HIDE DEF s
<1>5. Ordered(s)
  <2>. SUFFICES ASSUME NEW i \in 1..n, NEW j \in 1..n, i < j
                PROVE  At[s[i]] <= At[s[j]] /\ s[i] # s[j]
    BY <1>4 DEF Ordered
  <2>1. s[i] = from + i - 1 /\ s[j] = from + j - 1 /\ s[i] \in Ids /\ s[j] \in Ids
    BY <1>3
  <2>2. s[i] < s[j]
    BY <2>1
  <2>. QED
    BY <2>1, <2>2, TimelinesAssumption
<1>6. ToSet(s) = from..to
  <2>1. ToSet(s) = {s[i] : i \in 1..n}
    BY <1>4, ListFacts
  <2>2. \A x \in from..to : x - from + 1 \in 1..n /\ s[x - from + 1] = x
    BY <1>3
  <2>. QED
    BY <2>1, <2>2, <1>2, <1>3
<1>7. from <= to => s # <<>> /\ Head(s) = from /\ Last(s) = to
  <2>. SUFFICES ASSUME from <= to
                PROVE  s # <<>> /\ Head(s) = from /\ Last(s) = to
    OBVIOUS
  <2>1. n >= 1 /\ s[1] = from /\ s[n] = to
    BY <1>3
  <2>2. s # <<>>
    BY <1>4, <2>1, ListFacts
  <2>. QED
    BY <1>4, <2>1, <2>2, ListFacts
<1>8. ~(from <= to) => s = <<>>
  BY <1>4, ListFacts
<1>. QED
  BY <1>4, <1>5, <1>6, <1>7, <1>8 DEF s

\* A list from one of its places on.
RestOf(list, i) == {list[k] : k \in i..Len(list)}

LEMMA RestIs ==
  ASSUME NEW s \in Seq(Ids), Ordered(s), NEW i \in 1..(Len(s) + 1)
  PROVE  /\ SubSeq(s, i, Len(s)) \in Seq(Ids) /\ Ordered(SubSeq(s, i, Len(s)))
         /\ ToSet(SubSeq(s, i, Len(s))) = RestOf(s, i)
         /\ Len(SubSeq(s, i, Len(s))) = Len(s) + 1 - i
         /\ i <= Len(s) => SubSeq(s, i, Len(s)) # <<>> /\ Last(SubSeq(s, i, Len(s))) = Last(s)
<1>. DEFINE t == SubSeq(s, i, Len(s))
            n == Len(s) + 1 - i
<1>1. Len(s) \in Nat /\ DOMAIN s = 1..Len(s) /\ n \in Nat /\ i \in Int /\ i >= 1
  BY ListFacts
<1>2. \A k \in i..Len(s) : s[k] \in Ids
  BY <1>1, ListFacts
<1>3. /\ t \in Seq(Ids) /\ Len(t) = IF i <= Len(s) THEN Len(s) - i + 1 ELSE 0
      /\ \A k \in 1..(Len(s) - i + 1) : t[k] = s[i + k - 1]
  BY <1>1, <1>2, SubSeqProperties
<1>. HIDE DEF t
<1>4. Len(t) = n /\ DOMAIN t = 1..n
  <2>1. Len(t) = n
    BY <1>1, <1>3
  <2>. QED
    BY <1>3, <2>1, ListFacts
<1>5. \A k \in 1..n : t[k] = s[i + k - 1] /\ i + k - 1 \in 1..Len(s)
  BY <1>1, <1>3
<1>6. Ordered(t)
  <2>. SUFFICES ASSUME NEW j \in 1..n, NEW k \in 1..n, j < k
                PROVE  At[t[j]] <= At[t[k]] /\ t[j] # t[k]
    BY <1>4 DEF Ordered
  <2>1. i + j - 1 < i + k - 1
    BY <1>1
  <2>. QED
    BY <2>1, <1>1, <1>5 DEF Ordered
<1>7. ToSet(t) = RestOf(s, i)
  <2>1. ToSet(t) = {t[k] : k \in 1..n}
    BY <1>3, <1>4, ListFacts
  <2>2. \A k \in 1..n : i + k - 1 \in i..Len(s)
    BY <1>1
  <2>3. \A k \in i..Len(s) : k - i + 1 \in 1..n /\ i + (k - i + 1) - 1 = k
    BY <1>1
  <2>4. \A k \in i..Len(s) : s[k] \in ToSet(t)
    <3>. SUFFICES ASSUME NEW k \in i..Len(s)
                  PROVE  s[k] \in ToSet(t)
      OBVIOUS
    <3>1. t[k - i + 1] = s[k] /\ k - i + 1 \in 1..n
      BY <2>3, <1>5
    <3>. QED
      BY <3>1, <2>1
  <2>5. \A k \in 1..n : t[k] \in RestOf(s, i)
    BY <2>2, <1>5 DEF RestOf
  <2>. QED
    BY <2>1, <2>4, <2>5 DEF RestOf
<1>8. i <= Len(s) => t # <<>> /\ Last(t) = Last(s)
  <2>. SUFFICES ASSUME i <= Len(s)
                PROVE  t # <<>> /\ Last(t) = Last(s)
    OBVIOUS
  <2>1. n \in 1..n /\ i + n - 1 = Len(s) /\ Len(s) # 0
    BY <1>1
  <2>2. t # <<>> /\ s # <<>>
    BY <2>1, <1>3, <1>4, ListFacts
  <2>3. Last(t) = t[n] /\ Last(s) = s[Len(s)]
    BY <2>2, <1>3, <1>4, ListFacts
  <2>. QED
    BY <2>1, <2>2, <2>3, <1>5
<1>. QED
  BY <1>3, <1>4, <1>6, <1>7, <1>8 DEF t

\* The newest of a list is a run of it, up to its end.
LEMMA NewestIs ==
  ASSUME NEW s \in Seq(Ids), Ordered(s), NEW n \in Nat
  PROVE  /\ Newest(s, n) \in Seq(Ids) /\ Ordered(Newest(s, n)) /\ Len(Newest(s, n)) <= n
         /\ ToSet(Newest(s, n)) \subseteq ToSet(s)
         /\ Len(s) <= n => Newest(s, n) = s
         /\ Len(s) > n => Len(Newest(s, n)) = n
         /\ s # <<>> /\ n # 0 => Newest(s, n) # <<>> /\ Last(Newest(s, n)) = Last(s)
<1>1. Len(s) \in Nat /\ DOMAIN s = 1..Len(s)
  BY ListFacts
<1>2. CASE Len(s) <= n
  <2>1. Newest(s, n) = s
    BY <1>2 DEF Newest
  <2>2. ~(Len(s) > n)
    BY <1>1, <1>2
  <2>. QED
    BY <1>2, <2>1, <2>2, Zenon
<1>3. CASE ~(Len(s) <= n)
  <2>. DEFINE first == Len(s) - n + 1
  <2>1. first \in 1..(Len(s) + 1) /\ Len(s) + 1 - first = n /\ Len(s) > n /\ (n # 0 => first <= Len(s))
    BY <1>1, <1>3
  <2>2. Newest(s, n) = SubSeq(s, first, Len(s))
    BY <1>3 DEF Newest
  <2>. HIDE DEF first
  <2>3. RestOf(s, first) \subseteq ToSet(s)
    <3>1. \A k \in first..Len(s) : k \in 1..Len(s)
      BY <1>1, <2>1
    <3>. QED
      BY <3>1, <1>1 DEF RestOf, ToSet
  <2>. QED
    BY <1>1, <1>3, <2>1, <2>2, <2>3, RestIs
<1>. QED
  BY <1>2, <1>3

\* What is left of a list stands in the order it stood in.
LEMMA UnheldIs ==
  ASSUME NEW s \in Seq(Ids), Ordered(s), NEW known
  PROVE  /\ Unheld(s, known) \in Seq(Ids) /\ Ordered(Unheld(s, known))
         /\ ToSet(Unheld(s, known)) = ToSet(s) \ known
         /\ Len(Unheld(s, known)) <= Len(s)
<1>. DEFINE left == {i \in DOMAIN s : s[i] \notin known}
            t == Unheld(s, known)
<1>1. Len(s) \in Nat /\ DOMAIN s = 1..Len(s) /\ \A i \in 1..Len(s) : s[i] \in Ids
  BY ListFacts
<1>14. CASE left = DOMAIN s
  <2>1. t = s
    BY <1>14 DEF Unheld
  <2>2. \A i \in 1..Len(s) : s[i] \notin known
    BY <1>1, <1>14
  <2>3. ToSet(s) = ToSet(s) \ known
    BY <2>2, ListFacts
  <2>. QED
    BY <2>1, <2>3, <1>1
<1>15. CASE left # DOMAIN s
  <2>2. left \in SUBSET (1..Len(s)) /\ IsFiniteSet(1..Len(s)) /\ 1..Len(s) \in SUBSET Nat
    BY <1>1, FS_Interval
  <2>3. \A i \in left : s[i] \notin known
    OBVIOUS
  <2>4. \A i \in 1..Len(s) : i \in left \/ s[i] \in known
    BY <1>1
  <2>5. t = [k \in 1..Cardinality(left) |-> s[Ranked(left, k)]]
    BY <1>15 DEF Unheld, Nth, Ranked
  <2>. HIDE DEF left, t
  <2>6. left \in SUBSET Nat /\ IsFiniteSet(left)
    <3>1. IsFiniteSet(left)
      BY <2>2, FS_Subset
    <3>. QED
      BY <2>2, <3>1
  <2>7. Cardinality(left) \in Nat
    BY <2>6, FS_CardinalityType
  <2>8. \A k \in 1..Cardinality(left) : Ranked(left, k) \in left /\ Rank(left, Ranked(left, k)) = k
    BY <2>6, RankTaken
  <2>9. t \in [1..Cardinality(left) -> Ids] /\ \A k \in 1..Cardinality(left) : t[k] = s[Ranked(left, k)]
    BY <1>1, <2>2, <2>5, <2>8
  <2>10. t \in Seq(Ids) /\ Len(t) = Cardinality(left) /\ DOMAIN t = 1..Cardinality(left)
    BY <2>7, <2>9, ListOf
  <2>11. Ordered(t)
    <3>. SUFFICES ASSUME NEW i \in 1..Cardinality(left), NEW j \in 1..Cardinality(left), i < j
                  PROVE  At[t[i]] <= At[t[j]] /\ t[i] # t[j]
      BY <2>10 DEF Ordered
    <3>. DEFINE p == Ranked(left, i)
                q == Ranked(left, j)
    <3>1. p \in left /\ q \in left /\ Rank(left, p) = i /\ Rank(left, q) = j
      BY <2>8
    <3>2. t[i] = s[p] /\ t[j] = s[q]
      BY <2>9
    <3>. HIDE DEF p, q
    <3>3. p \in Nat /\ q \in Nat /\ p \in DOMAIN s /\ q \in DOMAIN s
      BY <1>1, <2>2, <3>1
    <3>4. p < q
      <4>1. q < p => Rank(left, q) < Rank(left, p)
        BY <2>6, <3>1, RankGrows
      <4>. QED
        BY <4>1, <3>1, <3>3
    <3>. QED
      BY <3>2, <3>3, <3>4 DEF Ordered
  <2>12. ToSet(t) = ToSet(s) \ known
    <3>1. ToSet(t) = {t[k] : k \in 1..Cardinality(left)} /\ ToSet(s) = {s[i] : i \in 1..Len(s)}
      BY <2>10, ListFacts
    <3>2. \A k \in 1..Cardinality(left) : t[k] \in ToSet(s) /\ t[k] \notin known
      BY <3>1, <2>2, <2>3, <2>8, <2>9
    <3>3. \A i \in 1..Len(s) : s[i] \notin known => s[i] \in ToSet(t)
      <4>. SUFFICES ASSUME NEW i \in 1..Len(s), s[i] \notin known
                    PROVE  s[i] \in ToSet(t)
        OBVIOUS
      <4>1. i \in left
        BY <2>4
      <4>2. Rank(left, i) \in 1..Cardinality(left) /\ Ranked(left, Rank(left, i)) = i
        BY <4>1, <2>6, RankBound, RankedOfRank
      <4>. QED
        BY <4>2, <3>1, <2>9
    <3>. QED
      BY <3>1, <3>2, <3>3
  <2>13. Len(t) <= Len(s)
    <3>1. Cardinality(left) <= Cardinality(1..Len(s))
      BY <2>2, FS_Subset
    <3>2. \A n \in Nat : Cardinality(1..n) = n
      BY FS_Interval
    <3>. QED
      BY <3>1, <3>2, <1>1, <2>10
  <2>. QED
    BY <2>10, <2>11, <2>12, <2>13 DEF t
<1>. QED
  BY <1>14, <1>15

\* Only the newer part of the window is looked at for copies, and it is enough: a copy
\* of a message is no older than the oldest of them.
LEMMA FreshIs ==
  ASSUME NEW held \in Seq(Ids), Ordered(held),
         NEW messages \in Seq(Ids), Ordered(messages), messages # <<>>
  PROVE  /\ Fresh(held, messages) \in Seq(Ids) /\ Ordered(Fresh(held, messages))
         /\ ToSet(Fresh(held, messages)) = ToSet(messages) \ ToSet(held)
         /\ Len(Fresh(held, messages)) <= Len(messages)
<1>. DEFINE behind == {i \in DOMAIN held : \A m \in ToSet(messages) : At[held[i]] < At[m]}
            known == {held[i] : i \in {k \in DOMAIN held : \A b \in behind : b < k}}
<1>2. Fresh(held, messages) = Unheld(messages, known)
  BY DEF Fresh
<1>3. Len(held) \in Nat /\ DOMAIN held = 1..Len(held) /\ ToSet(held) = {held[i] : i \in 1..Len(held)}
      /\ \A i \in 1..Len(held) : held[i] \in Ids
  BY ListFacts
<1>4. known \subseteq ToSet(held)
  BY <1>3
<1>5. \A x \in ToSet(messages) : x \in ToSet(held) => x \in known
  <2>. SUFFICES ASSUME NEW x \in ToSet(messages), x \in ToSet(held)
                PROVE  x \in known
    OBVIOUS
  <2>1. PICK k \in 1..Len(held) : x = held[k]
    BY <1>3
  <2>2. \A b \in behind : b < k
    <3>. SUFFICES ASSUME NEW b \in 1..Len(held), At[held[b]] < At[x], ~(b < k)
                  PROVE  FALSE
      BY <1>3
    <3>1. At[held[k]] <= At[held[b]]
      <4>1. CASE b = k
        BY <4>1, <1>3, Stamped
      <4>2. CASE k < b
        BY <4>2, <1>3 DEF Ordered
      <4>. QED
        BY <4>1, <4>2
    <3>2. At[held[k]] \in Nat /\ At[held[b]] \in Nat
      BY <1>3, Stamped
    <3>. QED
      BY <2>1, <3>1, <3>2
  <2>. QED
    BY <2>1, <2>2, <1>3
<1>. HIDE DEF known
<1>6. /\ Unheld(messages, known) \in Seq(Ids) /\ Ordered(Unheld(messages, known))
      /\ ToSet(Unheld(messages, known)) = ToSet(messages) \ known
      /\ Len(Unheld(messages, known)) <= Len(messages)
  BY UnheldIs
<1>. QED
  BY <1>2, <1>4, <1>5, <1>6

-----------------------------------------------------------------------------
(* The merge.                                                              *)

Places(held, fresh) == (1..(Len(held) + 1)) \X (1..(Len(fresh) + 1))
Remaining(held, fresh, p) == (Len(held) + 1 - p[1]) + (Len(fresh) + 1 - p[2])

\* What the merge of the rest of two lists is, by those of what is left behind their first.
Merging(merged, held, fresh, tie, p) ==
    IF p[1] > Len(held) THEN SubSeq(fresh, p[2], Len(fresh))
    ELSE IF p[2] > Len(fresh) THEN SubSeq(held, p[1], Len(held))
    ELSE IF sortsBefore(fresh[p[2]], held[p[1]], tie)
         THEN <<fresh[p[2]]>> \o merged[<<p[1], p[2] + 1>>]
         ELSE <<held[p[1]]>> \o merged[<<p[1] + 1, p[2]>>]

\* There is such a merge: of the rests that have no more than n left, for every n.
LEMMA MergeExists ==
  ASSUME NEW held \in Seq(Ids), NEW fresh \in Seq(Ids), NEW tie
  PROVE  \E m : m = [p \in Places(held, fresh) |-> Merging(m, held, fresh, tie, p)]
<1>. DEFINE D == Places(held, fresh)
            R(p) == Remaining(held, fresh, p)
            E(m, p) == Merging(m, held, fresh, tie, p)
            Upto(m, n) == \A p \in D : R(p) <= n => m[p] = E(m, p)
            T == {n \in Nat : ~ \E m : m = [p \in D |-> m[p]] /\ Upto(m, n)}
<1>1. Len(held) \in Nat /\ Len(fresh) \in Nat
  BY ListFacts
<1>2. \A p \in D : /\ p[1] \in 1..(Len(held) + 1) /\ p[2] \in 1..(Len(fresh) + 1) /\ p = <<p[1], p[2]>>
                   /\ R(p) \in Nat /\ R(p) <= Len(held) + Len(fresh)
  BY <1>1 DEF Places, Remaining
<1>3. \A p \in D : p[1] <= Len(held) /\ p[2] <= Len(fresh) =>
                     /\ <<p[1] + 1, p[2]>> \in D /\ R(<<p[1] + 1, p[2]>>) = R(p) - 1
                     /\ <<p[1], p[2] + 1>> \in D /\ R(<<p[1], p[2] + 1>>) = R(p) - 1
  <2>. SUFFICES ASSUME NEW p \in D, p[1] <= Len(held), p[2] <= Len(fresh)
                PROVE  /\ <<p[1] + 1, p[2]>> \in D /\ R(<<p[1] + 1, p[2]>>) = R(p) - 1
                       /\ <<p[1], p[2] + 1>> \in D /\ R(<<p[1], p[2] + 1>>) = R(p) - 1
    OBVIOUS
  <2>1. PICK a \in 1..(Len(held) + 1), b \in 1..(Len(fresh) + 1) : a = p[1] /\ b = p[2]
    BY <1>2
  <2>2. a + 1 \in 1..(Len(held) + 1) /\ b + 1 \in 1..(Len(fresh) + 1)
    BY <1>1, <2>1
  <2>3. <<a + 1, b>> \in D /\ <<a, b + 1>> \in D
    BY <2>2 DEF Places
  <2>4. R(p) = (Len(held) + 1 - a) + (Len(fresh) + 1 - b)
    BY <2>1 DEF Remaining
  <2>5. /\ R(<<a + 1, b>>) = (Len(held) + 1 - (a + 1)) + (Len(fresh) + 1 - b)
        /\ R(<<a, b + 1>>) = (Len(held) + 1 - a) + (Len(fresh) + 1 - (b + 1))
    BY DEF Remaining
  <2>. HIDE DEF R, D
  <2>6. R(<<a + 1, b>>) = R(p) - 1 /\ R(<<a, b + 1>>) = R(p) - 1
    BY <1>1, <2>4, <2>5
  <2>. QED
    BY <2>1, <2>3, <2>6, Zenon
<1>. HIDE DEF D, R
<1>4. \A m, w : \A p \in D : (\A q \in D : R(q) < R(p) => m[q] = w[q]) => E(m, p) = E(w, p)
  <2>. SUFFICES ASSUME NEW m, NEW w, NEW p \in D, \A q \in D : R(q) < R(p) => m[q] = w[q]
                PROVE  E(m, p) = E(w, p)
    OBVIOUS
  <2>1. CASE p[1] <= Len(held) /\ p[2] <= Len(fresh)
    <3>1. R(p) \in Nat
      BY <1>2
    <3>2. R(<<p[1] + 1, p[2]>>) < R(p) /\ R(<<p[1], p[2] + 1>>) < R(p)
      BY <2>1, <3>1, <1>3
    <3>3. m[<<p[1] + 1, p[2]>>] = w[<<p[1] + 1, p[2]>>] /\ m[<<p[1], p[2] + 1>>] = w[<<p[1], p[2] + 1>>]
      BY <2>1, <3>2, <1>3, Zenon
    <3>. QED
      BY <3>3, Zenon DEF Merging
  <2>2. CASE ~(p[1] <= Len(held) /\ p[2] <= Len(fresh))
    <3>1. p[1] > Len(held) \/ p[2] > Len(fresh)
      BY <1>1, <1>2, <2>2
    <3>. QED
      BY <3>1, Zenon DEF Merging
  <2>. QED
    BY <2>1, <2>2
<1>. HIDE DEF E
<1>5. T = {}
  <2>. SUFFICES ASSUME T # {}
                PROVE  FALSE
    OBVIOUS
  <2>. DEFINE n == Min(T)
  <2>1. T \in SUBSET Nat
    OBVIOUS
  <2>2. n \in T /\ \A x \in T : n <= x
    <3>. HIDE DEF T
    <3>. QED
      BY <2>1, MinNat
  <2>. HIDE DEF n
  <2>3. n \in Nat /\ ~ \E m : m = [p \in D |-> m[p]] /\ Upto(m, n)
    BY <2>2
  <2>4. \E m : m = [p \in D |-> m[p]] /\ \A p \in D : R(p) < n => m[p] = E(m, p)
    <3>1. CASE n = 0
      <4>. DEFINE m == [p \in D |-> {}]
      <4>1. m = [p \in D |-> m[p]]
        OBVIOUS
      <4>2. \A p \in D : ~(R(p) < n)
        BY <3>1, <1>2
      <4>. QED
        BY <4>1, <4>2
    <3>2. CASE n # 0
      <4>1. n - 1 \in Nat /\ ~(n <= n - 1)
        BY <2>3, <3>2
      <4>2. n - 1 \notin T
        BY <4>1, <2>2
      <4>3. PICK m : m = [p \in D |-> m[p]] /\ Upto(m, n - 1)
        BY <4>1, <4>2
      <4>4. \A p \in D : R(p) < n => R(p) <= n - 1
        BY <1>2, <2>3
      <4>. QED
        BY <4>3, <4>4
    <3>. QED
      BY <3>1, <3>2
  <2>5. PICK m : m = [p \in D |-> m[p]] /\ \A p \in D : R(p) < n => m[p] = E(m, p)
    BY <2>4
  <2>. DEFINE w == [p \in D |-> IF R(p) < n THEN m[p] ELSE E(m, p)]
  <2>6. \A p \in D : R(p) < n => w[p] = m[p]
    OBVIOUS
  <2>7. \A p \in D : R(p) <= n => w[p] = E(m, p)
    BY <2>5
  <2>8. w = [p \in D |-> w[p]]
    OBVIOUS
  <2>. HIDE DEF w
  <2>9. \A p \in D : R(p) <= n => w[p] = E(w, p)
    <3>. SUFFICES ASSUME NEW p \in D, R(p) <= n
                  PROVE  w[p] = E(w, p)
      OBVIOUS
    <3>1. \A q \in D : R(q) < R(p) => R(q) < n
      BY <1>2, <2>3
    <3>2. \A q \in D : R(q) < R(p) => m[q] = w[q]
      BY <3>1, <2>6
    <3>3. E(m, p) = E(w, p)
      BY <3>2, <1>4
    <3>. QED
      BY <3>3, <2>7
  <2>. QED
    BY <2>3, <2>8, <2>9
<1>6. Len(held) + Len(fresh) \in Nat
  BY <1>1
<1>7. PICK m : m = [p \in D |-> m[p]] /\ Upto(m, Len(held) + Len(fresh))
  BY <1>5, <1>6
<1>8. \A p \in D : m[p] = E(m, p)
  BY <1>2, <1>7
<1>9. m = [p \in D |-> E(m, p)]
  BY <1>7, <1>8
<1>. QED
  BY <1>9 DEF D, E

\* Two lists with nothing in common are merged into one with all that is in them.
LEMMA MergeIs ==
  ASSUME NEW held \in Seq(Ids), Ordered(held), NEW fresh \in Seq(Ids), Ordered(fresh), fresh # <<>>,
         ToSet(held) \cap ToSet(fresh) = {}, NEW tie
  PROVE  LET list == mergeByTime(held, fresh, tie)
         IN  /\ list \in Seq(Ids) /\ Ordered(list) /\ ToSet(list) = ToSet(held) \cup ToSet(fresh)
             /\ Len(list) = Len(held) + Len(fresh)
<1>. DEFINE D == Places(held, fresh)
            R(p) == Remaining(held, fresh, p)
            E(m, p) == Merging(m, held, fresh, tie, p)
            Rests(p) == RestOf(held, p[1]) \cup RestOf(fresh, p[2])
<1>1. /\ Len(held) \in Nat /\ Len(fresh) \in Nat /\ Len(fresh) >= 1
      /\ DOMAIN held = 1..Len(held) /\ DOMAIN fresh = 1..Len(fresh)
      /\ \A i \in 1..Len(held) : held[i] \in Ids /\ held[i] \in ToSet(held)
      /\ \A i \in 1..Len(fresh) : fresh[i] \in Ids /\ fresh[i] \in ToSet(fresh)
  BY ListFacts
<1>2. CASE held = <<>> \/ ~sortsBefore(fresh[1], Last(held), tie)
  <2>1. mergeByTime(held, fresh, tie) = held \o fresh
    BY <1>2 DEF mergeByTime
  <2>2. \A x \in ToSet(held), y \in ToSet(fresh) : At[x] <= At[y] /\ x # y
    <3>. SUFFICES ASSUME NEW x \in ToSet(held), NEW y \in ToSet(fresh)
                  PROVE  At[x] <= At[y]
      OBVIOUS
    <3>1. held # <<>>
      BY ListFacts
    <3>2. At[x] <= At[Last(held)] /\ At[fresh[1]] <= At[y]
      BY <3>1, OrderedEnds, ListFacts
    <3>3. Last(held) \in Ids /\ x \in Ids /\ y \in Ids /\ fresh[1] \in Ids
      BY <3>1, <1>1, ListFacts
    <3>4. At[Last(held)] \in Nat /\ At[x] \in Nat /\ At[y] \in Nat /\ At[fresh[1]] \in Nat
      BY <3>3, Stamped
    <3>5. At[Last(held)] <= At[fresh[1]]
      BY <1>2, <3>1, <3>4 DEF sortsBefore
    <3>. QED
      BY <3>2, <3>4, <3>5
  <2>. QED
    BY <2>1, <2>2, Joined
<1>3. CASE ~(held = <<>> \/ ~sortsBefore(fresh[1], Last(held), tie))
  <2>. DEFINE merged == CHOOSE m : m = [p \in D |-> E(m, p)]
              Good(p) == /\ merged[p] \in Seq(Ids) /\ Ordered(merged[p]) /\ ToSet(merged[p]) = Rests(p)
                         /\ Len(merged[p]) = R(p)
  <2>1. merged = [p \in D |-> E(merged, p)]
    BY MergeExists
  <2>2. mergeByTime(held, fresh, tie) = merged[<<1, 1>>]
    BY <1>3, Zenon DEF mergeByTime, Merging, Places
  <2>. HIDE DEF merged
  <2>3. \A p \in D : merged[p] = E(merged, p)
    BY <2>1
  <2>4. \A p \in D : /\ p[1] \in 1..(Len(held) + 1) /\ p[2] \in 1..(Len(fresh) + 1) /\ p = <<p[1], p[2]>>
                     /\ R(p) \in Nat /\ R(p) <= Len(held) + Len(fresh)
                     /\ R(p) = (Len(held) + 1 - p[1]) + (Len(fresh) + 1 - p[2])
    BY <1>1 DEF Places, Remaining
  <2>5. \A p \in D : (\A q \in D : R(q) < R(p) => Good(q)) => Good(p)
    <3>. SUFFICES ASSUME NEW p \in D, \A q \in D : R(q) < R(p) => Good(q)
                  PROVE  Good(p)
      OBVIOUS
    <3>. DEFINE i == p[1]
                j == p[2]
    <3>1. i \in 1..(Len(held) + 1) /\ j \in 1..(Len(fresh) + 1) /\ p = <<i, j>>
          /\ R(p) = (Len(held) + 1 - i) + (Len(fresh) + 1 - j)
      BY <2>4
    <3>2. CASE i > Len(held)
      <4>1. merged[p] = SubSeq(fresh, j, Len(fresh))
        BY <3>2, <2>3 DEF Merging
      <4>2. RestOf(held, i) = {} /\ R(p) = Len(fresh) + 1 - j
        BY <3>1, <3>2, <1>1 DEF RestOf
      <4>. QED
        BY <3>1, <4>1, <4>2, RestIs
    <3>3. CASE ~(i > Len(held)) /\ j > Len(fresh)
      <4>1. merged[p] = SubSeq(held, i, Len(held))
        BY <3>3, <2>3 DEF Merging
      <4>2. RestOf(fresh, j) = {} /\ R(p) = Len(held) + 1 - i
        BY <3>1, <3>3, <1>1 DEF RestOf
      <4>. QED
        BY <3>1, <4>1, <4>2, RestIs
    <3>4. CASE ~(i > Len(held)) /\ ~(j > Len(fresh))
      <4>. DEFINE x == fresh[j]
                  y == held[i]
                  q == <<i, j + 1>>
                  r == <<i + 1, j>>
      <4>1. /\ i \in 1..Len(held) /\ j \in 1..Len(fresh)
            /\ i + 1 \in 1..(Len(held) + 1) /\ j + 1 \in 1..(Len(fresh) + 1)
        BY <3>1, <3>4, <1>1
      <4>2. x \in Ids /\ y \in Ids /\ x \in ToSet(fresh) /\ y \in ToSet(held) /\ At[x] \in Nat /\ At[y] \in Nat
        BY <4>1, <1>1, Stamped
      <4>3. q \in D /\ r \in D
        BY <4>1 DEF Places
      <4>4. R(q) = R(p) - 1 /\ R(r) = R(p) - 1
        <5>1. /\ R(q) = (Len(held) + 1 - i) + (Len(fresh) + 1 - (j + 1))
              /\ R(r) = (Len(held) + 1 - (i + 1)) + (Len(fresh) + 1 - j)
          BY DEF Remaining
        <5>. HIDE DEF R, q, r, i, j
        <5>. QED
          BY <5>1, <3>1, <4>1, <1>1
      <4>5. Good(q) /\ Good(r)
        <5>. HIDE DEF Good, D, R, q, r
        <5>1. R(p) \in Nat
          BY <2>4
        <5>. QED
          BY <5>1, <4>3, <4>4
      <4>6. RestOf(held, i) = {y} \cup RestOf(held, i + 1) /\ RestOf(fresh, j) = {x} \cup RestOf(fresh, j + 1)
        <5>1. i..Len(held) = {i} \cup ((i + 1)..Len(held)) /\ j..Len(fresh) = {j} \cup ((j + 1)..Len(fresh))
          BY <4>1, <1>1
        <5>. QED
          BY <5>1 DEF RestOf
      <4>7. \A z \in RestOf(held, i + 1) : z \in Ids /\ z \in ToSet(held) /\ z # y /\ At[y] <= At[z]
        <5>. SUFFICES ASSUME NEW k \in (i + 1)..Len(held)
                      PROVE  held[k] \in Ids /\ held[k] \in ToSet(held) /\ held[k] # y /\ At[y] <= At[held[k]]
          BY DEF RestOf
        <5>1. k \in 1..Len(held) /\ i < k
          BY <4>1, <1>1
        <5>. QED
          BY <5>1, <4>1, <1>1 DEF Ordered
      <4>8. \A z \in RestOf(fresh, j + 1) : z \in Ids /\ z \in ToSet(fresh) /\ z # x /\ At[x] <= At[z]
        <5>. SUFFICES ASSUME NEW k \in (j + 1)..Len(fresh)
                      PROVE  fresh[k] \in Ids /\ fresh[k] \in ToSet(fresh) /\ fresh[k] # x /\ At[x] <= At[fresh[k]]
          BY DEF RestOf
        <5>1. k \in 1..Len(fresh) /\ j < k
          BY <4>1, <1>1
        <5>. QED
          BY <5>1, <4>1, <1>1 DEF Ordered
      <4>9. x # y
        BY <4>2
      <4>10. \A z \in Ids : /\ <<z>> \in Seq(Ids) /\ Ordered(<<z>>) /\ ToSet(<<z>>) = {z} /\ Len(<<z>>) = 1
        BY DEF Ordered, ToSet
      <4>11. CASE sortsBefore(x, y, tie)
        <5>1. merged[p] = <<x>> \o merged[q]
          BY <3>4, <4>11, <2>3 DEF Merging
        <5>2. At[x] <= At[y]
          BY <4>2, <4>11 DEF sortsBefore
        <5>3. Rests(q) = RestOf(held, i) \cup RestOf(fresh, j + 1)
          OBVIOUS
        <5>4. \A z \in Rests(q) : z \in Ids /\ At[x] <= At[z] /\ x # z
          <6>. SUFFICES ASSUME NEW z \in Rests(q)
                        PROVE  z \in Ids /\ At[x] <= At[z] /\ x # z
            OBVIOUS
          <6>1. CASE z \in RestOf(fresh, j + 1)
            BY <6>1, <4>8
          <6>2. CASE z = y
            BY <6>2, <5>2, <4>2, <4>9
          <6>3. CASE z \in RestOf(held, i + 1)
            <7>1. z \in Ids /\ z \in ToSet(held) /\ At[y] <= At[z] /\ At[z] \in Nat
              BY <6>3, <4>7, Stamped
            <7>. QED
              BY <7>1, <5>2, <4>2
          <6>. QED
            BY <6>1, <6>2, <6>3, <5>3, <4>6
        <5>5. Rests(p) = {x} \cup Rests(q)
          BY <5>3, <4>6
        <5>. HIDE DEF x, y, q, r, Rests, R, D
        <5>6. /\ merged[p] \in Seq(Ids) /\ Ordered(merged[p])
              /\ ToSet(merged[p]) = {x} \cup ToSet(merged[q]) /\ Len(merged[p]) = 1 + Len(merged[q])
          <6>1. <<x>> \in Seq(Ids) /\ Ordered(<<x>>) /\ ToSet(<<x>>) = {x} /\ Len(<<x>>) = 1
            BY <4>2, <4>10
          <6>2. merged[q] \in Seq(Ids) /\ Ordered(merged[q]) /\ ToSet(merged[q]) = Rests(q)
            BY <4>5
          <6>3. \A a \in ToSet(<<x>>), z \in ToSet(merged[q]) : At[a] <= At[z] /\ a # z
            BY <5>4, <6>1, <6>2
          <6>4. /\ <<x>> \o merged[q] \in Seq(Ids) /\ Ordered(<<x>> \o merged[q])
                /\ ToSet(<<x>> \o merged[q]) = ToSet(<<x>>) \cup ToSet(merged[q])
                /\ Len(<<x>> \o merged[q]) = Len(<<x>>) + Len(merged[q])
            BY <6>1, <6>2, <6>3, Joined
          <6>. QED
            BY <5>1, <6>1, <6>4
        <5>7. R(p) \in Nat
          BY <2>4
        <5>. QED
          BY <5>5, <5>6, <5>7, <4>4, <4>5
      <4>12. CASE ~sortsBefore(x, y, tie)
        <5>1. merged[p] = <<y>> \o merged[r]
          BY <3>4, <4>12, <2>3 DEF Merging
        <5>2. At[y] <= At[x]
          BY <4>2, <4>12 DEF sortsBefore
        <5>3. Rests(r) = RestOf(held, i + 1) \cup RestOf(fresh, j)
          OBVIOUS
        <5>4. \A z \in Rests(r) : z \in Ids /\ At[y] <= At[z] /\ y # z
          <6>. SUFFICES ASSUME NEW z \in Rests(r)
                        PROVE  z \in Ids /\ At[y] <= At[z] /\ y # z
            OBVIOUS
          <6>1. CASE z \in RestOf(held, i + 1)
            BY <6>1, <4>7
          <6>2. CASE z = x
            BY <6>2, <5>2, <4>2, <4>9
          <6>3. CASE z \in RestOf(fresh, j + 1)
            <7>1. z \in Ids /\ z \in ToSet(fresh) /\ At[x] <= At[z] /\ At[z] \in Nat
              BY <6>3, <4>8, Stamped
            <7>. QED
              BY <7>1, <5>2, <4>2
          <6>. QED
            BY <6>1, <6>2, <6>3, <5>3, <4>6
        <5>5. Rests(p) = {y} \cup Rests(r)
          BY <5>3, <4>6
        <5>. HIDE DEF x, y, q, r, Rests, R, D
        <5>6. /\ merged[p] \in Seq(Ids) /\ Ordered(merged[p])
              /\ ToSet(merged[p]) = {y} \cup ToSet(merged[r]) /\ Len(merged[p]) = 1 + Len(merged[r])
          <6>1. <<y>> \in Seq(Ids) /\ Ordered(<<y>>) /\ ToSet(<<y>>) = {y} /\ Len(<<y>>) = 1
            BY <4>2, <4>10
          <6>2. merged[r] \in Seq(Ids) /\ Ordered(merged[r]) /\ ToSet(merged[r]) = Rests(r)
            BY <4>5
          <6>3. \A a \in ToSet(<<y>>), z \in ToSet(merged[r]) : At[a] <= At[z] /\ a # z
            BY <5>4, <6>1, <6>2
          <6>4. /\ <<y>> \o merged[r] \in Seq(Ids) /\ Ordered(<<y>> \o merged[r])
                /\ ToSet(<<y>> \o merged[r]) = ToSet(<<y>>) \cup ToSet(merged[r])
                /\ Len(<<y>> \o merged[r]) = Len(<<y>>) + Len(merged[r])
            BY <6>1, <6>2, <6>3, Joined
          <6>. QED
            BY <5>1, <6>1, <6>4
        <5>7. R(p) \in Nat
          BY <2>4
        <5>. QED
          BY <5>5, <5>6, <5>7, <4>4, <4>5
      <4>. QED
        BY <4>11, <4>12
    <3>. QED
      BY <3>2, <3>3, <3>4
  <2>. HIDE DEF Good, D, R
  <2>. DEFINE T == {n \in Nat : \E p \in D : R(p) = n /\ ~Good(p)}
  <2>6. T = {}
    <3>. SUFFICES ASSUME T # {}
                  PROVE  FALSE
      OBVIOUS
    <3>1. T \in SUBSET Nat
      OBVIOUS
    <3>2. Min(T) \in T /\ \A n \in T : Min(T) <= n
      <4>. HIDE DEF T
      <4>. QED
        BY <3>1, MinNat
    <3>3. PICK p \in D : R(p) = Min(T) /\ ~Good(p)
      BY <3>2
    <3>4. PICK q \in D : R(q) < R(p) /\ ~Good(q)
      BY <3>3, <2>5
    <3>5. R(q) \in T
      BY <3>4, <2>4
    <3>6. R(q) \in Nat /\ R(p) \in Nat
      BY <2>4
    <3>. QED
      BY <3>2, <3>3, <3>4, <3>5, <3>6
  <2>7. \A p \in D : Good(p)
    BY <2>4, <2>6
  <2>8. <<1, 1>> \in D
    BY <1>1 DEF D, Places
  <2>9. Good(<<1, 1>>)
    BY <2>7, <2>8
  <2>10. R(<<1, 1>>) = Len(held) + Len(fresh)
    BY <1>1 DEF R, Remaining
  <2>11. Rests(<<1, 1>>) = ToSet(held) \cup ToSet(fresh)
    BY ListFacts DEF RestOf
  <2>. QED
    BY <2>2, <2>9, <2>10, <2>11 DEF Good
<1>. QED
  BY <1>2, <1>3

-----------------------------------------------------------------------------
(* What is done to a conversation's window.                                *)

IsTimeline(t) ==
    t = [messages |-> t.messages, unreadFrom |-> t.unreadFrom, readMarker |-> t.readMarker,
         hasMore |-> t.hasMore, detachedAt |-> t.detachedAt, loadingOlder |-> t.loadingOlder,
         askedBehind |-> t.askedBehind]

WellHeld(list) == list \in Seq(Ids) /\ Ordered(list) /\ Len(list) <= TIMELINE_CAP

LEMMA LandedIs ==
  ASSUME NEW t, IsTimeline(t), NEW fresh, NEW answers, NEW w, w = afterHistoryLanded(t, fresh, answers)
  PROVE  /\ IsTimeline(w) /\ w.messages = t.messages /\ w.detachedAt = t.detachedAt
         /\ w.loadingOlder = t.loadingOlder
         /\ \/ (t.askedBehind = None \/ answers # t.askedBehind) /\ w = t
            \/ /\ t.askedBehind # None /\ answers = t.askedBehind
               /\ w.askedBehind = None /\ w.hasMore = (fresh # 0 /\ t.hasMore)
BY DEF IsTimeline, afterHistoryLanded

\* What comes of a batch that lands: the newest of what was held and of what came.
Lands(w, t, batch) ==
    /\ IsTimeline(w) /\ WellHeld(w.messages) /\ w.messages # <<>>
    /\ Len(t.messages) <= Len(w.messages) /\ Len(w.messages) <= Len(t.messages) + Len(batch.messages)
    /\ \A m \in ToSet(w.messages) : m \in ToSet(t.messages) \/ m \in ToSet(batch.messages)
    /\ Len(w.messages) < TIMELINE_CAP =>
         /\ \A m \in ToSet(t.messages) : m \in ToSet(w.messages)
         /\ \A m \in ToSet(batch.messages) : m \in ToSet(w.messages)
    /\ \A m \in ToSet(t.messages) : At[m] <= At[Last(w.messages)]
    /\ \A m \in ToSet(batch.messages) : At[m] <= At[Last(w.messages)]
    /\ w.detachedAt = t.detachedAt /\ w.loadingOlder = t.loadingOlder
    /\ \/ w.hasMore = t.hasMore /\ w.askedBehind = t.askedBehind
       \/ /\ batch.answers # None /\ batch.answers = t.askedBehind /\ w.askedBehind = None
          /\ w.hasMore = (t.hasMore /\ \E m \in ToSet(batch.messages) : m \notin ToSet(t.messages))

LEMMA AppendedIs ==
  ASSUME NEW t, NEW batch, NEW isActive, NEW w, w = Appended(t, batch, isActive),
         IsTimeline(t), WellHeld(t.messages),
         batch.messages \in Seq(Ids), Ordered(batch.messages), batch.messages # <<>>
  PROVE  Lands(w, t, batch)
<1>. DEFINE held == t.messages
            messages == batch.messages
            all == ToSet(t.messages) \cup ToSet(batch.messages)
            fresh == Fresh(t.messages, batch.messages)
            answered == afterHistoryLanded(t, Len(fresh), batch.answers)
            history == readBack(fresh, batch.live)
            merged == mergeByTime(held, fresh, history)
            landed == IF batch.answers = None THEN t ELSE answered
            unread == IF landed.unreadFrom # None THEN landed.unreadFrom
                      ELSE seamAt(fresh, batch.live, isActive, t.readMarker)
<1>1. /\ held \in Seq(Ids) /\ Ordered(held) /\ Len(held) <= TIMELINE_CAP /\ Len(held) \in Nat
      /\ messages \in Seq(Ids) /\ Ordered(messages) /\ messages # <<>> /\ Len(messages) \in Nat
      /\ TIMELINE_CAP \in Nat \ {0}
  BY ListFacts, TimelinesAssumption DEF WellHeld
<1>. HIDE DEF fresh
<1>2. /\ fresh \in Seq(Ids) /\ Ordered(fresh) /\ ToSet(fresh) = ToSet(messages) \ ToSet(held)
      /\ Len(fresh) <= Len(messages)
  <2>. HIDE DEF held, messages
  <2>1. fresh = Fresh(held, messages)
    BY DEF fresh, held, messages
  <2>. QED
    BY <1>1, <2>1, FreshIs
<1>3. /\ IsTimeline(landed) /\ landed.messages = held /\ landed.detachedAt = t.detachedAt
      /\ landed.loadingOlder = t.loadingOlder
  BY LandedIs
<1>4. fresh = <<>> => w = landed
  BY DEF Appended, fresh
<1>5. fresh # <<>> => w = [landed EXCEPT !.messages = capped(merged), !.unreadFrom = unread]
  <2>. HIDE DEF history
  <2>1. mergeByTime(landed.messages, fresh, history) = merged
    BY <1>3
  <2>. QED
    BY <2>1 DEF Appended, history, fresh
<1>. HIDE DEF held, messages, unread, merged, history
<1>6. all = ToSet(held) \cup ToSet(messages) /\ \A x \in all : x \in Ids
  BY <1>1, ListFacts DEF held, messages
<1>9. /\ IsTimeline(w) /\ WellHeld(w.messages) /\ w.messages # <<>>
      /\ ToSet(w.messages) \subseteq all /\ Len(t.messages) <= Len(w.messages)
      /\ Len(w.messages) <= Len(t.messages) + Len(batch.messages)
      /\ Len(w.messages) < TIMELINE_CAP => ToSet(w.messages) = all
      /\ \A x \in all : At[x] <= At[Last(w.messages)]
      /\ w.hasMore = landed.hasMore /\ w.askedBehind = landed.askedBehind
      /\ w.detachedAt = t.detachedAt /\ w.loadingOlder = t.loadingOlder
      /\ fresh \in Seq(Ids) /\ ToSet(fresh) = ToSet(batch.messages) \ ToSet(t.messages)
  <2>7. CASE fresh = <<>>
    <3>1. ToSet(messages) \subseteq ToSet(held)
      BY <1>1, <1>2, <2>7, ListFacts
    <3>2. held # <<>>
      BY <1>1, <3>1, ListFacts
    <3>3. \A x \in all : At[x] <= At[Last(held)]
      BY <1>1, <1>6, <3>1, <3>2, OrderedEnds
    <3>4. Len(held) <= Len(held) + Len(messages)
      BY <1>1
    <3>5. w.messages = held /\ IsTimeline(w) /\ w.hasMore = landed.hasMore /\ w.askedBehind = landed.askedBehind
          /\ w.detachedAt = t.detachedAt /\ w.loadingOlder = t.loadingOlder
      BY <1>3, <1>4, <2>7
    <3>6. ToSet(held) = all /\ WellHeld(held) /\ Len(held) <= Len(held)
      BY <1>1, <1>6, <3>1 DEF WellHeld
    <3>. QED
      BY <1>2, <3>2, <3>3, <3>4, <3>5, <3>6, Zenon DEF held, messages
  <2>8. CASE fresh # <<>>
    <3>1. /\ merged \in Seq(Ids) /\ Ordered(merged) /\ ToSet(merged) = ToSet(held) \cup ToSet(fresh)
          /\ Len(merged) = Len(held) + Len(fresh)
      BY <1>1, <1>2, <2>8, MergeIs DEF merged
    <3>2. ToSet(merged) = all /\ Len(fresh) \in Nat /\ merged # <<>> /\ Len(merged) \in Nat
      BY <1>1, <1>2, <1>6, <3>1, ListFacts
    <3>. DEFINE kept == Newest(merged, TIMELINE_CAP)
    <3>3. /\ kept \in Seq(Ids) /\ Ordered(kept) /\ Len(kept) <= TIMELINE_CAP /\ ToSet(kept) \subseteq ToSet(merged)
          /\ Len(merged) <= TIMELINE_CAP => kept = merged
          /\ Len(merged) > TIMELINE_CAP => Len(kept) = TIMELINE_CAP
          /\ kept # <<>> /\ Last(kept) = Last(merged)
      BY <1>1, <3>1, <3>2, NewestIs
    <3>4. /\ w.messages = kept /\ IsTimeline(w) /\ w.hasMore = landed.hasMore
          /\ w.askedBehind = landed.askedBehind /\ w.detachedAt = t.detachedAt /\ w.loadingOlder = t.loadingOlder
      <4>1. w = [landed EXCEPT !.messages = kept, !.unreadFrom = unread]
        BY <1>5, <2>8 DEF capped
      <4>. HIDE DEF kept
      <4>. QED
        BY <4>1, <1>3 DEF IsTimeline
    <3>. HIDE DEF kept
    <3>5. Len(held) <= Len(kept) /\ Len(kept) <= Len(held) + Len(messages)
          /\ (Len(kept) < TIMELINE_CAP => kept = merged)
      BY <1>1, <1>2, <3>1, <3>2, <3>3
    <3>6. \A x \in all : At[x] <= At[Last(kept)]
      BY <3>1, <3>2, <3>3, OrderedEnds
    <3>. QED
      BY <1>2, <3>2, <3>3, <3>4, <3>5, <3>6 DEF WellHeld, held, messages
  <2>. QED
    BY <2>7, <2>8
<1>. HIDE DEF landed
<1>10. /\ batch.answers = None => w.hasMore = t.hasMore /\ w.askedBehind = t.askedBehind
       /\ batch.answers # None => w.hasMore = answered.hasMore /\ w.askedBehind = answered.askedBehind
  <2>1. w.hasMore = landed.hasMore /\ w.askedBehind = landed.askedBehind
    BY <1>9
  <2>2. (batch.answers = None => landed = t) /\ (batch.answers # None => landed = answered)
    BY DEF landed
  <2>. HIDE DEF held, messages
  <2>. QED
    BY <2>1, <2>2
<1>11. Len(fresh) # 0 <=> \E m \in ToSet(batch.messages) : m \notin ToSet(t.messages)
  <2>. HIDE DEF fresh
  <2>1. Len(fresh) # 0 <=> ToSet(fresh) # {}
    BY <1>9, ListFacts
  <2>. QED
    BY <1>9, <2>1
<1>12. ASSUME batch.answers # None
      PROVE  \/ w.hasMore = t.hasMore /\ w.askedBehind = t.askedBehind
             \/ /\ batch.answers = t.askedBehind /\ w.askedBehind = None
                /\ w.hasMore = (t.hasMore /\ \E m \in ToSet(batch.messages) : m \notin ToSet(t.messages))
  <2>. DEFINE n == Len(fresh)
  <2>1. answered = afterHistoryLanded(t, n, batch.answers)
    OBVIOUS
  <2>. HIDE DEF n, answered
  <2>2. \/ answered = t
        \/ /\ batch.answers = t.askedBehind /\ answered.askedBehind = None
           /\ answered.hasMore = (n # 0 /\ t.hasMore)
    BY <2>1, LandedIs
  <2>3. CASE answered = t
    BY <1>10, <1>12, <2>3
  <2>4. CASE answered # t
    <3>1. batch.answers = t.askedBehind /\ answered.askedBehind = None
          /\ answered.hasMore = (n # 0 /\ t.hasMore)
      BY <2>2, <2>4
    <3>2. (n # 0 /\ t.hasMore) = (t.hasMore /\ \E m \in ToSet(batch.messages) : m \notin ToSet(t.messages))
      <4>1. n # 0 <=> \E m \in ToSet(batch.messages) : m \notin ToSet(t.messages)
        BY <1>11 DEF n
      <4>. QED
        BY <4>1, Zenon
    <3>3. w.hasMore = answered.hasMore /\ w.askedBehind = answered.askedBehind
      BY <1>10, <1>12
    <3>. QED
      BY <3>1, <3>2, <3>3, Zenon
  <2>. QED
    BY <2>3, <2>4
<1>13. /\ \A m \in ToSet(w.messages) : m \in ToSet(t.messages) \/ m \in ToSet(batch.messages)
       /\ \A m \in ToSet(t.messages) : m \in all
       /\ \A m \in ToSet(batch.messages) : m \in all
  BY <1>9
<1>. HIDE DEF all, fresh, answered
<1>16. /\ Len(w.messages) < TIMELINE_CAP => ToSet(w.messages) = all
       /\ \A x \in all : At[x] <= At[Last(w.messages)]
  BY <1>9, Zenon
<1>14. Len(w.messages) < TIMELINE_CAP =>
        /\ \A m \in ToSet(t.messages) : m \in ToSet(w.messages)
        /\ \A m \in ToSet(batch.messages) : m \in ToSet(w.messages)
  BY <1>13, <1>16
<1>15. /\ \A m \in ToSet(t.messages) : At[m] <= At[Last(w.messages)]
       /\ \A m \in ToSet(batch.messages) : At[m] <= At[Last(w.messages)]
  BY <1>13, <1>16
<1>. QED
  BY <1>9, <1>10, <1>12, <1>13, <1>14, <1>15, Zenon DEF Lands

\* What comes of a page read from the archive: what there is room for of it is filed
\* with what is held.
Files(w, t, older, more) ==
    /\ IsTimeline(w) /\ WellHeld(w.messages) /\ Len(t.messages) <= Len(w.messages)
    /\ \A m \in ToSet(t.messages) : m \in ToSet(w.messages)
    /\ \A m \in ToSet(w.messages) : m \in ToSet(t.messages) \/ m \in ToSet(older)
    /\ Len(w.messages) < TIMELINE_CAP =>
         /\ \A m \in ToSet(older) : m \in ToSet(w.messages)
         /\ w.hasMore = (t.hasMore /\ more)
    /\ Len(t.messages) < TIMELINE_CAP =>
         /\ \A m \in ToSet(t.messages) : At[m] <= At[Last(w.messages)]
         /\ \A m \in ToSet(older) : At[m] <= At[Last(w.messages)]
    /\ ~w.loadingOlder /\ w.detachedAt = t.detachedAt /\ w.askedBehind = t.askedBehind
    /\ w.hasMore \in BOOLEAN

LEMMA PrependedIs ==
  ASSUME NEW t, NEW older \in Seq(Ids), NEW more, NEW w, w = prependHistory(t, older, more),
         IsTimeline(t), WellHeld(t.messages), Ordered(older)
  PROVE  Files(w, t, older, more)
<1>. DEFINE held == t.messages
            all == ToSet(t.messages) \cup ToSet(older)
            fresh == Unheld(older, ToSet(held))
            room == IF TIMELINE_CAP > Len(held) THEN TIMELINE_CAP - Len(held) ELSE 0
            kept == Newest(fresh, room)
            behind == held = <<>> \/ kept = <<>> \/ At[Last(kept)] <= At[Head(held)]
            filed == IF behind THEN kept \o held ELSE mergeByTime(held, kept, readBack(kept, {}))
<1>1. /\ held \in Seq(Ids) /\ Ordered(held) /\ Len(held) <= TIMELINE_CAP /\ Len(held) \in Nat
      /\ TIMELINE_CAP \in Nat \ {0} /\ room \in Nat /\ room = TIMELINE_CAP - Len(held)
  <2>1. held \in Seq(Ids) /\ Ordered(held) /\ Len(held) <= TIMELINE_CAP /\ Len(held) \in Nat
    BY ListFacts DEF WellHeld
  <2>2. TIMELINE_CAP \in Nat \ {0}
    BY TimelinesAssumption
  <2>. HIDE DEF held
  <2>3. TIMELINE_CAP \in Nat /\ Len(held) \in Nat /\ Len(held) <= TIMELINE_CAP
    BY <2>1, <2>2
  <2>4. room \in Nat /\ room = TIMELINE_CAP - Len(held)
    BY <2>3
  <2>. QED
    BY <2>1, <2>2, <2>4, Zenon
<1>2. /\ fresh \in Seq(Ids) /\ Ordered(fresh) /\ ToSet(fresh) = ToSet(older) \ ToSet(held)
      /\ Len(fresh) \in Nat
  BY UnheldIs, ListFacts
<1>3. /\ w = [t EXCEPT !.messages = filed, !.hasMore = @ /\ Len(kept) = Len(fresh) /\ more,
                       !.loadingOlder = FALSE]
  BY DEF prependHistory
<1>15. all = ToSet(held) \cup ToSet(older)
  OBVIOUS
<1>. HIDE DEF filed, fresh, kept, room
<1>4. /\ IsTimeline(w) /\ w.messages = filed /\ w.hasMore = (t.hasMore /\ Len(kept) = Len(fresh) /\ more)
      /\ ~w.loadingOlder /\ w.detachedAt = t.detachedAt /\ w.askedBehind = t.askedBehind
  BY <1>3 DEF IsTimeline
<1>. HIDE DEF held
<1>5. /\ kept \in Seq(Ids) /\ Ordered(kept) /\ Len(kept) <= room /\ ToSet(kept) \subseteq ToSet(fresh)
      /\ Len(fresh) <= room => kept = fresh
      /\ Len(fresh) > room => Len(kept) = room
      /\ fresh # <<>> /\ room # 0 => kept # <<>> /\ Last(kept) = Last(fresh)
      /\ Len(kept) \in Nat
  <2>1. /\ kept \in Seq(Ids) /\ Ordered(kept) /\ Len(kept) <= room /\ ToSet(kept) \subseteq ToSet(fresh)
        /\ Len(fresh) <= room => kept = fresh
        /\ Len(fresh) > room => Len(kept) = room
        /\ fresh # <<>> /\ room # 0 => kept # <<>> /\ Last(kept) = Last(fresh)
    BY <1>1, <1>2, NewestIs DEF kept
  <2>2. Len(kept) \in Nat
    BY <2>1, ListFacts
  <2>. QED
    BY <2>1, <2>2
<1>6. \A x \in ToSet(kept), y \in ToSet(held) : x \in Ids /\ y \in Ids /\ x # y
  BY <1>1, <1>2, <1>5, ListFacts
<1>7. /\ filed \in Seq(Ids) /\ Ordered(filed) /\ ToSet(filed) = ToSet(held) \cup ToSet(kept)
      /\ Len(filed) = Len(held) + Len(kept)
  <2>1. CASE behind
    <3>1. \A x \in ToSet(kept), y \in ToSet(held) : At[x] <= At[y] /\ x # y
      <4>. SUFFICES ASSUME NEW x \in ToSet(kept), NEW y \in ToSet(held)
                    PROVE  At[x] <= At[y]
        BY <1>6
      <4>1. held # <<>> /\ kept # <<>>
        BY <1>1, <1>5, ListFacts
      <4>2. At[x] <= At[Last(kept)] /\ At[Last(kept)] <= At[Head(held)] /\ At[Head(held)] <= At[y]
        BY <2>1, <4>1, <1>1, <1>5, OrderedEnds
      <4>3. x \in Ids /\ y \in Ids /\ Last(kept) \in Ids /\ Head(held) \in Ids
        BY <4>1, <1>1, <1>5, <1>6, ListFacts
      <4>4. At[x] \in Nat /\ At[y] \in Nat /\ At[Last(kept)] \in Nat /\ At[Head(held)] \in Nat
        BY <4>3, Stamped
      <4>. QED
        BY <4>2, <4>4
    <3>2. /\ kept \o held \in Seq(Ids) /\ Ordered(kept \o held)
          /\ ToSet(kept \o held) = ToSet(kept) \cup ToSet(held) /\ Len(kept \o held) = Len(kept) + Len(held)
      BY <3>1, <1>1, <1>5, Joined
    <3>3. filed = kept \o held
      BY <2>1 DEF filed
    <3>. QED
      BY <3>2, <3>3, <1>1, <1>5
  <2>2. CASE ~behind
    <3>1. filed = mergeByTime(held, kept, readBack(kept, {})) /\ kept # <<>>
      BY <2>2 DEF filed
    <3>2. ToSet(held) \cap ToSet(kept) = {}
      BY <1>6
    <3>. QED
      BY <3>1, <3>2, <1>1, <1>5, MergeIs
  <2>. QED
    BY <2>1, <2>2
<1>8. Len(filed) <= TIMELINE_CAP /\ Len(held) <= Len(filed)
  BY <1>1, <1>5, <1>7
<1>9. ToSet(filed) \subseteq all
  BY <1>2, <1>5, <1>7, <1>15
<1>10. Len(filed) < TIMELINE_CAP => kept = fresh
  BY <1>1, <1>2, <1>5, <1>7
<1>11. kept = fresh => ToSet(filed) = all
  BY <1>2, <1>7, <1>15
<1>12. ASSUME Len(held) < TIMELINE_CAP, NEW x \in all
       PROVE  At[x] <= At[Last(filed)]
  <2>1. room # 0
    BY <1>1, <1>12
  <2>2. x \in Ids
    BY <1>1, <1>12, <1>15, ListFacts
  <2>3. CASE x \in ToSet(filed)
    <3>1. filed # <<>>
      BY <2>3, <1>7, ListFacts
    <3>. QED
      BY <2>3, <3>1, <1>7, OrderedEnds
  <2>4. CASE x \notin ToSet(filed)
    <3>1. x \in ToSet(fresh)
      BY <2>4, <1>2, <1>7, <1>12, <1>15
    <3>2. fresh # <<>>
      BY <3>1, <1>2, ListFacts
    <3>3. kept # <<>> /\ Last(kept) = Last(fresh)
      BY <3>2, <2>1, <1>5
    <3>4. At[x] <= At[Last(kept)] /\ Last(kept) \in ToSet(filed) /\ Last(kept) \in Ids
      BY <3>1, <3>2, <3>3, <1>2, <1>5, <1>7, OrderedEnds, ListFacts
    <3>5. filed # <<>> /\ At[Last(kept)] <= At[Last(filed)] /\ Last(filed) \in Ids
      BY <3>4, <1>7, OrderedEnds, ListFacts
    <3>6. At[x] \in Nat /\ At[Last(kept)] \in Nat /\ At[Last(filed)] \in Nat
      BY <2>2, <3>4, <3>5, Stamped
    <3>. QED
      BY <3>4, <3>5, <3>6
  <2>. QED
    BY <2>3, <2>4
<1>13. ToSet(held) \subseteq ToSet(filed)
  BY <1>7
<1>14. WellHeld(filed)
  BY <1>7, <1>8 DEF WellHeld
<1>16. /\ \A m \in ToSet(t.messages) : m \in all
       /\ \A m \in ToSet(older) : m \in all
       /\ \A m \in all : m \in ToSet(t.messages) \/ m \in ToSet(older)
  OBVIOUS
<1>. HIDE DEF all
<1>17. /\ \A m \in ToSet(t.messages) : m \in ToSet(w.messages)
       /\ \A m \in ToSet(w.messages) : m \in ToSet(t.messages) \/ m \in ToSet(older)
  BY <1>4, <1>9, <1>13, <1>16 DEF held
<1>18. Len(filed) < TIMELINE_CAP =>
         /\ \A m \in ToSet(older) : m \in ToSet(filed)
         /\ w.hasMore = (t.hasMore /\ more)
  BY <1>4, <1>10, <1>11, <1>16
<1>19. Len(held) < TIMELINE_CAP =>
         /\ \A m \in ToSet(t.messages) : At[m] <= At[Last(filed)]
         /\ \A m \in ToSet(older) : At[m] <= At[Last(filed)]
  BY <1>12, <1>16
<1>20. w.hasMore \in BOOLEAN
  BY <1>4
<1>. QED
  BY <1>4, <1>8, <1>14, <1>17, <1>18, <1>19, <1>20, Zenon DEF held, Files
-----------------------------------------------------------------------------
(* What the state is made of, whatever crosses.                            *)

Low(b) == Greater(1, b - PAGE_SIZE)

\* A line said live, and a page the server sent.
LiveLine(e, from, to) == \E m \in from..to : e = Batch(<<m>>, {m}, None)
Page(e, from, to) == \E b \in 2..to : e = Batch(Between(Low(b), b - 1), {}, b) /\ from <= Low(b)

\* A run of what the archive holds.
Archived(list, n, held) ==
    \E x \in held.from..held.to, y \in held.from..held.to :
        x <= y /\ y - x <= n /\ list = Between(x, y)

Calls == [at : {"idle", "archive", "server"}, older : Seq(Ids), oldest : Ids \cup {None},
          outcome : {None, "more", "end", "waiting"}]

\* The server's side and the pump's: what is archived was said, what was asked is behind a
\* message of the conversation, what is held is a live line, a page or word of a drop.
WireKept ==
    /\ said \in Ids /\ archive = [from |-> archive.from, to |-> archive.to]
    /\ archive.to \in 0..said /\ archive.from \in 1..(archive.to + 1) /\ served \in 1..archive.from
    /\ asks \subseteq [behind : 1..said, load : Loads]
    /\ events \in Seq({None} \cup [messages : Seq(Ids), live : SUBSET Ids, answers : Ids \cup {None}])
    /\ \A i \in 1..Len(events) : events[i] = None \/ LiveLine(events[i], archive.from, said) \/ Page(events[i], served, said)
LoadsKept ==
    /\ load \in [Loads -> Calls]
    /\ \A r \in Loads : /\ load[r].oldest # None => load[r].oldest <= said
                        /\ load[r].at = "server" => load[r].oldest # None
                        /\ load[r].older = <<>> \/ Archived(load[r].older, PAGE_SIZE - 2, archive)
WindowKept ==
    /\ IsTimeline(timeline) /\ WellHeld(Window) /\ \A m \in ToSet(Window) : m <= said
    /\ timeline.hasMore \in BOOLEAN /\ timeline.loadingOlder \in BOOLEAN
    /\ timeline.askedBehind \in Ids \cup {None} /\ timeline.detachedAt \in Ids \cup {None}
    /\ Window = <<>> => timeline.detachedAt = None
PaneKept ==
    /\ timeline.detachedAt # None \/ latest # None => archive.from <= archive.to
    /\ jump = None \/ Archived(jump, 2 * Reach, archive)
    /\ latest = None \/ latest = [tail |-> None]
       \/ \E tail \in Seq(Ids) : latest = [tail |-> tail] /\ Archived(tail, PAGE_SIZE - 1, archive)
    /\ {wanted, following, crossed, mistaken, online, late} \subseteq BOOLEAN
Kept == WireKept /\ LoadsKept /\ WindowKept /\ PaneKept


LEMMA IdsAre ==
  /\ Cardinality(Ids) \in Nat /\ Ids = 1..Cardinality(Ids) /\ Ids \subseteq Nat
  /\ \A n \in Ids : n \in Nat /\ n >= 1 /\ 1..n \subseteq Ids
  /\ PAGE_SIZE \in Nat /\ PAGE_SIZE >= 1 /\ Reach \in Nat /\ TIMELINE_CAP \in Nat
  /\ PAGE_SIZE < TIMELINE_CAP /\ 2 * Reach < TIMELINE_CAP
<1>1. Ids = 1..Cardinality(Ids) /\ Ids \subseteq Nat /\ IsFiniteSet(Ids)
  BY PagingAssumption, TimelinesAssumption
<1>2. Cardinality(Ids) \in Nat
  BY <1>1, FS_CardinalityType
<1>3. \A n \in Ids : n \in Nat /\ n >= 1 /\ 1..n \subseteq Ids
  BY <1>1, <1>2
<1>4. PAGE_SIZE \in Nat \ {0} /\ Reach \in Nat /\ TIMELINE_CAP \in Nat \ {0}
      /\ PAGE_SIZE < TIMELINE_CAP /\ 2 * Reach < TIMELINE_CAP
  BY PagingAssumption, TimelinesAssumption
<1>. QED
  BY <1>1, <1>2, <1>3, <1>4

\* What the archive is read for: a run that ends before the message asked from.
PageEnd(before) == IF before = None THEN archive.to ELSE Lesser(archive.to, before - 1)

LEMMA ArchivePageIs ==
  ASSUME WireKept, NEW before \in Ids \cup {None}
  PROVE  LET older == ArchivePage(before)
             to == PageEnd(before)
             from == Greater(archive.from, to - PAGE_SIZE + 1)
         IN  /\ older = Between(from, to) /\ older \in Seq(Ids) /\ Ordered(older)
             /\ to \in Int /\ to <= archive.to /\ (before # None => to < before)
             /\ before # None /\ before <= archive.to + 1 => to = before - 1
             /\ from \in Nat /\ archive.from <= from
             /\ ToSet(older) = from..to /\ ToSet(older) \subseteq archive.from..archive.to
             /\ Len(older) <= PAGE_SIZE
             /\ older = <<>> <=> to < archive.from
             /\ older # <<>> => /\ Len(older) = to - from + 1 /\ from <= to
                                /\ Head(older) = from /\ Last(older) = to
             /\ Len(older) = PAGE_SIZE => older # <<>> /\ from = to - PAGE_SIZE + 1
             /\ older # <<>> /\ Len(older) < PAGE_SIZE => from = archive.from
<1>. DEFINE older == ArchivePage(before)
            to == PageEnd(before)
            from == Greater(archive.from, to - PAGE_SIZE + 1)
<1>1. /\ said \in Ids /\ archive.to \in 0..said /\ archive.from \in 1..(archive.to + 1)
      /\ archive.to \in Nat /\ archive.from \in Nat /\ archive.from >= 1 /\ 1..said \subseteq Ids /\ said \in Nat
  BY IdsAre DEF WireKept
<1>2. before # None => before \in Nat /\ before >= 1
  BY IdsAre
<1>3. /\ to \in Int /\ to <= archive.to /\ (before # None => to < before)
      /\ (before # None /\ before <= archive.to + 1 => to = before - 1)
  BY <1>1, <1>2 DEF PageEnd, Lesser
<1>4. older = Between(from, to)
  BY DEF ArchivePage, PageEnd
<1>. HIDE DEF to
<1>5. /\ from \in Nat /\ archive.from <= from /\ PAGE_SIZE \in Nat /\ PAGE_SIZE >= 1
      /\ from <= to <=> archive.from <= to
      /\ to - from + 1 <= PAGE_SIZE
      /\ to - from + 1 = PAGE_SIZE => from = to - PAGE_SIZE + 1
      /\ from <= to /\ to - from + 1 < PAGE_SIZE => from = archive.from
  BY <1>1, <1>3, IdsAre DEF Greater
<1>6. from..to \subseteq archive.from..archive.to /\ from..to \subseteq Ids
  BY <1>1, <1>3, <1>5
<1>. HIDE DEF from, older
<1>7. /\ older \in Seq(Ids) /\ Ordered(older) /\ ToSet(older) = from..to
      /\ from <= to => /\ Len(older) = to - from + 1 /\ older # <<>>
                       /\ Head(older) = from /\ Last(older) = to
      /\ ~(from <= to) => older = <<>> /\ Len(older) = 0
  BY <1>3, <1>4, <1>5, <1>6, BetweenIs
<1>8. CASE from <= to
  <2>1. ~(to < archive.from)
    BY <1>1, <1>3, <1>5, <1>8
  <2>. QED
    BY <1>3, <1>4, <1>5, <1>6, <1>7, <1>8, <2>1 DEF from, to, older
<1>9. CASE ~(from <= to)
  <2>1. to < archive.from /\ 0 <= PAGE_SIZE /\ 0 # PAGE_SIZE
    BY <1>1, <1>3, <1>5, <1>9
  <2>. QED
    BY <1>3, <1>4, <1>5, <1>6, <1>7, <1>9, <2>1 DEF from, to, older
<1>. QED
  BY <1>8, <1>9

\* What is archived is a list in its order, all of it said.
LEMMA ArchivedIs ==
  ASSUME WireKept, NEW list, NEW n \in Int, Archived(list, n, archive)
  PROVE  \E x \in archive.from..archive.to, y \in archive.from..archive.to :
           /\ x <= y /\ y - x <= n /\ list = Between(x, y) /\ list \in Seq(Ids) /\ Ordered(list)
           /\ list # <<>> /\ Head(list) = x /\ Last(list) = y /\ ToSet(list) = x..y /\ Len(list) = y - x + 1
           /\ x \in Ids /\ y \in Ids /\ y <= said
<1>1. /\ said \in Ids /\ archive.to \in 0..said /\ archive.from \in 1..(archive.to + 1)
      /\ archive.to \in Nat /\ archive.from \in Nat /\ archive.from >= 1 /\ 1..said \subseteq Ids /\ said \in Nat
  BY IdsAre DEF WireKept
<1>2. PICK x \in archive.from..archive.to, y \in archive.from..archive.to :
        x <= y /\ y - x <= n /\ list = Between(x, y)
  BY DEF Archived
<1>3. x \in Nat /\ y \in Int /\ x..y \subseteq Ids /\ x \in Ids /\ y \in Ids /\ y <= said
  BY <1>1, <1>2
<1>. QED
  BY <1>2, <1>3, BetweenIs

\* A run of the archive is one still as it grows.
LEMMA ArchivedStays ==
  ASSUME NEW list, NEW n, Archived(list, n, archive), WireKept,
         archive'.from \in Int, archive'.to \in Int, archive'.from <= archive.from, archive.to <= archive'.to
  PROVE  Archived(list, n, archive')
<1>1. archive.from..archive.to \subseteq archive'.from..archive'.to
  BY IdsAre DEF WireKept
<1>. QED
  BY <1>1 DEF Archived

\* What a page the server sends has.
LEMMA PageIs ==
  ASSUME NEW b \in Ids, b >= 2
  PROVE  /\ Low(b) \in Ids /\ Low(b) < b /\ Between(Low(b), b - 1) \in Seq(Ids)
         /\ Ordered(Between(Low(b), b - 1)) /\ ToSet(Between(Low(b), b - 1)) = Low(b)..(b - 1)
         /\ Between(Low(b), b - 1) # <<>> /\ Head(Between(Low(b), b - 1)) = Low(b)
         /\ Last(Between(Low(b), b - 1)) = b - 1 /\ Len(Between(Low(b), b - 1)) = b - Low(b)
         /\ Len(Between(Low(b), b - 1)) <= PAGE_SIZE
<1>1. b \in Nat /\ 1..b \subseteq Ids /\ PAGE_SIZE \in Nat /\ PAGE_SIZE >= 1
  BY IdsAre
<1>2. Low(b) \in Nat /\ Low(b) >= 1 /\ Low(b) <= b - 1 /\ b - Low(b) <= PAGE_SIZE
  BY <1>1 DEF Low, Greater
<1>3. Low(b)..(b - 1) \subseteq Ids /\ Low(b) \in Ids
  BY <1>1, <1>2
<1>4. (b - 1) - Low(b) + 1 = b - Low(b) /\ b - 1 \in Int /\ Low(b) < b
  BY <1>1, <1>2
<1>5. LET page == Between(Low(b), b - 1)
      IN  /\ page \in Seq(Ids) /\ Ordered(page) /\ ToSet(page) = Low(b)..(b - 1) /\ page # <<>>
          /\ Head(page) = Low(b) /\ Last(page) = b - 1 /\ Len(page) = (b - 1) - Low(b) + 1
  BY <1>2, <1>3, <1>4, BetweenIs
<1>. QED
  BY <1>2, <1>3, <1>4, <1>5

-----------------------------------------------------------------------------
(* Each action keeps the shape.                                            *)

Numbers ==
    /\ said \in Ids /\ said \in Nat /\ said >= 1 /\ archive.from \in Nat /\ archive.from >= 1 /\ archive.to \in Nat
    /\ archive.from <= archive.to + 1 /\ archive.to <= said /\ 1..said \subseteq Ids
    /\ served \in Nat /\ served >= 1 /\ served <= archive.from
    /\ archive = [from |-> archive.from, to |-> archive.to]

LEMMA NumbersAre ==
  ASSUME WireKept
  PROVE  Numbers
<1>1. /\ said \in Ids /\ archive.to \in 0..said /\ archive.from \in 1..(archive.to + 1)
      /\ served \in 1..archive.from /\ archive = [from |-> archive.from, to |-> archive.to]
  BY DEF WireKept
<1>2. said \in Nat /\ said >= 1 /\ 1..said \subseteq Ids
  BY <1>1, IdsAre
<1>. QED
  BY <1>1, <1>2 DEF Numbers

\* What the pump holds is of the shape of a batch.
LEMMA BatchIs ==
  ASSUME WireKept, NEW i \in 1..Len(events), events[i] # None
  PROVE  \/ \E m \in Ids : /\ m \in archive.from..said /\ events[i] = Batch(<<m>>, {m}, None)
         \/ \E b \in Ids : /\ b \in 2..said /\ events[i] = Batch(Between(Low(b), b - 1), {}, b)
                           /\ served <= Low(b)
<1>1. LiveLine(events[i], archive.from, said) \/ Page(events[i], served, said)
  BY DEF WireKept
<1>2. \A m \in archive.from..said : m \in Ids
  BY NumbersAre DEF Numbers
<1>3. \A b \in 2..said : b \in Ids
  BY NumbersAre DEF Numbers
<1>. QED
  BY <1>1, <1>2, <1>3 DEF LiveLine, Page

Event == {None} \cup [messages : Seq(Ids), live : SUBSET Ids, answers : Ids \cup {None}]

LEMMA EventsAre ==
  ASSUME WireKept
  PROVE  /\ events \in Seq(Event) /\ Len(events) \in Nat /\ DOMAIN events = 1..Len(events)
         /\ \A i \in 1..Len(events) : events[i] \in Event
         /\ events # <<>> => /\ Head(events) = events[1] /\ Len(events) >= 1 /\ Tail(events) \in Seq(Event)
                             /\ Len(Tail(events)) = Len(events) - 1
                             /\ \A i \in 1..(Len(events) - 1) : Tail(events)[i] = events[i + 1]
         /\ \A e \in Event : /\ Append(events, e) \in Seq(Event) /\ Len(Append(events, e)) = Len(events) + 1
                             /\ \A i \in 1..Len(events) : Append(events, e)[i] = events[i]
                             /\ Append(events, e)[Len(events) + 1] = e
<1>1. events \in Seq(Event)
  BY DEF WireKept, Event
<1>. HIDE DEF Event
<1>2. Len(events) \in Nat /\ DOMAIN events = 1..Len(events)
  BY <1>1, LenProperties
<1>3. \A i \in 1..Len(events) : events[i] \in Event
  BY <1>1, ElementOfSeq
<1>4. events # <<>> => /\ Head(events) = events[1] /\ Len(events) >= 1 /\ Tail(events) \in Seq(Event)
                       /\ Len(Tail(events)) = Len(events) - 1
                       /\ \A i \in 1..(Len(events) - 1) : Tail(events)[i] = events[i + 1]
  BY <1>1, <1>2
<1>5. \A e \in Event : /\ Append(events, e) \in Seq(Event) /\ Len(Append(events, e)) = Len(events) + 1
                       /\ \A i \in 1..Len(events) : Append(events, e)[i] = events[i]
                       /\ Append(events, e)[Len(events) + 1] = e
  BY <1>1, <1>2
<1>. QED
  BY <1>1, <1>2, <1>3, <1>4, <1>5

\* What is added to the pump is a line said, a page or word of a drop.
LEMMA EventAdded ==
  ASSUME WireKept, NEW e \in Event, events' = Append(events, e),
         said' \in Nat, said <= said', served' \in Nat, served' <= served, UNCHANGED archive,
         e = None \/ LiveLine(e, archive.from, said') \/ Page(e, served', said')
  PROVE  /\ events' \in Seq(Event)
         /\ \A i \in 1..Len(events') : events'[i] = None \/ LiveLine(events'[i], archive.from, said') \/ Page(events'[i], served', said')
<1>1. /\ events' \in Seq(Event) /\ Len(events') = Len(events) + 1 /\ Len(events) \in Nat
      /\ \A i \in 1..Len(events) : events'[i] = events[i]
      /\ events'[Len(events) + 1] = e
  BY EventsAre
<1>2. Numbers
  BY NumbersAre
<1>3. ASSUME NEW i \in 1..Len(events')
      PROVE  events'[i] = None \/ LiveLine(events'[i], archive.from, said') \/ Page(events'[i], served', said')
  <2>1. CASE i = Len(events) + 1
    BY <2>1, <1>1
  <2>2. CASE i # Len(events) + 1
    <3>1. i \in 1..Len(events) /\ events'[i] = events[i]
      BY <2>2, <1>1
    <3>2. CASE events[i] = None
      BY <3>1, <3>2
    <3>3. CASE LiveLine(events[i], archive.from, said)
      <4>1. PICK m \in archive.from..said : events[i] = Batch(<<m>>, {m}, None)
        BY <3>3 DEF LiveLine
      <4>2. m \in archive.from..said'
        BY <4>1, <1>2 DEF Numbers
      <4>. QED
        BY <3>1, <4>1, <4>2 DEF LiveLine
    <3>4. CASE Page(events[i], served, said)
      <4>1. PICK b \in 2..said : events[i] = Batch(Between(Low(b), b - 1), {}, b) /\ served <= Low(b)
        BY <3>4 DEF Page
      <4>2. b \in 2..said' /\ Low(b) \in Nat
        <5>1. b \in 2..said' /\ b \in Nat /\ PAGE_SIZE \in Nat
          BY <1>2, IdsAre DEF Numbers
        <5>. QED
          BY <5>1 DEF Low, Greater
      <4>3. served' <= Low(b)
        BY <4>1, <4>2, <1>2 DEF Numbers
      <4>. QED
        BY <3>1, <4>1, <4>2, <4>3 DEF Page
    <3>. QED
      BY <3>1, <3>2, <3>3, <3>4 DEF WireKept
  <2>. QED
    BY <2>1, <2>2
<1>. QED
  BY <1>1, <1>3
-----------------------------------------------------------------------------
(* The shape is kept, whatever happens.                                    *)
\* What is read of the archive stays read of it as it grows, and so does the rest of the
\* shape that only looks at how far the conversation has got.
LEMMA Grown ==
  ASSUME Kept, said' \in Nat, said <= said', archive'.from \in Int, archive'.to \in Int,
         archive'.from <= archive.from, archive.to <= archive'.to
  PROVE  /\ UNCHANGED load => LoadsKept'
         /\ UNCHANGED timeline => WindowKept'
         /\ UNCHANGED <<timeline, latest, jump, wanted, following, crossed, mistaken, online, late, madeUp>>
              => PaneKept'
<1>1. Numbers /\ WireKept
  BY NumbersAre DEF Kept
<1>2. \A list, n : Archived(list, n, archive) => Archived(list, n, archive')
  BY <1>1, ArchivedStays
<1>3. ASSUME UNCHANGED load
      PROVE  LoadsKept'
  <2>1. \A r \in Loads : load[r].oldest # None => load[r].oldest <= said'
    BY <1>1, IdsAre DEF Kept, LoadsKept, Calls, Numbers
  <2>. QED
    BY <1>2, <1>3, <2>1 DEF Kept, LoadsKept
<1>4. ASSUME UNCHANGED timeline
      PROVE  WindowKept'
  <2>1. WindowKept /\ ToSet(Window) \subseteq Ids
    BY ListFacts DEF Kept, WindowKept, WellHeld
  <2>2. \A m \in ToSet(Window) : m <= said'
    BY <1>1, <2>1, IdsAre DEF WindowKept, Numbers
  <2>3. Window' = Window
    BY <1>4 DEF Window
  <2>. QED
    BY <1>4, <2>1, <2>2, <2>3 DEF WindowKept
<1>5. ASSUME UNCHANGED <<timeline, latest, jump, wanted, following, crossed, mistaken, online, late, madeUp>>
      PROVE  PaneKept'
  <2>1. archive.from <= archive.to => archive'.from <= archive'.to
    BY <1>1 DEF Numbers
  <2>. QED
    BY <1>2, <1>5, <2>1 DEF Kept, PaneKept
<1>. QED
  BY <1>3, <1>4, <1>5

LEMMA KeptSay ==
  ASSUME Kept, Say
  PROVE  Kept'
<1>1. WireKept /\ Numbers
  BY NumbersAre DEF Kept
<1>2. said + 1 \in Ids /\ said' = said + 1
  BY DEF Say
<1>. DEFINE e == Batch(<<said'>>, {said'}, None)
<1>3. e \in Event /\ LiveLine(e, archive.from, said')
  <2>1. said' \in archive.from..said' /\ said' \in Ids
    BY <1>1, <1>2 DEF Numbers
  <2>2. <<said'>> \in Seq(Ids) /\ {said'} \in SUBSET Ids
    BY <2>1
  <2>. QED
    BY <2>1, <2>2 DEF Batch, Event, LiveLine
<1>. HIDE DEF e
<1>4. events' = Append(events, e) /\ UNCHANGED <<archive, asks, served>>
  BY DEF Say, link, e
<1>5. WireKept'
  <2>1. said' \in Nat /\ said <= said' /\ served' \in Nat /\ served' <= served
    BY <1>1, <1>2, <1>4 DEF Numbers
  <2>2. /\ events' \in Seq(Event)
        /\ \A i \in 1..Len(events') :
             events'[i] = None \/ LiveLine(events'[i], archive.from, said') \/ Page(events'[i], served', said')
    BY <1>1, <1>3, <1>4, <2>1, EventAdded
  <2>3. 1..said \subseteq 1..said' /\ archive.to \in 0..said'
    BY <1>1, <1>2 DEF Numbers
  <2>4. asks \subseteq [behind : 1..said', load : Loads]
    BY <1>1, <2>3 DEF WireKept
  <2>. QED
    BY <1>1, <1>2, <1>4, <2>2, <2>3, <2>4 DEF WireKept, Event
<1>6. LoadsKept' /\ WindowKept' /\ PaneKept'
  <2>1. said' \in Nat /\ said <= said' /\ archive'.from \in Int /\ archive'.to \in Int
        /\ archive'.from <= archive.from /\ archive.to <= archive'.to
    BY <1>1, <1>2, <1>4 DEF Numbers
  <2>2. UNCHANGED <<load, timeline, latest, jump, wanted, following, crossed, mistaken, online, late, madeUp>>
    BY DEF Say, pane, jumping, crossings, link
  <2>. QED
    BY <2>1, <2>2, Grown
<1>. QED
  BY <1>5, <1>6 DEF Kept

LEMMA KeptArchive ==
  ASSUME Kept, Archive
  PROVE  Kept'
<1>1. WireKept /\ Numbers
  BY NumbersAre DEF Kept
<1>2. /\ archive'.from \in Nat /\ archive'.to \in Nat /\ archive'.from <= archive.from /\ archive'.from >= served
      /\ archive.to <= archive'.to /\ archive'.to <= said /\ archive'.from <= archive'.to + 1
      /\ archive' = [from |-> archive'.from, to |-> archive'.to]
  <2>1. CASE archive.to < said /\ archive' = [archive EXCEPT !.to = @ + 1, !.from = Lesser(@, archive.to + 1)]
    <3>1. archive' = [from |-> Lesser(archive.from, archive.to + 1), to |-> archive.to + 1]
      BY <2>1, <1>1 DEF Numbers
    <3>2. archive'.from = Lesser(archive.from, archive.to + 1) /\ archive'.to = archive.to + 1
      BY <3>1
    <3>3. archive'.from = archive.from
      BY <3>2, <1>1 DEF Numbers, Lesser
    <3>4. archive' = [from |-> archive.from, to |-> archive.to + 1]
      BY <3>1, <3>2, <3>3
    <3>5. archive'.from = archive.from /\ archive'.to = archive.to + 1
          /\ archive' = [from |-> archive'.from, to |-> archive'.to]
      BY <3>4
    <3>. QED
      BY <2>1, <3>5, <1>1 DEF Numbers
  <2>2. CASE served < archive.from /\ archive' = [archive EXCEPT !.from = served]
    <3>1. archive' = [from |-> served, to |-> archive.to]
      BY <2>2, <1>1 DEF Numbers
    <3>. QED
      BY <2>2, <3>1, <1>1 DEF Numbers
  <2>. QED
    BY <2>1, <2>2 DEF Archive
<1>3. UNCHANGED <<said, events, asks, served, load, timeline, latest, jump, wanted, following, crossed,
                  mistaken, online, late, madeUp>>
  BY DEF Archive, pane, jumping, crossings, link
<1>4. WireKept'
  <2>1. \A i \in 1..Len(events) : LiveLine(events[i], archive.from, said) => LiveLine(events[i], archive'.from, said)
    <3>1. archive.from..said \subseteq archive'.from..said
      BY <1>1, <1>2 DEF Numbers
    <3>. QED
      BY <3>1 DEF LiveLine
  <2>2. archive'.to \in 0..said /\ archive'.from \in 1..(archive'.to + 1) /\ served \in 1..archive'.from
    BY <1>1, <1>2 DEF Numbers
  <2>. QED
    BY <1>1, <1>2, <1>3, <2>1, <2>2 DEF WireKept
<1>5. LoadsKept' /\ WindowKept' /\ PaneKept'
  <2>1. said' \in Nat /\ said <= said' /\ archive'.from \in Int /\ archive'.to \in Int
    BY <1>1, <1>2, <1>3 DEF Numbers
  <2>. QED
    BY <1>2, <1>3, <2>1, Grown
<1>. QED
  BY <1>4, <1>5 DEF Kept

\* What the window is left with is all of it said.
LEMMA KeptDeliver ==
  ASSUME Kept, Deliver
  PROVE  Kept'
<1>1. WireKept /\ Numbers /\ WindowKept /\ PaneKept
  BY NumbersAre DEF Kept
<1>2. events # <<>> /\ events' = Tail(events) /\ UNCHANGED <<said, archive, asks, served, load, latest, jump,
        wanted, following, crossed, mistaken, online, late, madeUp>>
  BY DEF Deliver, pane, jumping, crossings, link
<1>3. /\ events' \in Seq(Event) /\ Len(events') = Len(events) - 1 /\ Len(events) \in Nat /\ Len(events) >= 1
      /\ \A i \in 1..(Len(events) - 1) : events'[i] = events[i + 1]
      /\ Head(events) = events[1]
  BY <1>1, <1>2, EventsAre
<1>4. WireKept'
  <2>1. \A i \in 1..Len(events') : i + 1 \in 1..Len(events) /\ events'[i] = events[i + 1]
    BY <1>3
  <2>2. \A i \in 1..Len(events') : events'[i] = None \/ LiveLine(events'[i], archive.from, said)
                                   \/ Page(events'[i], served, said)
    BY <1>1, <2>1 DEF WireKept
  <2>. QED
    BY <1>1, <1>2, <1>3, <2>2 DEF WireKept, Event
<1>5. LoadsKept'
  BY <1>1, <1>2, Grown DEF Numbers
<1>6. WindowKept' /\ PaneKept'
  <2>1. CASE Head(events) = None
    <3>1. timeline' = [timeline EXCEPT !.askedBehind = None]
      BY <2>1 DEF Deliver, forgetPageBacks
    <3>2. /\ IsTimeline(timeline') /\ timeline'.messages = timeline.messages /\ timeline'.askedBehind = None
          /\ timeline'.hasMore = timeline.hasMore /\ timeline'.loadingOlder = timeline.loadingOlder
          /\ timeline'.detachedAt = timeline.detachedAt
      BY <3>1, <1>1 DEF WindowKept, IsTimeline
    <3>. QED
      BY <1>1, <1>2, <3>2 DEF WindowKept, PaneKept, Window
  <2>2. CASE Head(events) # None
    <3>. DEFINE batch == events[1]
                active == TRUE
    <3>1. batch # None /\ timeline' = Appended(timeline, batch, active)
      BY <2>2, <1>3 DEF Deliver
    <3>2. /\ batch.messages \in Seq(Ids) /\ Ordered(batch.messages) /\ batch.messages # <<>>
          /\ \A m \in ToSet(batch.messages) : m \in Ids /\ m <= said
      <4>1. 1 \in 1..Len(events)
        BY <1>3
      <4>2. CASE \E m \in Ids : m \in archive.from..said /\ batch = Batch(<<m>>, {m}, None)
        <5>1. PICK m \in Ids : m \in archive.from..said /\ batch = Batch(<<m>>, {m}, None)
          BY <4>2
        <5>2. batch.messages = <<m>> /\ m <= said
          BY <5>1, <1>1 DEF Batch, Numbers
        <5>3. <<m>> \in Seq(Ids) /\ Ordered(<<m>>) /\ <<m>> # <<>> /\ ToSet(<<m>>) = {m}
          BY DEF Ordered, ToSet
        <5>. QED
          BY <5>2, <5>3
      <4>3. CASE \E b \in Ids : b \in 2..said /\ batch = Batch(Between(Low(b), b - 1), {}, b)
        <5>1. PICK b \in Ids : b \in 2..said /\ batch = Batch(Between(Low(b), b - 1), {}, b)
          BY <4>3
        <5>2. batch.messages = Between(Low(b), b - 1) /\ b >= 2
          BY <5>1 DEF Batch
        <5>3. \A m \in Low(b)..(b - 1) : m <= said
          BY <5>1, <1>1 DEF Numbers
        <5>4. ToSet(Between(Low(b), b - 1)) = Low(b)..(b - 1) /\ ToSet(Between(Low(b), b - 1)) \subseteq Ids
          BY <5>2, PageIs, ListFacts
        <5>. QED
          BY <5>2, <5>3, <5>4, PageIs
      <4>. HIDE DEF batch
      <4>. QED
        BY <1>1, <3>1, <4>1, <4>2, <4>3, BatchIs DEF batch
    <3>. HIDE DEF batch, active
    <3>3. /\ IsTimeline(timeline) /\ WellHeld(timeline.messages)
      BY <1>1 DEF WindowKept, Window
    <3>7. Lands(timeline', timeline, batch)
      BY <3>1, <3>2, <3>3, AppendedIs
    <3>4. /\ IsTimeline(timeline') /\ WellHeld(timeline'.messages) /\ timeline'.messages # <<>>
          /\ \A m \in ToSet(timeline'.messages) : m \in ToSet(timeline.messages) \/ m \in ToSet(batch.messages)
          /\ timeline'.detachedAt = timeline.detachedAt /\ timeline'.loadingOlder = timeline.loadingOlder
      BY <3>7 DEF Lands
    <3>5. timeline'.hasMore \in BOOLEAN /\ timeline'.askedBehind \in Ids \cup {None}
      BY <1>1, <3>7 DEF WindowKept, Lands
    <3>6. \A m \in ToSet(timeline'.messages) : m <= said
      BY <3>2, <3>4, <1>1 DEF WindowKept, Window
    <3>. QED
      BY <1>1, <1>2, <3>4, <3>5, <3>6 DEF WindowKept, PaneKept, Window
  <2>. QED
    BY <2>1, <2>2
<1>. QED
  BY <1>4, <1>5, <1>6 DEF Kept

\* What an action leaves alone stays of its shape.
LEMMA Same ==
  ASSUME Kept
  PROVE  /\ UNCHANGED <<said, archive, events, asks, served>> => WireKept'
         /\ UNCHANGED <<said, archive, load>> => LoadsKept'
         /\ UNCHANGED <<said, timeline>> => WindowKept'
         /\ UNCHANGED <<archive, timeline, latest, jump, wanted, following, crossed, mistaken, online, late, madeUp>>
              => PaneKept'
<1>1. UNCHANGED <<said, archive, events, asks, served>> => WireKept'
  BY DEF Kept, WireKept
<1>2. UNCHANGED <<said, archive, load>> => LoadsKept'
  BY DEF Kept, LoadsKept
<1>3. UNCHANGED <<said, timeline>> => WindowKept'
  BY DEF Kept, WindowKept, Window
<1>4. UNCHANGED <<archive, timeline, latest, jump, wanted, following, crossed, mistaken, online, late, madeUp>>
        => PaneKept'
  BY DEF Kept, PaneKept
<1>. QED
  BY <1>1, <1>2, <1>3, <1>4

\* A call of loadOlder is what it may be.
CallKept(c) ==
    /\ c.oldest # None => c.oldest <= said
    /\ c.at = "server" => c.oldest # None
    /\ c.older = <<>> \/ Archived(c.older, PAGE_SIZE - 2, archive)

LEMMA LoadSet ==
  ASSUME LoadsKept, NEW r \in Loads, NEW c \in Calls, CallKept(c), load' = [load EXCEPT ![r] = c],
         UNCHANGED <<said, archive>>
  PROVE  LoadsKept'
BY DEF LoadsKept, CallKept

LEMMA IdleIs == Idle \in Calls /\ CallKept(Idle)
<1>1. <<>> \in Seq(Ids)
  OBVIOUS
<1>. QED
  BY <1>1 DEF Idle, Calls, CallKept

LEMMA CallIs ==
  ASSUME LoadsKept, NEW r \in Loads
  PROVE  /\ load[r] \in Calls /\ CallKept(load[r])
         /\ load[r] = [at |-> load[r].at, older |-> load[r].older, oldest |-> load[r].oldest,
                       outcome |-> load[r].outcome]
         /\ \A o \in {None, "more", "end", "waiting"} :
              /\ [load[r] EXCEPT !.outcome = o] \in Calls /\ CallKept([load[r] EXCEPT !.outcome = o])
              /\ [load[r] EXCEPT !.outcome = o] =
                   [at |-> load[r].at, older |-> load[r].older, oldest |-> load[r].oldest, outcome |-> o]
<1>1. load[r] \in Calls /\ CallKept(load[r])
  BY DEF LoadsKept, CallKept
<1>2. load[r] = [at |-> load[r].at, older |-> load[r].older, oldest |-> load[r].oldest, outcome |-> load[r].outcome]
  BY <1>1 DEF Calls
<1>3. ASSUME NEW o \in {None, "more", "end", "waiting"}
      PROVE  /\ [load[r] EXCEPT !.outcome = o] \in Calls /\ CallKept([load[r] EXCEPT !.outcome = o])
             /\ [load[r] EXCEPT !.outcome = o] =
                  [at |-> load[r].at, older |-> load[r].older, oldest |-> load[r].oldest, outcome |-> o]
  <2>1. [load[r] EXCEPT !.outcome = o] \in Calls
    BY <1>1 DEF Calls
  <2>2. [load[r] EXCEPT !.outcome = o] =
          [at |-> load[r].at, older |-> load[r].older, oldest |-> load[r].oldest, outcome |-> o]
    BY <1>1 DEF Calls
  <2>3. CallKept([load[r] EXCEPT !.outcome = o])
    BY <1>1, <2>2 DEF CallKept
  <2>. QED
    BY <2>1, <2>2, <2>3
<1>. QED
  BY <1>1, <1>2, <1>3

\* The window that is left when a page is filed.
LEMMA FinishKept ==
  ASSUME Kept, NEW r \in Loads, NEW older \in Seq(Ids), Ordered(older), \A m \in ToSet(older) : m <= said,
         NEW more, NEW asked \in Ids \cup {None}, Finish(r, older, more, asked),
         UNCHANGED <<said, archive, latest, jump, wanted, following, crossed, mistaken>>,
         {online', late'} \subseteq BOOLEAN
  PROVE  /\ LoadsKept' /\ WindowKept' /\ PaneKept'
         /\ \E w : /\ Files(w, timeline, older, more) /\ timeline'.messages = w.messages
                   /\ timeline'.hasMore = w.hasMore /\ timeline'.askedBehind = asked
                   /\ ~timeline'.loadingOlder /\ timeline'.detachedAt = timeline.detachedAt
<1>1. WindowKept /\ PaneKept /\ LoadsKept
  BY DEF Kept
<1>2. PICK w : w = prependHistory(timeline, older, more)
  OBVIOUS
<1>3. Files(w, timeline, older, more)
  <2>1. IsTimeline(timeline) /\ WellHeld(timeline.messages)
    BY <1>1 DEF WindowKept, Window
  <2>. QED
    BY <1>2, <2>1, PrependedIs
<1>4. timeline' = [w EXCEPT !.askedBehind = asked] /\ load' = [load EXCEPT ![r] = Idle]
  BY <1>2 DEF Finish
<1>5. IsTimeline(w)
  BY <1>3 DEF Files
<1>6. /\ IsTimeline(timeline') /\ timeline'.messages = w.messages /\ timeline'.hasMore = w.hasMore
      /\ timeline'.askedBehind = asked /\ timeline'.loadingOlder = w.loadingOlder
      /\ timeline'.detachedAt = w.detachedAt
  BY <1>4, <1>5 DEF IsTimeline
<1>7. LoadsKept'
  BY <1>1, <1>4, IdleIs, LoadSet
<1>8. /\ WellHeld(w.messages) /\ Len(timeline.messages) <= Len(w.messages)
      /\ w.hasMore \in BOOLEAN /\ ~w.loadingOlder /\ w.detachedAt = timeline.detachedAt
      /\ \A m \in ToSet(w.messages) : m \in ToSet(timeline.messages) \/ m \in ToSet(older)
      /\ w.loadingOlder = FALSE
  BY <1>3 DEF Files
<1>9. w.messages = <<>> => timeline.messages = <<>>
  <2>1. timeline.messages \in Seq(Ids) /\ w.messages \in Seq(Ids)
    BY <1>1, <1>8 DEF WindowKept, WellHeld, Window
  <2>. QED
    BY <1>8, <2>1, ListFacts
<1>10. WindowKept'
  <2>1. \A m \in ToSet(w.messages) : m <= said
    BY <1>1, <1>8 DEF WindowKept, Window
  <2>2. timeline'.loadingOlder \in BOOLEAN /\ timeline'.hasMore \in BOOLEAN
    BY <1>6, <1>8
  <2>. QED
    BY <1>1, <1>6, <1>8, <1>9, <2>1, <2>2 DEF WindowKept, Window
<1>11. PaneKept'
  BY <1>1, <1>6, <1>8 DEF PaneKept
<1>. QED
  BY <1>3, <1>6, <1>7, <1>8, <1>10, <1>11

LEMMA KeptServerAnswers ==
  ASSUME Kept, NEW ask \in asks, ServerAnswers(ask)
  PROVE  Kept'
<1>1. WireKept /\ Numbers /\ LoadsKept
  BY NumbersAre DEF Kept
<1>. DEFINE b == ask.behind
            page == Between(Low(b), b - 1)
<1>2. b \in 1..said /\ ask.load \in Loads /\ b \in Ids /\ b \in Nat /\ b >= 1 /\ b <= said
  BY <1>1 DEF WireKept, Numbers
<1>3. /\ asks' = asks \ {ask}
      /\ events' = IF page = <<>> THEN events ELSE Append(events, Batch(page, {}, b))
      /\ served' = IF page = <<>> THEN served ELSE Lesser(served, Head(page))
      /\ UNCHANGED <<said, archive, timeline, pane, crossings, online, drops, madeUp, late>>
  BY DEF ServerAnswers, Low
<1>4. LoadsKept'
  <2>. DEFINE outcome == IF Len(page) = PAGE_SIZE THEN "more" ELSE "end"
              o == IF Unanswered(load[ask.load]) /\ load[ask.load].oldest = ask.behind THEN outcome
                   ELSE load[ask.load].outcome
  <2>1. load' = [load EXCEPT ![ask.load].outcome = o]
    BY DEF ServerAnswers, Low
  <2>2. o \in {None, "more", "end", "waiting"}
    <3>1. load[ask.load].outcome \in {None, "more", "end", "waiting"}
      BY <1>1, <1>2 DEF LoadsKept, Calls
    <3>. QED
      BY <3>1
  <2>. HIDE DEF o
  <2>3. load' = [load EXCEPT ![ask.load] = [load[ask.load] EXCEPT !.outcome = o]]
    BY <2>1
  <2>. QED
    BY <1>1, <1>2, <1>3, <2>2, <2>3, CallIs, LoadSet
<1>5. WireKept'
  <2>1. CASE b = 1
    <3>1. page = <<>>
      <4>1. Low(b) = 1
        BY <2>1, IdsAre DEF Low, Greater
      <4>2. 1 \in Nat /\ 0 \in Int /\ 1..0 \subseteq Ids /\ ~(1 <= 0) /\ b - 1 = 0
        BY <2>1
      <4>. QED
        BY <4>1, <4>2, BetweenIs
    <3>. QED
      BY <1>1, <1>3, <3>1 DEF WireKept
  <2>2. CASE b # 1
    <3>1. b >= 2
      BY <1>2, <2>2
    <3>2. /\ Low(b) \in Ids /\ Low(b) < b /\ page \in Seq(Ids) /\ page # <<>> /\ Head(page) = Low(b)
      BY <1>2, <3>1, PageIs
    <3>3. Low(b) \in Nat /\ Low(b) >= 1
      BY <3>2, IdsAre
    <3>. DEFINE e == Batch(page, {}, b)
    <3>4. events' = Append(events, e) /\ served' = Lesser(served, Low(b))
      BY <1>3, <3>2
    <3>5. served' \in Nat /\ served' >= 1 /\ served' <= served /\ served' <= Low(b)
      BY <1>1, <3>3, <3>4 DEF Lesser, Numbers
    <3>6. e \in Event
      BY <1>2, <3>2 DEF Event, Batch
    <3>7. Page(e, served', said)
      <4>1. b \in 2..said
        BY <1>2, <3>1
      <4>. QED
        BY <3>5, <4>1 DEF Page
    <3>. HIDE DEF e
    <3>8. /\ events' \in Seq(Event)
          /\ \A i \in 1..Len(events') :
               events'[i] = None \/ LiveLine(events'[i], archive.from, said') \/ Page(events'[i], served', said')
      <4>1. said' = said /\ said' \in Nat /\ said <= said' /\ UNCHANGED archive
        BY <1>1, <1>3 DEF Numbers
      <4>2. Page(e, served', said')
        BY <3>7, <4>1
      <4>. QED
        BY <1>1, <3>4, <3>5, <3>6, <4>1, <4>2, EventAdded
    <3>9. served' \in 1..archive.from
      BY <1>1, <3>5 DEF Numbers
    <3>. QED
      BY <1>1, <1>3, <3>8, <3>9 DEF WireKept, Event
  <2>. QED
    BY <2>1, <2>2
<1>6. WindowKept' /\ PaneKept'
  BY <1>3, Same DEF pane, jumping, crossings
<1>. QED
  BY <1>4, <1>5, <1>6 DEF Kept

LEMMA KeptDisconnect ==
  ASSUME Kept, Disconnect
  PROVE  Kept'
<1>1. WireKept /\ Numbers /\ LoadsKept /\ PaneKept
  BY NumbersAre DEF Kept
<1>2. /\ events' = Append(events, None) /\ asks' = {} /\ load' = Ended /\ online' = FALSE
      /\ UNCHANGED <<said, archive, timeline, latest, jump, wanted, following, crossed, mistaken, late, served>>
  BY <1>1 DEF Disconnect, pane, jumping, crossings, PaneKept
<1>3. WireKept'
  <2>1. /\ events' \in Seq(Event)
        /\ \A i \in 1..Len(events') :
             events'[i] = None \/ LiveLine(events'[i], archive.from, said') \/ Page(events'[i], served', said')
    <3>1. None \in Event
      BY DEF Event
    <3>2. said' \in Nat /\ said <= said' /\ served' \in Nat /\ served' <= served
      BY <1>1, <1>2 DEF Numbers
    <3>. QED
      BY <1>1, <1>2, <3>1, <3>2, EventAdded
  <2>. QED
    BY <1>1, <1>2, <2>1 DEF WireKept, Event
<1>4. LoadsKept'
  <2>1. load' \in [Loads -> Calls]
    BY <1>1, <1>2, CallIs DEF Ended
  <2>2. \A r \in Loads : load'[r] = load[r] \/ load'[r] = [load[r] EXCEPT !.outcome = "end"]
    BY <1>2 DEF Ended
  <2>3. \A r \in Loads : CallKept(load'[r])
    BY <1>1, <2>2, CallIs
  <2>. QED
    BY <1>2, <2>1, <2>3 DEF LoadsKept, CallKept
<1>5. WindowKept'
  BY <1>2, Same
<1>6. PaneKept'
  BY <1>1, <1>2 DEF PaneKept
<1>. QED
  BY <1>3, <1>4, <1>5, <1>6 DEF Kept

LEMMA KeptReconnect ==
  ASSUME Kept, Reconnect
  PROVE  Kept'
<1>1. WireKept' /\ LoadsKept' /\ WindowKept'
  BY Same DEF Reconnect, pane, jumping, crossings
<1>2. PaneKept'
  BY DEF Kept, PaneKept, Reconnect, pane, jumping, crossings
<1>. QED
  BY <1>1, <1>2 DEF Kept

LEMMA KeptLoadOlder ==
  ASSUME Kept, NEW r \in Loads, LoadOlder(r)
  PROVE  Kept'
<1>1. WindowKept /\ LoadsKept /\ PaneKept
  BY DEF Kept
<1>. DEFINE oldest == Oldest(timeline.messages)
            c == [Idle EXCEPT !.at = "archive", !.oldest = oldest]
<1>2. /\ timeline' = [timeline EXCEPT !.loadingOlder = TRUE] /\ load' = [load EXCEPT ![r] = c]
      /\ UNCHANGED <<said, archive, events, asks, served, latest, jump, wanted, following, crossed, mistaken,
                     online, late, madeUp>>
  BY DEF LoadOlder, wire, pane, jumping, crossings, link
<1>3. oldest \in Ids \cup {None} /\ (oldest # None => oldest <= said)
  <2>1. timeline.messages \in Seq(Ids)
    BY <1>1 DEF WindowKept, Window, WellHeld
  <2>2. \A m \in ToSet(timeline.messages) : m <= said
    BY <1>1 DEF WindowKept, Window
  <2>. QED
    BY <2>1, <2>2, ListFacts DEF Oldest
<1>4. c = [at |-> "archive", older |-> <<>>, oldest |-> oldest, outcome |-> None]
  <2>. DEFINE i == [Idle EXCEPT !.at = "archive"]
  <2>1. i = [at |-> "archive", older |-> <<>>, oldest |-> None, outcome |-> None]
    BY DEF Idle
  <2>2. c = [i EXCEPT !.oldest = oldest]
    OBVIOUS
  <2>. HIDE DEF i, oldest, c
  <2>. QED
    BY <2>1, <2>2
<1>. HIDE DEF oldest, c
<1>5. c \in Calls /\ CallKept(c)
  <2>1. <<>> \in Seq(Ids)
    OBVIOUS
  <2>. QED
    BY <1>3, <1>4, <2>1 DEF Calls, CallKept
<1>6. LoadsKept'
  BY <1>1, <1>2, <1>5, LoadSet
<1>7. /\ IsTimeline(timeline') /\ timeline'.messages = timeline.messages /\ timeline'.hasMore = timeline.hasMore
      /\ timeline'.loadingOlder = TRUE /\ timeline'.askedBehind = timeline.askedBehind
      /\ timeline'.detachedAt = timeline.detachedAt
  BY <1>1, <1>2 DEF WindowKept, IsTimeline
<1>8. WindowKept'
  BY <1>1, <1>2, <1>7 DEF WindowKept, Window
<1>9. PaneKept'
  BY <1>1, <1>2, <1>7 DEF PaneKept
<1>10. WireKept'
  BY <1>2, Same
<1>. QED
  BY <1>6, <1>8, <1>9, <1>10 DEF Kept

\* The page that is read of the archive, and what is asked of the server behind it.
LEMMA ReadIs ==
  ASSUME Kept, NEW r \in Loads, load[r].at = "archive"
  PROVE  LET older == ArchivePage(load[r].oldest)
             oldest == olderOf(Oldest(older), Oldest(timeline.messages))
         IN  /\ older \in Seq(Ids) /\ Ordered(older) /\ Len(older) <= PAGE_SIZE /\ \A m \in ToSet(older) : m <= said
             /\ Len(older) < PAGE_SIZE => older = <<>> \/ Archived(older, PAGE_SIZE - 2, archive)
             /\ oldest \in Ids \cup {None} /\ (oldest # None => oldest <= said)
             /\ older = <<>> => oldest = Oldest(timeline.messages)
             /\ timeline.messages = <<>> => oldest = Oldest(older)
<1>. DEFINE before == load[r].oldest
            older == ArchivePage(before)
            oldest == olderOf(Oldest(older), Oldest(timeline.messages))
<1>1. WireKept /\ Numbers /\ before \in Ids \cup {None}
  BY NumbersAre DEF Kept, LoadsKept, Calls
<1>2. timeline.messages \in Seq(Ids) /\ \A m \in ToSet(timeline.messages) : m <= said
  BY DEF Kept, WindowKept, Window, WellHeld
<1>. HIDE DEF before, older
<1>3. PICK from \in Nat, to \in Int :
         /\ older = Between(from, to) /\ older \in Seq(Ids) /\ Ordered(older) /\ Len(older) <= PAGE_SIZE
         /\ archive.from <= from /\ to <= archive.to /\ ToSet(older) \subseteq archive.from..archive.to
         /\ older # <<>> => Len(older) = to - from + 1 /\ from <= to
  <2>. DEFINE to == PageEnd(before)
              from == Greater(archive.from, to - PAGE_SIZE + 1)
  <2>. HIDE DEF to
  <2>1. /\ older = Between(from, to) /\ older \in Seq(Ids) /\ Ordered(older) /\ Len(older) <= PAGE_SIZE
        /\ archive.from <= from /\ to <= archive.to /\ ToSet(older) \subseteq archive.from..archive.to
        /\ older # <<>> => Len(older) = to - from + 1 /\ from <= to
        /\ from \in Nat /\ to \in Int
    BY <1>1, ArchivePageIs DEF older, to
  <2>. HIDE DEF from
  <2>. QED
    BY <2>1
<1>4. \A m \in ToSet(older) : m <= said
  <2>1. \A m \in archive.from..archive.to : m <= said
    BY <1>1 DEF Numbers
  <2>. QED
    BY <1>3, <2>1
<1>5. Len(older) < PAGE_SIZE => older = <<>> \/ Archived(older, PAGE_SIZE - 2, archive)
  <2>. SUFFICES ASSUME Len(older) < PAGE_SIZE, older # <<>>
                PROVE  Archived(older, PAGE_SIZE - 2, archive)
    OBVIOUS
  <2>1. to - from <= PAGE_SIZE - 2 /\ from \in archive.from..archive.to /\ to \in archive.from..archive.to
        /\ from <= to
    <3>1. PAGE_SIZE \in Nat /\ archive.from \in Nat /\ archive.to \in Nat
      BY <1>1, IdsAre DEF Numbers
    <3>2. to - from + 1 < PAGE_SIZE /\ from <= to /\ archive.from <= from /\ to <= archive.to
      BY <1>3
    <3>. QED
      BY <3>1, <3>2
  <2>. QED
    BY <1>3, <2>1 DEF Archived
<1>6. Oldest(older) \in Ids \cup {None} /\ (Oldest(older) # None => Oldest(older) <= said)
      /\ (older = <<>> => Oldest(older) = None)
  BY <1>3, <1>4, ListFacts DEF Oldest
<1>7. /\ Oldest(timeline.messages) \in Ids \cup {None}
      /\ (Oldest(timeline.messages) # None => Oldest(timeline.messages) <= said)
      /\ (timeline.messages = <<>> => Oldest(timeline.messages) = None)
  BY <1>2, ListFacts DEF Oldest
<1>8. /\ oldest \in {Oldest(older), Oldest(timeline.messages)}
      /\ Oldest(older) = None => oldest = Oldest(timeline.messages)
      /\ Oldest(timeline.messages) = None => oldest = Oldest(older)
  BY DEF olderOf
<1>. QED
  BY <1>3, <1>4, <1>5, <1>6, <1>7, <1>8 DEF older, before

LEMMA KeptArchiveAnswers ==
  ASSUME Kept, NEW r \in Loads, ArchiveAnswers(r)
  PROVE  Kept'
<1>. DEFINE older == ArchivePage(load[r].oldest)
            oldest == olderOf(Oldest(older), Oldest(timeline.messages))
            asking == [at |-> "server", older |-> older, oldest |-> oldest, outcome |-> None]
<1>1. WireKept /\ Numbers /\ LoadsKept /\ WindowKept /\ PaneKept
  BY NumbersAre DEF Kept
<1>2. /\ load[r].at = "archive"
      /\ UNCHANGED <<said, archive, events, served, latest, jump, wanted, following, crossed, mistaken,
                     online, drops, late>>
  BY DEF ArchiveAnswers, pane, jumping, crossings
<1>3. /\ older \in Seq(Ids) /\ Ordered(older) /\ Len(older) <= PAGE_SIZE /\ \A m \in ToSet(older) : m <= said
      /\ Len(older) < PAGE_SIZE => older = <<>> \/ Archived(older, PAGE_SIZE - 2, archive)
      /\ oldest \in Ids \cup {None} /\ (oldest # None => oldest <= said)
  BY <1>2, ReadIs
<1>4. \/ Len(older) = PAGE_SIZE /\ Finish(r, older, TRUE, timeline.askedBehind) /\ UNCHANGED <<asks, madeUp>>
      \/ Len(older) < PAGE_SIZE /\ oldest = None /\ Finish(r, older, FALSE, None) /\ UNCHANGED <<asks, madeUp>>
      \/ /\ Len(older) < PAGE_SIZE /\ oldest # None /\ timeline' = [timeline EXCEPT !.askedBehind = oldest]
         /\ \/ /\ online /\ asks' = asks \cup {[behind |-> oldest, load |-> r]}
               /\ load' = [load EXCEPT ![r] = asking] /\ UNCHANGED madeUp
            \/ /\ ~online /\ madeUp' = "gone"
               /\ load' = [load EXCEPT ![r] = [asking EXCEPT !.outcome = "end"]]
               /\ UNCHANGED asks
  BY DEF ArchiveAnswers
<1>. HIDE DEF older, oldest
<1>5. ASSUME NEW more, NEW asked \in Ids \cup {None}, Finish(r, older, more, asked), UNCHANGED <<asks, madeUp>>
      PROVE  Kept'
  <2>1. WireKept'
    BY <1>1, <1>2, <1>5 DEF WireKept
  <2>2. {online', late'} \subseteq BOOLEAN
    BY <1>1, <1>2, <1>5 DEF PaneKept
  <2>3. LoadsKept' /\ WindowKept' /\ PaneKept'
    BY <1>2, <1>3, <1>5, <2>2, FinishKept
  <2>. QED
    BY <2>1, <2>3 DEF Kept
<1>6. timeline.askedBehind \in Ids \cup {None}
  BY <1>1 DEF WindowKept
<1>7. ASSUME Len(older) < PAGE_SIZE, oldest # None, timeline' = [timeline EXCEPT !.askedBehind = oldest],
             NEW o \in {None, "end"},
             load' = [load EXCEPT ![r] = [at |-> "server", older |-> older, oldest |-> oldest, outcome |-> o]],
             asks' = asks \cup {[behind |-> oldest, load |-> r]} \/ UNCHANGED asks
      PROVE  Kept'
  <2>. DEFINE c == [at |-> "server", older |-> older, oldest |-> oldest, outcome |-> o]
  <2>1. c \in Calls /\ CallKept(c)
    BY <1>3, <1>7 DEF Calls, CallKept
  <2>2. LoadsKept'
    BY <1>1, <1>2, <1>7, <2>1, LoadSet
  <2>3. /\ IsTimeline(timeline') /\ timeline'.messages = timeline.messages /\ timeline'.hasMore = timeline.hasMore
        /\ timeline'.loadingOlder = timeline.loadingOlder /\ timeline'.askedBehind = oldest
        /\ timeline'.detachedAt = timeline.detachedAt
    BY <1>1, <1>7 DEF WindowKept, IsTimeline
  <2>4. WindowKept'
    BY <1>1, <1>2, <1>3, <2>3 DEF WindowKept, Window
  <2>5. PaneKept'
    BY <1>1, <1>2, <1>7, <2>3 DEF PaneKept
  <2>6. WireKept'
    <3>1. oldest \in 1..said
      BY <1>1, <1>3, <1>7, IdsAre DEF Numbers
    <3>2. asks' \subseteq [behind : 1..said, load : Loads]
      BY <1>1, <1>7, <3>1 DEF WireKept
    <3>. QED
      BY <1>1, <1>2, <3>2 DEF WireKept
  <2>. QED
    BY <2>2, <2>4, <2>5, <2>6 DEF Kept
<1>8. [asking EXCEPT !.outcome = "end"] = [at |-> "server", older |-> older, oldest |-> oldest, outcome |-> "end"]
  OBVIOUS
<1>9. CASE Len(older) = PAGE_SIZE /\ Finish(r, older, TRUE, timeline.askedBehind) /\ UNCHANGED <<asks, madeUp>>
  BY <1>5, <1>6, <1>9
<1>10. CASE Len(older) < PAGE_SIZE /\ oldest = None /\ Finish(r, older, FALSE, None) /\ UNCHANGED <<asks, madeUp>>
  BY <1>5, <1>10
<1>11. CASE /\ Len(older) < PAGE_SIZE /\ oldest # None /\ timeline' = [timeline EXCEPT !.askedBehind = oldest]
            /\ \/ /\ online /\ asks' = asks \cup {[behind |-> oldest, load |-> r]}
                  /\ load' = [load EXCEPT ![r] = asking] /\ UNCHANGED madeUp
               \/ /\ ~online /\ madeUp' = "gone"
                  /\ load' = [load EXCEPT ![r] = [asking EXCEPT !.outcome = "end"]]
                  /\ UNCHANGED asks
  BY <1>7, <1>8, <1>11
<1>. QED
  BY <1>4, <1>9, <1>10, <1>11

LEMMA KeptAskFails ==
  ASSUME Kept, NEW r \in Loads, AskFails(r)
  PROVE  Kept'
<1>. DEFINE older == ArchivePage(load[r].oldest)
            oldest == olderOf(Oldest(older), Oldest(timeline.messages))
<1>1. LoadsKept /\ WindowKept /\ PaneKept
  BY DEF Kept
<1>2. /\ load[r].at = "archive" /\ load' = [load EXCEPT ![r] = Idle]
      /\ timeline' = [timeline EXCEPT !.askedBehind = oldest, !.loadingOlder = FALSE]
      /\ UNCHANGED <<said, archive, events, asks, served, latest, jump, wanted, following, crossed, mistaken,
                     online, late, madeUp>>
  BY DEF AskFails, wire, pane, jumping, crossings, link
<1>3. oldest \in Ids \cup {None}
  BY <1>2, ReadIs
<1>. HIDE DEF oldest
<1>4. /\ IsTimeline(timeline') /\ timeline'.messages = timeline.messages /\ timeline'.hasMore = timeline.hasMore
      /\ timeline'.loadingOlder = FALSE /\ timeline'.askedBehind = oldest
      /\ timeline'.detachedAt = timeline.detachedAt
  BY <1>1, <1>2 DEF WindowKept, IsTimeline
<1>5. LoadsKept'
  BY <1>1, <1>2, IdleIs, LoadSet
<1>6. WindowKept'
  BY <1>1, <1>2, <1>3, <1>4 DEF WindowKept, Window
<1>7. PaneKept'
  BY <1>1, <1>2, <1>4 DEF PaneKept
<1>8. WireKept'
  BY <1>2, Same
<1>. QED
  BY <1>5, <1>6, <1>7, <1>8 DEF Kept

LEMMA KeptArchiveFails ==
  ASSUME Kept, NEW r \in Loads, ArchiveFails(r)
  PROVE  Kept'
<1>1. LoadsKept /\ WindowKept /\ PaneKept
  BY DEF Kept
<1>2. /\ load' = [load EXCEPT ![r] = Idle] /\ timeline' = [timeline EXCEPT !.loadingOlder = FALSE]
      /\ UNCHANGED <<said, archive, events, asks, served, latest, jump, wanted, following, crossed, mistaken,
                     online, late, madeUp>>
  BY DEF ArchiveFails, wire, pane, jumping, crossings, link
<1>3. /\ IsTimeline(timeline') /\ timeline'.messages = timeline.messages /\ timeline'.hasMore = timeline.hasMore
      /\ timeline'.loadingOlder = FALSE /\ timeline'.askedBehind = timeline.askedBehind
      /\ timeline'.detachedAt = timeline.detachedAt
  BY <1>1, <1>2 DEF WindowKept, IsTimeline
<1>4. LoadsKept'
  BY <1>1, <1>2, IdleIs, LoadSet
<1>5. WindowKept'
  BY <1>1, <1>2, <1>3 DEF WindowKept, Window
<1>6. PaneKept'
  BY <1>1, <1>2, <1>3 DEF PaneKept
<1>7. WireKept'
  BY <1>2, Same
<1>. QED
  BY <1>4, <1>5, <1>6, <1>7 DEF Kept

LEMMA KeptDeadline ==
  ASSUME Kept, NEW r \in Loads, Deadline(r)
  PROVE  Kept'
<1>1. LoadsKept /\ PaneKept
  BY DEF Kept
<1>2. /\ load' = [load EXCEPT ![r] = [load[r] EXCEPT !.outcome = "waiting"]] /\ late' = TRUE
      /\ UNCHANGED <<said, archive, events, asks, served, timeline, latest, jump, wanted, following, crossed,
                     mistaken, online, madeUp>>
  BY DEF Deadline, wire, pane, jumping, crossings
<1>3. LoadsKept'
  BY <1>1, <1>2, CallIs, LoadSet
<1>4. PaneKept'
  BY <1>1, <1>2 DEF PaneKept
<1>5. WireKept' /\ WindowKept'
  BY <1>2, Same
<1>. QED
  BY <1>3, <1>4, <1>5 DEF Kept

LEMMA KeptOutcomeArrives ==
  ASSUME Kept, NEW r \in Loads, OutcomeArrives(r)
  PROVE  Kept'
<1>1. WireKept /\ Numbers /\ LoadsKept /\ WindowKept /\ PaneKept
  BY NumbersAre DEF Kept
<1>2. /\ \E more, asked : Finish(r, load[r].older, more, asked) /\ asked \in Ids \cup {None}
      /\ UNCHANGED <<said, archive, events, asks, served, latest, jump, wanted, following, crossed, mistaken,
                     online, late, madeUp>>
  <2>1. timeline.askedBehind \in Ids \cup {None}
    BY <1>1 DEF WindowKept
  <2>. QED
    BY <2>1 DEF OutcomeArrives, wire, pane, jumping, crossings, link
<1>3. PICK more, asked : Finish(r, load[r].older, more, asked) /\ asked \in Ids \cup {None}
  BY <1>2
<1>. DEFINE older == load[r].older
<1>4. older \in Seq(Ids) /\ Ordered(older) /\ \A m \in ToSet(older) : m <= said
  <2>1. CASE older = <<>>
    <3>1. <<>> \in Seq(Ids) /\ Ordered(<<>>) /\ ToSet(<<>>) = {}
      BY DEF Ordered, ToSet
    <3>. QED
      BY <2>1, <3>1
  <2>2. CASE older # <<>>
    <3>1. Archived(older, PAGE_SIZE - 2, archive) /\ PAGE_SIZE - 2 \in Int
      BY <1>1, <2>2, IdsAre DEF LoadsKept
    <3>2. PICK x \in archive.from..archive.to, y \in archive.from..archive.to :
            older \in Seq(Ids) /\ Ordered(older) /\ ToSet(older) = x..y /\ y <= said
      <4>. HIDE DEF older
      <4>. QED
        BY <1>1, <3>1, ArchivedIs
    <3>. QED
      BY <3>2, <1>1 DEF Numbers
  <2>. QED
    BY <2>1, <2>2
<1>5. {online', late'} \subseteq BOOLEAN
  BY <1>1, <1>2 DEF PaneKept
<1>. HIDE DEF older
<1>6. Finish(r, older, more, asked)
  BY <1>3 DEF older
<1>7. LoadsKept' /\ WindowKept' /\ PaneKept'
  BY <1>2, <1>3, <1>4, <1>5, <1>6, FinishKept
<1>8. WireKept'
  BY <1>2, Same
<1>. QED
  BY <1>7, <1>8 DEF Kept

\* A window that was read of the archive is filed over the one that is held.
LEMMA ReplacedKept ==
  ASSUME Kept, NEW list, NEW n \in Int, Archived(list, n, archive), n < TIMELINE_CAP,
         timeline' = replaceHistory(timeline, list), UNCHANGED <<said, archive>>
  PROVE  /\ WindowKept' /\ archive.from <= archive.to
         /\ timeline'.messages = list /\ timeline'.hasMore /\ ~timeline'.loadingOlder
         /\ timeline'.askedBehind = None /\ timeline'.detachedAt = detachedAt(timeline.messages, list)
<1>1. WireKept /\ Numbers /\ WindowKept
  BY NumbersAre DEF Kept
<1>2. PICK x \in archive.from..archive.to, y \in archive.from..archive.to :
        /\ x <= y /\ y - x <= n /\ list \in Seq(Ids) /\ Ordered(list) /\ list # <<>> /\ Last(list) = y
        /\ ToSet(list) = x..y /\ Len(list) = y - x + 1 /\ y \in Ids /\ y <= said
  BY <1>1, ArchivedIs
<1>3. /\ IsTimeline(timeline') /\ timeline'.messages = list /\ timeline'.hasMore = TRUE
      /\ timeline'.loadingOlder = FALSE /\ timeline'.askedBehind = None
      /\ timeline'.detachedAt = detachedAt(timeline.messages, list)
  <2>. DEFINE d == detachedAt(timeline.messages, list)
              w == [messages |-> list, unreadFrom |-> timeline.unreadFrom, readMarker |-> timeline.readMarker,
                    hasMore |-> TRUE, detachedAt |-> d, loadingOlder |-> FALSE, askedBehind |-> None]
  <2>1. timeline' = w
    <3>. DEFINE a == timeline.unreadFrom
                b == timeline.readMarker
    <3>1. timeline' = [EMPTY_TIMELINE EXCEPT !.messages = list, !.unreadFrom = a, !.readMarker = b,
                                             !.detachedAt = d]
      BY DEF replaceHistory
    <3>2. w = [messages |-> list, unreadFrom |-> a, readMarker |-> b, hasMore |-> TRUE,
               detachedAt |-> d, loadingOlder |-> FALSE, askedBehind |-> None]
      OBVIOUS
    <3>. HIDE DEF a, b, d, w
    <3>. QED
      BY <3>1, <3>2 DEF EMPTY_TIMELINE
  <2>. HIDE DEF d
  <2>. QED
    BY <2>1 DEF IsTimeline, d
<1>4. Len(list) <= TIMELINE_CAP
  <2>1. TIMELINE_CAP \in Nat /\ x \in Int /\ y \in Int
    BY IdsAre
  <2>. QED
    BY <1>2, <2>1
<1>5. \A m \in ToSet(list) : m <= said
  BY <1>1, <1>2 DEF Numbers
<1>6. detachedAt(timeline.messages, list) \in {None, y}
  BY <1>2 DEF detachedAt
<1>7. archive.from <= archive.to
  BY <1>1, <1>2 DEF Numbers
<1>8. WindowKept'
  BY <1>2, <1>3, <1>4, <1>5, <1>6 DEF WindowKept, WellHeld, Window
<1>. QED
  BY <1>3, <1>7, <1>8

LEMMA KeptReadHit ==
  ASSUME Kept, NEW hit \in Ids, ReadHit(hit)
  PROVE  Kept'
<1>1. WireKept /\ Numbers /\ PaneKept
  BY NumbersAre DEF Kept
<1>2. /\ hit \in archive.from..archive.to
      /\ jump' = Between(Greater(archive.from, hit - Reach), Lesser(archive.to, hit + Reach))
      /\ UNCHANGED <<said, archive, events, asks, served, timeline, load, latest, wanted, following, crossed,
                     mistaken, online, late, madeUp>>
  BY DEF ReadHit, wire, crossings, link
<1>3. Archived(jump', 2 * Reach, archive)
  <2>. DEFINE x == Greater(archive.from, hit - Reach)
              y == Lesser(archive.to, hit + Reach)
  <2>1. /\ x \in archive.from..archive.to /\ y \in archive.from..archive.to /\ x <= y /\ y - x <= 2 * Reach
    <3>1. archive.from \in Nat /\ archive.to \in Nat /\ hit \in Nat /\ Reach \in Nat
      BY <1>1, IdsAre DEF Numbers
    <3>2. archive.from <= hit /\ hit <= archive.to
      BY <1>2
    <3>. QED
      BY <3>1, <3>2 DEF Greater, Lesser
  <2>2. jump' = Between(x, y)
    BY <1>2
  <2>. HIDE DEF x, y
  <2>. QED
    BY <2>1, <2>2 DEF Archived
<1>4. PaneKept'
  BY <1>1, <1>2, <1>3 DEF PaneKept
<1>5. WireKept' /\ LoadsKept' /\ WindowKept'
  BY <1>2, Same
<1>. QED
  BY <1>4, <1>5 DEF Kept

LEMMA KeptFileHit ==
  ASSUME Kept, FileHit
  PROVE  Kept'
<1>1. WireKept /\ Numbers /\ PaneKept
  BY NumbersAre DEF Kept
<1>2. /\ jump # None /\ jump' = None /\ timeline' = replaceHistory(timeline, jump) /\ following' = FALSE
      /\ crossed' \in BOOLEAN /\ mistaken' \in BOOLEAN
      /\ UNCHANGED <<said, archive, events, asks, served, load, latest, wanted, online, late, madeUp>>
  BY <1>1 DEF FileHit, Replace, wire, link, PaneKept
<1>3. Archived(jump, 2 * Reach, archive) /\ 2 * Reach \in Int /\ 2 * Reach < TIMELINE_CAP
  BY <1>1, <1>2, IdsAre DEF PaneKept
<1>4. WindowKept' /\ archive.from <= archive.to
  BY <1>2, <1>3, ReplacedKept
<1>5. PaneKept'
  BY <1>1, <1>2, <1>4 DEF PaneKept
<1>6. WireKept' /\ LoadsKept'
  BY <1>2, Same
<1>. QED
  BY <1>4, <1>5, <1>6 DEF Kept

LEMMA KeptAskLatest ==
  ASSUME Kept, AskLatest, UNCHANGED wire, wanted' \in BOOLEAN
  PROVE  Kept'
<1>1. PaneKept /\ WindowKept
  BY DEF Kept
<1>2. /\ latest = None
      /\ \/ following' = TRUE /\ UNCHANGED latest
         \/ timeline.detachedAt # None /\ latest' = [tail |-> None] /\ UNCHANGED following
      /\ UNCHANGED <<said, archive, events, asks, served, timeline, load, jump, crossed, mistaken, online, late,
                     madeUp>>
  BY DEF AskLatest, wire, crossings, link
<1>3. PaneKept'
  <2>1. following' \in BOOLEAN
    BY <1>1, <1>2 DEF PaneKept
  <2>. QED
    BY <1>1, <1>2, <2>1 DEF PaneKept
<1>4. WireKept' /\ LoadsKept' /\ WindowKept'
  BY <1>2, Same
<1>. QED
  BY <1>3, <1>4 DEF Kept

LEMMA KeptReadTail ==
  ASSUME Kept, ReadTail
  PROVE  Kept'
<1>1. WireKept /\ Numbers /\ PaneKept
  BY NumbersAre DEF Kept
<1>. DEFINE tail == ArchivePage(None)
<1>2. /\ latest # None /\ latest' = [tail |-> tail]
      /\ UNCHANGED <<said, archive, events, asks, served, timeline, load, wanted, following, jump, crossed,
                     mistaken, online, late, madeUp>>
  BY DEF ReadTail, wire, crossings, link
<1>3. archive.from <= archive.to
  BY <1>1, <1>2 DEF PaneKept
<1>4. tail \in Seq(Ids) /\ Archived(tail, PAGE_SIZE - 1, archive)
  <2>. DEFINE to == PageEnd(None)
              from == Greater(archive.from, to - PAGE_SIZE + 1)
  <2>1. to = archive.to
    BY DEF PageEnd
  <2>. HIDE DEF to
  <2>2. tail = Between(from, to) /\ tail \in Seq(Ids)
    BY <1>1, ArchivePageIs DEF to
  <2>3. /\ from \in archive.from..archive.to /\ to \in archive.from..archive.to /\ from <= to
        /\ to - from <= PAGE_SIZE - 1
    <3>1. archive.from \in Nat /\ archive.to \in Nat /\ PAGE_SIZE \in Nat /\ PAGE_SIZE >= 1
      BY <1>1, IdsAre DEF Numbers
    <3>. QED
      BY <1>3, <2>1, <3>1 DEF Greater
  <2>. HIDE DEF from, tail
  <2>. QED
    BY <2>2, <2>3 DEF Archived
<1>. HIDE DEF tail
<1>5. PaneKept'
  BY <1>1, <1>2, <1>3, <1>4 DEF PaneKept
<1>6. WireKept' /\ LoadsKept' /\ WindowKept'
  BY <1>2, Same
<1>. QED
  BY <1>5, <1>6 DEF Kept

LEMMA KeptFileTail ==
  ASSUME Kept, FileTail
  PROVE  Kept'
<1>1. WireKept /\ Numbers /\ PaneKept
  BY NumbersAre DEF Kept
<1>2. /\ latest # None /\ latest.tail # None /\ latest' = None /\ timeline' = replaceHistory(timeline, latest.tail)
      /\ crossed' \in BOOLEAN /\ mistaken' = FALSE /\ wanted' = TRUE
      /\ UNCHANGED <<said, archive, events, asks, served, load, following, jump, online, late, madeUp>>
  BY <1>1 DEF FileTail, Replace, wire, link, PaneKept
<1>3. PICK tail : latest = [tail |-> tail] /\ (tail = None \/ Archived(tail, PAGE_SIZE - 1, archive))
  BY <1>1, <1>2 DEF PaneKept
<1>4. latest.tail = tail /\ Archived(tail, PAGE_SIZE - 1, archive)
  BY <1>2, <1>3
<1>5. PAGE_SIZE - 1 \in Int /\ PAGE_SIZE - 1 < TIMELINE_CAP
  BY IdsAre
<1>6. WindowKept' /\ archive.from <= archive.to
  BY <1>2, <1>4, <1>5, ReplacedKept
<1>7. PaneKept'
  BY <1>1, <1>2, <1>6 DEF PaneKept
<1>8. WireKept' /\ LoadsKept'
  BY <1>2, Same
<1>. QED
  BY <1>6, <1>7, <1>8 DEF Kept

LEMMA KeptTailFails ==
  ASSUME Kept, TailFails
  PROVE  Kept'
<1>1. WireKept' /\ LoadsKept' /\ WindowKept'
  BY Same DEF TailFails, wire, crossings, link
<1>2. PaneKept'
  BY DEF Kept, PaneKept, TailFails, wire, crossings, link
<1>. QED
  BY <1>1, <1>2 DEF Kept

LEMMA KeptScrollAway ==
  ASSUME Kept, ScrollAway
  PROVE  Kept'
<1>1. WireKept' /\ LoadsKept' /\ WindowKept'
  BY Same DEF ScrollAway, wire, crossings, link
<1>2. PaneKept'
  BY DEF Kept, PaneKept, ScrollAway, wire, crossings, link
<1>. QED
  BY <1>1, <1>2 DEF Kept

LEMMA KeptClearBuffer ==
  ASSUME Kept, ClearBuffer
  PROVE  Kept'
<1>1. WireKept /\ PaneKept /\ WindowKept
  BY DEF Kept
<1>2. /\ timeline' = clearBuffer /\ crossed' \in BOOLEAN /\ mistaken' = FALSE
      /\ UNCHANGED <<said, archive, events, asks, served, load, latest, wanted, following, jump, online, late,
                     madeUp>>
  BY <1>1 DEF ClearBuffer, wire, link, PaneKept
<1>3. timeline' = [messages |-> <<>>, unreadFrom |-> None, readMarker |-> None, hasMore |-> FALSE,
                   detachedAt |-> None, loadingOlder |-> FALSE, askedBehind |-> None]
  BY <1>2 DEF clearBuffer, EMPTY_TIMELINE
<1>4. WindowKept'
  <2>1. <<>> \in Seq(Ids) /\ Ordered(<<>>) /\ Len(<<>>) <= TIMELINE_CAP /\ ToSet(<<>>) = {}
    BY IdsAre DEF Ordered, ToSet
  <2>2. /\ IsTimeline(timeline') /\ timeline'.messages = <<>> /\ timeline'.hasMore \in BOOLEAN
        /\ timeline'.loadingOlder \in BOOLEAN /\ timeline'.askedBehind = None /\ timeline'.detachedAt = None
    BY <1>3 DEF IsTimeline
  <2>. QED
    BY <2>1, <2>2 DEF WindowKept, WellHeld, Window
<1>5. PaneKept'
  <2>1. timeline'.detachedAt = None
    BY <1>3
  <2>. QED
    BY <1>1, <1>2, <2>1 DEF PaneKept
<1>6. WireKept' /\ LoadsKept'
  BY <1>2, Same
<1>. QED
  BY <1>4, <1>5, <1>6 DEF Kept

LEMMA KeptInit ==
  ASSUME Init
  PROVE  Kept
<1>1. /\ said \in Ids /\ events = <<>> /\ timeline = EMPTY_TIMELINE /\ load = [r \in Loads |-> Idle] /\ asks = {}
      /\ latest = None /\ wanted = FALSE /\ following = TRUE /\ jump = None /\ crossed = FALSE /\ mistaken = FALSE
      /\ online = TRUE /\ late = FALSE /\ served = archive.from
  BY DEF Init
<1>2. PICK f \in 1..(said + 1 - MinArchived) : archive = [from |-> f, to |-> said]
  BY DEF Init
<1>3. said \in Nat /\ said >= 1
  BY <1>1, IdsAre
<1>4. archive.from = f /\ archive.to = said /\ archive = [from |-> archive.from, to |-> archive.to]
  BY <1>2
<1>5. f \in 1..(said + 1) /\ f \in 1..f
  BY <1>3, PagingAssumption
<1>6. WireKept
  <2>1. <<>> \in Seq({None} \cup [messages : Seq(Ids), live : SUBSET Ids, answers : Ids \cup {None}])
    OBVIOUS
  <2>2. 1..Len(<<>>) = {}
    OBVIOUS
  <2>. QED
    BY <1>1, <1>3, <1>4, <1>5, <2>1, <2>2 DEF WireKept
<1>7. LoadsKept
  BY <1>1, IdleIs DEF LoadsKept, CallKept
<1>8. WindowKept
  <2>1. <<>> \in Seq(Ids) /\ Ordered(<<>>) /\ Len(<<>>) <= TIMELINE_CAP /\ ToSet(<<>>) = {}
    BY IdsAre DEF Ordered, ToSet
  <2>2. /\ IsTimeline(timeline) /\ timeline.messages = <<>> /\ timeline.hasMore \in BOOLEAN
        /\ timeline.loadingOlder \in BOOLEAN /\ timeline.askedBehind = None /\ timeline.detachedAt = None
    BY <1>1 DEF IsTimeline, EMPTY_TIMELINE
  <2>. QED
    BY <2>1, <2>2 DEF WindowKept, WellHeld, Window
<1>9. PaneKept
  BY <1>1 DEF PaneKept, EMPTY_TIMELINE
<1>. QED
  BY <1>6, <1>7, <1>8, <1>9 DEF Kept

LEMMA KeptStep ==
  ASSUME Kept, [Next]_vars
  PROVE  Kept'
<1>1. CASE UNCHANGED vars
  <2>1. WireKept' /\ LoadsKept' /\ WindowKept' /\ PaneKept'
    BY <1>1, Same DEF vars, wire, pane, jumping, crossings, link
  <2>. QED
    BY <2>1 DEF Kept
<1>2. CASE Say
  BY <1>2, KeptSay
<1>3. CASE Archive
  BY <1>3, KeptArchive
<1>4. CASE Deliver
  BY <1>4, KeptDeliver
<1>5. CASE Disconnect
  BY <1>5, KeptDisconnect
<1>6. CASE Reconnect
  BY <1>6, KeptReconnect
<1>7. CASE \E ask \in asks : ServerAnswers(ask)
  BY <1>7, KeptServerAnswers
<1>8. ASSUME NEW r \in Loads, LoadOlder(r) \/ Reads(r)
      PROVE  Kept'
  BY <1>8, KeptLoadOlder, KeptArchiveAnswers, KeptArchiveFails, KeptAskFails, KeptDeadline, KeptOutcomeArrives
     DEF Reads
<1>9. CASE \E hit \in Ids : ReadHit(hit)
  BY <1>9, KeptReadHit
<1>10. CASE FileHit
  BY <1>10, KeptFileHit
<1>11. CASE JumpLatest
  <2>1. AskLatest /\ UNCHANGED wire /\ wanted' = wanted
    BY <1>11 DEF JumpLatest
  <2>2. wanted' \in BOOLEAN
    BY <2>1 DEF Kept, PaneKept
  <2>. QED
    BY <2>1, <2>2, KeptAskLatest
<1>12. CASE LatestWanted
  <2>1. AskLatest /\ UNCHANGED wire /\ wanted' \in BOOLEAN
    BY <1>12 DEF LatestWanted
  <2>. QED
    BY <2>1, KeptAskLatest
<1>13. CASE ReadTail
  BY <1>13, KeptReadTail
<1>14. CASE FileTail
  BY <1>14, KeptFileTail
<1>15. CASE ScrollAway
  BY <1>15, KeptScrollAway
<1>16. CASE ClearBuffer
  BY <1>16, KeptClearBuffer
<1>17. CASE TailFails
  BY <1>17, KeptTailFails
<1>. QED
  BY <1>1, <1>2, <1>3, <1>4, <1>5, <1>6, <1>7, <1>8, <1>9, <1>10, <1>11, <1>12, <1>13, <1>14, <1>15, <1>16,
     <1>17
     DEF Next, Tail_

LEMMA KeptAlways == Spec => []Kept
<1>1. Init => Kept
  BY KeptInit
<1>2. Kept /\ [Next]_vars => Kept'
  BY KeptStep
<1>. QED
  BY <1>1, <1>2, PTL DEF Spec

\* The window is in order, shows nothing twice and stays within its cap.
THEOREM InOrderCorrect == Spec => []WindowInOrder
<1>1. Kept => WindowInOrder
  BY DEF Kept, WindowKept, WellHeld, Ordered, WindowInOrder
<1>. QED
  BY <1>1, KeptAlways, PTL

\* What nothing that is filed depends on: which error is shown, what the cap took, for
\* whom the session answered.
FlagsKept == {tailFailed, cut} \subseteq BOOLEAN /\ madeUp \in {None, "lost", "gone"}

LEMMA FlagsAlways == Spec => []FlagsKept
<1>1. Init => FlagsKept
  BY DEF Init, FlagsKept
<1>2. ASSUME FlagsKept, [Next]_vars
      PROVE  FlagsKept'
  <2>1. \A r, older, more, asked : Finish(r, older, more, asked) => cut' \in BOOLEAN
    BY DEF Finish
  <2>2. ASSUME NEW r \in Loads, ArchiveAnswers(r)
        PROVE  FlagsKept'
    <3>1. cut' \in BOOLEAN
      BY <1>2, <2>1, <2>2, Zenon DEF ArchiveAnswers, FlagsKept
    <3>2. madeUp' \in {madeUp, "gone"} /\ tailFailed' = FALSE
      BY <2>2 DEF ArchiveAnswers
    <3>. QED
      BY <1>2, <3>1, <3>2 DEF FlagsKept
  <2>3. ASSUME NEW r \in Loads, OutcomeArrives(r)
        PROVE  FlagsKept'
    <3>1. cut' \in BOOLEAN
      BY <2>1, <2>3, Zenon DEF OutcomeArrives
    <3>. QED
      BY <1>2, <2>3, <3>1 DEF OutcomeArrives, FlagsKept, pane, link
  <2>4. ASSUME NEW r \in Loads, LoadOlder(r) \/ ArchiveFails(r) \/ AskFails(r) \/ Deadline(r)
        PROVE  FlagsKept'
    BY <1>2, <2>4 DEF LoadOlder, ArchiveFails, AskFails, Deadline, FlagsKept, pane, crossings, link
  <2>5. CASE FileHit \/ TailFails \/ FileTail \/ ClearBuffer
    BY <1>2, <2>5 DEF FileHit, TailFails, FileTail, ClearBuffer, Replace, FlagsKept, pane, crossings, link
  <2>6. CASE (\E hit \in Ids : ReadHit(hit)) \/ JumpLatest \/ ReadTail \/ LatestWanted \/ ScrollAway
    BY <1>2, <2>6 DEF ReadHit, JumpLatest, LatestWanted, AskLatest, ReadTail, ScrollAway, FlagsKept, pane,
                      crossings, link
  <2>7. CASE Say \/ Archive \/ Deliver \/ Reconnect \/ Disconnect \/ \E ask \in asks : ServerAnswers(ask)
    BY <1>2, <2>7 DEF Say, Archive, Deliver, Reconnect, Disconnect, ServerAnswers, FlagsKept, pane, crossings,
                      link
  <2>8. CASE UNCHANGED vars
    BY <1>2, <2>8 DEF vars, FlagsKept, pane, crossings, link
  <2>. QED
    BY <1>2, <2>2, <2>3, <2>4, <2>5, <2>6, <2>7, <2>8 DEF Next, Reads, Tail_
<1>. QED
  BY <1>1, <1>2, PTL DEF Spec

\* Paging's variables have their types, and the window keeps to its cap.
THEOREM PagingTypeCorrect == Spec => []TypeOK
<1>1. ASSUME Kept, FlagsKept
      PROVE  TypeOK
  <2>1. /\ said \in Ids /\ archive.from \in 1..(said + 1) /\ archive.to \in 0..said
        /\ asks \subseteq [behind : Ids, load : Loads]
    <3>1. /\ said \in Ids /\ archive.to \in 0..said /\ archive.from \in 1..(archive.to + 1)
          /\ asks \subseteq [behind : 1..said, load : Loads]
      BY <1>1 DEF Kept, WireKept
    <3>2. said \in Nat /\ 1..said \subseteq Ids
      BY <3>1, IdsAre
    <3>3. archive.from \in 1..(said + 1)
      BY <3>1, <3>2
    <3>. QED
      BY <3>1, <3>2, <3>3
  <2>2. /\ timeline.messages \in Seq(Ids) /\ Len(timeline.messages) <= TIMELINE_CAP
        /\ timeline.hasMore \in BOOLEAN /\ timeline.loadingOlder \in BOOLEAN
        /\ timeline.askedBehind \in Ids \cup {None} /\ timeline.detachedAt \in Ids \cup {None}
    BY <1>1 DEF Kept, WindowKept, WellHeld, Window
  <2>3. \A r \in Loads : /\ load[r].at \in {"idle", "archive", "server"}
                          /\ load[r].outcome \in {None, "more", "end", "waiting"}
    BY <1>1 DEF Kept, LoadsKept, Calls
  <2>4. {wanted, following, crossed, mistaken, online, late} \subseteq BOOLEAN
    BY <1>1 DEF Kept, PaneKept
  <2>. QED
    BY <1>1, <2>1, <2>2, <2>3, <2>4 DEF TypeOK, FlagsKept
<1>. QED
  BY <1>1, KeptAlways, FlagsAlways, PTL
=============================================================================
