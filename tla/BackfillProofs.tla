---------------------------- MODULE BackfillProofs ----------------------------
(***************************************************************************)
(* Proofs about Backfill, for every page size, budget and bound.           *)
(***************************************************************************)
EXTENDS Backfill, SetBounds, FiniteSetTheorems, SequenceTheorems

-----------------------------------------------------------------------------
(* What a page is.                                                         *)

\* A page lies in the log, whatever is taken out of it.
LEMMA PageInLog ==
  ASSUME NEW r, NEW removed, log \in Nat
  PROVE  ServerPage(r) \ removed \subseteq 1..log
BY DEF ServerPage

\* A subset of the log is finite, and a full page is not empty.
LEMMA FullPageNotEmpty ==
  ASSUME NEW messages \in SUBSET (1..log), log \in Nat,
         Cardinality(messages) >= Page
  PROVE  messages # {}
BY PageAssumption, FS_EmptySet

\* The ends of a page that is not empty are two of its messages.
LEMMA PageEnds ==
  ASSUME NEW messages \in SUBSET (1..log), log \in Nat, messages # {}
  PROVE  /\ Min(messages) \in messages /\ \A i \in messages : Min(messages) <= i
         /\ Max(messages) \in messages /\ \A i \in messages : i <= Max(messages)
<1>1. messages \in SUBSET Nat /\ messages \in SUBSET (0..log)
  OBVIOUS
<1>2. Min(messages) \in messages /\ \A i \in messages : Min(messages) <= i
  BY <1>1, MinNat
<1>3. Max(messages) \in messages /\ \A i \in messages : Max(messages) >= i
  BY <1>1, MaxNat
<1>4. \A i \in messages : i <= Max(messages)
  BY <1>1, <1>3
<1>. QED
  BY <1>2, <1>3, <1>4

\* The watermark after a batch is no older than before it, and is either
\* unmoved or the newest of what the batch brought.
LEMMA NewestBounds ==
  ASSUME NEW messages \in SUBSET (1..log), log \in Nat, archived \in 0..log
  PROVE  /\ Newest(messages) \in {archived} \cup messages
         /\ Newest(messages) \in 0..log
         /\ archived <= Newest(messages)
         /\ \A i \in messages : i <= Newest(messages)
<1>. DEFINE S == {archived} \cup messages
<1>1. S \in SUBSET (0..log) /\ S # {}
  OBVIOUS
<1>2. Max(S) \in S /\ \A i \in S : Max(S) >= i
  BY <1>1, MaxNat
<1>3. Max(S) \in 0..log
  BY <1>1, <1>2
<1>. QED
  BY <1>2, <1>3, <1>1 DEF Newest

\* Half the budget is at least one page and less than the whole.
LEMMA HalfBudget == GapForward \in Nat /\ 1 <= GapForward /\ GapForward < GapPages
BY GapPagesAssumption DEF GapForward

-----------------------------------------------------------------------------
(* Types.                                                                  *)

\* Asking for history leaves well-typed requests and a well-typed walk.
LEMMA BackfillTypes ==
  ASSUME TypeOK, NEW inFlight \in Seq(Requests), NEW named, Backfill(inFlight, named)
  PROVE  /\ requests' \in Seq(Requests)
         /\ gap_fills' \in [pages : Nat, frontier : Int]
         /\ first_pages' \in BOOLEAN
         /\ base' \in 0..log
<1>1. \A r \in Requests : Append(inFlight, r) \in Seq(Requests)
  OBVIOUS
<1>2. Latest \in Requests
  BY DEF Latest, Request, Requests
<1>3. \A truncated \in {0, 1} :
        archived # 0 => Request("AFTER", archived - truncated) \in Requests
  BY DEF TypeOK, Request, Requests
<1>4. requests' \in Seq(Requests)
  BY <1>1, <1>2, <1>3 DEF Backfill
<1>5. gap_fills' \in [pages : Nat, frontier : Int]
  BY DEF Backfill, TypeOK, FreshGap, NoGap
<1>6. first_pages' \in BOOLEAN /\ base' \in 0..log
  BY DEF Backfill, TypeOK
<1>. QED
  BY <1>4, <1>5, <1>6

\* Counting leaves a well-typed tally, one higher for each message counted.
LEMMA CountingTypes ==
  ASSUME counted \in [1..MaxLog -> Nat], NEW messages
  PROVE  Counting(messages) \in [1..MaxLog -> Nat]
BY DEF Counting

LEMMA CountingCounts ==
  ASSUME counted \in [1..MaxLog -> Nat], NEW messages, NEW i \in 1..MaxLog
  PROVE  /\ i \in messages => Counting(messages)[i] = counted[i] + 1
         /\ i \notin messages => Counting(messages)[i] = counted[i]
BY DEF Counting

\* Closing a batch leaves everything well typed.
LEMMA AnswerTypes ==
  ASSUME TypeOK, AnswerHistory
  PROVE  TypeOK'
<1>. DEFINE messages == ServerPage(Head(requests)) \ silenced
<1>1. messages \subseteq 1..log
  BY PageInLog DEF TypeOK
<1>2. Newest(messages) \in 0..log
  BY <1>1, NewestBounds DEF TypeOK
<1>3. Tail(requests) \in Seq(Requests)
  BY DEF AnswerHistory, TypeOK
<1>4. \A r \in Requests : Append(Tail(requests), r) \in Seq(Requests)
  BY <1>3
<1>5. /\ gap_fills' \in [pages : Nat, frontier : Int]
      /\ requests' \in Seq(Requests)
      /\ notes' \subseteq 1..log
  <2>1. CASE UNCHANGED <<gap_fills, notes>> /\ requests' = Tail(requests)
    BY <2>1, <1>3 DEF TypeOK
  <2>2. CASE gap_fills' = NoGap /\ requests' = Tail(requests) /\ UNCHANGED notes
    BY <2>2, <1>3 DEF TypeOK, NoGap
  <2>3. CASE Cardinality(messages) >= Page /\ ContinueGap(messages)
    <3>1. messages # {}
      BY <2>3, <1>1, FullPageNotEmpty DEF TypeOK
    <3>2. Min(messages) \in 1..log /\ Max(messages) \in 1..log
      BY <3>1, <1>1, PageEnds DEF TypeOK
    <3>3. /\ Latest \in Requests
          /\ Request("AFTER", Max(messages)) \in Requests
          /\ Request("BEFORE", Min(messages)) \in Requests
      BY <3>2 DEF TypeOK, Request, Latest, Requests
    <3>4. Pages \in Nat
      BY DEF Pages, TypeOK
    <3>. HIDE DEF messages
    <3>5. CASE Ends(messages)
      BY <3>5, <1>3 DEF Ends, TypeOK, NoGap
    <3>6. CASE WalksOn(messages)
      BY <3>6, <3>3, <3>4, <1>4 DEF WalksOn, TypeOK
    <3>7. CASE TurnsRound(messages)
      BY <3>7, <3>2, <3>3, <3>4, <1>4 DEF TurnsRound, TypeOK
    <3>8. CASE WalksBack(messages)
      BY <3>8, <3>3, <3>4, <1>4 DEF WalksBack, TypeOK
    <3>9. CASE GivesUp(messages)
      <4>1. gap_fills' \in [pages : Nat, frontier : Int]
        BY <3>9 DEF GivesUp, NoGap
      <4>2. requests' \in Seq(Requests) /\ notes' \subseteq 1..log
        BY <3>9, <3>2, <1>3 DEF GivesUp, TypeOK
      <4>. QED
        BY <4>1, <4>2
    <3>. QED
      BY <2>3, <3>5, <3>6, <3>7, <3>8, <3>9 DEF ContinueGap
  <2>. QED
    BY <2>1, <2>2, <2>3 DEF AnswerHistory
<1>6. counted' \in [1..MaxLog -> Nat]
  BY CountingTypes DEF AnswerHistory, TypeOK
<1>7. \A i \in 1..MaxLog : counted'[i] > 0 => i \in held'
  BY CountingCounts, Missed(messages) \subseteq messages DEF AnswerHistory, TypeOK, Missed
<1>8. held' \subseteq 1..log
  BY <1>1 DEF AnswerHistory, TypeOK
<1>. QED
  BY <1>2, <1>5, <1>6, <1>7, <1>8 DEF AnswerHistory, TypeOK

\* TypeOK is inductive.
LEMMA TypeStep == TypeOK /\ [Next]_vars => TypeOK'
<1>. SUFFICES ASSUME TypeOK, [Next]_vars
              PROVE  TypeOK'
  OBVIOUS
<1>1. ASSUME NEW ignored \in BOOLEAN, Speak(ignored)
      PROVE  TypeOK'
  <2>1. counted' \in [1..MaxLog -> Nat]
    BY <1>1, CountingTypes DEF TypeOK, Speak
  <2>2. \A i \in 1..MaxLog : counted'[i] > 0 => i \in held'
    BY <1>1, CountingCounts DEF TypeOK, Speak
  <2>3. /\ log' \in Nat /\ silenced' \subseteq 1..log' /\ held' \subseteq 1..log'
        /\ archived' \in 0..log'
    BY <1>1 DEF TypeOK, Speak
  <2>4. /\ elsewhere' \in 0..log' /\ away_since' \in 0..log' /\ notes' \subseteq 1..log'
        /\ page_backs' \subseteq 1..log' /\ base' \in 0..log'
    BY <1>1 DEF TypeOK, Speak
  <2>5. UNCHANGED <<kind, up, joined, requests, gap_fills, first_pages, interrupts>>
    BY <1>1 DEF Speak
  <2>. QED
    BY <2>1, <2>2, <2>3, <2>4, <2>5 DEF TypeOK
<1>2. CASE SpeakElsewhere
  BY <1>2 DEF TypeOK, SpeakElsewhere
<1>3. CASE Connect
  <2>1. requests' \in Seq(Requests)
    <3>1. Request("TARGETS", away_since) \in Requests
      BY DEF TypeOK, Request, Requests
    <3>. QED
      BY <1>3, <3>1 DEF Connect
  <2>. QED
    BY <1>3, <2>1 DEF TypeOK, Connect
<1>4. CASE Disconnect
  <2>1. away_since' \in 0..log /\ interrupts' \in Nat
    BY <1>4 DEF Disconnect, TypeOK
  <2>2. requests' = <<>> /\ requests' \in Seq(Requests)
    BY <1>4 DEF Disconnect
  <2>. QED
    BY <1>4, <2>1, <2>2 DEF TypeOK, Disconnect
<1>5. CASE Part
  <2>1. joined' \in BOOLEAN /\ interrupts' = interrupts + 1
    BY <1>5, Zenon DEF Part
  <2>2. interrupts' \in Nat
    BY <2>1 DEF TypeOK
  <2>. QED
    BY <1>5, <2>1, <2>2 DEF TypeOK, Part
<1>6. CASE Join
  <2>1. requests \in Seq(Requests)
    BY DEF TypeOK
  <2>. QED
    BY <1>6, <2>1, BackfillTypes DEF TypeOK, Join
<1>7. CASE AnswerTargets
  <2>1. Tail(requests) \in Seq(Requests)
    BY <1>7 DEF AnswerTargets, TypeOK
  <2>2. CASE Backfill(Tail(requests), TRUE)
    BY <1>7, <2>1, <2>2, BackfillTypes DEF TypeOK, AnswerTargets
  <2>3. CASE requests' = Tail(requests) /\ UNCHANGED <<gap_fills, first_pages, base>>
    BY <1>7, <2>1, <2>3 DEF TypeOK, AnswerTargets
  <2>. QED
    BY <1>7, <2>2, <2>3 DEF AnswerTargets
<1>8. CASE PageBack
  <2>1. Min(held) \in held
    BY <1>8, PageEnds DEF PageBack, TypeOK
  <2>. QED
    BY <1>8, <2>1 DEF TypeOK, PageBack
<1>9. CASE AnswerHistory
  BY <1>9, AnswerTypes
<1>10. ASSUME NEW from \in page_backs, AnswerPageBack(from)
       PROVE  TypeOK'
  <2>. DEFINE messages == ServerPage(Request("BEFORE", from)) \ silenced
  <2>1. messages \subseteq 1..log
    BY PageInLog DEF TypeOK
  <2>2. Newest(messages) \in 0..log
    BY <2>1, NewestBounds DEF TypeOK
  <2>. HIDE DEF messages
  <2>3. held' = held \cup messages /\ archived' = Newest(messages)
    BY <1>10 DEF AnswerPageBack, messages
  <2>. QED
    BY <1>10, <2>1, <2>2, <2>3 DEF TypeOK, AnswerPageBack
<1>11. ASSUME NEW from \in page_backs, RefusePageBack(from)
       PROVE  TypeOK'
  BY <1>11 DEF TypeOK, RefusePageBack
<1>12. CASE RefuseHistory
  <2>1. Tail(requests) \in Seq(Requests)
    BY <1>12 DEF RefuseHistory, TypeOK
  <2>. QED
    BY <1>12, <2>1 DEF TypeOK, RefuseHistory
<1>13. CASE UNCHANGED vars
  BY <1>13 DEF TypeOK, vars
<1>. QED
  BY <1>1, <1>2, <1>3, <1>4, <1>5, <1>6, <1>7, <1>8, <1>9, <1>10, <1>11, <1>12,
     <1>13 DEF Next

LEMMA TypeInit == Init => TypeOK
<1>. SUFFICES ASSUME Init
              PROVE  TypeOK
  OBVIOUS
<1>1. log \in Nat
  BY BoundsAssumption DEF Init
<1>2. held \subseteq 1..log
  BY <1>1 DEF Init
<1>3. archived \in 0..log /\ elsewhere \in 0..log /\ away_since \in 0..log
  BY <1>1 DEF Init
<1>4. requests \in Seq(Requests)
  BY DEF Init
<1>5. gap_fills \in [pages : Nat, frontier : Int]
  BY DEF Init, NoGap
<1>. QED
  <2>1. /\ kind \in {"channel", "query"}
        /\ silenced \subseteq 1..log /\ notes \subseteq 1..log
        /\ counted \in [1..MaxLog -> Nat]
        /\ \A i \in 1..MaxLog : counted[i] > 0 => i \in held
        /\ page_backs \subseteq 1..log
    BY DEF Init
  <2>2. up \in BOOLEAN /\ joined \in BOOLEAN /\ first_pages \in BOOLEAN
    BY Zenon DEF Init
  <2>3. base = 0 /\ interrupts = 0
    BY Zenon DEF Init
  <2>4. base \in 0..log /\ interrupts \in Nat
    BY <2>3, <1>1
  <2>. QED
    BY <1>1, <1>2, <1>3, <1>4, <1>5, <2>1, <2>2, <2>4 DEF TypeOK

\* Every reachable state is well typed.
THEOREM TypeCorrect == Spec => []TypeOK
BY TypeInit, TypeStep, PTL DEF Spec

-----------------------------------------------------------------------------
(* The watermark, and what it keeps out of the unread count.               *)

\* What WatermarkIsNewest says without Max: nothing held is newer than the
\* watermark, and the watermark itself is held.
Watermarked == (\A i \in held : i <= archived) /\ (archived = 0 \/ archived \in held)

\* A batch keeps the watermark: what it adds is below the new one.
LEMMA BatchKeepsWatermark ==
  ASSUME TypeOK, Watermarked, NEW messages \in SUBSET (1..log),
         held' = held \cup messages, archived' = Newest(messages)
  PROVE  Watermarked'
<1>1. /\ archived' \in {archived} \cup messages /\ archived' \in 0..log
      /\ archived <= archived' /\ \A i \in messages : i <= archived'
  BY NewestBounds DEF TypeOK
<1>2. ASSUME NEW i \in held'
      PROVE  i <= archived'
  <2>1. CASE i \in messages
    BY <1>1, <2>1
  <2>2. CASE i \in held
    BY <1>1, <2>2 DEF Watermarked, TypeOK
  <2>. QED
    BY <1>2, <2>1, <2>2
<1>3. archived' = 0 \/ archived' \in held'
  BY <1>1 DEF Watermarked
<1>. QED
  BY <1>2, <1>3 DEF Watermarked

LEMMA WatermarkStep == TypeOK /\ Watermarked /\ [Next]_vars => Watermarked'
<1>. SUFFICES ASSUME TypeOK, Watermarked, [Next]_vars
              PROVE  Watermarked'
  OBVIOUS
<1>1. ASSUME NEW ignored \in BOOLEAN, Speak(ignored)
      PROVE  Watermarked'
  <2>1. CASE held' = held \cup {log + 1} /\ archived' = log + 1
    BY <2>1 DEF Watermarked, TypeOK
  <2>2. CASE held' = held /\ archived' = archived
    BY <2>2 DEF Watermarked
  <2>. QED
    BY <1>1, <2>1, <2>2 DEF Speak
<1>2. CASE UNCHANGED <<held, archived>>
  BY <1>2 DEF Watermarked
<1>3. CASE AnswerHistory
  BY <1>3, BatchKeepsWatermark, PageInLog DEF AnswerHistory, TypeOK
<1>4. ASSUME NEW from \in page_backs, AnswerPageBack(from)
      PROVE  Watermarked'
  BY <1>4, BatchKeepsWatermark, PageInLog DEF AnswerPageBack, TypeOK
<1>. QED
  BY <1>1, <1>2, <1>3, <1>4
  DEF Next, SpeakElsewhere, Connect, Disconnect, Part, Join, AnswerTargets,
      PageBack, RefusePageBack, RefuseHistory, vars

LEMMA WatermarkInit == Init => Watermarked
<1>. SUFFICES ASSUME Init
              PROVE  Watermarked
  OBVIOUS
<1>1. log \in Nat
  BY BoundsAssumption DEF Init
<1>2. PICK oldest \in 1..(log + 1) : held = oldest..log
  BY DEF Init
<1>3. CASE held = {}
  BY <1>3 DEF Init, Watermarked
<1>4. CASE held # {}
  <2>1. oldest <= log
    BY <1>1, <1>2, <1>4
  <2>. QED
    BY <1>1, <1>2, <1>4, <2>1 DEF Init, Watermarked
<1>. QED
  BY <1>3, <1>4

\* The watermark is the newest message held, in every reachable state.
THEOREM WatermarkCorrect == Spec => []WatermarkIsNewest
<1>1. TypeOK /\ Watermarked => WatermarkIsNewest
  <2>. SUFFICES ASSUME TypeOK, Watermarked
                PROVE  WatermarkIsNewest
    OBVIOUS
  <2>. DEFINE S == {0} \cup held
  <2>1. S \in SUBSET (0..log) /\ S # {}
    BY DEF TypeOK
  <2>2. Max(S) \in S /\ \A i \in S : Max(S) >= i
    BY <2>1, MaxNat DEF TypeOK
  <2>3. archived \in S /\ \A i \in S : i <= archived
    BY DEF Watermarked, TypeOK
  <2>4. archived \in Nat /\ Max(S) \in Nat
    BY <2>1, <2>2, <2>3
  <2>5. Max(S) >= archived /\ Max(S) <= archived
    BY <2>2, <2>3
  <2>. QED
    BY <2>4, <2>5 DEF WatermarkIsNewest
<1>. QED
  BY <1>1, WatermarkInit, WatermarkStep, TypeInit, TypeStep, PTL DEF Spec

\* What was counted is held, so that a message counted was not held before and
\* a message held is not counted again.
Fresh(i) == counted'[i] # counted[i] => counted[i] = 0 /\ counted'[i] = 1 /\ i \notin held

LEMMA CountingIsFresh ==
  ASSUME TypeOK, NEW messages, messages \cap held = {}, counted' = Counting(messages),
         NEW i \in 1..MaxLog
  PROVE  Fresh(i)
<1>1. CASE i \in messages
  <2>1. i \notin held /\ counted[i] \in Nat /\ ~(counted[i] > 0)
    BY <1>1 DEF TypeOK
  <2>2. counted'[i] = counted[i] + 1
    BY <1>1, CountingCounts DEF TypeOK
  <2>. QED
    BY <2>1, <2>2 DEF Fresh
<1>2. CASE i \notin messages
  BY <1>2, CountingCounts DEF TypeOK, Fresh
<1>. QED
  BY <1>1, <1>2

\* A message is counted as unread when it first comes and never again.
THEOREM CountedOnce == Spec => NoMessageCountedTwice
<1>. DEFINE Once == \A i \in 1..MaxLog : counted'[i] # counted[i] =>
                        counted[i] = 0 /\ counted'[i] = 1 /\ i \notin held
<1>1. TypeOK /\ Watermarked /\ [Next]_vars => [Once]_vars
  <2>. SUFFICES ASSUME TypeOK, Watermarked, Next
                PROVE  \A i \in 1..MaxLog : Fresh(i)
    BY Zenon DEF Fresh
  <2>1. ASSUME NEW ignored \in BOOLEAN, Speak(ignored)
        PROVE  \A i \in 1..MaxLog : Fresh(i)
    <3>1. {log + 1} \cap held = {}
      BY DEF TypeOK
    <3>2. counted' = counted \/ counted' = Counting({log + 1})
      BY <2>1 DEF Speak
    <3>. QED
      BY <3>1, <3>2, CountingIsFresh DEF Fresh
  <2>2. CASE counted' = counted
    BY <2>2 DEF Fresh
  <2>3. CASE AnswerHistory
    <3>1. PICK messages : counted' = counted \/ counted' = Counting(Missed(messages))
      BY <2>3 DEF AnswerHistory
    <3>2. \A i \in Missed(messages) : i > archived
      BY DEF Missed
    <3>3. \A i \in held : ~(i > archived)
      BY DEF Watermarked, TypeOK
    <3>4. Missed(messages) \cap held = {}
      BY <3>2, <3>3
    <3>. QED
      BY <3>1, <3>4, CountingIsFresh DEF Fresh
  <2>. QED
    BY <2>1, <2>2, <2>3
    DEF Next, SpeakElsewhere, Connect, Disconnect, Part, Join, AnswerTargets,
        PageBack, AnswerPageBack, RefusePageBack, RefuseHistory
<1>. QED
  BY <1>1, WatermarkInit, WatermarkStep, TypeInit, TypeStep, PTL
  DEF Spec, NoMessageCountedTwice

-----------------------------------------------------------------------------
(* The budget.                                                             *)

\* A walk still going forward has half its budget left, which is what makes
\* the turn cost one page and no more.
Budgeted ==
    Filling => /\ gap_fills.pages < GapPages
               /\ ~TurnedRound => gap_fills.pages < GapForward

LEMMA BudgetStep == TypeOK /\ Budgeted /\ [Next]_vars => Budgeted'
<1>. SUFFICES ASSUME TypeOK, Budgeted, [Next]_vars
              PROVE  Budgeted'
  OBVIOUS
<1>. USE HalfBudget, GapPagesAssumption
<1>1. CASE gap_fills' = gap_fills
  BY <1>1 DEF Budgeted, Filling, TurnedRound
<1>2. CASE gap_fills' = NoGap
  BY <1>2 DEF Budgeted, Filling
<1>3. CASE gap_fills' = FreshGap
  BY <1>3 DEF Budgeted, Filling, TurnedRound, FreshGap, NoGap
<1>4. ASSUME NEW messages, Filling, WalksOn(messages)
      PROVE  Budgeted'
  BY <1>4 DEF Budgeted, WalksOn, Filling, TurnedRound, Pages, TypeOK
<1>5. ASSUME NEW messages \in SUBSET (1..log), messages # {},
             Filling, TurnsRound(messages)
      PROVE  Budgeted'
  <2>1. gap_fills'.pages = gap_fills.pages + 1 /\ gap_fills.pages < GapForward
    BY <1>5 DEF Budgeted, TurnsRound, Pages
  <2>2. gap_fills'.pages < GapPages /\ ~(gap_fills'.pages < GapForward)
    BY <1>5, <2>1 DEF TurnsRound, Pages, TypeOK
  <2>3. gap_fills'.frontier > 0
    <3>1. Max(messages) \in 1..log
      BY <1>5, PageEnds DEF TypeOK
    <3>. QED
      BY <1>5, <3>1 DEF TurnsRound, TypeOK
  <2>. QED
    BY <2>2, <2>3 DEF Budgeted, TurnedRound
<1>6. ASSUME NEW messages, Filling, WalksBack(messages)
      PROVE  Budgeted'
  BY <1>6 DEF Budgeted, WalksBack, Filling, TurnedRound, Pages, TypeOK
<1>7. CASE AnswerHistory
  <2>. DEFINE messages == ServerPage(Head(requests)) \ silenced
  <2>1. messages \in SUBSET (1..log)
    BY PageInLog DEF TypeOK
  <2>2. CASE Filling /\ Cardinality(messages) >= Page /\ ContinueGap(messages)
    <3>1. messages # {}
      BY <2>1, <2>2, FullPageNotEmpty DEF TypeOK
    <3>. QED
      BY <1>2, <1>4, <1>5, <1>6, <2>1, <2>2, <3>1 DEF ContinueGap, Ends, GivesUp
  <2>3. CASE gap_fills' = NoGap \/ gap_fills' = gap_fills
    BY <1>1, <1>2, <2>3
  <2>. QED
    BY <1>7, <2>2, <2>3 DEF AnswerHistory
<1>8. ASSUME NEW inFlight, NEW named, Backfill(inFlight, named)
      PROVE  Budgeted'
  BY <1>1, <1>2, <1>3, <1>8 DEF Backfill
<1>9. CASE Join \/ AnswerTargets
  BY <1>1, <1>8, <1>9 DEF Join, AnswerTargets
<1>. QED
  BY <1>1, <1>7, <1>9
  DEF Next, Speak, SpeakElsewhere, Connect, Disconnect, Part, PageBack,
      AnswerPageBack, RefusePageBack, RefuseHistory, vars

\* A gap never costs more than its budget, over any number of reconnects.
THEOREM BudgetCorrect == Spec => []BudgetKept
<1>1. Init => Budgeted
  BY DEF Init, Budgeted, Filling
<1>2. Budgeted => BudgetKept
  BY DEF Budgeted, BudgetKept
<1>. QED
  BY <1>1, <1>2, BudgetStep, TypeInit, TypeStep, PTL DEF Spec

-----------------------------------------------------------------------------
(* First pages.                                                            *)

\* Nothing is asked, and nothing is awaited, while the connection is down.
DownIsQuiet == ~up => ~joined /\ ~first_pages /\ requests = <<>>

LEMMA QuietStep == DownIsQuiet /\ [Next]_vars => DownIsQuiet'
<1>. SUFFICES ASSUME DownIsQuiet, [Next]_vars
              PROVE  DownIsQuiet'
  OBVIOUS
<1>1. CASE UNCHANGED <<up, joined, first_pages, requests>>
  BY <1>1 DEF DownIsQuiet
<1>2. CASE up'
  BY <1>2 DEF DownIsQuiet
<1>3. CASE Disconnect
  BY <1>3 DEF DownIsQuiet, Disconnect
<1>4. CASE Part
  BY <1>4 DEF DownIsQuiet, Part
<1>5. CASE Connect \/ Join \/ AnswerTargets \/ AnswerHistory \/ RefuseHistory
  <2>1. Connect => up'
    BY Zenon DEF Connect
  <2>2. CASE Join \/ AnswerTargets \/ AnswerHistory \/ RefuseHistory
    <3>1. up
      BY <2>2 DEF Join, AnswerTargets, AnswerHistory, RefuseHistory
    <3>2. up' = up
      BY <2>2 DEF Join, AnswerTargets, AnswerHistory, RefuseHistory
    <3>. QED
      BY <3>1, <3>2, <1>2
  <2>. QED
    BY <1>2, <1>5, <2>1, <2>2
<1>6. ASSUME NEW from, AnswerPageBack(from)
      PROVE  DownIsQuiet'
  BY <1>2, <1>6 DEF AnswerPageBack
<1>. QED
  BY <1>1, <1>3, <1>4, <1>5, <1>6
  DEF Next, vars, Speak, SpeakElsewhere, PageBack, RefusePageBack

LEMMA FirstPageStep ==
  ASSUME TypeOK, DownIsQuiet, FirstPageAnswered, [Next]_vars, "LATEST" \notin Refusals
  PROVE  FirstPageAnswered'
<1>1. CASE UNCHANGED <<first_pages, requests>>
  BY <1>1 DEF FirstPageAnswered
<1>2. CASE first_pages' = FALSE
  BY <1>2 DEF FirstPageAnswered
<1>3. ASSUME NEW inFlight \in Seq(Requests), NEW named, Backfill(inFlight, named),
             first_pages => \E i \in DOMAIN inFlight : inFlight[i] = Latest
      PROVE  FirstPageAnswered'
  <2>1. PICK r : requests' = Append(inFlight, r) /\ (first_pages' => first_pages \/ r = Latest)
    BY <1>3 DEF Backfill
  <2>2. /\ requests'[Len(inFlight) + 1] = r
        /\ \A i \in DOMAIN inFlight : requests'[i] = inFlight[i]
        /\ DOMAIN requests' = 1..(Len(inFlight) + 1)
        /\ DOMAIN inFlight = 1..Len(inFlight) /\ Len(inFlight) \in Nat
    BY <2>1
  <2>. QED
    BY <1>3, <2>1, <2>2 DEF FirstPageAnswered
<1>4. CASE Join
  BY <1>3, <1>4 DEF Join, TypeOK, FirstPageAnswered
<1>5. CASE AnswerTargets
  <2>1. /\ requests \in Seq(Requests) /\ requests # <<>>
        /\ Tail(requests) \in Seq(Requests) /\ Len(requests) \in Nat \ {0}
        /\ Head(requests) = requests[1] /\ requests[1].sel = "TARGETS"
    BY <1>5 DEF AnswerTargets, TypeOK
  <2>2. requests[1] # Latest
    BY <2>1 DEF Latest, Request
  <2>3. ASSUME NEW i \in DOMAIN requests, requests[i] = Latest
        PROVE  i - 1 \in DOMAIN Tail(requests) /\ Tail(requests)[i - 1] = Latest
    BY <2>1, <2>2, <2>3
  <2>4. first_pages => \E i \in DOMAIN Tail(requests) : Tail(requests)[i] = Latest
    BY <2>3 DEF FirstPageAnswered
  <2>5. CASE Backfill(Tail(requests), TRUE)
    BY <1>3, <2>1, <2>4, <2>5
  <2>6. CASE requests' = Tail(requests) /\ UNCHANGED first_pages
    BY <2>4, <2>6 DEF FirstPageAnswered
  <2>. QED
    BY <1>5, <2>5, <2>6 DEF AnswerTargets
<1>6. CASE Connect
  BY <1>6 DEF Connect, DownIsQuiet, FirstPageAnswered
<1>7. CASE RefuseHistory
  <2>1. /\ requests \in Seq(Requests) /\ requests # <<>>
        /\ Tail(requests) \in Seq(Requests) /\ Len(requests) \in Nat \ {0}
        /\ Head(requests) = requests[1] /\ requests[1].sel # "LATEST"
    BY <1>7 DEF RefuseHistory, TypeOK
  <2>2. requests[1] # Latest
    BY <2>1 DEF Latest, Request
  <2>3. ASSUME NEW i \in DOMAIN requests, requests[i] = Latest
        PROVE  i - 1 \in DOMAIN Tail(requests) /\ Tail(requests)[i - 1] = Latest
    BY <2>1, <2>2, <2>3
  <2>. QED
    BY <1>7, <2>1, <2>3 DEF RefuseHistory, FirstPageAnswered
<1>. QED
  BY <1>1, <1>2, <1>4, <1>5, <1>6, <1>7
  DEF Next, Speak, SpeakElsewhere, Disconnect, Part, PageBack, AnswerHistory,
      AnswerPageBack, RefusePageBack, vars

\* Where the server refuses no request for the latest page, an ask is deferred
\* only while the first page it is deferred to is still on its way.
THEOREM FirstPageCorrect ==
  ASSUME "LATEST" \notin Refusals
  PROVE  Spec => []FirstPageAnswered
<1>1. Init => DownIsQuiet /\ FirstPageAnswered
  BY DEF Init, DownIsQuiet, FirstPageAnswered
<1>2. TypeOK /\ DownIsQuiet /\ FirstPageAnswered /\ [Next]_vars => FirstPageAnswered'
  BY FirstPageStep
<1>. QED
  BY <1>1, <1>2, QuietStep, TypeInit, TypeStep, PTL DEF Spec

-----------------------------------------------------------------------------
(* One outage: the gap is closed, or the reader is told.                   *)

\* Every message after lo and up to hi is held.
Covered(lo, hi) == \A i \in 1..log : lo < i /\ i <= hi => i \in held
CoveredThen(lo, hi) == \A i \in 1..log : lo < i /\ i <= hi => i \in held'

\* What the request in flight says of what has been fetched.  Going forward,
\* everything up to where it resumes is held.  Turned round, everything up to
\* the frontier is, and once the near end has arrived so is everything from
\* where the walk back resumes up to now.
WalkInv ==
    (base > 0 /\ requests # <<>>) =>
        LET r == Head(requests) IN
        /\ Filling
        /\ \/ r.sel = "AFTER" /\ ~TurnedRound /\ Covered(base, r.from)
           \/ r.sel = "LATEST" /\ TurnedRound /\ Covered(base, gap_fills.frontier)
           \/ r.sel = "BEFORE" /\ TurnedRound /\ Covered(base, gap_fills.frontier)
              /\ r.from \in 1..log /\ Covered(r.from - 1, log)

\* What holds once nothing is in flight.
ClosedOrNoted ==
    \A i \in 1..log : base < i => i \in held \/ \E row \in notes : i < row

OneOutageInv ==
    /\ TypeOK /\ DownIsQuiet
    /\ kind = "channel" /\ silenced = {}
    /\ Len(requests) <= 1
    /\ \A i \in DOMAIN requests : requests[i].sel # "TARGETS"
    /\ ~joined => base = 0 /\ requests = <<>> /\ ~Filling
    /\ joined => up
    /\ WalkInv
    /\ (base > 0 /\ requests = <<>>) => ClosedOrNoted

\* A live message, heard because the channel is joined, leaves no new hole.
LEMMA OneOutageSpeak == OneOutageInv /\ Speak(FALSE) => OneOutageInv'
<1>. SUFFICES ASSUME OneOutageInv, Speak(FALSE)
              PROVE  OneOutageInv'
  OBVIOUS
<1>1. TypeOK'
  BY TypeStep DEF OneOutageInv, Next
<1>2. CASE ~joined
  <2>1. base' = 0 /\ requests' = <<>> /\ gap_fills' = NoGap /\ ~joined'
    BY <1>2 DEF OneOutageInv, Speak, Filling
  <2>2. kind' = "channel" /\ silenced' = {} /\ DownIsQuiet'
    BY DEF OneOutageInv, Speak, DownIsQuiet
  <2>3. WalkInv' /\ ~(base' > 0)
    BY <2>1 DEF WalkInv
  <2>. QED
    BY <1>1, <2>1, <2>2, <2>3 DEF OneOutageInv, Filling
<1>3. CASE joined
  <2>1. /\ log' = log + 1 /\ held' = held \cup {log + 1} /\ log \in Nat
        /\ requests' = requests /\ gap_fills' = gap_fills /\ base' = base
        /\ notes' = notes
    BY <1>3 DEF OneOutageInv, Speak, Listening, TypeOK
  <2>2. \A lo, hi : Covered(lo, hi) => Covered(lo, hi)'
    BY <2>1 DEF Covered
  <2>3. \A lo : Covered(lo, log) => Covered(lo, log)'
    BY <2>1 DEF Covered
  <2>4. WalkInv'
    BY <2>1, <2>2, <2>3 DEF OneOutageInv, WalkInv, Filling, TurnedRound
  <2>5. ClosedOrNoted => ClosedOrNoted'
    BY <2>1 DEF ClosedOrNoted
  <2>. QED
    BY <1>1, <1>3, <2>1, <2>4, <2>5 DEF OneOutageInv, Speak, DownIsQuiet
<1>. QED
  BY <1>2, <1>3

\* Joining asks from the watermark, below which nothing is owed.
LEMMA OneOutageJoin == OneOutageInv /\ Join => OneOutageInv'
<1>. SUFFICES ASSUME OneOutageInv, Join
              PROVE  OneOutageInv'
  OBVIOUS
<1>1. TypeOK' /\ DownIsQuiet'
  BY TypeStep, QuietStep DEF OneOutageInv, Next
<1>2. requests = <<>> /\ base = 0 /\ archived \in Nat /\ log \in Nat
  BY DEF OneOutageInv, Join, TypeOK
<1>3. CASE archived = 0
  <2>1. requests' = <<Latest>> /\ base' = 0
    BY <1>2, <1>3 DEF Join, Backfill
  <2>. QED
    BY <1>1, <1>2, <2>1 DEF OneOutageInv, Join, WalkInv, Latest, Request
<1>4. CASE archived # 0
  <2>1. PICK truncated \in {0, 1} : requests' = <<Request("AFTER", archived - truncated)>>
    BY <1>2, <1>4 DEF Join, Backfill
  <2>2. base' = archived /\ gap_fills' = IF Filling THEN gap_fills ELSE FreshGap
    BY <1>4 DEF Join, Backfill
  <2>3. gap_fills' = FreshGap
    BY <2>2 DEF OneOutageInv, Join
  <2>4. WalkInv'
    <3>1. Head(requests') = Request("AFTER", archived - truncated)
      BY <2>1
    <3>2. Filling' /\ ~TurnedRound'
      BY <2>3 DEF Filling, TurnedRound, FreshGap, NoGap
    <3>3. Covered(archived, archived - truncated)'
      BY <1>2 DEF Covered, Join
    <3>4. /\ Head(requests').sel = "AFTER"
          /\ Head(requests').from = archived - truncated
      BY <3>1 DEF Request
    <3>5. Covered(base, Head(requests).from)'
      BY <2>2, <3>3, <3>4 DEF Covered, Join
    <3>. QED
      BY <3>2, <3>4, <3>5 DEF WalkInv
  <2>. QED
    BY <1>1, <2>1, <2>4 DEF OneOutageInv, Join, Request
<1>. QED
  BY <1>3, <1>4

\* A page a reader scrolled back to only adds to what is held.
LEMMA OneOutagePageBack ==
  ASSUME OneOutageInv, NEW from \in page_backs, AnswerPageBack(from)
  PROVE  OneOutageInv'
<1>1. TypeOK' /\ DownIsQuiet'
  BY TypeStep, QuietStep DEF OneOutageInv, Next
<1>2. /\ held \subseteq held'
      /\ UNCHANGED <<log, requests, gap_fills, base, notes, joined, up, kind, silenced>>
  BY DEF AnswerPageBack
<1>3. \A lo, hi : Covered(lo, hi) => Covered(lo, hi)'
  BY <1>2 DEF Covered
<1>4. WalkInv'
  BY <1>2, <1>3 DEF OneOutageInv, WalkInv, Filling, TurnedRound
<1>5. ClosedOrNoted => ClosedOrNoted'
  BY <1>2 DEF ClosedOrNoted
<1>6. /\ kind' = "channel" /\ silenced' = {} /\ Len(requests') <= 1
      /\ \A i \in DOMAIN requests' : requests'[i].sel # "TARGETS"
  BY <1>2 DEF OneOutageInv
<1>7. (~joined => base = 0 /\ requests = <<>> /\ ~Filling)' /\ (joined => up)'
  BY <1>2 DEF OneOutageInv, Filling
<1>8. ((base > 0 /\ requests = <<>>) => ClosedOrNoted)'
  BY <1>2, <1>5 DEF OneOutageInv
<1>. QED
  BY <1>1, <1>4, <1>6, <1>7, <1>8 DEF OneOutageInv

\* How far an answer reaches: an AFTER page that is not full reaches now.
LEMMA ShortAfterReachesNow ==
  ASSUME log \in Nat, NEW from \in Nat,
         ~(Cardinality(ServerPage(Request("AFTER", from))) >= Page)
  PROVE  \A i \in 1..log : i > from => i \in ServerPage(Request("AFTER", from))
<1>. USE PageAssumption
<1>1. SUFFICES ASSUME from + Page <= log
               PROVE  FALSE
  BY DEF ServerPage, Request
<1>2. ServerPage(Request("AFTER", from)) = (from + 1)..(from + Page)
  BY <1>1 DEF ServerPage, Request
<1>3. Cardinality((from + 1)..(from + Page)) = Page
  BY FS_Interval
<1>. QED
  BY <1>2, <1>3

\* A page of the near end, which is the newest or ends where one resumed: it
\* has no hole in it, and where it is not full it reaches the first message.
NearEnd(hi) == {i \in 1..log : hi - Page <= i /\ i < hi}

LEMMA NearEndPages ==
  ASSUME log \in Nat
  PROVE  /\ ServerPage(Latest) = NearEnd(log + 1)
         /\ \A from \in Nat : ServerPage(Request("BEFORE", from)) = NearEnd(from)
BY PageAssumption DEF ServerPage, Latest, Request, NearEnd

LEMMA ShortNearEndReachesFirst ==
  ASSUME log \in Nat, NEW hi \in 0..(log + 1), ~(Cardinality(NearEnd(hi)) >= Page)
  PROVE  \A i \in 1..log : i < hi => i \in NearEnd(hi)
<1>. USE PageAssumption
<1>1. SUFFICES ASSUME 1 <= hi - Page
               PROVE  FALSE
  BY DEF NearEnd
<1>2. NearEnd(hi) = (hi - Page)..(hi - 1)
  BY <1>1 DEF NearEnd
<1>3. Cardinality((hi - Page)..(hi - 1)) = Page
  BY FS_Interval
<1>. QED
  BY <1>2, <1>3

\* Counting one more page neither ends a walk nor turns it round.
LEMMA PagesGrow ==
  ASSUME TypeOK, Filling, gap_fills' = [gap_fills EXCEPT !.pages = Pages]
  PROVE  Filling' /\ TurnedRound' = TurnedRound
         /\ gap_fills'.frontier = gap_fills.frontier
<1>1. gap_fills.pages \in Nat /\ gap_fills \in [pages : Nat, frontier : Int]
  BY DEF TypeOK
<1>2. gap_fills'.frontier = gap_fills.frontier /\ gap_fills'.pages = gap_fills.pages + 1
  BY <1>1 DEF Pages
<1>3. gap_fills'.pages # 0
  BY <1>1, <1>2
<1>. QED
  BY <1>2, <1>3 DEF Filling, TurnedRound, NoGap

\* An answer leaves the walk where WalkInv says it is, or over.
LEMMA OneOutageAnswer == OneOutageInv /\ AnswerHistory => OneOutageInv'
<1>. SUFFICES ASSUME OneOutageInv, AnswerHistory
              PROVE  OneOutageInv'
  OBVIOUS
<1>. DEFINE r == Head(requests)
            messages == ServerPage(r)
            full == Cardinality(messages) >= Page
<1>1. TypeOK' /\ DownIsQuiet' /\ TypeOK
  BY TypeStep, QuietStep DEF OneOutageInv, Next
<1>2. /\ requests # <<>> /\ Tail(requests) = <<>> /\ r \in Requests
      /\ log \in Nat /\ base \in 0..log
  BY <1>1 DEF OneOutageInv, AnswerHistory, TypeOK
<1>0. \A next : Append(Tail(requests), next) = <<next>>
  <2>1. \A next : Append(<<>>, next) = <<next>>
    OBVIOUS
  <2>. QED
    BY <2>1, <1>2
<1>3. ServerPage(r) \ silenced = messages
  BY DEF OneOutageInv
<1>4. /\ held' = held \cup messages
      /\ UNCHANGED <<log, base, joined, up, kind, silenced>>
  BY <1>3 DEF AnswerHistory
<1>5. messages \in SUBSET (1..log)
  BY DEF ServerPage
<1>6. /\ Filling /\ full /\ ContinueGap(messages)
      \/ /\ Filling /\ ~full /\ messages # {} /\ requests' = <<>> /\ notes' = notes
      \/ /\ (~Filling \/ messages = {}) /\ requests' = <<>> /\ notes' = notes
  BY <1>2, <1>3 DEF AnswerHistory
<1>7. /\ joined /\ joined' /\ up'
      /\ kind' = "channel" /\ silenced' = {}
  BY <1>2, <1>4 DEF OneOutageInv
<1>8. /\ Len(requests') <= 1
      /\ \A i \in DOMAIN requests' : requests'[i].sel # "TARGETS"
  <2>1. \/ requests' = <<>>
        \/ requests' = <<Latest>>
        \/ requests' = <<Request("AFTER", Max(messages))>>
        \/ requests' = <<Request("BEFORE", Min(messages))>>
    <3>1. CASE Ends(messages) \/ GivesUp(messages)
      BY <1>2, <3>1 DEF Ends, GivesUp
    <3>2. CASE WalksOn(messages)
      BY <1>0, <3>2 DEF WalksOn
    <3>3. CASE TurnsRound(messages)
      BY <1>0, <3>3 DEF TurnsRound
    <3>4. CASE WalksBack(messages)
      BY <1>0, <3>4 DEF WalksBack
    <3>. QED
      BY <1>6, <3>1, <3>2, <3>3, <3>4 DEF ContinueGap
  <2>2. requests' = <<>> \/ \E next : requests' = <<next>> /\ next.sel # "TARGETS"
    BY <2>1 DEF Request, Latest
  <2>3. \A next : Len(<<next>>) = 1 /\ DOMAIN <<next>> = {1} /\ <<next>>[1] = next
    OBVIOUS
  <2>. QED
    BY <2>2, <2>3
<1>9. \A lo, hi : Covered(lo, hi) => CoveredThen(lo, hi)
  BY <1>4 DEF Covered, CoveredThen
<1>10. full => messages # {}
  BY <1>2, <1>5, FullPageNotEmpty
<1>11. messages # {} =>
         /\ Min(messages) \in messages /\ \A i \in messages : Min(messages) <= i
         /\ Max(messages) \in messages /\ \A i \in messages : i <= Max(messages)
  BY <1>2, <1>5, PageEnds
<1>12. /\ r.from \in Nat /\ gap_fills.frontier \in Int
       /\ r = Request(r.sel, r.from)
  BY <1>1, <1>2 DEF Requests, Request, TypeOK
<1>13. SUFFICES ASSUME base > 0
                PROVE  WalkInv' /\ (requests' = <<>> => ClosedOrNoted')
  BY <1>1, <1>4, <1>7, <1>8 DEF OneOutageInv, WalkInv
<1>14. Filling /\ base' > 0
  BY <1>2, <1>4, <1>13 DEF OneOutageInv, WalkInv
\* Everything since the gap began: the walk is over and nothing is missing.
<1>15. ASSUME CoveredThen(base, log), requests' = <<>>
       PROVE  WalkInv' /\ ClosedOrNoted'
  BY <1>2, <1>4, <1>15 DEF Covered, CoveredThen, WalkInv, ClosedOrNoted
<1>16. CASE r.sel = "AFTER" /\ ~TurnedRound /\ Covered(base, r.from)
  <2>. USE PageAssumption
  <2>0. r = Request("AFTER", r.from)
    BY <1>12, <1>16
  <2>1. CASE full
    <3>1. CoveredThen(base, Max(messages))
      <4>. SUFFICES ASSUME NEW i \in 1..log, base < i, i <= Max(messages)
                    PROVE  i \in held'
        BY <1>4 DEF Covered, CoveredThen
      <4>1. CASE i <= r.from
        BY <1>4, <1>16, <4>1 DEF Covered, CoveredThen
      <4>2. CASE r.from < i
        <5>1. Max(messages) <= r.from + Page /\ Max(messages) \in 1..log
          BY <2>0, <2>1, <1>10, <1>11 DEF messages, ServerPage, Request
        <5>2. i \in messages
          BY <2>0, <4>2, <5>1, <1>2, <1>12 DEF messages, ServerPage, Request
        <5>. QED
          BY <5>2, <1>4
      <4>. QED
        BY <4>1, <4>2, <1>12
    <3>2. CASE WalksOn(messages)
      <4>0. requests' = <<Request("AFTER", Max(messages))>>
            /\ gap_fills' = [gap_fills EXCEPT !.pages = Pages]
        BY <3>2, <1>0 DEF WalksOn
      <4>1. requests' = <<Request("AFTER", Max(messages))>> /\ Filling' /\ ~TurnedRound'
        BY <4>0, <1>1, <1>14, <1>16, PagesGrow
      <4>2. Head(requests').sel = "AFTER" /\ Head(requests').from = Max(messages)
        BY <4>1 DEF Request
      <4>3. Covered(base, Head(requests).from)'
        BY <3>1, <4>2, <1>4 DEF Covered, CoveredThen
      <4>. QED
        BY <4>1, <4>2, <4>3 DEF WalkInv
    <3>3. CASE TurnsRound(messages)
      <4>1. requests' = <<Latest>> /\ gap_fills' = [pages |-> Pages, frontier |-> Max(messages)]
        BY <3>3, <1>0, <1>2 DEF TurnsRound
      <4>2. Max(messages) \in 1..log
        BY <2>1, <1>5, <1>10, <1>11
      <4>3. Filling' /\ TurnedRound'
        BY <4>1, <4>2 DEF Filling, TurnedRound, NoGap
      <4>4. Head(requests').sel = "LATEST"
        BY <4>1 DEF Latest, Request
      <4>5. Covered(base, gap_fills.frontier)'
        BY <3>1, <4>1, <1>4 DEF Covered, CoveredThen
      <4>. QED
        BY <4>1, <4>3, <4>4, <4>5 DEF WalkInv
    <3>4. ~Ends(messages) /\ ~WalksBack(messages) /\ ~GivesUp(messages)
      BY <1>16 DEF Ends, WalksBack, GivesUp, HalvesMet
    <3>5. ContinueGap(messages)
      BY <2>1, <1>6, <1>10, <1>14, Zenon
    <3>6. WalkInv' /\ requests' # <<>>
      <4>1. CASE WalksOn(messages)
        <5>1. requests' = <<Request("AFTER", Max(messages))>>
          BY <4>1, <1>0 DEF WalksOn
        <5>2. requests' # <<>>
          BY <5>1
        <5>. QED
          BY <3>2, <4>1, <5>2
      <4>2. CASE TurnsRound(messages)
        <5>1. requests' = <<Latest>>
          BY <4>2, <1>0 DEF TurnsRound
        <5>2. requests' # <<>>
          BY <5>1
        <5>. QED
          BY <3>3, <4>2, <5>2
      <4>. QED
        BY <3>4, <3>5, <4>1, <4>2, Zenon DEF ContinueGap
    <3>. QED
      BY <3>6
  <2>2. CASE ~full
    <3>1. \A i \in 1..log : i > r.from => i \in messages
      BY <2>0, <2>2, <1>2, <1>12, ShortAfterReachesNow DEF messages
    <3>2. CoveredThen(base, log)
      BY <3>1, <1>2, <1>4, <1>12, <1>16 DEF Covered, CoveredThen
    <3>. QED
      BY <2>2, <3>2, <1>6, <1>10, <1>15
  <2>. QED
    BY <2>1, <2>2
<1>17. ASSUME NEW hi \in 0..(log + 1), messages = NearEnd(hi), TurnedRound,
              Covered(base, gap_fills.frontier), Covered(hi - 1, log)
       PROVE  WalkInv' /\ (requests' = <<>> => ClosedOrNoted')
  <2>. USE PageAssumption
  <2>1. CASE full
    <3>1. Min(messages) \in 1..log
      BY <2>1, <1>5, <1>10, <1>11
    <3>2. CoveredThen(Min(messages) - 1, log)
      <4>. SUFFICES ASSUME NEW i \in 1..log, Min(messages) <= i
                    PROVE  i \in held'
        BY <1>4, <3>1 DEF Covered, CoveredThen
      <4>1. CASE i < hi
        <5>1. i \in messages
          BY <4>1, <3>1, <1>10, <1>11, <1>17, <2>1 DEF NearEnd
        <5>. QED
          BY <5>1, <1>4
      <4>2. CASE hi <= i
        BY <4>2, <1>4, <1>17, <1>2 DEF Covered, CoveredThen
      <4>. QED
        BY <4>1, <4>2, <1>2
    <3>3. CASE Ends(messages)
      <4>1. Min(messages) <= gap_fills.frontier /\ requests' = <<>>
        BY <3>3, <1>2 DEF Ends, HalvesMet
      <4>2. CoveredThen(base, log)
        BY <3>1, <3>2, <4>1, <1>9, <1>12, <1>4, <1>17, <1>2 DEF Covered, CoveredThen
      <4>. QED
        BY <4>1, <4>2, <1>15
    <3>4. CASE WalksBack(messages)
      <4>0. requests' = <<Request("BEFORE", Min(messages))>>
            /\ gap_fills' = [gap_fills EXCEPT !.pages = Pages]
        BY <3>4, <1>0 DEF WalksBack
      <4>1. requests' = <<Request("BEFORE", Min(messages))>> /\ Filling' /\ TurnedRound'
            /\ gap_fills'.frontier = gap_fills.frontier
        BY <4>0, <1>1, <1>14, <1>17, PagesGrow
      <4>2. Head(requests').sel = "BEFORE" /\ Head(requests').from = Min(messages)
        BY <4>1 DEF Request
      <4>3. Covered(base, gap_fills.frontier)'
        BY <4>1, <1>4, <1>9, <1>17 DEF Covered, CoveredThen
      <4>4. Head(requests').from \in 1..log' /\ Covered(Head(requests).from - 1, log)'
        BY <4>2, <3>1, <3>2, <1>4 DEF Covered, CoveredThen
      <4>. QED
        BY <4>1, <4>2, <4>3, <4>4 DEF WalkInv
    <3>5. CASE GivesUp(messages)
      <4>1. requests' = <<>> /\ notes' = notes \cup {Min(messages)}
        BY <3>5, <1>2 DEF GivesUp
      <4>2. ClosedOrNoted'
        <5>. SUFFICES ASSUME NEW i \in 1..log, base < i
                      PROVE  i \in held' \/ \E row \in notes' : i < row
          BY <1>4 DEF ClosedOrNoted
        <5>1. CASE i < Min(messages)
          BY <4>1, <5>1
        <5>2. CASE Min(messages) <= i
          BY <3>1, <3>2, <5>2, <1>4 DEF Covered, CoveredThen
        <5>. QED
          BY <3>1, <5>1, <5>2
      <4>. QED
        BY <4>1, <4>2 DEF WalkInv
    <3>6. ~WalksOn(messages) /\ ~TurnsRound(messages)
      BY <1>17 DEF WalksOn, TurnsRound
    <3>7. ContinueGap(messages)
      BY <2>1, <1>6, <1>10, <1>14, Zenon
    <3>. QED
      BY <3>3, <3>4, <3>5, <3>6, <3>7 DEF ContinueGap
  <2>2. CASE ~full
    <3>1. \A i \in 1..log : i < hi => i \in messages
      BY <2>2, <1>2, <1>17, ShortNearEndReachesFirst
    <3>2. CoveredThen(base, log)
      BY <3>1, <1>2, <1>4, <1>17 DEF Covered, CoveredThen
    <3>. QED
      BY <2>2, <3>2, <1>6, <1>10, <1>15
  <2>. QED
    BY <2>1, <2>2
<1>18. CASE r.sel = "LATEST" /\ TurnedRound /\ Covered(base, gap_fills.frontier)
  <2>1. messages = NearEnd(log + 1)
    BY <1>2, <1>18, NearEndPages DEF messages, ServerPage, NearEnd, Latest, Request
  <2>2. log + 1 \in 0..(log + 1) /\ Covered((log + 1) - 1, log)
    BY <1>2 DEF Covered, CoveredThen
  <2>. QED
    BY <2>1, <2>2, <1>17, <1>18
<1>19. CASE /\ r.sel = "BEFORE" /\ TurnedRound /\ Covered(base, gap_fills.frontier)
            /\ r.from \in 1..log /\ Covered(r.from - 1, log)
  <2>1. messages = NearEnd(r.from)
    BY <1>2, <1>12, <1>19, NearEndPages DEF messages
  <2>2. r.from \in 0..(log + 1)
    BY <1>2, <1>19
  <2>. QED
    BY <2>1, <2>2, <1>17, <1>19
<1>. QED
  BY <1>2, <1>13, <1>16, <1>18, <1>19 DEF OneOutageInv, WalkInv

LEMMA OneOutageStarts == OneOutageInit => OneOutageInv
BY TypeInit DEF OneOutageInit, Init, OneOutageInv, DownIsQuiet, WalkInv, Filling

LEMMA OneOutageStep == OneOutageInv /\ [OneOutageNext]_vars => OneOutageInv'
<1>. SUFFICES ASSUME OneOutageInv, [OneOutageNext]_vars
              PROVE  OneOutageInv'
  OBVIOUS
<1>1. CASE SpeakElsewhere \/ PageBack \/ UNCHANGED vars
  <2>1. TypeOK' /\ DownIsQuiet'
    BY <1>1, TypeStep, QuietStep DEF OneOutageInv, Next
  <2>2. UNCHANGED <<log, held, requests, gap_fills, base, notes, joined, up, kind, silenced>>
    BY <1>1 DEF SpeakElsewhere, PageBack, vars
  <2>. QED
    BY <2>1, <2>2
    DEF OneOutageInv, WalkInv, ClosedOrNoted, Covered, Filling, TurnedRound
<1>2. CASE Connect
  <2>1. TypeOK' /\ DownIsQuiet'
    BY <1>2, TypeStep, QuietStep DEF OneOutageInv, Next
  <2>2. ~joined /\ ~joined' /\ requests' = <<>> /\ base' = 0 /\ gap_fills' = gap_fills
        /\ kind' = "channel" /\ silenced' = {}
    BY <1>2 DEF OneOutageInv, DownIsQuiet, Connect
  <2>. QED
    BY <2>1, <2>2 DEF OneOutageInv, WalkInv, Filling
<1>. QED
  BY <1>1, <1>2, OneOutageSpeak, OneOutageJoin, OneOutageAnswer, OneOutagePageBack
  DEF OneOutageNext

\* A channel that is neither cut off nor parted while it catches up, on a
\* server that refuses nothing and with nobody ignored, ends up with
\* everything said since its watermark, or with a row saying that it has not.
THEOREM GapCorrect == OneOutageSpec => []GapClosedOrNoted
<1>1. OneOutageInv => GapClosedOrNoted
  BY DEF OneOutageInv, GapClosedOrNoted, ClosedOrNoted, TypeOK
<1>. QED
  BY <1>1, OneOutageStarts, OneOutageStep, PTL DEF OneOutageSpec

=============================================================================
