---------------------------- MODULE DeliveryProofs ----------------------------
(***************************************************************************)
(* Proofs about Delivery, for every bound, cap, queue and set of           *)
(* capabilities.                                                           *)
(***************************************************************************)
EXTENDS Delivery, SetBounds, FiniteSetTheorems

\* The first of a non-empty set of lines is before every other.
LEMMA FirstIsFirst ==
  ASSUME NEW lines \in SUBSET Lines, lines # {}
  PROVE  First(lines) \in lines /\ \A other \in lines : First(lines).ticket <= other.ticket
<1>. DEFINE S == Tickets(lines)
<1>1. S \in SUBSET Nat /\ S # {}
  BY CountsAssumption DEF Tickets, Lines, Messages
<1>2. Min(S) \in S /\ \A x \in S : Min(S) <= x
  BY <1>1, MinNat
<1>3. PICK line \in lines : line.ticket = Min(S)
  BY <1>2 DEF Tickets
<1>4. \A other \in lines : line.ticket <= other.ticket
  BY <1>2, <1>3 DEF Tickets
<1>. QED
  BY <1>4 DEF First

\* The cap only ever drops a line that has been written.
LEMMA CapDropsWritten ==
  ASSUME NEW lines \in SUBSET Lines
  PROVE  /\ Tracked(lines) \subseteq lines
         /\ \A line \in lines : line \in Tracked(lines) \/ line.ticket <= written
<1>. DEFINE done == {line \in lines : line.ticket <= written}
<1>1. done # {} => First(done) \in done
  BY FirstIsFirst
<1>2. CASE Cardinality(lines) > MaxPending /\ done # {}
  <2>1. Tracked(lines) = lines \ {First(done)}
    BY <1>2 DEF Tracked
  <2>. QED
    BY <1>1, <1>2, <2>1
<1>3. CASE ~(Cardinality(lines) > MaxPending /\ done # {})
  BY <1>3 DEF Tracked
<1>. QED
  BY <1>2, <1>3

\* What an echo finds, and what a refusal finds, is in the pending list.
LEMMA FoundIsPending ==
  ASSUME pending \in SUBSET Lines, NEW line
  PROVE  Echoed(line) \subseteq pending /\ Refused(line) \subseteq pending
<1>. DEFINE alike == {other \in pending : other.text = line.text}
<1>1. alike # {} => First(alike) \in alike
  BY FirstIsFirst
<1>. QED
  BY <1>1 DEF Echoed, Refused

-----------------------------------------------------------------------------
(* The inductive invariant: beside the types, the tickets that are in use  *)
(* are old ones, and a line waits in the pending list exactly as long as   *)
(* its message may still change.                                           *)

TicketsAreOld ==
    /\ written < next_ticket /\ mark < next_ticket
    /\ \A line \in pending \cup outbound : line.ticket < next_ticket
    /\ \A m \in Messages : m >= next_ticket => delivery[m] = "Unsaid"

OnePerTicket ==
    \A line, other \in pending : line.ticket = other.ticket => line = other

PendingMayChange ==
    \A line \in pending :
        IF line.ticket <= written
        THEN delivery[line.ticket] = "Sent" /\ echoes
        ELSE delivery[line.ticket] = "Pending"

NothingWaitsAlone == ~registered => pending = {}

DeliveryInv ==
    /\ TypeOK /\ TicketsAreOld /\ OnePerTicket /\ PendingMayChange
    /\ NothingWaitsAlone /\ PendingIsTracked

LEMMA DeliveryInit == Init => DeliveryInv
<1>. SUFFICES ASSUME Init
              PROVE  DeliveryInv
  OBVIOUS
<1>1. TypeOK
  <2>1. incoming \in Seq(Events)
    BY DEF Init
  <2>2. MaxSaid \in Nat
    BY CountsAssumption
  <2>3. /\ next_ticket \in 1..(MaxSaid + 1) /\ written \in 0..MaxSaid
        /\ mark \in 0..MaxSaid /\ connections \in Nat
    BY <2>2 DEF Init
  <2>4. /\ delivery \in [Messages -> {"Unsaid", "Pending", "Sent", "Delivered", "Failed"}]
        /\ pending \subseteq Lines /\ outbound \subseteq Lines /\ wire \subseteq Lines
        /\ registered \in BOOLEAN /\ open \in BOOLEAN
        /\ echoes \in BOOLEAN /\ labelled \in BOOLEAN
        /\ reached \subseteq Messages /\ echoed \subseteq Messages
    BY DEF Init
  <2>. QED
    BY <2>1, <2>3, <2>4 DEF TypeOK
<1>2. TicketsAreOld
  BY CountsAssumption DEF Init, TicketsAreOld
<1>3. OnePerTicket /\ PendingMayChange /\ NothingWaitsAlone /\ PendingIsTracked
  BY DEF Init, OnePerTicket, PendingMayChange, NothingWaitsAlone, PendingIsTracked
<1>. QED
  BY <1>1, <1>2, <1>3 DEF DeliveryInv

-----------------------------------------------------------------------------
(* Every action keeps it, and moves a message only along its life.         *)

\* What a step does to the rows, read off the two variables it is about.
MovesAlong ==
    \A m \in Messages :
        delivery'[m] # delivery[m] => <<delivery[m], delivery'[m]>> \in Lifecycle!Moves

LEMMA SayStep ==
  ASSUME DeliveryInv, NEW text \in Texts, Say(text)
  PROVE  DeliveryInv' /\ MovesAlong
<1>. DEFINE line == [ticket |-> next_ticket, text |-> text]
            lines == pending \cup {line}
<1>1. /\ line \in Lines /\ line.ticket = next_ticket /\ lines \in SUBSET Lines
      /\ next_ticket \in Messages /\ next_ticket' = next_ticket + 1
      /\ pending' = Tracked(lines)
      /\ delivery' = [delivery EXCEPT ![next_ticket] = "Pending"]
      /\ outbound' \subseteq outbound \cup {line}
      /\ registered
      /\ UNCHANGED <<written, registered, open, mark, wire, incoming, echoed, reached,
                     echoes, labelled, connections>>
  BY CountsAssumption DEF DeliveryInv, TypeOK, Say, Lines, Messages, server, connection
<1>2. /\ pending' \subseteq lines
      /\ \A other \in lines : other \in pending' \/ other.ticket <= written
  BY <1>1, CapDropsWritten
<1>. HIDE DEF line, lines
<1>3. lines = pending \cup {line}
  BY DEF lines
<1>4. /\ \A m \in Messages : m # next_ticket => delivery'[m] = delivery[m]
      /\ delivery'[next_ticket] = "Pending" /\ delivery[next_ticket] = "Unsaid"
  BY <1>1, CountsAssumption DEF DeliveryInv, TypeOK, TicketsAreOld, Messages
<1>5. TypeOK'
  BY <1>1, <1>2, CountsAssumption DEF DeliveryInv, TypeOK, Messages
<1>10. /\ next_ticket \in Nat /\ written \in Nat /\ mark \in Nat
      /\ written < next_ticket /\ mark < next_ticket
      /\ \A other \in pending \cup outbound :
            other.ticket \in Messages /\ other.ticket \in Nat /\ other.ticket < next_ticket
  BY CountsAssumption DEF DeliveryInv, TypeOK, TicketsAreOld, Lines, Messages
<1>6. TicketsAreOld'
  <2>1. \A other \in pending' \cup outbound' : other.ticket < next_ticket'
    <3>1. \A other \in lines \cup outbound : other.ticket < next_ticket + 1
      BY <1>1, <1>3, <1>10
    <3>2. pending' \cup outbound' \subseteq lines \cup outbound
      BY <1>1, <1>2, <1>3
    <3>. QED
      BY <1>1, <3>1, <3>2
  <2>2. \A m \in Messages : m >= next_ticket' => delivery'[m] = "Unsaid"
    BY <1>1, <1>4, <1>10 DEF DeliveryInv, TicketsAreOld, Messages
  <2>. QED
    BY <1>1, <1>10, <2>1, <2>2 DEF TicketsAreOld
<1>7. OnePerTicket'
  <2>1. \A other \in pending : other.ticket # next_ticket
    BY <1>10
  <2>. QED
    BY <1>1, <1>2, <1>3, <2>1 DEF DeliveryInv, OnePerTicket
<1>8. PendingMayChange'
  <2>. SUFFICES ASSUME NEW other \in pending'
                PROVE  IF other.ticket <= written
                       THEN delivery'[other.ticket] = "Sent" /\ echoes
                       ELSE delivery'[other.ticket] = "Pending"
    BY <1>1 DEF PendingMayChange
  <2>1. CASE other = line
    <3>1. ~(other.ticket <= written)
      BY <2>1, <1>1, <1>10
    <3>. QED
      BY <2>1, <3>1, <1>1, <1>4
  <2>2. CASE other \in pending
    <3>1. delivery'[other.ticket] = delivery[other.ticket]
      BY <2>2, <1>4, <1>10
    <3>. QED
      BY <2>2, <3>1 DEF DeliveryInv, PendingMayChange
  <2>. QED
    BY <1>2, <1>3, <2>1, <2>2
<1>9. PendingIsTracked'
  <2>. SUFFICES ASSUME NEW m \in Messages, delivery'[m] = "Pending"
                PROVE  \E other \in pending' : other.ticket = m
    BY DEF PendingIsTracked, Tickets
  <2>1. PICK other \in lines : other.ticket = m
    BY <1>1, <1>3, <1>4 DEF DeliveryInv, PendingIsTracked, Tickets
  <2>2. ~(m <= written)
    <3>1. CASE m = next_ticket
      BY <3>1, <1>1 DEF DeliveryInv, TicketsAreOld, TypeOK, Messages
    <3>2. CASE m # next_ticket
      BY <3>2, <2>1, <1>1, <1>3, <1>4 DEF DeliveryInv, PendingMayChange
    <3>. QED
      BY <3>1, <3>2
  <2>. QED
    BY <1>2, <2>1, <2>2
<1>11. NothingWaitsAlone'
  BY <1>1 DEF NothingWaitsAlone
<1>. QED
  BY <1>4, <1>5, <1>6, <1>7, <1>8, <1>9, <1>11
  DEF DeliveryInv, MovesAlong, Lifecycle!Moves

\* What changing the rows of some pending lines does.
LEMMA SettleRows ==
  ASSUME DeliveryInv, NEW lines \in SUBSET pending,
         NEW state \in {"Sent", "Delivered", "Failed"}, Settle(lines, state)
  PROVE  /\ delivery' \in [Messages -> {"Unsaid", "Pending", "Sent", "Delivered", "Failed"}]
         /\ \A m \in Messages :
               \/ delivery'[m] = delivery[m] /\ m \notin Tickets(lines)
               \/ delivery'[m] = state /\ m \in Tickets(lines)
         /\ \A m \in Tickets(lines) : m < next_ticket
         /\ \A line \in pending : line \notin lines => line.ticket \notin Tickets(lines)
<1>1. delivery' = [m \in Messages |-> IF m \in Tickets(lines) THEN state ELSE delivery[m]]
  BY DEF Settle
<1>2. \A m \in Messages : delivery[m] \in {"Unsaid", "Pending", "Sent", "Delivered", "Failed"}
  BY DEF DeliveryInv, TypeOK
<1>3. \A line \in pending : line \notin lines => line.ticket \notin Tickets(lines)
  BY DEF DeliveryInv, OnePerTicket, Tickets
<1>4. \A m \in Tickets(lines) : m < next_ticket
  BY DEF DeliveryInv, TicketsAreOld, Tickets
<1>. QED
  BY <1>1, <1>2, <1>3, <1>4

\* A row that settles for good takes its line out of the list.
LEMMA SettleForGood ==
  ASSUME DeliveryInv, NEW lines \in SUBSET pending,
         NEW state \in {"Delivered", "Failed"}, Settle(lines, state),
         pending' = pending \ lines, written' = written, next_ticket' = next_ticket,
         UNCHANGED <<registered, echoes>>
  PROVE  /\ OnePerTicket' /\ PendingMayChange' /\ PendingIsTracked'
         /\ NothingWaitsAlone'
         /\ \A m \in Messages : m >= next_ticket => delivery'[m] = "Unsaid"
         /\ MovesAlong
<1>1. /\ \A m \in Messages :
            \/ delivery'[m] = delivery[m] /\ m \notin Tickets(lines)
            \/ delivery'[m] = state /\ m \in Tickets(lines)
      /\ \A m \in Tickets(lines) : m < next_ticket
      /\ \A line \in pending : line \notin lines => line.ticket \notin Tickets(lines)
  BY SettleRows
<1>2. \A line \in pending : line.ticket \in Messages
  BY DEF DeliveryInv, TypeOK, Lines
<1>3. OnePerTicket'
  BY DEF DeliveryInv, OnePerTicket
<1>4. PendingMayChange'
  <2>1. \A line \in pending' : line \in pending /\ delivery'[line.ticket] = delivery[line.ticket]
    BY <1>1, <1>2
  <2>. QED
    BY <2>1 DEF DeliveryInv, PendingMayChange
<1>5. PendingIsTracked'
  <2>. SUFFICES ASSUME NEW m \in Messages, delivery'[m] = "Pending"
                PROVE  \E line \in pending' : line.ticket = m
    BY DEF PendingIsTracked, Tickets
  <2>1. delivery[m] = "Pending" /\ m \notin Tickets(lines)
    BY <1>1
  <2>2. PICK line \in pending : line.ticket = m
    BY <2>1 DEF DeliveryInv, PendingIsTracked, Tickets
  <2>. QED
    BY <2>1, <2>2 DEF Tickets
<1>6. \A m \in Messages : m >= next_ticket => delivery'[m] = "Unsaid"
  <2>. SUFFICES ASSUME NEW m \in Messages, m >= next_ticket
                PROVE  delivery'[m] = "Unsaid"
    OBVIOUS
  <2>1. m \notin Tickets(lines)
    <3>1. m \in Nat /\ next_ticket \in Nat
      BY CountsAssumption DEF Messages, DeliveryInv, TypeOK
    <3>. QED
      BY <1>1, <3>1
  <2>. QED
    BY <1>1, <2>1 DEF DeliveryInv, TicketsAreOld
<1>7. MovesAlong
  <2>. SUFFICES ASSUME NEW m \in Messages, m \in Tickets(lines), delivery'[m] = state
                PROVE  <<delivery[m], state>> \in Lifecycle!Moves
    BY <1>1 DEF MovesAlong
  <2>1. PICK line \in pending : line.ticket = m
    BY DEF Tickets
  <2>2. (delivery[m] = "Sent" /\ echoes) \/ delivery[m] = "Pending"
    BY <2>1 DEF DeliveryInv, PendingMayChange
  <2>. QED
    BY <2>2 DEF Lifecycle!Moves
<1>8. NothingWaitsAlone'
  BY DEF DeliveryInv, NothingWaitsAlone
<1>. QED
  BY <1>3, <1>4, <1>5, <1>6, <1>7, <1>8

LEMMA WrittenStep == DeliveryInv /\ OnWritten => DeliveryInv' /\ MovesAlong
<1>. SUFFICES ASSUME DeliveryInv, OnWritten
              PROVE  DeliveryInv' /\ MovesAlong
  OBVIOUS
<1>. DEFINE settled == {line \in pending : written < line.ticket /\ line.ticket <= mark}
<1>1. /\ written' = mark /\ written < mark /\ Settle(settled, "Sent")
      /\ pending' = (IF echoes THEN pending ELSE pending \ settled)
      /\ UNCHANGED <<next_ticket, registered, open, outbound, mark, wire, incoming,
                     echoed, reached, echoes, labelled, connections>>
  BY DEF OnWritten, server, connection, DeliveryInv, TypeOK
<1>2. /\ delivery' \in [Messages -> {"Unsaid", "Pending", "Sent", "Delivered", "Failed"}]
      /\ \A m \in Messages :
            \/ delivery'[m] = delivery[m] /\ m \notin Tickets(settled)
            \/ delivery'[m] = "Sent" /\ m \in Tickets(settled)
      /\ \A m \in Tickets(settled) : m < next_ticket
      /\ \A line \in pending : line \notin settled => line.ticket \notin Tickets(settled)
  BY <1>1, SettleRows
<1>3. /\ written \in Nat /\ mark \in Nat /\ next_ticket \in Nat /\ mark < next_ticket
      /\ \A line \in pending : line.ticket \in Messages /\ line.ticket \in Nat
  BY CountsAssumption DEF DeliveryInv, TypeOK, TicketsAreOld, Lines, Messages
<1>4. TypeOK'
  BY <1>1, <1>2 DEF DeliveryInv, TypeOK
<1>5. pending' \subseteq pending
  BY <1>1
<1>6. TicketsAreOld'
  <2>1. \A m \in Messages : m >= next_ticket => delivery'[m] = "Unsaid"
    <3>. SUFFICES ASSUME NEW m \in Messages, m >= next_ticket
                  PROVE  delivery'[m] = "Unsaid"
      OBVIOUS
    <3>1. m \notin Tickets(settled)
      <4>1. m \in Nat
        BY CountsAssumption DEF Messages
      <4>. QED
        BY <1>2, <1>3, <4>1
    <3>. QED
      BY <1>2, <3>1 DEF DeliveryInv, TicketsAreOld
  <2>2. \A line \in pending' \cup outbound' : line.ticket < next_ticket
    BY <1>1, <1>5 DEF DeliveryInv, TicketsAreOld
  <2>. QED
    BY <1>1, <1>3, <2>1, <2>2 DEF TicketsAreOld
<1>7. OnePerTicket'
  BY <1>5 DEF DeliveryInv, OnePerTicket
<1>8. PendingMayChange'
  <2>. SUFFICES ASSUME NEW line \in pending'
                PROVE  IF line.ticket <= mark
                       THEN delivery'[line.ticket] = "Sent" /\ echoes
                       ELSE delivery'[line.ticket] = "Pending"
    BY <1>1 DEF PendingMayChange
  <2>1. line \in pending /\ line.ticket \in Messages
    BY <1>3, <1>5
  <2>2. CASE line \in settled
    <3>1. echoes
      BY <2>2, <1>1
    <3>2. line.ticket \in Tickets(settled)
      BY <2>2 DEF Tickets
    <3>. QED
      BY <2>1, <2>2, <3>1, <3>2, <1>2
  <2>3. CASE line \notin settled
    <3>1. delivery'[line.ticket] = delivery[line.ticket]
      BY <2>1, <2>3, <1>2
    <3>2. line.ticket <= written <=> line.ticket <= mark
      BY <2>1, <2>3, <1>1, <1>3
    <3>. QED
      BY <2>1, <3>1, <3>2 DEF DeliveryInv, PendingMayChange
  <2>. QED
    BY <2>2, <2>3
<1>9. PendingIsTracked'
  <2>. SUFFICES ASSUME NEW m \in Messages, delivery'[m] = "Pending"
                PROVE  \E line \in pending' : line.ticket = m
    BY DEF PendingIsTracked, Tickets
  <2>1. delivery[m] = "Pending" /\ m \notin Tickets(settled)
    BY <1>2
  <2>2. PICK line \in pending : line.ticket = m
    BY <2>1 DEF DeliveryInv, PendingIsTracked, Tickets
  <2>3. line \in pending'
    BY <1>1, <2>1, <2>2 DEF Tickets
  <2>. QED
    BY <2>2, <2>3
<1>10. MovesAlong
  <2>. SUFFICES ASSUME NEW m \in Messages, m \in Tickets(settled), delivery'[m] = "Sent"
                PROVE  <<delivery[m], "Sent">> \in Lifecycle!Moves
    BY <1>2 DEF MovesAlong
  <2>1. PICK line \in settled : line.ticket = m
    BY DEF Tickets
  <2>2. delivery[m] = "Pending"
    BY <2>1, <1>3 DEF DeliveryInv, PendingMayChange
  <2>. QED
    BY <2>2 DEF Lifecycle!Moves
<1>11. NothingWaitsAlone'
  BY <1>1, <1>5 DEF DeliveryInv, NothingWaitsAlone
<1>. QED
  BY <1>4, <1>6, <1>7, <1>8, <1>9, <1>10, <1>11 DEF DeliveryInv

LEMMA LineStep == DeliveryInv /\ OnLine => DeliveryInv' /\ MovesAlong
<1>. SUFFICES ASSUME DeliveryInv, OnLine
              PROVE  DeliveryInv' /\ MovesAlong
  OBVIOUS
<1>. DEFINE event == Head(incoming)
            found == IF event.kind = "echo" THEN Echoed(event.line) ELSE Refused(event.line)
            state == IF event.kind = "echo" THEN "Delivered" ELSE "Failed"
<1>1. found \in SUBSET pending
  BY FoundIsPending DEF DeliveryInv, TypeOK
<1>2. /\ Settle(found, state) /\ pending' = pending \ found
      /\ incoming' = Tail(incoming) /\ incoming # <<>>
      /\ UNCHANGED <<next_ticket, written, registered, open, outbound, mark, wire,
                     reached, echoed, echoes, labelled, connections>>
  BY DEF OnLine, connection
<1>3. incoming' \in Seq(Events)
  BY <1>2 DEF DeliveryInv, TypeOK
<1>4. state \in {"Delivered", "Failed"}
  OBVIOUS
<1>. HIDE DEF found, state
<1>5. /\ OnePerTicket' /\ PendingMayChange' /\ PendingIsTracked'
      /\ NothingWaitsAlone'
      /\ \A m \in Messages : m >= next_ticket => delivery'[m] = "Unsaid"
      /\ MovesAlong
  BY <1>1, <1>2, <1>4, SettleForGood
<1>6. delivery' \in [Messages -> {"Unsaid", "Pending", "Sent", "Delivered", "Failed"}]
  BY <1>1, <1>2, <1>4, SettleRows
<1>7. TypeOK'
  BY <1>2, <1>3, <1>6 DEF DeliveryInv, TypeOK
<1>8. TicketsAreOld'
  BY <1>2, <1>5 DEF DeliveryInv, TicketsAreOld
<1>. QED
  BY <1>5, <1>7, <1>8 DEF DeliveryInv

LEMMA DisconnectedStep == DeliveryInv /\ OnDisconnected => DeliveryInv' /\ MovesAlong
<1>. SUFFICES ASSUME DeliveryInv, OnDisconnected
              PROVE  DeliveryInv' /\ MovesAlong
  OBVIOUS
<1>. DEFINE unwritten == {line \in pending : line.ticket > written}
<1>1. /\ Settle(unwritten, "Failed") /\ pending' = {}
      /\ registered' = FALSE /\ open' = FALSE /\ outbound' = {} /\ wire' = {}
      /\ echoes' = FALSE /\ labelled' = FALSE /\ mark' = 0 /\ incoming' = <<>>
      /\ UNCHANGED <<next_ticket, written, reached, echoed, connections>>
  BY DEF OnDisconnected, AbandonUnwritten
<1>2. /\ delivery' \in [Messages -> {"Unsaid", "Pending", "Sent", "Delivered", "Failed"}]
      /\ \A m \in Messages :
            \/ delivery'[m] = delivery[m] /\ m \notin Tickets(unwritten)
            \/ delivery'[m] = "Failed" /\ m \in Tickets(unwritten)
      /\ \A m \in Tickets(unwritten) : m < next_ticket
  BY <1>1, SettleRows
<1>3. /\ written \in Nat /\ next_ticket \in Nat /\ written < next_ticket /\ MaxSaid \in Nat
      /\ \A line \in pending : line.ticket \in Messages /\ line.ticket \in Nat
  BY CountsAssumption DEF DeliveryInv, TypeOK, TicketsAreOld, Lines, Messages
<1>4. incoming' \in Seq(Events) /\ mark' \in 0..MaxSaid
  BY <1>1, <1>3
<1>5. TypeOK'
  BY <1>1, <1>2, <1>4 DEF DeliveryInv, TypeOK
<1>6. \A m \in Messages : m >= next_ticket => delivery'[m] = "Unsaid"
  <2>. SUFFICES ASSUME NEW m \in Messages, m >= next_ticket
                PROVE  delivery'[m] = "Unsaid"
    OBVIOUS
  <2>1. m \notin Tickets(unwritten)
    <3>1. m \in Nat
      BY CountsAssumption DEF Messages
    <3>. QED
      BY <1>2, <1>3, <3>1
  <2>. QED
    BY <1>2, <2>1 DEF DeliveryInv, TicketsAreOld
<1>7. TicketsAreOld'
  <2>1. mark' < next_ticket'
    BY <1>1, <1>3
  <2>. QED
    BY <1>1, <1>3, <1>6, <2>1 DEF TicketsAreOld
<1>8. OnePerTicket' /\ PendingMayChange' /\ NothingWaitsAlone'
  BY <1>1 DEF OnePerTicket, PendingMayChange, NothingWaitsAlone
<1>9. \A m \in Messages : delivery[m] = "Pending" => m \in Tickets(unwritten)
  <2>. SUFFICES ASSUME NEW m \in Messages, delivery[m] = "Pending"
                PROVE  m \in Tickets(unwritten)
    OBVIOUS
  <2>1. PICK line \in pending : line.ticket = m
    BY DEF DeliveryInv, PendingIsTracked, Tickets
  <2>2. ~(line.ticket <= written)
    BY <2>1 DEF DeliveryInv, PendingMayChange
  <2>3. line \in unwritten
    BY <2>2, <1>3
  <2>. QED
    BY <2>1, <2>3 DEF Tickets
<1>10. PendingIsTracked'
  BY <1>2, <1>9 DEF PendingIsTracked
<1>11. MovesAlong
  <2>. SUFFICES ASSUME NEW m \in Messages, m \in Tickets(unwritten), delivery'[m] = "Failed"
                PROVE  <<delivery[m], "Failed">> \in Lifecycle!Moves
    BY <1>2 DEF MovesAlong
  <2>1. PICK line \in unwritten : line.ticket = m
    BY DEF Tickets
  <2>2. ~(line.ticket <= written)
    BY <2>1, <1>3
  <2>3. delivery[m] = "Pending"
    BY <2>1, <2>2 DEF DeliveryInv, PendingMayChange
  <2>. QED
    BY <2>3 DEF Lifecycle!Moves
<1>. QED
  BY <1>5, <1>7, <1>8, <1>10, <1>11 DEF DeliveryInv

\* The rest leaves the rows, the list and the tickets in use as they are.
LEMMA QuietStep ==
  DeliveryInv /\ (Connect \/ Write \/ SocketEnds \/ Answer \/ UNCHANGED vars)
  => DeliveryInv' /\ MovesAlong
<1>. SUFFICES ASSUME DeliveryInv, Connect \/ Write \/ SocketEnds \/ Answer \/ UNCHANGED vars
              PROVE  DeliveryInv' /\ MovesAlong
  OBVIOUS
<1>1. UNCHANGED <<delivery, next_ticket, pending, written>>
  BY DEF Connect, Write, SocketEnds, Answer, session, vars
<1>2. OnePerTicket' /\ PendingIsTracked' /\ MovesAlong
  BY <1>1 DEF DeliveryInv, OnePerTicket, PendingIsTracked, MovesAlong
<1>8. PendingMayChange' /\ NothingWaitsAlone'
  <2>1. pending = {} \/ UNCHANGED <<registered, echoes>>
    BY DEF Connect, Write, SocketEnds, Answer, connection, vars, DeliveryInv,
           NothingWaitsAlone
  <2>. QED
    BY <1>1, <2>1 DEF DeliveryInv, PendingMayChange, NothingWaitsAlone
<1>3. outbound # {} => First(outbound) \in outbound /\ First(outbound) \in Lines
  BY FirstIsFirst DEF DeliveryInv, TypeOK
<1>4. wire # {} => First(wire) \in Lines
  BY FirstIsFirst DEF DeliveryInv, TypeOK
<1>5. CASE Connect \/ SocketEnds \/ UNCHANGED vars
  <2>1. /\ UNCHANGED <<outbound, mark, reached, echoed, incoming>>
        /\ wire' \subseteq wire /\ registered' \in BOOLEAN /\ open' \in BOOLEAN
        /\ echoes' \in BOOLEAN /\ labelled' \in BOOLEAN /\ connections' \in Nat
    <3>1. CASE Connect
      BY <3>1 DEF Connect, server, DeliveryInv, TypeOK
    <3>2. CASE SocketEnds
      BY <3>2 DEF SocketEnds, connection, DeliveryInv, TypeOK
    <3>3. CASE UNCHANGED vars
      BY <3>3 DEF vars, DeliveryInv, TypeOK
    <3>. QED
      BY <1>5, <3>1, <3>2, <3>3
  <2>. QED
    BY <1>1, <1>2, <1>8, <2>1 DEF DeliveryInv, TypeOK, TicketsAreOld
<1>6. CASE Write
  <2>. DEFINE line == First(outbound)
  <2>1. /\ outbound # {} /\ outbound' = outbound \ {line} /\ mark' = line.ticket
        /\ wire' = wire \cup {line} /\ reached' = reached \cup {line.ticket}
        /\ UNCHANGED <<registered, open, incoming, echoed, echoes, labelled, connections>>
    BY <1>6 DEF Write, connection
  <2>2. line \in outbound /\ line \in Lines
    BY <1>3, <2>1
  <2>. HIDE DEF line
  <2>3. line.ticket \in Messages /\ line.ticket \in 0..MaxSaid /\ line.ticket < next_ticket
    BY <2>2, CountsAssumption DEF DeliveryInv, TicketsAreOld, Lines, Messages
  <2>4. TypeOK'
    BY <1>1, <2>1, <2>2, <2>3 DEF DeliveryInv, TypeOK
  <2>5. TicketsAreOld'
    BY <1>1, <2>1, <2>3 DEF DeliveryInv, TicketsAreOld
  <2>. QED
    BY <1>2, <1>8, <2>4, <2>5 DEF DeliveryInv
<1>7. CASE Answer
  <2>. DEFINE line == First(wire)
  <2>1. /\ wire # {} /\ wire' = wire \ {line}
        /\ UNCHANGED <<registered, open, outbound, mark, reached, echoes, labelled,
                       connections>>
        /\ \/ /\ incoming' = Append(incoming, [kind |-> "echo", line |-> line])
              /\ echoed' = echoed \cup {line.ticket}
           \/ /\ incoming' = Append(incoming, [kind |-> "refusal", line |-> line])
              /\ echoed' = echoed
           \/ incoming' = incoming /\ echoed' = echoed
    BY <1>7 DEF Answer, connection
  <2>2. line \in Lines
    BY <1>4, <2>1
  <2>. HIDE DEF line
  <2>3. line.ticket \in Messages
    BY <2>2 DEF Lines
  <2>4. /\ [kind |-> "echo", line |-> line] \in Events
        /\ [kind |-> "refusal", line |-> line] \in Events
    BY <2>2 DEF Events
  <2>5. incoming' \in Seq(Events) /\ echoed' \subseteq Messages
    <3>1. incoming \in Seq(Events) /\ echoed \subseteq Messages
      BY DEF DeliveryInv, TypeOK
    <3>2. \A event \in Events : Append(incoming, event) \in Seq(Events)
      BY <3>1
    <3>3. incoming' \in Seq(Events)
      BY <2>1, <2>4, <3>1, <3>2, Zenon
    <3>4. echoed' \subseteq Messages
      BY <2>1, <2>3, <3>1
    <3>. QED
      BY <3>3, <3>4
  <2>6. TypeOK'
    BY <1>1, <2>1, <2>5 DEF DeliveryInv, TypeOK
  <2>7. TicketsAreOld'
    BY <1>1, <2>1 DEF DeliveryInv, TicketsAreOld
  <2>. QED
    BY <1>2, <1>8, <2>6, <2>7 DEF DeliveryInv
<1>. QED
  BY <1>5, <1>6, <1>7

LEMMA DeliveryStep == DeliveryInv /\ [Next]_vars => DeliveryInv' /\ MovesAlong
BY SayStep, WrittenStep, LineStep, DisconnectedStep, QuietStep DEF Next

-----------------------------------------------------------------------------
(* Where a line is on its way, for as long as its message may change.      *)

\* What the writer has taken has reached the server, and what it has not is
\* queued for it while it runs.
TransportInv ==
    /\ ~registered => ~open /\ outbound = {} /\ wire = {} /\ incoming = <<>> /\ mark = 0
    /\ \A line \in pending : line.ticket <= mark => line.ticket \in reached
    /\ open => \A line \in pending : line.ticket > mark => line \in outbound
    /\ \A line \in outbound : line.ticket > mark
    /\ \A line, other \in outbound : line.ticket = other.ticket => line = other

\* Lines stay in the order in which they were queued, each is answered once, and
\* what comes back as an echo has been echoed.
OrderInv ==
    /\ \A line \in wire : line.ticket <= mark
    /\ \A line, other \in wire : line.ticket = other.ticket => line = other
    /\ \A i \in 1..Len(incoming) :
          /\ incoming[i].line.ticket <= mark
          /\ \A line \in wire : incoming[i].line.ticket < line.ticket
          /\ \A j \in 1..Len(incoming) :
                i < j => incoming[i].line.ticket < incoming[j].line.ticket
          /\ incoming[i].kind = "echo" => echoes /\ incoming[i].line.ticket \in echoed

\* A line that may still be echoed is waited for.
AwaitedInv ==
    ListKeepsAll /\ echoes =>
        /\ outbound \cup wire \subseteq pending
        /\ \A i \in 1..Len(incoming) : incoming[i].line \in pending

SentInv == TransportInv /\ OrderInv /\ AwaitedInv /\ SentWasWritten

\* What the types and the tickets in use say of lines, in one place.
LEMMA LineFacts ==
  ASSUME DeliveryInv
  PROVE  /\ mark \in Nat /\ written \in Nat /\ next_ticket \in Nat
         /\ MaxSaid \in Nat /\ MaxPending \in Nat
         /\ mark < next_ticket /\ written < next_ticket
         /\ \A line \in Lines : line.ticket \in Nat /\ line.ticket \in Messages
         /\ pending \in SUBSET Lines /\ outbound \in SUBSET Lines /\ wire \in SUBSET Lines
         /\ incoming \in Seq(Events)
         /\ \A line \in pending \cup outbound : line.ticket < next_ticket
BY CountsAssumption DEF DeliveryInv, TypeOK, TicketsAreOld, Lines, Messages

\* And of the events that are queued.
LEMMA EventFacts ==
  ASSUME DeliveryInv
  PROVE  /\ Len(incoming) \in Nat
         /\ \A i \in 1..Len(incoming) :
               incoming[i] \in Events /\ incoming[i].line \in Lines
               /\ incoming[i].kind \in {"echo", "refusal"}
<1>1. incoming \in Seq(Events)
  BY LineFacts
<1>2. Len(incoming) \in Nat /\ \A i \in 1..Len(incoming) : incoming[i] \in Events
  BY <1>1
<1>3. \A event \in Events : event.line \in Lines /\ event.kind \in {"echo", "refusal"}
  BY DEF Events
<1>. QED
  BY <1>2, <1>3

\* As long as no more was said than the cap allows, the cap drops nothing.
LEMMA CapKeepsAll ==
  ASSUME NEW lines \in SUBSET Lines,
         \A line, other \in lines : line.ticket = other.ticket => line = other,
         \A line \in lines : line.ticket <= MaxPending
  PROVE  Tracked(lines) = lines
<1>. DEFINE f == [line \in lines |-> line.ticket]
<1>1. MaxPending \in Nat /\ \A line \in lines : line.ticket \in 1..MaxPending
  BY CountsAssumption DEF Lines, Messages
<1>2. f \in [lines -> 1..MaxPending]
  BY <1>1
<1>3. \A a, b \in lines : f[a] = f[b] => a = b
  OBVIOUS
<1>4. f \in Injection(lines, 1..MaxPending)
  BY <1>2, <1>3 DEF Injection, IsInjective
<1>5. IsFiniteSet(1..MaxPending) /\ Cardinality(1..MaxPending) = MaxPending
  BY <1>1, FS_Interval
<1>6. Cardinality(lines) <= MaxPending /\ IsFiniteSet(lines)
  BY <1>4, <1>5, FS_Injection
<1>7. Cardinality(lines) \in Nat
  BY <1>6, FS_CardinalityType
<1>. QED
  BY <1>1, <1>6, <1>7 DEF Tracked

-----------------------------------------------------------------------------
(* SentInv holds and is kept: one lemma for each action. *)

LEMMA SentInit == Init => SentInv
<1>. SUFFICES ASSUME Init
              PROVE  SentInv
  OBVIOUS
<1>1. Len(incoming) = 0
  BY DEF Init
<1>2. TransportInv /\ SentWasWritten
  BY DEF Init, TransportInv, SentWasWritten
<1>3. OrderInv /\ AwaitedInv
  BY <1>1 DEF Init, OrderInv, AwaitedInv
<1>. QED
  BY <1>2, <1>3 DEF SentInv

LEMMA SaySends ==
  ASSUME DeliveryInv, SentInv, NEW text \in Texts, Say(text)
  PROVE  SentInv'
<1>. DEFINE line == [ticket |-> next_ticket, text |-> text]
            lines == pending \cup {line}
<1>1. /\ line \in Lines /\ line.ticket = next_ticket /\ lines \in SUBSET Lines
      /\ next_ticket \in Messages /\ next_ticket' = next_ticket + 1
      /\ pending' = Tracked(lines)
      /\ delivery' = [delivery EXCEPT ![next_ticket] = "Pending"]
      /\ outbound' = IF open THEN outbound \cup {line} ELSE outbound
      /\ registered
      /\ UNCHANGED <<registered, open, mark, wire, incoming, echoed, reached, echoes, labelled>>
  BY CountsAssumption DEF DeliveryInv, TypeOK, Say, Lines, Messages, server, connection
<1>2. pending' \subseteq lines
  BY <1>1, CapDropsWritten
<1>. HIDE DEF line, lines
<1>3. lines = pending \cup {line}
  BY DEF lines
<1>4. TransportInv'
  <2>1. \A other \in pending' : other.ticket <= mark => other.ticket \in reached
    <3>1. ~(line.ticket <= mark)
      BY <1>1, LineFacts
    <3>2. \A other \in pending : other.ticket <= mark => other.ticket \in reached
      BY DEF SentInv, TransportInv
    <3>. QED
      BY <1>2, <1>3, <3>1, <3>2
  <2>2. open => \A other \in pending' : other.ticket > mark => other \in outbound'
    BY <1>1, <1>2, <1>3 DEF SentInv, TransportInv
  <2>3. \A other \in outbound' : other.ticket > mark
    BY <1>1, LineFacts DEF SentInv, TransportInv
  <2>4. \A one, other \in outbound' : one.ticket = other.ticket => one = other
    BY <1>1, LineFacts DEF SentInv, TransportInv
  <2>. QED
    BY <1>1, <2>1, <2>2, <2>3, <2>4 DEF SentInv, TransportInv
<1>5. OrderInv'
  BY <1>1 DEF SentInv, OrderInv
<1>6. ListKeepsAll' => ListKeepsAll /\ pending' = lines
  <2>. SUFFICES ASSUME ListKeepsAll'
                PROVE  ListKeepsAll /\ pending' = lines
    OBVIOUS
  <2>1. next_ticket <= MaxPending
    BY <1>1, LineFacts DEF ListKeepsAll
  <2>2. \A other \in lines : other.ticket <= MaxPending
    BY <1>1, <1>3, <2>1, LineFacts
  <2>3. \A one, other \in lines : one.ticket = other.ticket => one = other
    BY <1>1, <1>3, LineFacts DEF DeliveryInv, OnePerTicket
  <2>4. pending' = lines
    BY <1>1, <2>2, <2>3, CapKeepsAll
  <2>. QED
    BY <2>1, <2>4, LineFacts DEF ListKeepsAll
<1>7. AwaitedInv'
  BY <1>1, <1>3, <1>6 DEF SentInv, AwaitedInv
<1>8. SentWasWritten'
  <2>1. \A m \in Messages : delivery'[m] = delivery[m] \/ delivery'[m] = "Pending"
    BY <1>1 DEF DeliveryInv, TypeOK
  <2>. QED
    BY <1>1, <1>6, <2>1 DEF SentInv, SentWasWritten
<1>. QED
  BY <1>4, <1>5, <1>7, <1>8 DEF SentInv

LEMMA WrittenSends == DeliveryInv /\ SentInv /\ OnWritten => SentInv'
<1>. SUFFICES ASSUME DeliveryInv, SentInv, OnWritten
              PROVE  SentInv'
  OBVIOUS
<1>. DEFINE settled == {line \in pending : written < line.ticket /\ line.ticket <= mark}
<1>1. /\ Settle(settled, "Sent")
      /\ pending' = (IF echoes THEN pending ELSE pending \ settled)
      /\ UNCHANGED <<next_ticket, registered, open, outbound, mark, wire, incoming,
                     echoed, reached, echoes, labelled>>
  BY DEF OnWritten, server, connection
<1>2. \A m \in Messages : delivery'[m] = delivery[m] \/ m \in Tickets(settled)
  BY <1>1, SettleRows
<1>3. \A m \in Tickets(settled) : m \in reached
  BY DEF Tickets, SentInv, TransportInv
<1>. HIDE DEF settled
<1>4. TransportInv'
  BY <1>1 DEF SentInv, TransportInv
<1>5. OrderInv'
  BY <1>1 DEF SentInv, OrderInv
<1>6. AwaitedInv'
  BY <1>1 DEF SentInv, AwaitedInv, ListKeepsAll
<1>7. SentWasWritten'
  BY <1>1, <1>2, <1>3 DEF SentInv, SentWasWritten, ListKeepsAll
<1>. QED
  BY <1>4, <1>5, <1>6, <1>7 DEF SentInv

\* The line that is read is before every other on its way.
LEMMA HeadFacts ==
  ASSUME DeliveryInv, SentInv, incoming # <<>>
  PROVE  LET event == Head(incoming) IN
         /\ event = incoming[1] /\ Len(incoming) > 0 /\ event.line \in Lines
         /\ event.line.ticket <= mark
         /\ Tail(incoming) \in Seq(Events) /\ Len(Tail(incoming)) = Len(incoming) - 1
         /\ \A i \in 1..Len(Tail(incoming)) :
               /\ i + 1 \in 1..Len(incoming) /\ Tail(incoming)[i] = incoming[i + 1]
               /\ event.line.ticket < incoming[i + 1].line.ticket
         /\ \A line \in outbound \cup wire : event.line.ticket < line.ticket
         /\ event.kind = "echo" => echoes /\ event.line.ticket \in echoed
<1>1. incoming \in Seq(Events) /\ Len(incoming) \in Nat
  BY LineFacts, EventFacts
<1>2. /\ Head(incoming) = incoming[1] /\ Len(incoming) > 0
      /\ Tail(incoming) \in Seq(Events) /\ Len(Tail(incoming)) = Len(incoming) - 1
      /\ \A i \in 1..Len(Tail(incoming)) :
            i + 1 \in 1..Len(incoming) /\ Tail(incoming)[i] = incoming[i + 1]
  BY <1>1
<1>3. 1 \in 1..Len(incoming)
  BY <1>1, <1>2
<1>4. /\ incoming[1].line \in Lines /\ incoming[1].line.ticket <= mark
      /\ incoming[1].kind = "echo" => echoes /\ incoming[1].line.ticket \in echoed
      /\ \A line \in wire : incoming[1].line.ticket < line.ticket
  BY <1>3, EventFacts DEF SentInv, OrderInv
<1>5. \A i \in 1..Len(Tail(incoming)) : incoming[1].line.ticket < incoming[i + 1].line.ticket
  <2>. SUFFICES ASSUME NEW i \in 1..Len(Tail(incoming))
                PROVE  incoming[1].line.ticket < incoming[i + 1].line.ticket
    OBVIOUS
  <2>1. i + 1 \in 1..Len(incoming) /\ 1 < i + 1
    BY <1>2
  <2>. QED
    BY <1>3, <2>1 DEF SentInv, OrderInv
<1>6. \A line \in outbound : incoming[1].line.ticket < line.ticket
  BY <1>4, LineFacts DEF SentInv, TransportInv
<1>. QED
  BY <1>2, <1>4, <1>5, <1>6

\* What is found for a line that is waited for is no later than it; with labels it
\* is that line.
LEMMA FoundFacts ==
  ASSUME DeliveryInv, NEW line \in Lines
  PROVE  /\ line \in pending => \A other \in Echoed(line) : other.ticket <= line.ticket
         /\ line \in pending /\ labelled => \A other \in Echoed(line) : other.ticket = line.ticket
         /\ \A other \in Refused(line) : other.ticket = line.ticket
<1>. DEFINE named == {other \in pending : labelled /\ other.ticket = line.ticket}
            alike == {other \in pending : other.text = line.text}
<1>1. Echoed(line) = IF named # {} THEN named ELSE IF alike # {} THEN {First(alike)} ELSE {}
  BY DEF Echoed
<1>2. \A other \in Refused(line) : other.ticket = line.ticket
  BY DEF Refused
<1>3. alike # {} => \A other \in alike : First(alike).ticket <= other.ticket
  <2>1. alike \in SUBSET Lines
    BY LineFacts
  <2>. QED
    BY <2>1, FirstIsFirst
<1>4. line \in pending => line \in alike /\ First(alike).ticket <= line.ticket
  BY <1>3
<1>5. \A other \in named : other.ticket = line.ticket
  OBVIOUS
<1>6. line \in pending /\ labelled => line \in named
  OBVIOUS
<1>7. line.ticket <= line.ticket
  BY LineFacts
<1>. HIDE DEF named, alike
<1>8. ASSUME line \in pending, NEW other \in Echoed(line)
      PROVE  other.ticket <= line.ticket
  BY <1>1, <1>4, <1>5, <1>7, <1>8
<1>9. ASSUME line \in pending, labelled, NEW other \in Echoed(line)
      PROVE  other.ticket = line.ticket
  BY <1>1, <1>5, <1>6, <1>9
<1>. QED
  BY <1>2, <1>8, <1>9

\* An echo that is matched by what it says finds no later line than its own.
LEMMA LineSends == DeliveryInv /\ SentInv /\ OnLine => SentInv'
<1>. SUFFICES ASSUME DeliveryInv, SentInv, OnLine
              PROVE  SentInv'
  OBVIOUS
<1>. DEFINE event == Head(incoming)
            found == IF event.kind = "echo" THEN Echoed(event.line) ELSE Refused(event.line)
            state == IF event.kind = "echo" THEN "Delivered" ELSE "Failed"
            rest == Tail(incoming)
<1>1. /\ Settle(found, state) /\ pending' = pending \ found
      /\ incoming' = rest /\ incoming # <<>> /\ registered
      /\ UNCHANGED <<next_ticket, written, registered, open, outbound, mark, wire,
                     reached, echoed, echoes, labelled>>
  BY DEF OnLine, connection
<1>2. /\ Len(incoming) > 0 /\ event = incoming[1] /\ event.line \in Lines
      /\ event.line.ticket <= mark
      /\ rest \in Seq(Events) /\ Len(rest) = Len(incoming) - 1
      /\ \A i \in 1..Len(rest) :
            /\ i + 1 \in 1..Len(incoming) /\ rest[i] = incoming[i + 1]
            /\ event.line.ticket < incoming[i + 1].line.ticket
      /\ \A line \in outbound \cup wire : event.line.ticket < line.ticket
      /\ event.kind = "echo" => echoes /\ event.line.ticket \in echoed
  BY <1>1, HeadFacts
<1>3. found \in SUBSET pending
  BY FoundIsPending DEF DeliveryInv, TypeOK
<1>4. state \in {"Delivered", "Failed"}
  OBVIOUS
<1>5. /\ event.line \in pending => \A other \in found : other.ticket <= event.line.ticket
      /\ event.kind # "echo" => \A other \in found : other.ticket = event.line.ticket
  <2>1. event.line.ticket <= event.line.ticket
    BY <1>2, LineFacts
  <2>. QED
    BY <1>2, <2>1, FoundFacts
<1>6. event.kind = "echo" /\ ListKeepsAll => event.line \in pending
  <2>1. 1 \in 1..Len(incoming)
    BY <1>2, EventFacts
  <2>. QED
    BY <1>2, <2>1 DEF SentInv, AwaitedInv
<1>7. event.kind = "echo" <=> state = "Delivered"
  OBVIOUS
<1>. HIDE DEF event, found, state, rest
<1>8. \A m \in Messages : delivery'[m] = delivery[m] \/ (delivery'[m] = state /\ m \in Tickets(found))
  BY <1>1, <1>3, <1>4, SettleRows
<1>9. TransportInv'
  BY <1>1 DEF SentInv, TransportInv
<1>10. OrderInv'
  <2>1. \A i \in 1..Len(rest) :
           /\ rest[i].line.ticket <= mark
           /\ \A line \in wire : rest[i].line.ticket < line.ticket
           /\ rest[i].kind = "echo" => echoes /\ rest[i].line.ticket \in echoed
    BY <1>2 DEF SentInv, OrderInv
  <2>2. \A i, j \in 1..Len(rest) : i < j => rest[i].line.ticket < rest[j].line.ticket
    <3>. SUFFICES ASSUME NEW i \in 1..Len(rest), NEW j \in 1..Len(rest), i < j
                  PROVE  rest[i].line.ticket < rest[j].line.ticket
      OBVIOUS
    <3>1. i + 1 \in 1..Len(incoming) /\ j + 1 \in 1..Len(incoming) /\ i + 1 < j + 1
      BY <1>2
    <3>2. incoming[i + 1].line.ticket < incoming[j + 1].line.ticket
      BY <3>1 DEF SentInv, OrderInv
    <3>. QED
      BY <1>2, <3>2
  <2>3. incoming' = rest /\ mark' = mark /\ wire' = wire /\ echoes' = echoes /\ echoed' = echoed
    BY <1>1
  <2>4. /\ \A line \in wire : line.ticket <= mark
        /\ \A line, other \in wire : line.ticket = other.ticket => line = other
    BY DEF SentInv, OrderInv
  <2>. QED
    BY <2>1, <2>2, <2>3, <2>4 DEF OrderInv
<1>11. AwaitedInv'
  <2>. SUFFICES ASSUME ListKeepsAll, echoes
                PROVE  /\ outbound \cup wire \subseteq pending \ found
                       /\ \A i \in 1..Len(rest) : rest[i].line \in pending \ found
    BY <1>1 DEF AwaitedInv, ListKeepsAll
  <2>1. \A other \in found : other.ticket <= event.line.ticket
    <3>1. CASE event.kind = "echo"
      BY <3>1, <1>5, <1>6
    <3>2. CASE event.kind # "echo"
      BY <3>2, <1>2, <1>5, LineFacts
    <3>. QED
      BY <3>1, <3>2
  <2>2. \A line \in Lines : event.line.ticket < line.ticket => line \notin found
    BY <2>1, <1>2, LineFacts
  <2>3. outbound \cup wire \subseteq pending /\ \A i \in 1..Len(incoming) : incoming[i].line \in pending
    BY DEF SentInv, AwaitedInv
  <2>4. outbound \cup wire \in SUBSET Lines /\ \A i \in 1..Len(incoming) : incoming[i].line \in Lines
    BY LineFacts, EventFacts
  <2>. QED
    BY <1>2, <2>2, <2>3, <2>4
<1>12. SentWasWritten'
  <2>1. ASSUME ListKeepsAll, event.kind = "echo", NEW m \in Tickets(found)
        PROVE  m \in reached
    <3>1. PICK line \in found : line.ticket = m
      BY <2>1 DEF Tickets
    <3>2. line \in pending /\ line.ticket <= event.line.ticket
      BY <2>1, <3>1, <1>3, <1>5, <1>6
    <3>3. line.ticket <= mark
      BY <3>2, <1>2, LineFacts
    <3>. QED
      BY <3>1, <3>2, <3>3 DEF SentInv, TransportInv
  <2>. QED
    BY <1>1, <1>4, <1>7, <1>8, <2>1 DEF SentInv, SentWasWritten, ListKeepsAll
<1>. QED
  BY <1>9, <1>10, <1>11, <1>12 DEF SentInv

LEMMA DisconnectedSends == DeliveryInv /\ SentInv /\ OnDisconnected => SentInv'
<1>. SUFFICES ASSUME DeliveryInv, SentInv, OnDisconnected
              PROVE  SentInv'
  OBVIOUS
<1>. DEFINE unwritten == {line \in pending : line.ticket > written}
<1>1. /\ Settle(unwritten, "Failed") /\ pending' = {}
      /\ registered' = FALSE /\ open' = FALSE /\ outbound' = {} /\ wire' = {}
      /\ echoes' = FALSE /\ labelled' = FALSE /\ mark' = 0 /\ incoming' = <<>>
      /\ UNCHANGED <<next_ticket, written, reached, echoed>>
  BY DEF OnDisconnected, AbandonUnwritten
<1>2. \A m \in Messages : delivery'[m] = delivery[m] \/ delivery'[m] = "Failed"
  BY <1>1, SettleRows
<1>3. Len(incoming') = 0
  BY <1>1
<1>. QED
  BY <1>1, <1>2, <1>3
  DEF SentInv, TransportInv, OrderInv, AwaitedInv, SentWasWritten, ListKeepsAll

\* The line that is written is the first of those that wait.
LEMMA WriteSends == DeliveryInv /\ SentInv /\ Write => SentInv'
<1>. SUFFICES ASSUME DeliveryInv, SentInv, Write
              PROVE  SentInv'
  OBVIOUS
<1>. DEFINE line == First(outbound)
<1>1. /\ open /\ outbound # {} /\ outbound' = outbound \ {line} /\ mark' = line.ticket
      /\ wire' = wire \cup {line} /\ reached' = reached \cup {line.ticket}
      /\ UNCHANGED <<delivery, next_ticket, pending, registered, open, incoming, echoed,
                     echoes, labelled>>
  BY DEF Write, session, connection
<1>2. line \in outbound /\ \A other \in outbound : line.ticket <= other.ticket
  BY <1>1, FirstIsFirst, LineFacts
<1>. HIDE DEF line
<1>3. /\ registered /\ line.ticket \in Nat /\ line.ticket > mark /\ line \in Lines
      /\ \A other \in outbound' : other.ticket > line.ticket
  <2>1. /\ registered /\ line.ticket > mark /\ line \in Lines
        /\ \A one, other \in outbound : one.ticket = other.ticket => one = other
    BY <1>1, <1>2, LineFacts DEF SentInv, TransportInv
  <2>2. \A other \in outbound : other.ticket \in Nat
    BY LineFacts
  <2>. QED
    BY <1>1, <1>2, <2>1, <2>2
<1>4. TransportInv'
  <2>1. \A other \in pending : other.ticket <= mark => other.ticket \in reached
    BY DEF SentInv, TransportInv
  <2>2. \A other \in pending : other.ticket > mark => other \in outbound
    BY <1>1 DEF SentInv, TransportInv
  <2>3. \A other \in pending : other.ticket \in Nat
    BY LineFacts
  <2>4. \A other \in pending : other.ticket <= line.ticket => other.ticket \in reached'
    <3>. SUFFICES ASSUME NEW other \in pending, other.ticket <= line.ticket, other.ticket > mark
                  PROVE  other.ticket \in reached'
      BY <1>1, <2>1, <2>3, LineFacts
    <3>1. other.ticket = line.ticket
      BY <1>2, <1>3, <2>2, <2>3
    <3>. QED
      BY <1>1, <3>1
  <2>5. \A other \in pending : other.ticket > line.ticket => other \in outbound'
    <3>. SUFFICES ASSUME NEW other \in pending, other.ticket > line.ticket
                  PROVE  other \in outbound'
      OBVIOUS
    <3>1. other.ticket > mark /\ other # line
      BY <1>3, <2>3, LineFacts
    <3>. QED
      BY <1>1, <2>2, <3>1
  <2>. QED
    BY <1>1, <1>3, <2>4, <2>5 DEF SentInv, TransportInv
<1>5. OrderInv'
  <2>1. \A other \in wire : other.ticket <= mark /\ other.ticket \in Nat
    BY LineFacts DEF SentInv, OrderInv
  <2>2. \A other \in wire' : other.ticket <= line.ticket
    BY <1>1, <1>3, <2>1, LineFacts
  <2>3. \A one, other \in wire' : one.ticket = other.ticket => one = other
    <3>1. \A other \in wire : other.ticket < line.ticket
      BY <1>3, <2>1, LineFacts
    <3>2. \A one, other \in wire : one.ticket = other.ticket => one = other
      BY DEF SentInv, OrderInv
    <3>. QED
      BY <1>1, <1>3, <2>1, <3>1, <3>2
  <2>4. \A i \in 1..Len(incoming) :
           incoming[i].line.ticket <= mark /\ incoming[i].line.ticket \in Nat
    BY EventFacts, LineFacts DEF SentInv, OrderInv
  <2>5. \A i \in 1..Len(incoming) :
           /\ incoming[i].line.ticket <= line.ticket
           /\ \A other \in wire' : incoming[i].line.ticket < other.ticket
    <3>1. \A i \in 1..Len(incoming) : \A other \in wire : incoming[i].line.ticket < other.ticket
      BY DEF SentInv, OrderInv
    <3>2. \A i \in 1..Len(incoming) : incoming[i].line.ticket < line.ticket
      BY <1>3, <2>4, LineFacts
    <3>. QED
      BY <1>1, <1>3, <2>4, <3>1, <3>2
  <2>. QED
    BY <1>1, <2>2, <2>3, <2>5 DEF SentInv, OrderInv
<1>6. AwaitedInv'
  BY <1>1, <1>2 DEF SentInv, AwaitedInv, ListKeepsAll
<1>7. SentWasWritten'
  BY <1>1 DEF SentInv, SentWasWritten, ListKeepsAll
<1>. QED
  BY <1>4, <1>5, <1>6, <1>7 DEF SentInv

\* What is answered is behind every answer that is queued.
LEMMA AnswerSends == DeliveryInv /\ SentInv /\ Answer => SentInv'
<1>. SUFFICES ASSUME DeliveryInv, SentInv, Answer
              PROVE  SentInv'
  OBVIOUS
<1>. DEFINE line == First(wire)
<1>1. /\ open /\ wire # {} /\ wire' = wire \ {line}
      /\ UNCHANGED <<delivery, next_ticket, pending, written, registered, open, outbound,
                     mark, reached, echoes, labelled>>
  BY DEF Answer, session, connection
<1>2. \/ incoming' = incoming /\ echoed' = echoed
      \/ \E event \in Events :
            /\ incoming' = Append(incoming, event) /\ event.line = line
            /\ echoed \subseteq echoed'
            /\ event.kind = "echo" => echoes /\ line.ticket \in echoed'
  <2>1. line \in Lines
    BY <1>1, FirstIsFirst, LineFacts
  <2>2. /\ [kind |-> "echo", line |-> line] \in Events
        /\ [kind |-> "refusal", line |-> line] \in Events
    BY <2>1 DEF Events
  <2>. HIDE DEF line
  <2>3. \/ /\ echoes /\ incoming' = Append(incoming, [kind |-> "echo", line |-> line])
           /\ echoed' = echoed \cup {line.ticket}
        \/ /\ incoming' = Append(incoming, [kind |-> "refusal", line |-> line])
           /\ echoed' = echoed
        \/ incoming' = incoming /\ echoed' = echoed
    BY DEF Answer, line
  <2>. QED
    BY <2>2, <2>3
<1>3. line \in wire /\ \A other \in wire : line.ticket <= other.ticket
  BY <1>1, FirstIsFirst, LineFacts
<1>. HIDE DEF line
<1>4. /\ registered /\ line \in Lines /\ line.ticket \in Nat /\ line.ticket <= mark
      /\ \A other \in wire' : other.ticket > line.ticket
  <2>1. /\ registered /\ line \in Lines /\ line.ticket <= mark
        /\ \A one, other \in wire : one.ticket = other.ticket => one = other
    BY <1>1, <1>3, LineFacts DEF SentInv, TransportInv, OrderInv
  <2>2. \A other \in wire : other.ticket \in Nat
    BY LineFacts
  <2>. QED
    BY <1>1, <1>3, <2>1, <2>2
<1>5. TransportInv'
  BY <1>1, <1>4 DEF SentInv, TransportInv
<1>6. SentWasWritten'
  BY <1>1 DEF SentInv, SentWasWritten, ListKeepsAll
<1>7. CASE incoming' = incoming /\ echoed' = echoed
  <2>1. OrderInv'
    BY <1>1, <1>7 DEF SentInv, OrderInv
  <2>2. AwaitedInv'
    BY <1>1, <1>7 DEF SentInv, AwaitedInv, ListKeepsAll
  <2>. QED
    BY <1>5, <1>6, <2>1, <2>2 DEF SentInv
<1>8. ASSUME NEW event \in Events, incoming' = Append(incoming, event), event.line = line,
             echoed \subseteq echoed', event.kind = "echo" => echoes /\ line.ticket \in echoed'
      PROVE  SentInv'
  <2>1. /\ Len(incoming') = Len(incoming) + 1 /\ incoming'[Len(incoming) + 1] = event
        /\ \A i \in 1..Len(incoming) : incoming'[i] = incoming[i]
        /\ Len(incoming) \in Nat
    <3>1. incoming \in Seq(Events)
      BY LineFacts
    <3>. QED
      BY <1>8, <3>1
  <2>2. \A i \in 1..Len(incoming) :
           /\ incoming[i].line.ticket <= mark
           /\ incoming[i].line.ticket < line.ticket
           /\ \A other \in wire' : incoming[i].line.ticket < other.ticket
           /\ \A j \in 1..Len(incoming) :
                 i < j => incoming[i].line.ticket < incoming[j].line.ticket
           /\ incoming[i].kind = "echo" => echoes /\ incoming[i].line.ticket \in echoed'
    BY <1>1, <1>3, <1>8 DEF SentInv, OrderInv
  <2>3. OrderInv'
    <3>1. \A i \in 1..Len(incoming') :
             /\ incoming'[i].line.ticket <= mark
             /\ \A other \in wire' : incoming'[i].line.ticket < other.ticket
             /\ incoming'[i].kind = "echo" => echoes /\ incoming'[i].line.ticket \in echoed'
      <4>. SUFFICES ASSUME NEW i \in 1..Len(incoming')
                    PROVE  /\ incoming'[i].line.ticket <= mark
                           /\ \A other \in wire' : incoming'[i].line.ticket < other.ticket
                           /\ incoming'[i].kind = "echo"
                              => echoes /\ incoming'[i].line.ticket \in echoed'
        OBVIOUS
      <4>1. CASE i \in 1..Len(incoming)
        BY <4>1, <2>1, <2>2
      <4>2. CASE i = Len(incoming) + 1
        <5>1. incoming'[i] = event
          BY <4>2, <2>1
        <5>2. \A other \in wire' : line.ticket < other.ticket
          BY <1>1, <1>4, LineFacts
        <5>. QED
          BY <5>1, <5>2, <1>4, <1>8
      <4>. QED
        BY <4>1, <4>2, <2>1
    <3>2. \A i, j \in 1..Len(incoming') :
             i < j => incoming'[i].line.ticket < incoming'[j].line.ticket
      <4>. SUFFICES ASSUME NEW i \in 1..Len(incoming'), NEW j \in 1..Len(incoming'), i < j
                    PROVE  incoming'[i].line.ticket < incoming'[j].line.ticket
        OBVIOUS
      <4>1. i \in 1..Len(incoming) /\ (j \in 1..Len(incoming) \/ j = Len(incoming) + 1)
        BY <2>1
      <4>. QED
        BY <4>1, <2>1, <2>2, <1>8
    <3>3. \A one, other \in wire' : one.ticket = other.ticket => one = other
      BY <1>1 DEF SentInv, OrderInv
    <3>4. \A other \in wire' : other.ticket <= mark
      BY <1>1 DEF SentInv, OrderInv
    <3>. QED
      BY <1>1, <3>1, <3>2, <3>3, <3>4 DEF OrderInv
  <2>4. AwaitedInv'
    <3>. SUFFICES ASSUME ListKeepsAll, echoes
                  PROVE  /\ outbound \cup wire' \subseteq pending
                         /\ \A i \in 1..Len(incoming') : incoming'[i].line \in pending
      BY <1>1 DEF AwaitedInv, ListKeepsAll
    <3>1. outbound \cup wire \subseteq pending /\ \A i \in 1..Len(incoming) : incoming[i].line \in pending
      BY DEF SentInv, AwaitedInv
    <3>2. line \in pending
      BY <1>3, <3>1
    <3>3. \A i \in 1..Len(incoming') : i \in 1..Len(incoming) \/ i = Len(incoming) + 1
      BY <2>1
    <3>. QED
      BY <1>1, <1>8, <2>1, <3>1, <3>2, <3>3
  <2>. QED
    BY <1>5, <1>6, <2>3, <2>4 DEF SentInv
<1>. QED
  BY <1>2, <1>7, <1>8

LEMMA RestSends ==
  DeliveryInv /\ SentInv /\ (Connect \/ SocketEnds \/ UNCHANGED vars) => SentInv'
<1>. SUFFICES ASSUME DeliveryInv, SentInv, Connect \/ SocketEnds \/ UNCHANGED vars
              PROVE  SentInv'
  OBVIOUS
<1>1. CASE Connect
  <2>1. /\ ~registered /\ registered' /\ open'
        /\ UNCHANGED <<delivery, next_ticket, pending, outbound, mark, wire, incoming, echoed,
                       reached>>
    BY <1>1 DEF Connect, session, server
  <2>2. pending = {} /\ outbound = {} /\ wire = {} /\ incoming = <<>> /\ Len(incoming) = 0
    BY <2>1 DEF DeliveryInv, NothingWaitsAlone, SentInv, TransportInv
  <2>3. TransportInv' /\ SentWasWritten'
    BY <2>1, <2>2 DEF SentInv, TransportInv, SentWasWritten, ListKeepsAll
  <2>4. OrderInv' /\ AwaitedInv'
    BY <2>1, <2>2 DEF OrderInv, AwaitedInv
  <2>. QED
    BY <2>3, <2>4 DEF SentInv
<1>2. CASE SocketEnds
  <2>1. /\ open /\ open' = FALSE /\ wire' = {}
        /\ UNCHANGED <<delivery, next_ticket, pending, registered, outbound, mark, incoming,
                       echoed, reached, echoes>>
    BY <1>2 DEF SocketEnds, session, connection
  <2>2. TransportInv'
    BY <2>1 DEF SentInv, TransportInv
  <2>3. OrderInv'
    BY <2>1 DEF SentInv, OrderInv
  <2>4. AwaitedInv' /\ SentWasWritten'
    BY <2>1 DEF SentInv, AwaitedInv, SentWasWritten, ListKeepsAll
  <2>. QED
    BY <2>2, <2>3, <2>4 DEF SentInv
<1>3. CASE UNCHANGED vars
  <2>1. TransportInv' /\ OrderInv'
    BY <1>3 DEF vars, SentInv, TransportInv, OrderInv
  <2>2. AwaitedInv' /\ SentWasWritten'
    BY <1>3 DEF vars, SentInv, AwaitedInv, SentWasWritten, ListKeepsAll
  <2>. QED
    BY <2>1, <2>2 DEF SentInv
<1>. QED
  BY <1>1, <1>2, <1>3

LEMMA SentStep == DeliveryInv /\ SentInv /\ [Next]_vars => SentInv'
BY SaySends, WrittenSends, LineSends, DisconnectedSends, WriteSends, AnswerSends, RestSends
DEF Next

\* A message that becomes Delivered on a connection with labels was echoed.
LEMMA DeliveredStep ==
  ASSUME DeliveryInv, SentInv, [Next]_vars, ListKeepsAll, labelled,
         NEW m \in Messages, delivery[m] # "Delivered", delivery'[m] = "Delivered"
  PROVE  m \in echoed
<1>1. OnLine
  <2>1. ASSUME NEW text \in Texts, Say(text)
        PROVE  FALSE
    BY <2>1 DEF Say, DeliveryInv, TypeOK
  <2>2. CASE OnWritten
    BY <2>2 DEF OnWritten, Settle
  <2>3. CASE OnDisconnected
    BY <2>3 DEF OnDisconnected, AbandonUnwritten, Settle
  <2>4. CASE Connect \/ Write \/ SocketEnds \/ Answer \/ UNCHANGED vars
    BY <2>4 DEF Connect, Write, SocketEnds, Answer, session, vars
  <2>. QED
    BY <2>1, <2>2, <2>3, <2>4 DEF Next
<1>. DEFINE event == Head(incoming)
            found == IF event.kind = "echo" THEN Echoed(event.line) ELSE Refused(event.line)
<1>2. /\ incoming # <<>> /\ event.kind = "echo" /\ m \in Tickets(Echoed(event.line))
  BY <1>1 DEF OnLine, Settle
<1>3. /\ Len(incoming) > 0 /\ event = incoming[1] /\ event.line \in Lines
      /\ echoes /\ event.line.ticket \in echoed
  BY <1>2, HeadFacts
<1>. HIDE DEF event
<1>4. event.line \in pending
  <2>1. 1 \in 1..Len(incoming)
    BY <1>3, EventFacts
  <2>. QED
    BY <1>3, <2>1 DEF SentInv, AwaitedInv
<1>5. \A other \in Echoed(event.line) : other.ticket = event.line.ticket
  BY <1>3, <1>4, FoundFacts
<1>. QED
  BY <1>2, <1>3, <1>5 DEF Tickets

-----------------------------------------------------------------------------
(* Theorems.                                                               *)

\* Every reachable state is well-typed.
THEOREM DeliveryTypeCorrect == Spec => []TypeOK
<1>1. DeliveryInv => TypeOK
  BY DEF DeliveryInv
<1>. QED
  BY <1>1, DeliveryInit, DeliveryStep, PTL DEF Spec

\* Whatever the cap on the pending list, the size of the queue and the
\* capabilities, a message that says Pending is in the pending list.
THEOREM PendingCorrect == Spec => []PendingIsTracked
<1>1. DeliveryInv => PendingIsTracked
  BY DEF DeliveryInv
<1>. QED
  BY <1>1, DeliveryInit, DeliveryStep, PTL DEF Spec

\* The rows start and move as MessageLifecycle has them: no order in which
\* marks, echoes, refusals and the end of a connection are taken brings a
\* settled message back, and without echo-message Sent is the last word.
THEOREM LifecycleCorrect == Spec => Lifecycle!Init /\ [][Lifecycle!Next]_delivery
<1>1. Init => Lifecycle!Init
  BY DEF Init, Lifecycle!Init
<1>2. DeliveryInv /\ DeliveryInv' /\ MovesAlong => [Lifecycle!Next]_delivery
  BY DEF DeliveryInv, TypeOK, MovesAlong, Lifecycle!Next, Lifecycle!Moves,
         Lifecycle!States
<1>. QED
  BY <1>1, <1>2, DeliveryInit, DeliveryStep, PTL DEF Spec

\* While the list keeps all that is said, a message is called Sent or Delivered only
\* when its line was written to a socket, whether the mark settles it, its own echo,
\* or the echo of another that says the same (session.rs, on_written and deliver).
THEOREM SentWasWrittenCorrect == Spec => []SentWasWritten
<1>1. SentInv => SentWasWritten
  BY DEF SentInv
<1>. QED
  BY <1>1, DeliveryInit, DeliveryStep, SentInit, SentStep, PTL DEF Spec

\* With labels, a message becomes Delivered only when the server echoed that very
\* message (session.rs, deliver).
THEOREM DeliveredWasEchoedCorrect == Spec => DeliveredWasEchoed
<1>1. DeliveryInv /\ SentInv /\ [Next]_vars
      => [ListKeepsAll /\ labelled =>
            \A m \in Messages :
               delivery[m] # "Delivered" /\ delivery'[m] = "Delivered" => m \in echoed]_vars
  BY DeliveredStep
<1>. QED
  BY <1>1, DeliveryInit, DeliveryStep, SentInit, SentStep, PTL DEF Spec, DeliveredWasEchoed

=============================================================================
