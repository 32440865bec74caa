------------------------------ MODULE Delivery ------------------------------
(***************************************************************************)
(* What becomes of the messages the reader sends on one network: the       *)
(* session's pending list (ircx-core: session.rs, dispatch.rs), the task   *)
(* that drives it (task.rs) and the transport that writes its lines        *)
(* (ircx-net: transport.rs).                                               *)
(*                                                                         *)
(* A message is known by the ticket of its line.  Tickets only rise and    *)
(* are never used twice, so the pending list and the two queues that are   *)
(* kept in the order lines were queued are sets of lines, and the first of *)
(* one is its lowest ticket.  A line that carries no message only leaves a *)
(* gap in the tickets and is left out.                                     *)
(***************************************************************************)
EXTENDS Integers, Sequences, FiniteSets

CONSTANTS
    MaxSaid,         \* bound: messages the reader says
    MaxConnections,  \* bound: connections that are made
    MaxPending,      \* the cap on the pending list (64)
    OutboundQueue,   \* OUTBOUND_QUEUE
    Texts            \* what a message may say

ASSUME CountsAssumption ==
    /\ MaxSaid \in Nat /\ MaxConnections \in Nat
    /\ MaxPending \in Nat /\ OutboundQueue \in Nat

VARIABLES
    delivery,     \* what the row of each message says
    next_ticket,
    pending,      \* PendingSend: lines whose message may still change
    written,      \* the highest ticket the session knows to be written
    registered,   \* the session is registered on a connection
    echoes,       \* which negotiated echo-message
    labelled,     \* which negotiated labeled-response
    open,         \* the writer runs: the socket has not ended
    outbound,     \* lines queued for the writer
    mark,         \* Transport::written
    wire,         \* lines the server has yet to take
    incoming,     \* transport events queued for the drive loop
    reached,      \* history: lines written to a socket
    echoed,       \* history: lines the server echoed
    connections   \* history: connections made

session == <<delivery, next_ticket, pending, written>>
server == <<wire, incoming, echoed>>
connection == <<echoes, labelled, connections>>
vars == <<delivery, next_ticket, pending, written, registered, open, outbound,
          mark, wire, incoming, reached, echoed, echoes, labelled, connections>>

Messages == 1..MaxSaid
Lines == [ticket : Messages, text : Texts]
Events == [kind : {"echo", "refusal"}, line : Lines]

\* The lines of a set are in the order of their tickets.
First(lines) == CHOOSE line \in lines : \A other \in lines : line.ticket <= other.ticket
Tickets(lines) == {line.ticket : line \in lines}

TypeOK ==
    /\ delivery \in [Messages -> {"Unsaid", "Pending", "Sent", "Delivered", "Failed"}]
    /\ next_ticket \in 1..(MaxSaid + 1)
    /\ pending \subseteq Lines /\ outbound \subseteq Lines /\ wire \subseteq Lines
    /\ written \in 0..MaxSaid /\ mark \in 0..MaxSaid
    /\ registered \in BOOLEAN /\ open \in BOOLEAN
    /\ echoes \in BOOLEAN /\ labelled \in BOOLEAN
    /\ incoming \in Seq(Events)
    /\ reached \subseteq Messages /\ echoed \subseteq Messages
    /\ connections \in Nat

Init ==
    /\ delivery = [m \in Messages |-> "Unsaid"]
    /\ next_ticket = 1
    /\ pending = {} /\ outbound = {} /\ wire = {}
    /\ written = 0 /\ mark = 0
    /\ registered = FALSE /\ open = FALSE /\ echoes = FALSE /\ labelled = FALSE
    /\ incoming = <<>>
    /\ reached = {} /\ echoed = {}
    /\ connections = 0

-----------------------------------------------------------------------------
(* The session.                                                            *)

Settle(lines, state) ==
    delivery' = [m \in Messages |-> IF m \in Tickets(lines) THEN state ELSE delivery[m]]

\* A plausible slip in Tracked: the oldest line goes, written or not.
TrackedNewest(lines) ==
    IF Cardinality(lines) > MaxPending THEN lines \ {First(lines)} ELSE lines

\* track_pending: past its cap the list drops the oldest line already written.
Tracked(lines) ==
    LET done == {line \in lines : line.ticket <= written} IN
    IF Cardinality(lines) > MaxPending /\ done # {} THEN lines \ {First(done)} ELSE lines

\* dispatch and say, for one line of what is said: nothing is taken before the
\* session is registered.  A transport whose writer has ended drops the line;
\* the session waits while the queue of one that runs is full.
Say(text) ==
    LET line == [ticket |-> next_ticket, text |-> text] IN
    /\ registered /\ next_ticket <= MaxSaid
    /\ open => Cardinality(outbound) < OutboundQueue
    /\ next_ticket' = next_ticket + 1
    /\ delivery' = [delivery EXCEPT ![next_ticket] = "Pending"]
    /\ pending' = Tracked(pending \cup {line})
    /\ outbound' = IF open THEN outbound \cup {line} ELSE outbound
    /\ UNCHANGED <<written, registered, open, mark, server, reached, connection>>

\* A plausible slip in OnWritten: any mark settles the whole list.
OnWrittenSettlesAll ==
    /\ registered /\ mark > written
    /\ Settle(pending, "Sent")
    /\ pending' = IF echoes THEN pending ELSE {}
    /\ written' = mark
    /\ UNCHANGED <<next_ticket, registered, open, outbound, mark, server, reached,
                   connection>>

\* on_written: what the mark has passed is Sent, and is waited for no longer
\* where no echo will follow.
OnWritten ==
    LET settled == {line \in pending : written < line.ticket /\ line.ticket <= mark} IN
    /\ registered /\ mark > written
    /\ Settle(settled, "Sent")
    /\ pending' = IF echoes THEN pending ELSE pending \ settled
    /\ written' = mark
    /\ UNCHANGED <<next_ticket, registered, open, outbound, mark, server, reached,
                   connection>>

\* A plausible slip in Echoed: the label is not looked at.
EchoedByText(line) ==
    LET alike == {other \in pending : other.text = line.text}
    IN IF alike # {} THEN {First(alike)} ELSE {}

\* deliver: by label, or else as the first pending line that says the same.
Echoed(line) ==
    LET named == {other \in pending : labelled /\ other.ticket = line.ticket}
        alike == {other \in pending : other.text = line.text}
    IN IF named # {} THEN named ELSE IF alike # {} THEN {First(alike)} ELSE {}

\* fail_labelled_send
Refused(line) == {other \in pending : labelled /\ other.ticket = line.ticket}

OnLine ==
    LET event == Head(incoming)
        found == IF event.kind = "echo" THEN Echoed(event.line) ELSE Refused(event.line)
    IN
    /\ registered /\ incoming # <<>>
    /\ incoming' = Tail(incoming)
    /\ Settle(found, IF event.kind = "echo" THEN "Delivered" ELSE "Failed")
    /\ pending' = pending \ found
    /\ UNCHANGED <<next_ticket, written, registered, open, outbound, mark, wire,
                   reached, echoed, connection>>

\* A plausible slip in AbandonUnwritten: the list is cleared and nobody told.
AbandonSilently == pending' = {} /\ UNCHANGED delivery

\* abandon_unwritten, which reset_connection_state calls.
AbandonUnwritten ==
    /\ Settle({line \in pending : line.ticket > written}, "Failed")
    /\ pending' = {}

-----------------------------------------------------------------------------
(* The drive loop.                                                         *)

\* A transport is made, and the session registers on it.
Connect ==
    /\ ~registered /\ connections < MaxConnections
    /\ registered' = TRUE /\ open' = TRUE
    /\ echoes' \in BOOLEAN /\ labelled' \in BOOLEAN
    /\ connections' = connections + 1
    /\ UNCHANGED <<session, outbound, mark, server, reached>>

\* The loop ends on Disconnected, which is behind every line; on a closed mark,
\* which has reported every change; or because the session gave up on a server
\* that went quiet, or was told to stop.  The transport is dropped with
\* everything in it, and on_disconnected resets the session.
OnDisconnected ==
    /\ registered
    /\ \/ ~open /\ incoming = <<>>
       \/ ~open /\ mark <= written
       \/ open
    /\ AbandonUnwritten
    /\ registered' = FALSE /\ open' = FALSE /\ echoes' = FALSE /\ labelled' = FALSE
    /\ outbound' = {} /\ wire' = {} /\ mark' = 0 /\ incoming' = <<>>
    /\ UNCHANGED <<next_ticket, written, reached, echoed, connections>>

-----------------------------------------------------------------------------
(* The transport and the server.                                           *)

\* write_task, once the rate limit lets it.
Write ==
    LET line == First(outbound) IN
    /\ open /\ outbound # {}
    /\ outbound' = outbound \ {line}
    /\ mark' = line.ticket
    /\ wire' = wire \cup {line}
    /\ reached' = reached \cup {line.ticket}
    /\ UNCHANGED <<session, registered, open, incoming, echoed, connection>>

SocketEnds ==
    /\ open
    /\ open' = FALSE
    /\ wire' = {}
    /\ UNCHANGED <<session, registered, outbound, mark, incoming, reached, echoed,
                   connection>>

\* The server echoes a message, refuses it, or says nothing anyone can match.
Answer ==
    LET line == First(wire) IN
    /\ open /\ wire # {}
    /\ wire' = wire \ {line}
    /\ \/ /\ echoes
          /\ incoming' = Append(incoming, [kind |-> "echo", line |-> line])
          /\ echoed' = echoed \cup {line.ticket}
       \/ /\ labelled
          /\ incoming' = Append(incoming, [kind |-> "refusal", line |-> line])
          /\ UNCHANGED echoed
       \/ UNCHANGED <<incoming, echoed>>
    /\ UNCHANGED <<session, registered, open, outbound, mark, reached, connection>>

-----------------------------------------------------------------------------

Next ==
    \/ \E text \in Texts : Say(text)
    \/ OnWritten
    \/ OnLine
    \/ Connect
    \/ OnDisconnected
    \/ Write
    \/ SocketEnds
    \/ Answer

(* The select of the drive loop takes whatever branch stays ready, and the *)
(* writer writes or fails to.                                              *)
Fairness ==
    /\ WF_vars(OnWritten)
    /\ WF_vars(OnLine)
    /\ WF_vars(OnDisconnected /\ ~open)
    /\ WF_vars(Write \/ SocketEnds)

Spec == Init /\ [][Next]_vars /\ Fairness

-----------------------------------------------------------------------------
(* Properties.                                                             *)

\* A row that says Pending is one the session still waits for, so that there
\* is something left to settle it: the cap on the pending list never strands
\* a message (session.rs, track_pending).
PendingIsTracked ==
    \A m \in Messages : delivery[m] = "Pending" => m \in Tickets(pending)

\* As long as the cap has had nothing to drop.
ListKeepsAll == next_ticket - 1 <= MaxPending

\* A message is called Sent or Delivered only when its line has been written to
\* a socket: "Anything waiting on one of them is on the socket now" (session.rs,
\* on_written).
SentWasWritten ==
    ListKeepsAll =>
        \A m \in Messages : delivery[m] \in {"Sent", "Delivered"} => m \in reached

\* With labels, a message becomes Delivered only when the server echoed that
\* very message, and not another that says the same (session.rs, deliver).
DeliveredWasEchoed ==
    [][ListKeepsAll /\ labelled =>
         \A m \in Messages :
            delivery[m] # "Delivered" /\ delivery'[m] = "Delivered" => m \in echoed]_vars

\* A message goes through its life as MessageLifecycle has it, whatever ends
\* the connection and in whatever order the loop takes marks and echoes, and
\* does not stay Pending.
Lifecycle == INSTANCE MessageLifecycle WITH delivery <- delivery, echoes <- echoes
FollowsLifecycle == Lifecycle!Spec

-----------------------------------------------------------------------------
(* What the code says of it, refuted by a run.                             *)

\* "Fails every message whose line never reached the socket ... What was
\* written stays written" (abandon_unwritten).
\* The code does not keep it (README, section 7).
WrittenStaysWritten ==
    [][\A m \in Messages :
          (OnDisconnected /\ m \in reached) => delivery'[m] = delivery[m]]_vars

=============================================================================
