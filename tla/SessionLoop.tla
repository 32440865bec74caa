------------------------------- MODULE SessionLoop -------------------------------
(***************************************************************************)
(* The task of a network and its queues while a connection is registered   *)
(* (ircx-core task.rs, session.rs; ircx-net transport.rs, rate_limit.rs):  *)
(* it takes one thing at a time, a line, a command or a tick, and puts     *)
(* what that decided where it goes, waiting for room. The writer sends at  *)
(* the pace of the rate limit, and keepalive gives up on a server that     *)
(* went quiet.                                                             *)
(*                                                                         *)
(* Time passes by the unit that pays for one line, and only where nothing  *)
(* else can move: a step takes no time beside it.                          *)
(***************************************************************************)
EXTENDS Naturals, Sequences

CONSTANTS
    KEEPALIVE,      \* in units: fewer than a full queue takes to be written
    OUTBOUND_QUEUE, COMMAND_QUEUE,
    SocketBuffer,   \* lines the system takes for a peer that is gone
    Retransmits,    \* units after which it gives up on one
    MaxPaste, MaxCommands, MaxRenames,
    MaxDue,         \* ticks that are counted while the task waits
    None

SessionLoopAssumption ==
    /\ {KEEPALIVE, OUTBOUND_QUEUE, COMMAND_QUEUE, MaxPaste, MaxDue} \subseteq Nat \ {0}
    /\ {SocketBuffer, MaxCommands, MaxRenames} \subseteq Nat /\ Retransmits > 2 * KEEPALIVE
    /\ OUTBOUND_QUEUE > KEEPALIVE /\ None \notin {"stalled", "error", "asked"}

VARIABLES
    inbox, outbound, incoming, buffer,
    todo,           \* actions being delivered
    ping,           \* "none", "out", and "heard" once anything came after it
    until, due,     \* to the next tick, and ticks that came and were not taken
    silent, quiet,  \* the server forgot the socket, and since when
    ended,          \* why the connection was given up, None while it is up
    waited,         \* the task had to, with time passing
    quitted,        \* QUIT was written
    commands, renames

queues == <<inbox, outbound, incoming, buffer>>
clock == <<until, due, quiet>>
vars == <<queues, todo, ping, clock, silent, ended, waited, quitted, commands, renames>>

Up == ended = None
Free == Up /\ todo = <<>>
Ends(why) == ended' = why /\ todo' = <<>>

-----------------------------------------------------------------------------
(* The loop takes one thing. *)

on_line ==
    /\ Free /\ incoming # <<>> /\ incoming' = Tail(incoming)
    /\ ping' = IF ping = "none" THEN ping ELSE "heard"
    /\ todo' = IF Head(incoming) = "NICK" THEN <<"QueryRenamed">> ELSE <<>>
    /\ UNCHANGED <<inbox, outbound, buffer, clock, silent, ended, waited, quitted, commands, renames>>

\* A muted list asks nothing of the connection.
apply ==
    /\ Free /\ inbox # <<>> /\ inbox' = Tail(inbox)
    /\ todo' = CASE Head(inbox).what = "Submit" -> [k \in 1..Head(inbox).lines |-> "said"]
                 [] Head(inbox).what = "Disconnect" -> <<"QUIT", "Close">>
                 [] Head(inbox).what = "MutedChanged" -> <<>>
    /\ UNCHANGED <<outbound, incoming, buffer, ping, clock, silent, ended, waited, quitted, commands, renames>>

\* A plausible slip: it is the answer to the PING that is waited for.
keepaliveOfPong ==
    /\ Free /\ due > 0 /\ due' = due - 1
    /\ IF ping # "none" THEN Ends("stalled") /\ UNCHANGED ping
       ELSE ping' = "out" /\ todo' = <<"PING">> /\ UNCHANGED ended
    /\ UNCHANGED <<queues, until, quiet, silent, waited, quitted, commands, renames>>
keepalive ==
    /\ Free /\ due > 0 /\ due' = due - 1
    /\ IF ping = "out" THEN Ends("stalled") /\ UNCHANGED ping
       ELSE ping' = "out" /\ todo' = <<"PING">> /\ UNCHANGED ended
    /\ UNCHANGED <<queues, until, quiet, silent, waited, quitted, commands, renames>>

-----------------------------------------------------------------------------
(* It delivers, in order, and waits where there is no room. *)

\* The mute that follows a renamed query comes back through the task's own inbox.
Room == CASE Head(todo) \in {"said", "PING", "QUIT"} -> Len(outbound) < OUTBOUND_QUEUE
          [] Head(todo) = "QueryRenamed" -> Len(inbox) < COMMAND_QUEUE
          [] Head(todo) = "Close" -> TRUE
deliver ==
    /\ Up /\ todo # <<>> /\ Room
    /\ CASE Head(todo) \in {"said", "PING", "QUIT"} ->
              /\ outbound' = Append(outbound, Head(todo)) /\ todo' = Tail(todo)
              /\ UNCHANGED <<inbox, ended, quitted>>
         [] Head(todo) = "QueryRenamed" ->
              /\ inbox' = Append(inbox, [what |-> "MutedChanged"]) /\ todo' = Tail(todo)
              /\ UNCHANGED <<outbound, ended, quitted>>
         \* The transport is dropped; the writer may still take a line or not.
         [] Head(todo) = "Close" ->
              /\ Ends("asked")
              /\ quitted' \in {quitted, TRUE}
              /\ UNCHANGED <<inbox, outbound>>
    /\ UNCHANGED <<incoming, buffer, ping, clock, silent, waited, commands, renames>>

-----------------------------------------------------------------------------
(* The others. *)

Command(c) ==
    /\ Up /\ commands < MaxCommands /\ commands' = commands + 1
    /\ Len(inbox) < COMMAND_QUEUE /\ inbox' = Append(inbox, c)
    /\ UNCHANGED <<outbound, incoming, buffer, todo, ping, clock, silent, ended, waited, quitted, renames>>
Submit(n) == Command([what |-> "Submit", lines |-> n])
Quit == Command([what |-> "Disconnect"])
Rename ==
    /\ Up /\ ~silent /\ renames < MaxRenames /\ renames' = renames + 1
    /\ incoming' = Append(incoming, "NICK")
    /\ UNCHANGED <<inbox, outbound, buffer, todo, ping, clock, silent, ended, waited, quitted, commands>>
Forget ==
    /\ Up /\ ~silent /\ silent' = TRUE
    /\ UNCHANGED <<queues, todo, ping, clock, ended, waited, quitted, commands, renames>>
\* The read fails.
GiveUp ==
    /\ Up /\ quiet >= Retransmits /\ Ends("error")
    /\ UNCHANGED <<queues, ping, clock, silent, waited, quitted, commands, renames>>

\* One line is written, where the socket takes it, and a server that is there answers
\* a PING. Ticks that are not taken come one after the other.
Urgent == IF todo # <<>> THEN Room ELSE incoming # <<>> \/ inbox # <<>> \/ due > 0
Pass ==
    /\ Up /\ ~Urgent /\ quiet < Retransmits
    /\ IF outbound = <<>> \/ (silent /\ buffer = SocketBuffer)
       THEN UNCHANGED <<outbound, incoming, buffer, quitted>>
       ELSE /\ outbound' = Tail(outbound) /\ quitted' = (quitted \/ Head(outbound) = "QUIT")
            /\ buffer' = IF silent THEN buffer + 1 ELSE buffer
            /\ incoming' = IF Head(outbound) = "PING" /\ ~silent THEN Append(incoming, "PONG") ELSE incoming
    /\ until' = IF until = 1 THEN KEEPALIVE ELSE until - 1
    /\ due' = IF until = 1 /\ due < MaxDue THEN due + 1 ELSE due
    /\ quiet' = IF silent THEN quiet + 1 ELSE 0
    /\ waited' = (waited \/ todo # <<>>)
    /\ UNCHANGED <<inbox, todo, ping, silent, ended, commands, renames>>

-----------------------------------------------------------------------------
Init ==
    /\ inbox = <<>> /\ outbound = <<>> /\ incoming = <<>> /\ buffer = 0 /\ todo = <<>>
    /\ ping = "none" /\ until = KEEPALIVE /\ due = 0 /\ silent = FALSE /\ quiet = 0
    /\ ended = None /\ waited = FALSE /\ quitted = FALSE /\ commands = 0 /\ renames = 0
Next ==
    \/ on_line \/ apply \/ keepalive \/ deliver \/ Rename \/ Forget \/ GiveUp \/ Pass \/ Quit
    \/ \E n \in {1, MaxPaste} : Submit(n)
Spec == Init /\ [][Next]_vars

-----------------------------------------------------------------------------
\* A server that forgot the socket is given up within two intervals, where the task
\* did not have to wait for room in between (session.rs, keepalive).
NoticedUnlessWaiting == Up /\ quiet > 2 * KEEPALIVE => waited

\* A connection is given up as stalled where the server left a PING unanswered: it
\* is gone, or the PING was still queued, or the task had to wait, or the answer
\* is there and the tick was taken first.
StalledIsUnanswered ==
    ended = "stalled" =>
        \/ silent \/ waited \/ incoming # <<>>
        \/ \E k \in DOMAIN outbound : outbound[k] = "PING"

\* "Within two keepalive intervals the network must say the server stopped
\* answering and begin its backoff, rather than waiting out the kernel's
\* retransmits" (docs/manual-verification.md).
\* The code does not keep it (README, section 7).
SilenceIsNoticed == Up => quiet <= 2 * KEEPALIVE

\* "The test is ... whether anything at all arrived after it went out" (session.rs,
\* keepalive).
\* The code does not keep it (README, section 7).
OnlySilenceIsStalled == ended = "stalled" => silent

\* The task tells itself of a mute that follows a rename, "which is holding the old
\* name and would go on being quiet about a conversation nobody is in" (task.rs,
\* move_muted): it does not wait for room only it can make.
\* The code does not keep it (README, section 7).
ComesToItself == Up /\ todo # <<>> /\ Head(todo) = "QueryRenamed" => Room

\* "QUIT is the caller's to send, and to wait for, before calling this"
\* (transport.rs, shutdown).
\* The code does not keep it (README, section 7).
QuitIsWritten == ended = "asked" => quitted
=============================================================================
