------------------------------ MODULE MCSession ------------------------------
(***************************************************************************)
(* The parts of a network's session that share no state but the task they  *)
(* run in, checked in one run: a behaviour is of one part, chosen at the   *)
(* start, and the others stay as they begin.                               *)
(***************************************************************************)
EXTENDS Naturals, Sequences

CONSTANT None

VARIABLES
  part,             \* what this behaviour is of
  \* files moving
  transfers, actions, transfersInbox, jobs, updates, landed, transfersLines, transfersSent,
  peer, starts, transfersCommands, raced, late, mistaken,
  \* the rules of plugins
  arrivals, draining, missed, workers, strikes, hooksInbox, taken, raised, told, arrived,
  changes, revived,
  \* what is unread
  said, marked, member, up, marksLines, marksSent, open, joined, unread, highlights,
  unread_at, read_markers, archived, gap_fills, asked, owed, raises, drops, reads, closes,
  \* the task and its queues
  loopInbox, outbound, incoming, buffer, todo, ping, until, due, silent, quiet, ended,
  waited, quitted, loopCommands, renames

-----------------------------------------------------------------------------

Tr == INSTANCE Transfers WITH
  MaxTransfers <- 2, REMEMBERED <- 1, Files <- {"f"}, Size <- 2, Inbox <- 1, MaxCommands <- 2,
  inbox <- transfersInbox, lines <- transfersLines, sent <- transfersSent,
  commands <- transfersCommands

Ho == INSTANCE PluginHooks WITH
  Conversations <- {"c", "d"}, Plugins <- {"p", "q"}, HOOK_WAITING <- 1, HOOK_STRIKES <- 2,
  MaxArrivals <- 3, MaxChanges <- 0, inbox <- hooksInbox

\* One conversation and one rule, whose plugin the reader changes.
Hc == INSTANCE PluginHooks WITH
  Conversations <- {"c"}, Plugins <- {"p"}, HOOK_WAITING <- 1, HOOK_STRIKES <- 2,
  MaxArrivals <- 3, MaxChanges <- 1, inbox <- hooksInbox

\* A channel that is kept, a query that is closed, and one of each.
Ma == INSTANCE ReadMarkers WITH
  Channels <- {"c"}, Queries <- {}, Muted <- {}, MaxMessages <- 3, MaxDrops <- 1,
  MaxReads <- 1, MaxCloses <- 0, lines <- marksLines, sent <- marksSent
Mq == INSTANCE ReadMarkers WITH
  Channels <- {}, Queries <- {"q"}, Muted <- {}, MaxMessages <- 2, MaxDrops <- 1,
  MaxReads <- 1, MaxCloses <- 1, lines <- marksLines, sent <- marksSent
Mb == INSTANCE ReadMarkers WITH
  Channels <- {"c"}, Queries <- {"q"}, Muted <- {"c"}, MaxMessages <- 1, MaxDrops <- 1,
  MaxReads <- 0, MaxCloses <- 1, lines <- marksLines, sent <- marksSent

Lo == INSTANCE SessionLoop WITH
  KEEPALIVE <- 3, OUTBOUND_QUEUE <- 4, COMMAND_QUEUE <- 1, SocketBuffer <- 1,
  Retransmits <- 8, MaxPaste <- 5, MaxCommands <- 2, MaxRenames <- 1, MaxDue <- 2,
  inbox <- loopInbox, commands <- loopCommands

ASSUME
  /\ Tr!TransfersAssumption /\ Ho!HooksAssumption /\ Hc!HooksAssumption
  /\ Ma!ReadMarkersAssumption /\ Mq!ReadMarkersAssumption /\ Mb!ReadMarkersAssumption
  /\ Lo!SessionLoopAssumption

-----------------------------------------------------------------------------
(* One part at a time. *)

transfersVars ==
  <<transfers, actions, transfersInbox, jobs, updates, landed, transfersLines,
    transfersSent, peer, starts, transfersCommands, raced, late, mistaken>>
hooksVars ==
  <<arrivals, draining, missed, workers, strikes, hooksInbox, taken, raised, told,
    arrived, changes, revived>>
marksVars ==
  <<said, marked, member, up, marksLines, marksSent, open, joined, unread, highlights,
    unread_at, read_markers, archived, gap_fills, asked, owed, raises, drops, reads, closes>>
loopVars ==
  <<loopInbox, outbound, incoming, buffer, todo, ping, until, due, silent, quiet, ended,
    waited, quitted, loopCommands, renames>>

vars == <<part, transfersVars, hooksVars, marksVars, loopVars>>

Parts == {"transfers", "hooks", "changed", "channel", "query", "both", "loop"}

Init ==
  /\ part \in Parts
  /\ Tr!Init
  /\ IF part = "changed" THEN Hc!Init ELSE Ho!Init
  /\ IF part = "query" THEN Mq!Init ELSE IF part = "both" THEN Mb!Init ELSE Ma!Init
  /\ Lo!Init

Next ==
  /\ UNCHANGED part
  /\ IF part = "transfers" THEN Tr!Next ELSE UNCHANGED transfersVars
  /\ IF part = "hooks" THEN Ho!Next ELSE IF part = "changed" THEN Hc!Next ELSE UNCHANGED hooksVars
  /\ IF part = "channel" THEN Ma!Next ELSE IF part = "query" THEN Mq!Next
     ELSE IF part = "both" THEN Mb!Next ELSE UNCHANGED marksVars
  /\ IF part = "loop" THEN Lo!Next ELSE UNCHANGED loopVars

Spec == Init /\ [][Next]_vars

-----------------------------------------------------------------------------
(* What is checked of each. *)

\* A task runs exactly for a transfer that says so, a file is done where it is whole,
\* and its bytes start where the two clients agreed, whatever is cancelled, rejected or
\* finished across it (transfers.rs; task.rs, run_transfer).
TransfersAreTrue ==
  part = "transfers" => Tr!TypeOK /\ Tr!TasksAreKnown /\ Tr!DoneIsWhole /\ Tr!StartsWhereAgreed

\* A badge is what came in and no client of the reader has read, and the marker is the
\* network's, over lost connections and closed conversations (session.rs, handle_markread,
\* mark_read; message.rs, count_towards_unread).
ReadIsFollowed ==
  /\ part = "channel" => Ma!BadgeIsUnread /\ Ma!MarkerIsFollowed
  /\ part = "query" => Mq!BadgeIsUnread /\ Mq!MarkerIsFollowed
  /\ part = "both" => Mb!BadgeIsUnread /\ Mb!MarkerIsFollowed

\* What waits for a rule has one worker, which takes it once, and a rule that is dropped is
\* reported; a server that forgot the socket is given up, and only such a one, where the
\* task did not have to wait (task.rs, queue, next_arrival; session.rs, keepalive).
QueuesKeepUp ==
  /\ part = "hooks" => Ho!TypeOK /\ Ho!OneWorkerEach /\ Ho!TakenOnce /\ Ho!DroppedIsSaid
  /\ part = "changed" => Hc!TypeOK /\ Hc!OneWorkerEach /\ Hc!TakenOnce /\ Hc!DroppedIsSaid
  /\ part = "loop" => Lo!NoticedUnlessWaiting /\ Lo!StalledIsUnanswered
=============================================================================
