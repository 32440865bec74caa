-------------------------------- MODULE Transfers --------------------------------
(***************************************************************************)
(* Files moving between this client and one other person: the handshake    *)
(* the session keeps (ircx-core transfers.rs), the task each transfer has  *)
(* (task.rs, run_transfer; ircx-net dcc.rs), and the other side's client,  *)
(* which follows the handshake.                                            *)
(*                                                                         *)
(* The session takes one line or one command at a time and carries out     *)
(* what it decided action by action, while the tasks and the other side    *)
(* go on.                                                                  *)
(***************************************************************************)
EXTENDS Naturals, Sequences, SequencesExt, Functions, FiniteSetsExt

CONSTANTS
    MaxTransfers,   \* how many are ever begun, by either side
    REMEMBERED,
    Files,
    Size,           \* of every file, which an offer need not say
    Inbox,          \* commands that may wait for the session
    MaxCommands,    \* of the reader
    None

TransfersAssumption == {MaxTransfers, REMEMBERED, Size, Inbox, MaxCommands} \subseteq Nat \ {0}

VARIABLES
    transfers,      \* the session's list
    actions,        \* what it decided and has still to carry out
    inbox,          \* commands on their way to it
    jobs, updates,  \* the tasks, by transfer, and the progress each has to forward
    landed,         \* files that are whole under the name the reader chose
    lines, sent,    \* from the other side, and to it
    peer,           \* by transfer: what the other side does about it
    starts,         \* by transfer: the byte the two clients agreed to start at
    commands, raced, late, mistaken

session == <<transfers, actions>>
tasks == <<jobs, updates, landed>>
other == <<lines, sent, peer, starts>>
vars == <<session, inbox, tasks, other, commands, raced, late, mistaken>>

Ids == 1..Len(peer)
Over == {"Done", "Declined", "Cancelled", "Failed"}
is_over(r) == r.state \in Over

Places(P(_)) == {k \in DOMAIN transfers : P(transfers[k])}
\* position(|record| ...): the first that fits.
Found(places) == IF places = {} THEN None ELSE CHOOSE k \in places : \A l \in places : k <= l
Of(id) == Found(Places(LAMBDA r : r.id = id))
Held == {transfers[k].id : k \in DOMAIN transfers}

named(direction, line) ==
    Found(Places(LAMBDA r :
        /\ r.direction = direction /\ ~is_over(r)
        /\ IF line.token # None THEN r.token = line.token ELSE line.port # 0 /\ r.port = line.port))
outgoing_awaiting(token) ==
    Found(Places(LAMBDA r : r.direction = "Outgoing" /\ r.state = "Offered" /\ token # None /\ r.token = token))

\* The list, a record taken on: the oldest that is over makes room.
remember(record) ==
    LET grown == Append(transfers, record)
        over == {k \in DOMAIN grown : is_over(grown[k])}
    IN  IF Len(grown) > REMEMBERED /\ over # {} THEN RemoveAt(grown, Found(over)) ELSE grown

Line(what, r, port, at) ==
    [what |-> what, id |-> r.id, file |-> r.file, port |-> port, token |-> r.token, at |-> at,
     sized |-> r.sized]
SendLine(line) == [what |-> "Send", line |-> line]
Run(r, endpoint) == [what |-> "RunTransfer", id |-> r.id, endpoint |-> endpoint, from |-> r.from,
                     incoming |-> r.direction = "Incoming", sized |-> r.sized]
Stop(id) == [what |-> "StopTransfer", id |-> id]

\* Who has to be reachable: the side a passive offer left it to.
begin_receiving(r) == Run(r, IF r.token # None THEN "Listen" ELSE "Dial")
stop_job(r) == IF r.running THEN <<Stop(r.id)>> ELSE <<>>

Decide(k, r, todo) == transfers' = [transfers EXCEPT ![k] = r] /\ actions' = todo
Nothing == UNCHANGED session

-----------------------------------------------------------------------------
(* What the session makes of a line.                                       *)

\* Only the answer to a passive offer names a port and a token both.
Answer(line) == line.what = "SEND" /\ line.token # None /\ line.port # 0

\* An answer that finds no offer of this client's waiting is taken for an offer.
dcc_offered(line) ==
    LET k == outgoing_awaiting(line.token)
    IN  IF k # None
        THEN LET r == [transfers[k] EXCEPT !.port = line.port, !.state = "Connecting", !.running = TRUE]
             IN  Decide(k, r, <<Run(r, "Dial")>>)
        ELSE /\ transfers' = remember(
                    [id |-> IF Answer(line) THEN Len(peer) + 1 ELSE line.id, direction |-> "Incoming",
                     file |-> line.file, sized |-> line.sized, state |-> "Offered", at |-> 0,
                     from |-> 0, port |-> line.port, token |-> line.token, resuming |-> FALSE, running |-> FALSE])
             /\ UNCHANGED actions
\* Past the end is no place in the file: it is answered with the end.
dcc_resume_asked(line) ==
    LET k == named("Outgoing", line)
        position == Min({line.at, Size})
        r == [transfers[k] EXCEPT !.from = position, !.at = position]
    IN  IF k = None THEN Nothing
        ELSE Decide(k, r, <<SendLine(Line("ACCEPT", r, line.port, position))>>
                 \o (IF r.running THEN <<[what |-> "ResumeTransferAt", id |-> r.id, from |-> position]>>
                     ELSE <<>>))
dcc_resume_agreed(line) ==
    LET k == named("Incoming", line)
        r == [transfers[k] EXCEPT !.resuming = FALSE, !.from = line.at, !.at = line.at,
                                  !.state = "Connecting", !.running = TRUE]
    IN  IF k = None \/ ~transfers[k].resuming THEN Nothing
        ELSE Decide(k, r, <<begin_receiving(r)>>)
dcc_rejected(line) ==
    LET k == Found(Places(LAMBDA r : /\ r.direction = "Outgoing" /\ r.file = line.file
                                     /\ r.state \in {"Offered", "Connecting"}))
    IN  IF k = None THEN Nothing
        ELSE Decide(k, [transfers[k] EXCEPT !.state = "Declined", !.running = FALSE], stop_job(transfers[k]))

handle_dcc ==
    /\ actions = <<>> /\ lines # <<>> /\ lines' = Tail(lines)
    /\ LET line == Head(lines)
       IN  /\ CASE line.what = "SEND" -> dcc_offered(line)
                [] line.what = "RESUME" -> dcc_resume_asked(line)
                [] line.what = "ACCEPT" -> dcc_resume_agreed(line)
                [] line.what = "REJECT" -> dcc_rejected(line)
           /\ IF Answer(line) /\ outgoing_awaiting(line.token) = None
              THEN /\ mistaken' = TRUE /\ peer' = Append(peer, "deaf") /\ starts' = Append(starts, 0)
                   /\ updates' = Append(updates, <<>>)
              ELSE UNCHANGED <<mistaken, peer, starts, updates>>
    /\ UNCHANGED <<inbox, jobs, landed, sent, commands, raced, late>>

-----------------------------------------------------------------------------
(* What it makes of a command.                                             *)

\* An active offer opens a port first and is said when it is open.
offer_file(c) ==
    LET r == [id |-> c.id, direction |-> "Outgoing", file |-> c.file, sized |-> TRUE,
              state |-> "Offered", at |-> 0, from |-> 0, port |-> 0, token |-> IF c.passive THEN c.id ELSE None,
              resuming |-> FALSE, running |-> ~c.passive]
    IN  /\ transfers' = remember(r)
        /\ actions' = IF c.passive THEN <<SendLine(Line("SEND", r, 0, 0))>> ELSE <<Run(r, "Listen")>>
accept_transfer(c) ==
    LET k == Of(c.id)
        r == [transfers[k] EXCEPT !.state = "Connecting", !.from = c.at, !.at = c.at,
                                  !.resuming = c.at > 0, !.running = c.at = 0]
    IN  IF k = None \/ transfers[k].state # "Offered" \/ transfers[k].direction # "Incoming" THEN Nothing
        ELSE Decide(k, r, IF c.at > 0 THEN <<SendLine(Line("RESUME", r, r.port, c.at))>>
                          ELSE <<begin_receiving(r)>>)
decline_transfer(c) ==
    LET k == Of(c.id)
    IN  IF k = None \/ transfers[k].state # "Offered" THEN Nothing
        ELSE Decide(k, [transfers[k] EXCEPT !.state = "Declined"],
                    <<SendLine(Line("REJECT", transfers[k], 0, 0))>>)
\* A plausible slip in cancel_transfer: the task is left running.
cancel_transferOnly(c) ==
    LET k == Of(c.id)
    IN  IF k = None \/ is_over(transfers[k]) THEN Nothing
        ELSE Decide(k, [transfers[k] EXCEPT !.state = "Cancelled"], <<>>)
cancel_transfer(c) ==
    LET k == Of(c.id)
    IN  IF k = None \/ is_over(transfers[k]) THEN Nothing
        ELSE IF transfers[k].state = "Offered" /\ transfers[k].direction = "Incoming"
        THEN decline_transfer(c)
        ELSE Decide(k, [transfers[k] EXCEPT !.state = "Cancelled", !.running = FALSE],
                    stop_job(transfers[k]))
\* The port is open: what is said now is what it was opened for.
transfer_listening(c) ==
    LET k == Of(c.id)
        r == IF transfers[k].direction = "Outgoing" THEN [transfers[k] EXCEPT !.port = c.at] ELSE transfers[k]
    IN  IF k = None THEN Nothing ELSE Decide(k, r, <<SendLine(Line("SEND", r, c.at, 0))>>)
transfer_progress(c) ==
    LET k == Of(c.id)
    IN  IF k = None \/ is_over(transfers[k]) THEN Nothing
        ELSE Decide(k, [transfers[k] EXCEPT !.state = "Running", !.at = c.at], <<>>)
transfer_finished(c) ==
    LET k == Of(c.id)
        ended == [transfers[k] EXCEPT !.running = FALSE, !.at = c.at]
    IN  IF k = None THEN Nothing
        ELSE Decide(k, IF ~c.failed THEN [ended EXCEPT !.state = "Done"]
                       ELSE IF ~is_over(ended) THEN [ended EXCEPT !.state = "Failed"] ELSE ended, <<>>)

\* A late port of a transfer that is over is noted: it is offered all the same.
apply ==
    /\ actions = <<>> /\ inbox # <<>> /\ inbox' = Tail(inbox)
    /\ LET c == Head(inbox)
       IN  /\ CASE c.what = "OfferFile" -> offer_file(c)
                [] c.what = "AcceptTransfer" -> accept_transfer(c)
                [] c.what = "DeclineTransfer" -> decline_transfer(c)
                [] c.what = "CancelTransfer" -> cancel_transfer(c)
                [] c.what = "TransferListening" -> transfer_listening(c)
                [] c.what = "TransferProgress" -> transfer_progress(c)
                [] c.what = "TransferFinished" -> transfer_finished(c)
           /\ late' = (late \/ (c.what = "TransferListening" /\ Of(c.id) # None /\ is_over(transfers[Of(c.id)])))
    /\ UNCHANGED <<tasks, other, commands, raced, mistaken>>

-----------------------------------------------------------------------------
(* What it decided is carried out (task.rs, deliver).                      *)

Job(a) == [phase |-> IF a.endpoint = "Listen" THEN "opening" ELSE "dialling", incoming |-> a.incoming,
           sized |-> a.sized, from |-> a.from, start |-> None, at |-> a.from, failed |-> FALSE]
Without(f, id) == Restrict(f, DOMAIN f \ {id})

deliver ==
    /\ actions # <<>> /\ actions' = Tail(actions)
    /\ LET a == Head(actions)
       IN  CASE a.what = "Send" -> sent' = Append(sent, a.line) /\ UNCHANGED <<tasks, raced>>
             [] a.what = "RunTransfer" ->
                  /\ jobs' = [id \in DOMAIN jobs \cup {a.id} |-> IF id = a.id THEN Job(a) ELSE jobs[id]]
                  /\ UNCHANGED <<updates, landed, sent, raced>>
             \* The task ends where it waits; a rename under way is not taken back.
             [] a.what = "StopTransfer" ->
                  /\ jobs' = Without(jobs, a.id)
                  /\ \/ UNCHANGED landed
                     \/ /\ a.id \in DOMAIN jobs /\ jobs[a.id].incoming /\ jobs[a.id].phase = "closing"
                        /\ landed' = landed \cup {a.id}
                  /\ UNCHANGED <<updates, sent, raced>>
             [] a.what = "ResumeTransferAt" ->
                  /\ IF a.id \in DOMAIN jobs
                     THEN /\ jobs' = [jobs EXCEPT ![a.id].from = a.from]
                          /\ raced' = (raced \/ jobs[a.id].start # None)
                     ELSE UNCHANGED <<jobs, raced>>
                  /\ UNCHANGED <<updates, landed, sent>>
    /\ UNCHANGED <<transfers, inbox, lines, peer, starts, commands, late, mistaken>>

-----------------------------------------------------------------------------
(* The tasks.                                                              *)

Room == Len(inbox) < Inbox
Tell(what, id, at, failed) ==
    Room /\ inbox' = Append(inbox, [what |-> what, id |-> id, at |-> at, failed |-> failed])
Becomes(id, job) == jobs' = [jobs EXCEPT ![id] = job]

OpenPort(id) ==
    /\ jobs[id].phase = "opening" /\ Tell("TransferListening", id, id, FALSE)
    /\ Becomes(id, [jobs[id] EXCEPT !.phase = "waiting"])
    /\ UNCHANGED <<session, updates, landed, other, commands, raced, late, mistaken>>
\* Where a send starts is read when the connection is there.
Connect(id) ==
    /\ jobs[id].phase \in {"waiting", "dialling"} /\ peer[id] = "reachable"
    /\ Becomes(id, [jobs[id] EXCEPT !.phase = "moving", !.start = jobs[id].from, !.at = jobs[id].from])
    /\ UNCHANGED <<session, inbox, updates, landed, other, commands, raced, late, mistaken>>
\* Progress is told where there is room for it, and the last of it always.
Move(id) ==
    /\ jobs[id].phase = "moving" /\ jobs[id].at < Size
    /\ Becomes(id, [jobs[id] EXCEPT !.at = @ + 1])
    /\ updates' \in {updates, [updates EXCEPT ![id] = Append(@, jobs[id].at + 1)]}
    /\ UNCHANGED <<session, inbox, landed, other, commands, raced, late, mistaken>>
\* A file whose size was not said is whatever came before its connection was closed.
LastByte(id) ==
    /\ jobs[id].phase = "moving" /\ (jobs[id].at = Size \/ ~jobs[id].sized)
    /\ Becomes(id, [jobs[id] EXCEPT !.phase = "closing"])
    /\ updates' = [updates EXCEPT ![id] = Append(@, jobs[id].at)]
    /\ UNCHANGED <<session, inbox, landed, other, commands, raced, late, mistaken>>
\* What arrived takes the name the reader chose.
Close(id) ==
    /\ jobs[id].phase = "closing"
    /\ Becomes(id, [jobs[id] EXCEPT !.phase = "reporting"])
    /\ landed' = IF jobs[id].incoming THEN landed \cup {id} ELSE landed
    /\ UNCHANGED <<session, inbox, updates, other, commands, raced, late, mistaken>>
Fail(id) ==
    /\ jobs[id].phase \notin {"reporting"}
    /\ Becomes(id, [jobs[id] EXCEPT !.phase = "reporting", !.failed = TRUE])
    /\ UNCHANGED <<session, inbox, updates, landed, other, commands, raced, late, mistaken>>
forward_progress(id) ==
    /\ updates[id] # <<>> /\ Tell("TransferProgress", id, Head(updates[id]), FALSE)
    /\ updates' = [updates EXCEPT ![id] = Tail(@)]
    /\ UNCHANGED <<session, jobs, landed, other, commands, raced, late, mistaken>>
\* The end is told behind the last of the progress.
report_transfer(id) ==
    /\ jobs[id].phase = "reporting" /\ updates[id] = <<>>
    /\ Tell("TransferFinished", id, jobs[id].at, jobs[id].failed)
    /\ jobs' = Without(jobs, id)
    /\ UNCHANGED <<session, updates, landed, other, commands, raced, late, mistaken>>

-----------------------------------------------------------------------------
(* The reader, who presses what the window shows.                          *)

Command(c) ==
    /\ commands < MaxCommands /\ commands' = commands + 1
    /\ Room /\ inbox' = Append(inbox, c)
    /\ UNCHANGED <<session, jobs, landed, lines, sent, raced, late, mistaken>>
Offer(file, passive) ==
    /\ Len(peer) < MaxTransfers
    /\ peer' = Append(peer, "waiting") /\ starts' = Append(starts, 0) /\ updates' = Append(updates, <<>>)
    /\ Command([what |-> "OfferFile", id |-> Len(peer) + 1, file |-> file, passive |-> passive])
Accept(id, at) ==
    /\ id \in Held /\ transfers[Of(id)].direction = "Incoming"
    /\ Command([what |-> "AcceptTransfer", id |-> id, at |-> at]) /\ UNCHANGED <<updates, peer, starts>>
Decline(id) ==
    /\ id \in Held /\ transfers[Of(id)].direction = "Incoming"
    /\ Command([what |-> "DeclineTransfer", id |-> id]) /\ UNCHANGED <<updates, peer, starts>>
Cancel(id) ==
    /\ id \in Held /\ Command([what |-> "CancelTransfer", id |-> id]) /\ UNCHANGED <<updates, peer, starts>>

-----------------------------------------------------------------------------
(* The other side. A port and a token are named by their transfer.         *)

Says(line) == lines' = Append(lines, line)
PeerOffers(file, passive, sized) ==
    /\ Len(peer) < MaxTransfers
    /\ LET id == Len(peer) + 1
       IN  Says([what |-> "SEND", id |-> id, file |-> file, sized |-> sized, at |-> 0,
                 port |-> IF passive THEN 0 ELSE id, token |-> IF passive THEN id ELSE None])
    /\ peer' = Append(peer, IF passive THEN "waiting" ELSE "reachable")
    /\ starts' = Append(starts, 0) /\ updates' = Append(updates, <<>>)
    /\ UNCHANGED <<session, inbox, jobs, landed, sent, commands, raced, late, mistaken>>

\* What it answers: it may take an offer as it is, ask to resume it, from within or
\* past its end, or turn it down, may agree to resume less than was asked, and dials a port it was told.
Answers(line) ==
    CASE line.what = "SEND" /\ line.port # 0 ->
           \/ peer' = [peer EXCEPT ![line.id] = "reachable"] /\ UNCHANGED <<lines, starts>>
           \/ /\ peer[line.id] = "waiting" /\ line.token = None /\ peer' = [peer EXCEPT ![line.id] = "asked"]
              /\ UNCHANGED starts /\ \E at \in {1, Size + 1} : Says([line EXCEPT !.what = "RESUME", !.at = at])
           \/ line.token = None /\ Says([line EXCEPT !.what = "REJECT"]) /\ UNCHANGED <<peer, starts>>
      [] line.what = "SEND" /\ line.port = 0 ->
           \/ /\ peer' = [peer EXCEPT ![line.id] = "reachable"] /\ UNCHANGED starts
              /\ Says([line EXCEPT !.port = line.id])
           \/ /\ peer' = [peer EXCEPT ![line.id] = "asked"] /\ UNCHANGED starts
              /\ \E at \in {1, Size + 1} : Says([line EXCEPT !.what = "RESUME", !.at = at])
           \/ Says([line EXCEPT !.what = "REJECT"]) /\ UNCHANGED <<peer, starts>>
      [] line.what = "RESUME" ->
           /\ \E at \in 0..line.at :
                starts' = [starts EXCEPT ![line.id] = at] /\ Says([line EXCEPT !.what = "ACCEPT", !.at = at])
           /\ UNCHANGED peer
      [] line.what = "ACCEPT" ->
           /\ peer[line.id] = "asked" /\ starts' = [starts EXCEPT ![line.id] = line.at]
           /\ peer' = [peer EXCEPT ![line.id] = "reachable"]
           /\ IF line.token = None THEN UNCHANGED lines
              ELSE Says([line EXCEPT !.what = "SEND", !.port = line.id, !.at = 0])
      [] line.what = "REJECT" -> UNCHANGED <<lines, peer, starts>>
PeerReads ==
    /\ sent # <<>> /\ sent' = Tail(sent) /\ Answers(Head(sent))
    /\ UNCHANGED <<session, inbox, tasks, commands, raced, late, mistaken>>

-----------------------------------------------------------------------------
Init ==
    /\ transfers = <<>> /\ actions = <<>> /\ inbox = <<>>
    /\ jobs = << >> /\ updates = <<>> /\ landed = {}
    /\ lines = <<>> /\ sent = <<>> /\ peer = <<>> /\ starts = <<>>
    /\ commands = 0 /\ raced = FALSE /\ late = FALSE /\ mistaken = FALSE
Next ==
    \/ handle_dcc \/ apply \/ deliver \/ PeerReads
    \/ \E id \in DOMAIN jobs : \/ OpenPort(id) \/ Connect(id) \/ Move(id) \/ LastByte(id) \/ Close(id)
                               \/ Fail(id) \/ report_transfer(id)
    \/ \E id \in Ids : forward_progress(id) \/ Decline(id) \/ Cancel(id) \/ \E at \in {0, 1} : Accept(id, at)
    \/ \E file \in Files, passive \in BOOLEAN :
         Offer(file, passive) \/ \E sized \in BOOLEAN : PeerOffers(file, passive, sized)
Spec == Init /\ [][Next]_vars

-----------------------------------------------------------------------------
Ended(id) == \E k \in DOMAIN inbox : inbox[k].what = "TransferFinished" /\ inbox[k].id = id

TypeOK ==
    /\ \A k \in DOMAIN transfers : /\ transfers[k].state \in Over \cup {"Offered", "Connecting", "Running"}
                                   /\ transfers[k].at \in 0..Size /\ transfers[k].from \in 0..Size
    /\ DOMAIN jobs \subseteq Ids /\ landed \subseteq Ids /\ Len(inbox) <= Inbox

\* Between two things the session takes, a task is running exactly for a transfer
\* that says so, or has said how it ended: nothing is left behind that no Cancel
\* reaches, whatever was rejected, cancelled or finished across it.
TasksAreKnown ==
    actions = <<>> =>
        /\ \A id \in DOMAIN jobs : id \in Held /\ transfers[Of(id)].running /\ ~is_over(transfers[Of(id)])
        /\ \A k \in DOMAIN transfers : transfers[k].running =>
              transfers[k].id \in DOMAIN jobs \/ Ended(transfers[k].id)

\* A file is said to be done where it is whole, and not before.  The exception: one
\* whose offer did not say its size is whatever came before its connection was closed,
\* which a connection that is cut cannot be told from.
DoneIsWhole ==
    \A k \in DOMAIN transfers : transfers[k].state = "Done" =>
        /\ transfers[k].sized => transfers[k].at = Size
        /\ transfers[k].direction = "Incoming" => transfers[k].id \in landed

\* As dcc.rs has it, the file takes its real name only once all of it has arrived, so
\* that what is on disk under the name the user chose is never half a file.
\* The code does not keep it (README, section 7).
NeverHalfAFile ==
    \A k \in DOMAIN transfers : transfers[k].state = "Done" => transfers[k].at = Size

\* The bytes start where the two clients agreed they would, the case apart of a
\* connection that was there before the task heard of the resume.
StartsWhereAgreed ==
    raced \/ actions # <<>> \/ \A id \in DOMAIN jobs : jobs[id].start \in {None, starts[id]}

\* What is over stays as it ended; only the whole file overrules a cancel.
OverStaysOver ==
    [][\A k \in DOMAIN transfers, l \in DOMAIN transfers' :
         (/\ transfers[k].id = transfers'[l].id /\ is_over(transfers[k])
          /\ transfers'[l].state # transfers[k].state)
         => transfers'[l].state = "Done" /\ transfers[k].state # "Failed"]_vars

\* "A whole file that arrived is Done whatever was decided about it in the
\* meantime" (transfer_finished).
\* The code does not keep it (README, section 7).
WholeIsDone ==
    inbox = <<>> /\ actions = <<>> =>
        \A k \in DOMAIN transfers : transfers[k].id \in landed /\ transfers[k].id \notin DOMAIN jobs
                                      => transfers[k].state = "Done"

\* The other side "dials only after reading the answer just queued", so a task is
\* told of a resume before its connection arrives (dcc_resume_asked).
\* The code does not keep it (README, section 7).
ToldBeforeDialled == ~raced

\* "The answer to a passive offer of ours ... names a transfer that already exists
\* rather than opening one" (dcc_offered).
\* The code does not keep it (README, section 7).
AnswersOpenNothing == ~mistaken

\* "Every reply this sends is against a transfer it is already holding and moves
\* that transfer on" (transfers.rs).
\* The code does not keep it (README, section 7).
NothingOverIsOffered == ~late
=============================================================================
