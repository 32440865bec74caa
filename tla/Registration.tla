---------------------------- MODULE Registration ----------------------------
(***************************************************************************)
(* How one network gets from a socket to a registered connection, and how  *)
(* it comes back when it loses one: the registration half of the session   *)
(* (ircx-core: session.rs, caps.rs, sasl.rs), the drive loop that carries  *)
(* it through transports (task.rs), and the server at the far end.         *)
(*                                                                         *)
(* Both directions of a connection are FIFO.  The lines of the client that *)
(* matter here are named by what they are, and a transport that is dropped *)
(* takes what is queued on it along.  A CAP REQ fits on one line: the      *)
(* names the client supports are short of its budget.                      *)
(***************************************************************************)
EXTENDS Integers, Sequences

CONSTANTS
    Networks,          \* networks the reader may have configured, see Profiles
    AltNicks,          \* how many alternate nicknames are configured
    MaxConnections,    \* bound: transports that are made
    MaxAnnouncements,  \* bound: CAP NEW and CAP DEL the server sends
    MaxLogins          \* bound: logins by hand, with the network's services

(* A network: the SASL mechanism it is configured with, whether it has a   *)
(* client certificate for EXTERNAL, whether its account and secret are     *)
(* right, how the server takes the mechanism, the settings for TLS and its *)
(* verification, and whether the server advertises an STS policy.          *)
Profiles ==
    [mechanism : {"NONE", "PLAIN", "EXTERNAL", "SCRAM"}, certificate : BOOLEAN,
     good : BOOLEAN, taken : {"accepted", "not-listed", "refused"},
     tls : BOOLEAN, verify : BOOLEAN, sts : BOOLEAN]

ASSUME NetworksAssumption == Networks \subseteq Profiles
ASSUME CountsAssumption ==
    /\ AltNicks \in Nat /\ MaxConnections \in Nat
    /\ MaxAnnouncements \in Nat /\ MaxLogins \in Nat

VARIABLES
    network,      \* the network this is, which no step changes
    \* The drive loop.
    loop,         \* "dialling", "open", "waiting" or "ended"
    control,      \* what the last handler told the loop
    link,         \* the transport: "none", "plain", "unverified", "verified"
    alive,        \* the socket has not ended
    endpoint,     \* [tls, verify]
    policy,       \* an STS policy is stored for the host
    \* The session.
    status,
    caps,         \* [available, enabled, outstanding]
    cap_ended,
    registered,
    sasl,
    scram,        \* the exchange: "none", "started", or "expecting" a signature
    nick_attempt,
    sts_verified_transport,
    \* The wire and the server.
    toServer, toClient,
    server,       \* what the server holds about this connection
    \* Histories.
    greeted,      \* on_connected has run on this transport
    warned,       \* the reader was told they are not authenticated
    login_failed, \* a login ended this run, see GaveUpOnLogin
    spent         \* [connections, announcements, logins] used of the bounds

drive == <<network, loop, link, endpoint, policy, spent>>
session == <<status, caps, cap_ended, registered, sasl, scram, nick_attempt,
             sts_verified_transport>>
vars == <<drive, control, alive, session, toServer, toClient, server, greeted,
          warned, login_failed>>

-----------------------------------------------------------------------------
(* Capabilities: sasl, sts, and any other that ircx supports.              *)

Names == {"sasl", "sts", "other"}
Supported == Names \ {"sts"}
NoCaps == [available |-> {}, enabled |-> {}, outstanding |-> 0]

\* The most nicknames a registration tries after the first.
NickAttempts == AltNicks + 3

(* What the server says.  A message has the capabilities it names.         *)
Said(kind) == [kind |-> kind, names |-> {}]
SaidOf(kind, names) == [kind |-> kind, names |-> names]

FromServer ==
    [kind : {"LS-more", "LS", "ACK", "NAK", "NEW", "DEL", "AUTHENTICATE-+",
             "challenge", "signature", "forged", "LOGGEDIN", "SASLSUCCESS",
             "SASLFAIL", "SASLMECHS", "SASLALREADY", "NICKREFUSED", "WELCOME"},
     names : SUBSET Names]
FromClient ==
    [kind : {"CAP-LS", "NICK", "USER", "CAP-REQ", "CAP-END", "AUTHENTICATE",
             "payload", "AUTHENTICATE-*", "said"},
     names : SUBSET Names]

\* What a server holds about a connection: what it offers, whether the client
\* negotiates, what it has told of itself, the exchange it is in.
FreshServer(aware) ==
    [aware |-> aware, offers |-> {}, negotiating |-> FALSE, nick |-> FALSE,
     user |-> FALSE, exchange |-> "idle", account |-> FALSE, refused |-> FALSE,
     welcomed |-> FALSE]

TypeOK ==
    /\ network \in Networks
    /\ loop \in {"dialling", "open", "waiting", "ended"}
    /\ control \in {"continue", "stop", "stalled", "upgrade"}
    /\ link \in {"none", "plain", "unverified", "verified"}
    /\ alive \in BOOLEAN /\ policy \in BOOLEAN /\ greeted \in BOOLEAN
    /\ endpoint \in [tls : BOOLEAN, verify : BOOLEAN]
    /\ status \in {"Disconnected", "Connecting", "Registering", "Connected",
                   "Reconnecting", "Failed"}
    /\ caps \in [available : SUBSET Names, enabled : SUBSET Names, outstanding : Nat]
    /\ cap_ended \in BOOLEAN /\ registered \in BOOLEAN
    /\ sasl \in {"NotConfigured", "InProgress", "Authenticated", "Refused", "Failed"}
    /\ scram \in {"none", "started", "expecting"}
    /\ nick_attempt \in 0..(NickAttempts + 1)
    /\ sts_verified_transport \in BOOLEAN
    /\ toServer \in Seq(FromClient) /\ toClient \in Seq(FromServer)
    /\ server \in [aware : BOOLEAN, offers : SUBSET Names, negotiating : BOOLEAN,
                   nick : BOOLEAN, user : BOOLEAN,
                   exchange : {"idle", "payload", "final", "done"},
                   account : BOOLEAN, refused : BOOLEAN, welcomed : BOOLEAN]
    /\ warned \in BOOLEAN /\ login_failed \in BOOLEAN
    /\ spent \in [connections : Nat, announcements : Nat, logins : Nat]

Mechanism == network.mechanism
FreshSasl == IF Mechanism = "NONE" THEN "NotConfigured" ELSE "InProgress"

\* run: a stored policy overrides the network's own settings.
EndpointOf(stored) ==
    IF stored THEN [tls |-> TRUE, verify |-> TRUE]
              ELSE [tls |-> network.tls, verify |-> network.verify]

Init ==
    /\ network \in Networks
    /\ loop = "dialling" /\ control = "continue"
    /\ link = "none" /\ alive = FALSE
    /\ policy = FALSE /\ endpoint = EndpointOf(FALSE)
    /\ status = "Connecting"
    /\ caps = NoCaps /\ cap_ended = FALSE /\ registered = FALSE
    /\ sasl = FreshSasl /\ scram = "none" /\ nick_attempt = 0
    /\ sts_verified_transport = FALSE
    /\ toServer = <<>> /\ toClient = <<>> /\ server = FreshServer(TRUE)
    /\ greeted = FALSE /\ warned = FALSE /\ login_failed = FALSE
    /\ spent = [connections |-> 0, announcements |-> 0, logins |-> 0]

-----------------------------------------------------------------------------
(* The session's own steps.                                                *)

\* A transport whose writer has ended drops the line.
Send(lines) == toServer' = IF alive THEN toServer \o lines ELSE toServer

\* A plausible slip in Reset: the last connection was registered, so is this.
ResetKeepsRegistered ==
    /\ caps' = NoCaps /\ cap_ended' = FALSE
    /\ sasl' = FreshSasl /\ scram' = "none" /\ nick_attempt' = 0
    /\ UNCHANGED registered

\* A plausible slip in Reset: a spent exchange is left for the next connection.
ResetKeepsScram ==
    /\ caps' = NoCaps /\ cap_ended' = FALSE /\ registered' = FALSE
    /\ sasl' = FreshSasl /\ nick_attempt' = 0
    /\ UNCHANGED scram

\* Another one: what the last connection knew of the login is left.
ResetKeepsSasl ==
    /\ caps' = NoCaps /\ cap_ended' = FALSE /\ registered' = FALSE
    /\ scram' = "none" /\ nick_attempt' = 0
    /\ UNCHANGED sasl

\* reset_connection_state, but for sts_verified_transport, which on_connected
\* sets again.
Reset ==
    /\ caps' = NoCaps /\ cap_ended' = FALSE /\ registered' = FALSE
    /\ sasl' = FreshSasl /\ scram' = "none" /\ nick_attempt' = 0

\* on_connected, for the Connected event of a transport.
OnConnected ==
    /\ loop = "open" /\ control = "continue" /\ ~greeted
    /\ Reset
    /\ sts_verified_transport' = (endpoint.tls /\ endpoint.verify)
    /\ status' = "Registering" /\ greeted' = TRUE /\ warned' = FALSE
    /\ Send(<<Said("CAP-LS"), Said("NICK"), Said("USER")>>)
    /\ UNCHANGED <<drive, control, alive, toClient, server, login_failed>>

\* A line is taken in; every handler below says what becomes of the rest.
Take(kind) ==
    /\ loop = "open" /\ control = "continue" /\ greeted
    /\ toClient # <<>> /\ Head(toClient).kind = kind
    /\ toClient' = Tail(toClient)
    /\ UNCHANGED <<network, loop, link, alive, endpoint, spent, server, greeted>>
Named == Head(toClient).names

\* handle_sts: an insecure connection moves to the advertised port at once; a
\* verified one stores the policy, or deletes it where the duration is zero.
Upgrades(known) ==
    "sts" \in known.available /\ ~sts_verified_transport /\ ~endpoint.tls
StorePolicy(known) ==
    IF "sts" \in known.available /\ sts_verified_transport
    THEN policy' \in BOOLEAN ELSE UNCHANGED policy

\* start_sasl: whether an exchange starts.
StartsSasl(known) ==
    /\ Mechanism # "NONE"
    /\ "sasl" \in known.enabled
    /\ network.taken # "not-listed"
    /\ Mechanism = "EXTERNAL" => network.certificate

\* end_negotiation and finish_negotiation, over the capabilities now known.
EndNegotiation ==
    /\ cap_ended' = TRUE
    /\ Send(IF cap_ended THEN <<>> ELSE <<Said("CAP-END")>>)

FinishNegotiation(known) ==
    \/ /\ cap_ended
       /\ Send(<<>>)
       /\ UNCHANGED <<cap_ended, sasl>>
    \/ /\ ~cap_ended /\ StartsSasl(known)
       /\ sasl' = "InProgress"
       /\ Send(<<Said("AUTHENTICATE")>>)
       /\ UNCHANGED cap_ended
    \/ /\ ~cap_ended /\ ~StartsSasl(known)
       /\ sasl' = IF Mechanism = "NONE" THEN sasl ELSE "Failed"
       /\ EndNegotiation

\* request_lines: what is offered, supported and not on yet.
Wanted(known) == (known.available \cap Supported) \ known.enabled
Requested(known) ==
    IF Wanted(known) = {} THEN known
    ELSE [known EXCEPT !.outstanding = @ + 1]
Request(known) ==
    IF Wanted(known) = {} THEN <<>> ELSE <<SaidOf("CAP-REQ", Wanted(known))>>
Offered(names) == [caps EXCEPT !.available = @ \cup names]
Answered(known) == [known EXCEPT !.outstanding = IF @ > 0 THEN @ - 1 ELSE 0]

-----------------------------------------------------------------------------
(* Lines the session takes in.                                             *)

OnLsMore ==
    /\ Take("LS-more")
    /\ caps' = Offered(Named)
    /\ UNCHANGED <<control, policy, status, cap_ended, registered, sasl, scram,
                   nick_attempt, sts_verified_transport, toServer, warned,
                   login_failed>>

\* A plausible slip in OnLs: the capabilities are asked for before the policy is
\* looked at.
OnLsAsksFirst ==
    LET known == Offered(Named) IN
    /\ Take("LS")
    /\ caps' = Requested(known)
    /\ IF Wanted(known) = {} THEN FinishNegotiation(known)
                             ELSE Send(Request(known)) /\ UNCHANGED <<cap_ended, sasl>>
    /\ control' = IF Upgrades(known) THEN "upgrade" ELSE control
    /\ StorePolicy(known)
    /\ UNCHANGED <<status, registered, scram, nick_attempt, sts_verified_transport,
                   warned, login_failed>>

\* handle_cap: the last line of the LS.
OnLs ==
    LET known == Offered(Named) IN
    /\ Take("LS")
    /\ \/ /\ Upgrades(known)
          /\ control' = "upgrade" /\ caps' = known
          /\ UNCHANGED <<policy, cap_ended, sasl, toServer>>
       \/ /\ ~Upgrades(known) /\ Wanted(known) = {}
          /\ caps' = known
          /\ StorePolicy(known)
          /\ FinishNegotiation(known)
          /\ UNCHANGED control
       \/ /\ ~Upgrades(known) /\ Wanted(known) # {}
          /\ caps' = Requested(known)
          /\ StorePolicy(known)
          /\ Send(Request(known))
          /\ UNCHANGED <<control, cap_ended, sasl>>
    /\ UNCHANGED <<status, registered, scram, nick_attempt, sts_verified_transport,
                   warned, login_failed>>

\* ACK and NAK: the last answer that is waited for ends the negotiation.
Settles(known) ==
    /\ caps' = known
    /\ IF known.outstanding = 0 THEN FinishNegotiation(known)
                                ELSE UNCHANGED <<cap_ended, sasl, toServer>>
    /\ UNCHANGED <<control, policy, status, registered, scram, nick_attempt,
                   sts_verified_transport, warned, login_failed>>

OnAck == Take("ACK") /\ Settles([Answered(caps) EXCEPT !.enabled = @ \cup Named])

\* A plausible slip in OnNak: a refusal is not counted as an answer.
OnNakKeepsWaiting == Take("NAK") /\ Settles(caps)

OnNak == Take("NAK") /\ Settles(Answered(caps))

\* CAP NEW: what is new is asked for, whatever is going on.
OnNew ==
    LET known == Offered(Named) IN
    /\ Take("NEW")
    /\ \/ /\ "sts" \in Named /\ Upgrades(known)
          /\ control' = "upgrade" /\ caps' = known
          /\ UNCHANGED <<policy, toServer>>
       \/ /\ ~("sts" \in Named /\ Upgrades(known))
          /\ caps' = Requested(known)
          /\ IF "sts" \in Named THEN StorePolicy(known) ELSE UNCHANGED policy
          /\ Send(Request(known))
          /\ UNCHANGED control
    /\ UNCHANGED <<status, cap_ended, registered, sasl, scram, nick_attempt,
                   sts_verified_transport, warned, login_failed>>

OnDel ==
    LET gone == Named \ {"sts"} IN
    /\ Take("DEL")
    /\ caps' = [caps EXCEPT !.available = @ \ gone, !.enabled = @ \ gone]
    /\ UNCHANGED <<control, policy, status, cap_ended, registered, sasl, scram,
                   nick_attempt, sts_verified_transport, toServer, warned,
                   login_failed>>

\* abort_sasl: a login that failed stops the connection.
AbortSasl ==
    /\ sasl' = "Failed" /\ status' = "Failed" /\ control' = "stop"
    /\ login_failed' = TRUE
AbortScram == AbortSasl /\ scram' = "none" /\ Send(<<Said("AUTHENTICATE-*")>>)

Answers(next) ==
    /\ scram' = next
    /\ Send(<<Said("payload")>>)
    /\ UNCHANGED <<control, status, sasl, login_failed>>

\* handle_authenticate: PLAIN and EXTERNAL answer the empty challenge and read
\* nothing else.  SCRAM reads all that follows its first message as data of the
\* exchange it is in, the empty challenge too.
Understood ==
    \/ scram = "started" /\ Head(toClient).kind = "challenge"
    \/ scram = "expecting" /\ Head(toClient).kind = "signature"

OnAuthenticate ==
    LET go == Head(toClient).kind = "AUTHENTICATE-+" IN
    /\ \E kind \in {"AUTHENTICATE-+", "challenge", "signature", "forged"} : Take(kind)
    /\ \/ /\ Mechanism \in {"PLAIN", "EXTERNAL"} /\ go
          /\ Answers(scram)
       \/ /\ Mechanism = "SCRAM" /\ go /\ scram = "none"
          /\ Answers("started")
       \/ /\ Mechanism = "SCRAM" /\ Understood
          /\ Answers("expecting")
       \/ /\ Mechanism = "SCRAM" /\ scram # "none" /\ ~Understood
          /\ AbortScram
    /\ UNCHANGED <<policy, caps, cap_ended, registered, nick_attempt,
                   sts_verified_transport, warned>>

\* RPL_LOGGEDIN, of the exchange or of a login by hand: a refusal is carried
\* forward, if it is the refusal that is there to be carried.
OnLoggedIn ==
    /\ Take("LOGGEDIN")
    /\ sasl' = IF sasl = "Failed" THEN "Refused" ELSE "Authenticated"
    /\ UNCHANGED <<control, policy, status, caps, cap_ended, registered, scram,
                   nick_attempt, sts_verified_transport, toServer, warned,
                   login_failed>>

\* RPL_SASLSUCCESS and ERR_SASLALREADY.
OnSaslSuccess ==
    /\ Take("SASLSUCCESS") \/ Take("SASLALREADY")
    /\ EndNegotiation
    /\ UNCHANGED <<control, policy, status, caps, registered, sasl, scram,
                   nick_attempt, sts_verified_transport, warned, login_failed>>

\* A plausible slip in OnSaslFail: a rejected login is told and passed over.
OnSaslFailCarriesOn ==
    /\ Take("SASLFAIL")
    /\ sasl' = "Failed"
    /\ EndNegotiation
    /\ UNCHANGED <<control, policy, status, caps, registered, scram, nick_attempt,
                   sts_verified_transport, warned, login_failed>>

\* ERR_SASLFAIL and the numerics like it.
OnSaslFail ==
    /\ Take("SASLFAIL")
    /\ AbortSasl
    /\ UNCHANGED <<policy, caps, cap_ended, registered, scram, nick_attempt,
                   sts_verified_transport, toServer, warned>>

\* RPL_SASLMECHS: fail_sasl, and the registration goes on without.
OnSaslMechs ==
    /\ Take("SASLMECHS")
    /\ sasl' = "Failed"
    /\ EndNegotiation
    /\ UNCHANGED <<control, policy, status, caps, registered, scram, nick_attempt,
                   sts_verified_transport, warned, login_failed>>

\* A plausible slip in OnNickRefused: the last attempt is not the last.
OnNickRefusedTriesOn ==
    /\ Take("NICKREFUSED")
    /\ nick_attempt' = nick_attempt + 1
    /\ Send(<<Said("NICK")>>)
    /\ UNCHANGED <<control, status, policy, caps, cap_ended, registered, sasl,
                   scram, sts_verified_transport, warned, login_failed>>

\* on_nick_refused, while registering: the alternates, then the nickname with
\* underscores, then no more.
OnNickRefused ==
    /\ Take("NICKREFUSED")
    /\ nick_attempt' = nick_attempt + 1
    /\ \/ /\ nick_attempt < NickAttempts
          /\ Send(<<Said("NICK")>>)
          /\ UNCHANGED <<control, status>>
       \/ /\ nick_attempt >= NickAttempts
          /\ status' = "Failed" /\ control' = "stop"
          /\ UNCHANGED toServer
    /\ UNCHANGED <<policy, caps, cap_ended, registered, sasl, scram,
                   sts_verified_transport, warned, login_failed>>

\* on_welcome, as far as the registration goes.
OnWelcome ==
    /\ Take("WELCOME")
    /\ registered' = TRUE /\ status' = "Connected"
    /\ warned' = (Mechanism # "NONE" /\ sasl \notin {"Authenticated", "Refused"})
    /\ UNCHANGED <<control, policy, caps, cap_ended, sasl, scram, nick_attempt,
                   sts_verified_transport, toServer, login_failed>>

OnLine ==
    \/ OnLsMore \/ OnLs \/ OnAck \/ OnNak \/ OnNew \/ OnDel
    \/ OnAuthenticate \/ OnLoggedIn \/ OnSaslSuccess \/ OnSaslFail \/ OnSaslMechs
    \/ OnNickRefused \/ OnWelcome

-----------------------------------------------------------------------------
(* Commands of the reader, and the timer.                                  *)

\* dispatch: what is said needs a server that has finished registering us, and
\* `registered` is how that is known.
Say ==
    /\ loop = "open" /\ control = "continue" /\ registered
    /\ \A i \in DOMAIN toServer : toServer[i].kind # "said"
    /\ Send(<<Said("said")>>)
    /\ UNCHANGED <<drive, control, alive, session, toClient, server, greeted,
                   warned, login_failed>>

\* /quit, at any time: QUIT is queued and the session closes.
Quit ==
    /\ loop = "open" /\ control = "continue"
    /\ control' = "stop"
    /\ UNCHANGED <<drive, alive, session, toServer, toClient, server, greeted,
                   warned, login_failed>>

\* keepalive: nothing was heard since the last PING.
Stall ==
    /\ loop = "open" /\ control = "continue" /\ registered /\ toClient = <<>>
    /\ control' = "stalled"
    /\ UNCHANGED <<drive, alive, session, toServer, toClient, server, greeted,
                   warned, login_failed>>

-----------------------------------------------------------------------------
(* The drive loop.                                                         *)

LinkOf(where) ==
    IF ~where.tls THEN "plain" ELSE IF where.verify THEN "verified" ELSE "unverified"

\* A transport is made.  Its Connected event is queued, and is one branch of
\* the loop among others.
DialSucceeds ==
    /\ loop = "dialling" /\ spent.connections < MaxConnections
    /\ spent' = [spent EXCEPT !.connections = @ + 1]
    /\ loop' = "open" /\ alive' = TRUE /\ link' = LinkOf(endpoint)
    /\ \E aware \in BOOLEAN : server' = FreshServer(aware)
    /\ UNCHANGED <<network, control, endpoint, policy, session, toServer,
                   toClient, greeted, warned, login_failed>>

\* on_disconnected and on_reconnect_wait, with nobody there.
DialFails ==
    /\ loop = "dialling"
    /\ loop' = "waiting"
    /\ Reset /\ sts_verified_transport' = FALSE
    /\ status' = "Reconnecting"
    /\ UNCHANGED <<network, control, alive, link, endpoint, policy, spent,
                   toServer, toClient, server, greeted, warned, login_failed>>

\* The loop over one transport ends, and the transport with all that is on it.
LeaveLoop ==
    /\ loop = "open" /\ (control # "continue" \/ ~alive)
    /\ link' = "none" /\ alive' = FALSE /\ greeted' = FALSE
    /\ toServer' = <<>> /\ toClient' = <<>> /\ server' = FreshServer(TRUE)
    /\ control' = "continue"
    /\ \/ /\ control = "upgrade"
          /\ endpoint' = [tls |-> TRUE, verify |-> TRUE]
          /\ loop' = "dialling" /\ status' = "Connecting"
          /\ UNCHANGED <<caps, cap_ended, registered, sasl, scram, nick_attempt,
                         sts_verified_transport>>
       \/ /\ control = "stop"
          /\ Reset /\ sts_verified_transport' = FALSE
          /\ loop' = "ended" /\ status' = "Disconnected"
          /\ UNCHANGED endpoint
       \/ /\ control \in {"stalled", "continue"}
          /\ Reset /\ sts_verified_transport' = FALSE
          /\ loop' = "waiting" /\ status' = "Reconnecting"
          /\ UNCHANGED endpoint
    /\ UNCHANGED <<network, policy, spent, warned, login_failed>>

\* wait_to_retry: the delay runs out, or the reader quits meanwhile.
Retry ==
    /\ loop = "waiting"
    /\ loop' = "dialling" /\ status' = "Connecting"
    /\ UNCHANGED <<network, control, alive, link, endpoint, policy, spent, caps,
                   cap_ended, registered, sasl, scram, nick_attempt,
                   sts_verified_transport, toServer, toClient, server, greeted,
                   warned, login_failed>>

QuitWhileWaiting ==
    /\ loop = "waiting"
    /\ loop' = "ended"
    /\ UNCHANGED <<network, control, alive, link, endpoint, policy, spent,
                   session, toServer, toClient, server, greeted, warned,
                   login_failed>>

\* A plausible slip in Connect: the stored policy is not read.
ConnectAnyway ==
    /\ loop = "ended"
    /\ loop' = "dialling" /\ status' = "Connecting"
    /\ endpoint' = EndpointOf(FALSE)
    /\ login_failed' = FALSE /\ warned' = FALSE
    /\ Reset /\ sts_verified_transport' = FALSE
    /\ UNCHANGED <<network, control, alive, link, policy, spent, toServer,
                   toClient, server, greeted>>

\* The reader connects the network again, or starts the program: a new run of
\* the task, with the network's settings and a new session.
Connect ==
    /\ loop = "ended"
    /\ loop' = "dialling" /\ status' = "Connecting"
    /\ endpoint' = EndpointOf(policy)
    /\ login_failed' = FALSE /\ warned' = FALSE
    /\ Reset /\ sts_verified_transport' = FALSE
    /\ UNCHANGED <<network, control, alive, link, policy, spent, toServer,
                   toClient, server, greeted>>

\* The socket ends.  What it brought can still be read until the loop notices.
SocketEnds ==
    /\ loop = "open" /\ alive
    /\ alive' = FALSE /\ toServer' = <<>>
    /\ UNCHANGED <<drive, control, session, toClient, server, greeted, warned,
                   login_failed>>

-----------------------------------------------------------------------------
(* The server.                                                             *)

Asked == Head(toServer)
Reply(messages) == toClient' = toClient \o messages
ServerTakes(kind) ==
    /\ alive /\ toServer # <<>> /\ Asked.kind = kind
    /\ toServer' = Tail(toServer)
    /\ UNCHANGED <<drive, control, alive, session, greeted, warned, login_failed>>

\* CAP LS, in one line or two, or nothing this server knows.
ServerListsCaps ==
    /\ ServerTakes("CAP-LS")
    /\ \/ /\ ~server.aware
          /\ UNCHANGED <<server, toClient>>
       \/ /\ server.aware
          /\ \E offers \in SUBSET Supported :
                LET all == offers \cup (IF network.sts THEN {"sts"} ELSE {}) IN
                /\ server' = [server EXCEPT !.negotiating = TRUE, !.offers = all]
                /\ \E first \in SUBSET all :
                      Reply((IF first = {} THEN <<>> ELSE <<SaidOf("LS-more", first)>>)
                            \o <<SaidOf("LS", all \ first)>>)

ServerAnswersRequest ==
    /\ ServerTakes("CAP-REQ")
    /\ \/ /\ Asked.names \subseteq server.offers
          /\ Reply(<<SaidOf("ACK", Asked.names)>>)
       \/ Reply(<<SaidOf("NAK", Asked.names)>>)
    /\ UNCHANGED server

ServerTakesNick ==
    /\ ServerTakes("NICK")
    /\ \/ server' = [server EXCEPT !.nick = TRUE] /\ UNCHANGED toClient
       \/ Reply(<<Said("NICKREFUSED")>>) /\ UNCHANGED server

ServerTakesUser ==
    /\ ServerTakes("USER")
    /\ server' = [server EXCEPT !.user = TRUE]
    /\ UNCHANGED toClient

RefuseLogin(messages) ==
    /\ server' = [server EXCEPT !.exchange = "idle", !.refused = TRUE]
    /\ Reply(Append(messages, Said("SASLFAIL")))
AcceptLogin ==
    /\ server' = [server EXCEPT !.exchange = "idle", !.account = TRUE]
    /\ Reply(<<Said("LOGGEDIN"), Said("SASLSUCCESS")>>)

\* AUTHENTICATE with a mechanism starts an exchange; within one it is data that
\* does not decode.  A mechanism that is not taken may be told with the ones
\* that are before it is refused, or with nothing more.
ServerStartsExchange ==
    /\ ServerTakes("AUTHENTICATE")
    /\ \/ /\ server.exchange # "idle"
          /\ RefuseLogin(<<>>)
       \/ /\ server.exchange = "idle" /\ server.account
          /\ Reply(<<Said("SASLALREADY")>>)
          /\ UNCHANGED server
       \/ /\ server.exchange = "idle" /\ ~server.account /\ network.taken = "refused"
          /\ \/ RefuseLogin(<<Said("SASLMECHS")>>)
             \/ Reply(<<Said("SASLMECHS")>>) /\ UNCHANGED server
       \/ /\ server.exchange = "idle" /\ ~server.account /\ network.taken # "refused"
          /\ server' = [server EXCEPT !.exchange = "payload"]
          /\ Reply(<<Said("AUTHENTICATE-+")>>)

\* Whoever answers for the account without knowing its secret can only forge.
ServerReadsPayload ==
    /\ ServerTakes("payload")
    /\ \/ /\ server.exchange = "payload" /\ Mechanism # "SCRAM"
          /\ IF network.good THEN AcceptLogin ELSE RefuseLogin(<<>>)
       \/ /\ server.exchange = "payload" /\ Mechanism = "SCRAM"
          /\ server' = [server EXCEPT !.exchange = "final"]
          /\ Reply(<<Said("challenge")>>)
       \/ /\ server.exchange = "final" /\ network.good
          /\ server' = [server EXCEPT !.exchange = "done"]
          /\ Reply(<<Said("signature")>>)
       \/ /\ server.exchange = "final" /\ ~network.good
          /\ \/ RefuseLogin(<<>>)
             \/ /\ server' = [server EXCEPT !.exchange = "done"]
                /\ Reply(<<Said("forged")>>)
       \/ /\ server.exchange = "done"
          /\ AcceptLogin
       \/ /\ server.exchange = "idle"
          /\ UNCHANGED <<server, toClient>>

\* AUTHENTICATE * and CAP END both end an exchange that is in flight.
ServerEndsExchange ==
    /\ ServerTakes("AUTHENTICATE-*") \/ ServerTakes("CAP-END")
    /\ LET ended == IF Asked.kind = "CAP-END" THEN FALSE ELSE server.negotiating IN
       \/ /\ server.exchange = "idle"
          /\ server' = [server EXCEPT !.negotiating = ended]
          /\ UNCHANGED toClient
       \/ /\ server.exchange # "idle"
          /\ server' = [server EXCEPT !.negotiating = ended, !.exchange = "idle",
                                      !.refused = TRUE]
          /\ Reply(<<Said("SASLFAIL")>>)

\* What is said before the server has welcomed the client is refused.
ServerHears ==
    /\ ServerTakes("said")
    /\ UNCHANGED <<server, toClient>>

ServerWelcomes ==
    /\ alive /\ server.nick /\ server.user /\ ~server.negotiating /\ ~server.welcomed
    /\ server' = [server EXCEPT !.welcomed = TRUE]
    /\ Reply(<<Said("WELCOME")>>)
    /\ UNCHANGED <<drive, control, alive, session, toServer, greeted, warned,
                   login_failed>>

\* CAP NEW and CAP DEL, once the client has listed the capabilities.
ServerAnnounces ==
    /\ alive /\ server.aware /\ (server.negotiating \/ server.welcomed)
    /\ spent.announcements < MaxAnnouncements
    /\ spent' = [spent EXCEPT !.announcements = @ + 1]
    /\ \E name \in Names :
          \/ /\ name \notin server.offers
             /\ server' = [server EXCEPT !.offers = @ \cup {name}]
             /\ Reply(<<SaidOf("NEW", {name})>>)
          \/ /\ name \in server.offers
             /\ server' = [server EXCEPT !.offers = @ \ {name}]
             /\ Reply(<<SaidOf("DEL", {name})>>)
    /\ UNCHANGED <<network, loop, link, endpoint, policy, control, alive,
                   session, toServer, greeted, warned, login_failed>>

\* The reader identifies with the network's services by hand, once connected.
ServerLogsIn ==
    /\ alive /\ server.welcomed /\ spent.logins < MaxLogins
    /\ spent' = [spent EXCEPT !.logins = @ + 1]
    /\ server' = [server EXCEPT !.account = TRUE]
    /\ Reply(<<Said("LOGGEDIN")>>)
    /\ UNCHANGED <<network, loop, link, endpoint, policy, control, alive,
                   session, toServer, greeted, warned, login_failed>>

ServerActs ==
    \/ ServerListsCaps \/ ServerAnswersRequest \/ ServerTakesNick \/ ServerTakesUser
    \/ ServerStartsExchange \/ ServerReadsPayload \/ ServerEndsExchange
    \/ ServerHears \/ ServerWelcomes

-----------------------------------------------------------------------------

Next ==
    \/ OnConnected \/ OnLine
    \/ Say \/ Quit \/ Stall
    \/ DialSucceeds \/ DialFails \/ LeaveLoop \/ Retry \/ QuitWhileWaiting \/ Connect
    \/ SocketEnds
    \/ ServerActs \/ ServerAnnounces \/ ServerLogsIn

(* The loop takes what is ready, and the server answers what it is asked.  *)
Fairness ==
    /\ WF_vars(OnConnected) /\ WF_vars(OnLine) /\ WF_vars(LeaveLoop)
    /\ WF_vars(ServerActs)

Spec == Init /\ [][Next]_vars
FairSpec == Spec /\ Fairness

-----------------------------------------------------------------------------
(* Properties.                                                             *)

\* A login that is right is the one kind that does not stop the connection.
OnlyABadLoginStops == network.good /\ network.taken = "accepted" => ~login_failed

\* A reader whose account and secret are right is never stopped as if they were
\* not, unless the server announces capabilities: whatever a lost connection left
\* of one exchange, the next one starts afresh (session.rs,
\* reset_connection_state, abort_sasl).
GoodLoginSurvives == spent.announcements = 0 => OnlyABadLoginStops

\* A login the server rejected stops the connection rather than connecting as a
\* stranger (session.rs, abort_sasl).
RefusedIsNotConnected == registered /\ greeted => ~server.refused

\* A reader who set a login and is not known to the server by it has been told
\* so: what an earlier connection was told is not taken for this one's
\* (session.rs, on_welcome).
NeverQuietlyAStranger ==
    registered /\ greeted /\ Mechanism # "NONE" => server.account \/ warned

\* A reader who is connected is known to the server as who they said, or has been
\* told that they are not, and was not turned down (session.rs, abort_sasl,
\* on_welcome).
KnownOrTold == RefusedIsNotConnected /\ NeverQuietlyAStranger

\* Once a server in the clear has said that it is to be spoken to over TLS,
\* nothing more of the registration goes to it (session.rs, handle_sts).
NothingAfterThePolicy ==
    link = "plain" /\ network.sts /\ ~registered =>
        \A i \in DOMAIN toServer :
            toServer[i].kind \notin {"CAP-REQ", "AUTHENTICATE", "payload"}

\* A host with a stored policy is never reached but over verified TLS, by this
\* run or by a later one (task.rs, enforce_stored_sts; session.rs, handle_sts).
PolicyKept == policy => link \in {"none", "verified"}

\* Nothing the server says makes the loop dial again with the session as it was.
NeverUpgraded == network.tls \/ (~network.sts /\ spent.announcements = 0)

\* What was said before this connection was greeted: nothing of its registration
\* is ahead of it, the connection is verified, and it is an upgrade that left the
\* session as it was.
SaidEarly(i) ==
    /\ ~NeverUpgraded /\ link = "verified"
    /\ \A j \in 1..(i - 1) : toServer[j].kind = "said"

\* What the reader says goes to a server that has welcomed them: `registered` of
\* an earlier connection is not taken for this one's.  Where a policy makes the
\* loop dial again with the session as it was, that fails between the dial and
\* its Connected event and nowhere else: what is said then goes to the verified
\* connection, ahead of its greeting, and with the greeting the session stops
\* (dispatch.rs, dispatch; session.rs, registered; task.rs, drive; README,
\* section 7).
SaidOnceRegistered ==
    \A i \in DOMAIN toServer :
        toServer[i].kind = "said" => server.welcomed \/ SaidEarly(i)

\* A registration does not hang on a server that answers: it ends in a
\* connection, in a failure the reader sees, or in another attempt
\* (session.rs, finish_negotiation, on_nick_refused).
RegistrationConcludes == (status = "Registering") ~> (status # "Registering")

-----------------------------------------------------------------------------
(* What comments say of the registration, each refuted by a run, as is     *)
(* OnlyABadLoginStops: "a failure the user can fix by editing the network, *)
(* so it stops the connection" (abort_sasl).                               *)

\* "A session that stopped because it was asked to still has to say so" (drive).
\* The code does not keep it (README, section 7).
StoppedSaysSo == loop = "ended" => status \in {"Disconnected", "Failed"}

\* "the login does not get to erase the refusal" (ircx-ipc, SaslStatus).
\* The code does not keep it (README, section 7).
RefusalKept == [][sasl = "Refused" => sasl' # "Authenticated"]_vars

\* "Everything else needs a server that has finished registering us" (dispatch).
\* The code does not keep it (README, section 7).
SaidIsHeard == \A i \in DOMAIN toServer : toServer[i].kind = "said" => server.welcomed

=============================================================================
