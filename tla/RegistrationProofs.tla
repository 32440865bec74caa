-------------------------- MODULE RegistrationProofs --------------------------
(***************************************************************************)
(* Proofs about Registration, for every mechanism, server, network setting *)
(* and bound: the stored policy, the types, and then, over what is on the  *)
(* wires, who the reader is to the server, whom they speak to, and what a  *)
(* registration in the clear and a login that is right come to.            *)
(***************************************************************************)
EXTENDS Registration, TLAPS

-----------------------------------------------------------------------------
(* The stored policy.  PolicyKept is not inductive: that a transport is    *)
(* verified follows from the settings it was made with, and a policy only  *)
(* ever comes from a transport that is.                                    *)

Verified == endpoint.tls /\ endpoint.verify

PolicyInv ==
    /\ link # "none" => loop = "open" /\ link = LinkOf(endpoint)
    /\ policy => Verified
    /\ sts_verified_transport => Verified

\* A line leaves the transport as it is, and a policy it brings is from a
\* verified one.
LEMMA LinesKeepTransport ==
  ASSUME OnLine
  PROVE  /\ UNCHANGED <<loop, link, endpoint, sts_verified_transport>>
         /\ policy' => policy \/ sts_verified_transport
<1>1. CASE OnLsMore
  BY <1>1 DEF OnLsMore, Take
<1>2. CASE OnLs
  BY <1>2 DEF OnLs, Take, StorePolicy
<1>3. CASE OnAck
  BY <1>3 DEF OnAck, Settles, Take
<1>4. CASE OnNak
  BY <1>4 DEF OnNak, Settles, Take
<1>5. CASE OnNew
  BY <1>5 DEF OnNew, Take, StorePolicy
<1>6. CASE OnDel
  BY <1>6 DEF OnDel, Take
<1>7. CASE OnAuthenticate
  BY <1>7 DEF OnAuthenticate, Take
<1>8. CASE OnLoggedIn
  BY <1>8 DEF OnLoggedIn, Take
<1>9. CASE OnSaslSuccess
  BY <1>9 DEF OnSaslSuccess, Take
<1>10. CASE OnSaslFail
  BY <1>10 DEF OnSaslFail, Take
<1>11. CASE OnSaslMechs
  BY <1>11 DEF OnSaslMechs, Take
<1>12. CASE OnNickRefused
  BY <1>12 DEF OnNickRefused, Take
<1>13. CASE OnWelcome
  BY <1>13 DEF OnWelcome, Take
<1>. QED
  BY <1>1, <1>2, <1>3, <1>4, <1>5, <1>6, <1>7, <1>8, <1>9, <1>10, <1>11, <1>12,
     <1>13 DEF OnLine

\* The server and the wire know nothing of the client's settings.
LEMMA ServerKeepsTransport ==
  ASSUME ServerActs \/ ServerAnnounces \/ ServerLogsIn
  PROVE  UNCHANGED <<network, loop, link, endpoint, policy, sts_verified_transport>>
<1>1. CASE ServerListsCaps
  BY <1>1 DEF ServerListsCaps, ServerTakes, drive, session
<1>2. CASE ServerAnswersRequest
  BY <1>2 DEF ServerAnswersRequest, ServerTakes, drive, session
<1>3. CASE ServerTakesNick
  BY <1>3 DEF ServerTakesNick, ServerTakes, drive, session
<1>4. CASE ServerTakesUser
  BY <1>4 DEF ServerTakesUser, ServerTakes, drive, session
<1>5. CASE ServerStartsExchange
  BY <1>5 DEF ServerStartsExchange, ServerTakes, drive, session
<1>6. CASE ServerReadsPayload
  BY <1>6 DEF ServerReadsPayload, ServerTakes, drive, session
<1>7. CASE ServerEndsExchange
  BY <1>7 DEF ServerEndsExchange, ServerTakes, drive, session
<1>8. CASE ServerHears
  BY <1>8 DEF ServerHears, ServerTakes, drive, session
<1>9. CASE ServerWelcomes
  BY <1>9 DEF ServerWelcomes, drive, session
<1>10. CASE ServerAnnounces
  BY <1>10 DEF ServerAnnounces, session
<1>11. CASE ServerLogsIn
  BY <1>11 DEF ServerLogsIn, session
<1>. QED
  BY <1>1, <1>2, <1>3, <1>4, <1>5, <1>6, <1>7, <1>8, <1>9, <1>10, <1>11
  DEF ServerActs

LEMMA PolicyInit == Init => PolicyInv
  BY DEF Init, PolicyInv

LEMMA PolicyStep == PolicyInv /\ [Next]_vars => PolicyInv'
<1>. SUFFICES ASSUME PolicyInv, [Next]_vars
              PROVE  PolicyInv'
  OBVIOUS
<1>. USE DEF PolicyInv, Verified
<1>1. CASE OnConnected
  BY <1>1 DEF OnConnected, drive, LinkOf
<1>2. CASE OnLine
  BY <1>2, LinesKeepTransport DEF LinkOf
<1>3. CASE Say \/ Quit \/ Stall \/ SocketEnds
  BY <1>3 DEF Say, Quit, Stall, SocketEnds, drive, session, LinkOf
<1>4. CASE DialSucceeds
  BY <1>4 DEF DialSucceeds, session, LinkOf
<1>5. CASE DialFails
  BY <1>5 DEF DialFails, LinkOf
<1>6. CASE LeaveLoop
  BY <1>6 DEF LeaveLoop
<1>7. CASE Retry
  BY <1>7 DEF Retry, LinkOf
<1>8. CASE QuitWhileWaiting
  BY <1>8 DEF QuitWhileWaiting, session, LinkOf
<1>9. CASE Connect
  BY <1>9 DEF Connect, EndpointOf, LinkOf
<1>10. CASE ServerActs \/ ServerAnnounces \/ ServerLogsIn
  BY <1>10, ServerKeepsTransport DEF LinkOf
<1>11. CASE UNCHANGED vars
  BY <1>11 DEF vars, drive, session, LinkOf
<1>. QED
  BY <1>1, <1>2, <1>3, <1>4, <1>5, <1>6, <1>7, <1>8, <1>9, <1>10, <1>11 DEF Next

\* A host with a stored STS policy is never reached but over verified TLS, by
\* this run or by a later one.
THEOREM PolicyCorrect == Spec => []PolicyKept
<1>1. PolicyInv => PolicyKept
  BY DEF PolicyInv, PolicyKept, LinkOf, Verified
<1>. QED
  BY PolicyInit, PolicyStep, <1>1, PTL DEF Spec

-----------------------------------------------------------------------------
(* The types.  That the attempts at a nickname are bounded is not a fact   *)
(* about one step: the attempt past the last one stops the loop, and       *)
(* nothing is read by a loop that was told to stop.                        *)

TypeInv ==
    /\ TypeOK
    /\ nick_attempt <= NickAttempts \/ control = "stop"

CapsStates == [available : SUBSET Names, enabled : SUBSET Names, outstanding : Nat]
SaslStates == {"NotConfigured", "InProgress", "Authenticated", "Refused", "Failed"}

LEMMA NickAttemptsNat == NickAttempts \in Nat
  BY CountsAssumption DEF NickAttempts

\* Sequences of nothing, of one thing, and of what two of them hold.
LEMMA EmptyTyped == \A S : <<>> \in Seq(S)
  OBVIOUS

LEMMA OneTyped == ASSUME NEW S, NEW x \in S PROVE <<x>> \in Seq(S)
  OBVIOUS

LEMMA JoinTyped ==
  ASSUME NEW S, NEW s \in Seq(S), NEW t \in Seq(S)
  PROVE  s \o t \in Seq(S)
  OBVIOUS

\* What the client writes.
LEMMA LineTyped ==
  \A kind \in {"CAP-LS", "NICK", "USER", "CAP-END", "AUTHENTICATE", "AUTHENTICATE-*",
               "payload", "said"} :
     Said(kind) \in FromClient /\ <<Said(kind)>> \in Seq(FromClient)
<1>1. \A kind \in {"CAP-LS", "NICK", "USER", "CAP-END", "AUTHENTICATE", "AUTHENTICATE-*",
                   "payload", "said"} : Said(kind) \in FromClient
  BY DEF Said, FromClient
<1>. QED
  BY <1>1, OneTyped

LEMMA SendTyped ==
  ASSUME toServer \in Seq(FromClient), NEW lines \in Seq(FromClient), Send(lines)
  PROVE  toServer' \in Seq(FromClient)
  BY DEF Send

LEMMA TakeTyped ==
  ASSUME TypeOK, NEW kind, Take(kind)
  PROVE  /\ toClient' \in Seq(FromServer)
         /\ Named \in SUBSET Names
         /\ loop = "open" /\ control = "continue"
         /\ UNCHANGED <<network, loop, link, alive, endpoint, spent, server, greeted>>
<1>1. toClient \in Seq(FromServer) /\ toClient # <<>>
  BY DEF TypeOK, Take
<1>2. Head(toClient) \in FromServer /\ Tail(toClient) \in Seq(FromServer)
  BY <1>1
<1>. QED
  BY <1>2 DEF Take, Named, FromServer

LEMMA CapsTyped ==
  ASSUME TypeOK, NEW names \in SUBSET Names
  PROVE  /\ Offered(names) \in CapsStates
         /\ [Answered(caps) EXCEPT !.enabled = @ \cup names] \in CapsStates
         /\ Answered(caps) \in CapsStates
         /\ \A known \in CapsStates : Requested(known) \in CapsStates
         /\ \A known \in CapsStates : Request(known) \in Seq(FromClient)
<1>1. caps \in CapsStates
  BY DEF TypeOK, CapsStates
<1>2. Offered(names) \in CapsStates /\ Answered(caps) \in CapsStates
  BY <1>1 DEF Offered, Answered, CapsStates
<1>3. [Answered(caps) EXCEPT !.enabled = @ \cup names] \in CapsStates
  BY <1>2 DEF CapsStates
<1>4. \A known \in CapsStates : Requested(known) \in CapsStates
  BY DEF Requested, CapsStates
<1>5. ASSUME NEW known \in CapsStates
      PROVE  Request(known) \in Seq(FromClient)
  <2>1. Wanted(known) \in SUBSET Names
    BY DEF Wanted, Supported, CapsStates
  <2>2. SaidOf("CAP-REQ", Wanted(known)) \in FromClient
    BY <2>1 DEF SaidOf, FromClient
  <2>. QED
    BY <2>2, OneTyped, EmptyTyped DEF Request
<1>. QED
  BY <1>2, <1>3, <1>4, <1>5

LEMMA EndTyped ==
  ASSUME TypeOK, EndNegotiation
  PROVE  cap_ended' \in BOOLEAN /\ toServer' \in Seq(FromClient)
<1>1. (IF cap_ended THEN <<>> ELSE <<Said("CAP-END")>>) \in Seq(FromClient)
  BY LineTyped, EmptyTyped
<1>. QED
  BY <1>1, SendTyped DEF EndNegotiation, TypeOK

LEMMA FinishTyped ==
  ASSUME TypeOK, NEW known, FinishNegotiation(known)
  PROVE  cap_ended' \in BOOLEAN /\ toServer' \in Seq(FromClient) /\ sasl' \in SaslStates
<1>. USE DEF SaslStates
<1>1. CASE cap_ended /\ Send(<<>>) /\ UNCHANGED <<cap_ended, sasl>>
  BY <1>1, SendTyped, EmptyTyped DEF TypeOK
<1>2. CASE sasl' = "InProgress" /\ Send(<<Said("AUTHENTICATE")>>) /\ UNCHANGED cap_ended
  BY <1>2, SendTyped, LineTyped DEF TypeOK
<1>3. CASE /\ sasl' = IF Mechanism = "NONE" THEN sasl ELSE "Failed"
           /\ EndNegotiation
  BY <1>3, EndTyped DEF TypeOK
<1>. QED
  BY <1>1, <1>2, <1>3 DEF FinishNegotiation

\* The types in three groups, for the steps that change much.
DriveTypes ==
    /\ network \in Networks
    /\ loop \in {"dialling", "open", "waiting", "ended"}
    /\ control \in {"continue", "stop", "stalled", "upgrade"}
    /\ link \in {"none", "plain", "unverified", "verified"}
    /\ alive \in BOOLEAN /\ policy \in BOOLEAN /\ greeted \in BOOLEAN
    /\ endpoint \in [tls : BOOLEAN, verify : BOOLEAN]
    /\ spent \in [connections : Nat, announcements : Nat, logins : Nat]

SessionTypes ==
    /\ status \in {"Disconnected", "Connecting", "Registering", "Connected",
                   "Reconnecting", "Failed"}
    /\ caps \in CapsStates /\ cap_ended \in BOOLEAN /\ registered \in BOOLEAN
    /\ sasl \in SaslStates /\ scram \in {"none", "started", "expecting"}
    /\ nick_attempt \in 0..(NickAttempts + 1)
    /\ sts_verified_transport \in BOOLEAN
    /\ warned \in BOOLEAN /\ login_failed \in BOOLEAN
    /\ nick_attempt <= NickAttempts \/ control = "stop"

WireTypes ==
    /\ toServer \in Seq(FromClient) /\ toClient \in Seq(FromServer)
    /\ server \in [aware : BOOLEAN, offers : SUBSET Names, negotiating : BOOLEAN,
                   nick : BOOLEAN, user : BOOLEAN,
                   exchange : {"idle", "payload", "final", "done"},
                   account : BOOLEAN, refused : BOOLEAN, welcomed : BOOLEAN]

LEMMA Grouped == TypeInv <=> DriveTypes /\ SessionTypes /\ WireTypes
  BY DEF TypeInv, TypeOK, DriveTypes, SessionTypes, WireTypes, CapsStates, SaslStates

LEMMA GroupedNext == DriveTypes' /\ SessionTypes' /\ WireTypes' => TypeInv'
  BY DEF TypeInv, TypeOK, DriveTypes, SessionTypes, WireTypes, CapsStates, SaslStates

FreshTypes ==
    /\ caps \in CapsStates /\ cap_ended \in BOOLEAN /\ registered \in BOOLEAN
    /\ sasl \in SaslStates /\ scram \in {"none", "started", "expecting"}
    /\ nick_attempt \in 0..(NickAttempts + 1) /\ nick_attempt <= NickAttempts

LEMMA ResetTyped ==
  ASSUME Reset
  PROVE  FreshTypes'
<1>1. caps' \in CapsStates
  BY DEF Reset, NoCaps, CapsStates
<1>2. sasl' \in SaslStates
  BY DEF Reset, FreshSasl, SaslStates
<1>3. nick_attempt' = 0 /\ 0 \in 0..(NickAttempts + 1) /\ 0 <= NickAttempts
  BY NickAttemptsNat DEF Reset
<1>. QED
  BY <1>1, <1>2, <1>3 DEF Reset, FreshTypes

\* Every line leaves the types as they are, and leaves the loop running unless
\* its handler stops it.
LEMMA LinesTypeInv ==
  ASSUME TypeInv, OnLine
  PROVE  TypeInv'
<1>. USE DEF CapsStates, SaslStates
<1>1. CASE OnLsMore
  <2>1. Take("LS-more") /\ caps' = Offered(Named)
    BY <1>1 DEF OnLsMore
  <2>2. caps' \in CapsStates
    BY <2>1, TakeTyped, CapsTyped DEF TypeInv
  <2>3. UNCHANGED <<control, policy, status, cap_ended, registered, sasl, scram,
                    nick_attempt, sts_verified_transport, toServer, warned,
                    login_failed>>
    BY <1>1 DEF OnLsMore
  <2>4. /\ toClient' \in Seq(FromServer)
        /\ UNCHANGED <<network, loop, link, alive, endpoint, spent, server, greeted>>
    BY <2>1, TakeTyped DEF TypeInv
  <2>. QED
    BY <2>2, <2>3, <2>4 DEF TypeInv, TypeOK
<1>2. CASE OnLs
  <2>. DEFINE known == Offered(Named)
  <2>1. Take("LS") /\ known \in CapsStates
    BY <1>2, TakeTyped, CapsTyped DEF OnLs, TypeInv
  <2>2. caps' \in CapsStates /\ policy' \in BOOLEAN
    <3>1. caps' \in {known, Requested(known)}
      BY <1>2 DEF OnLs
    <3>2. Requested(known) \in CapsStates
      BY <2>1, CapsTyped DEF TypeInv
    <3>3. policy' \in BOOLEAN
      BY <1>2 DEF OnLs, StorePolicy, TypeInv, TypeOK
    <3>. QED
      BY <2>1, <3>1, <3>2, <3>3
  <2>3. cap_ended' \in BOOLEAN /\ toServer' \in Seq(FromClient) /\ sasl' \in SaslStates
    <3>1. CASE UNCHANGED <<cap_ended, sasl, toServer>>
      BY <3>1 DEF TypeInv, TypeOK
    <3>2. CASE FinishNegotiation(known)
      BY <3>2, FinishTyped DEF TypeInv
    <3>3. CASE Send(Request(known)) /\ UNCHANGED <<cap_ended, sasl>>
      <4>1. Request(known) \in Seq(FromClient)
        BY <2>1, CapsTyped DEF TypeInv, Names
      <4>. QED
        BY <3>3, <4>1, SendTyped DEF TypeInv, TypeOK
    <3>. QED
      BY <1>2, <3>1, <3>2, <3>3 DEF OnLs
  <2>4. control' \in {"continue", "upgrade"}
    BY <1>2, <2>1, TakeTyped DEF OnLs, TypeInv
  <2>. QED
    BY <1>2, <2>1, <2>2, <2>3, <2>4, TakeTyped DEF OnLs, TypeInv, TypeOK
<1>3. ASSUME NEW kind, NEW known \in CapsStates, Take(kind), Settles(known)
      PROVE  TypeInv'
  <2>1. cap_ended' \in BOOLEAN /\ toServer' \in Seq(FromClient) /\ sasl' \in SaslStates
    BY <1>3, FinishTyped DEF Settles, TypeInv, TypeOK
  <2>. QED
    BY <1>3, <2>1, TakeTyped DEF Settles, TypeInv, TypeOK
<1>4. CASE OnAck
  <2>1. Take("ACK") /\ [Answered(caps) EXCEPT !.enabled = @ \cup Named] \in CapsStates
    BY <1>4, TakeTyped, CapsTyped DEF OnAck, TypeInv
  <2>. QED
    BY <1>3, <1>4, <2>1 DEF OnAck
<1>5. CASE OnNak
  <2>1. Take("NAK") /\ Answered(caps) \in CapsStates
    BY <1>5, CapsTyped DEF OnNak, TypeInv, Names
  <2>. QED
    BY <1>3, <1>5, <2>1 DEF OnNak
<1>6. CASE OnNew
  <2>. DEFINE known == Offered(Named)
  <2>1. Take("NEW") /\ known \in CapsStates
    BY <1>6, TakeTyped, CapsTyped DEF OnNew, TypeInv
  <2>2. caps' \in CapsStates /\ policy' \in BOOLEAN
    <3>1. caps' \in {known, Requested(known)}
      BY <1>6 DEF OnNew
    <3>2. Requested(known) \in CapsStates
      BY <2>1, CapsTyped DEF TypeInv
    <3>3. policy' \in BOOLEAN
      BY <1>6 DEF OnNew, StorePolicy, TypeInv, TypeOK
    <3>. QED
      BY <2>1, <3>1, <3>2, <3>3
  <2>3. toServer' \in Seq(FromClient)
    <3>1. Request(known) \in Seq(FromClient)
      BY <2>1, CapsTyped DEF TypeInv, Names
    <3>. QED
      BY <1>6, <3>1, SendTyped DEF OnNew, TypeInv, TypeOK
  <2>4. control' \in {"continue", "upgrade"}
    BY <1>6, <2>1, TakeTyped DEF OnNew, TypeInv
  <2>. QED
    BY <1>6, <2>1, <2>2, <2>3, <2>4, TakeTyped DEF OnNew, TypeInv, TypeOK
<1>7. CASE OnDel
  <2>1. Take("DEL") /\ caps' \in CapsStates
    BY <1>7, TakeTyped DEF OnDel, TypeInv, TypeOK
  <2>. QED
    BY <1>7, <2>1, TakeTyped DEF OnDel, TypeInv, TypeOK
<1>8. CASE OnAuthenticate
  <2>1. PICK kind : Take(kind)
    BY <1>8 DEF OnAuthenticate
  <2>. DEFINE Typed ==
         /\ toServer' \in Seq(FromClient) /\ sasl' \in SaslStates
         /\ scram' \in {"none", "started", "expecting"} /\ login_failed' \in BOOLEAN
         /\ control' \in {"continue", "stop"} /\ status' \in {status, "Failed"}
  <2>2. Typed
    <3>1. ASSUME NEW next \in {"none", "started", "expecting"}, Answers(next)
          PROVE  Typed
      BY <2>1, <3>1, SendTyped, LineTyped, TakeTyped DEF Answers, TypeInv, TypeOK
    <3>2. CASE AbortScram
      BY <3>2, SendTyped, LineTyped DEF AbortScram, AbortSasl, TypeInv, TypeOK
    <3>. QED
      BY <1>8, <3>1, <3>2 DEF OnAuthenticate, TypeInv, TypeOK
  <2>3. UNCHANGED <<policy, caps, cap_ended, registered, nick_attempt,
                    sts_verified_transport, warned>>
    BY <1>8 DEF OnAuthenticate
  <2>4. /\ toClient' \in Seq(FromServer) /\ control = "continue"
        /\ UNCHANGED <<network, loop, link, alive, endpoint, spent, server, greeted>>
    BY <2>1, TakeTyped DEF TypeInv
  <2>. QED
    BY <2>2, <2>3, <2>4 DEF TypeInv, TypeOK
<1>9. CASE OnLoggedIn
  BY <1>9, TakeTyped DEF OnLoggedIn, TypeInv, TypeOK
<1>10. CASE OnSaslSuccess
  <2>1. PICK kind : Take(kind)
    BY <1>10 DEF OnSaslSuccess
  <2>. QED
    BY <1>10, <2>1, TakeTyped, EndTyped DEF OnSaslSuccess, TypeInv, TypeOK
<1>11. CASE OnSaslFail
  BY <1>11, TakeTyped DEF OnSaslFail, AbortSasl, TypeInv, TypeOK
<1>12. CASE OnSaslMechs
  BY <1>12, TakeTyped, EndTyped DEF OnSaslMechs, TypeInv, TypeOK
<1>13. CASE OnNickRefused
  <2>1. Take("NICKREFUSED") /\ nick_attempt' = nick_attempt + 1
    BY <1>13 DEF OnNickRefused
  <2>2. nick_attempt \in Nat /\ nick_attempt <= NickAttempts
    BY <2>1, TakeTyped, NickAttemptsNat DEF TypeInv, TypeOK
  <2>3. toServer' \in Seq(FromClient)
    BY <1>13, SendTyped, LineTyped DEF OnNickRefused, TypeInv, TypeOK
  <2>4. nick_attempt' \in 0..(NickAttempts + 1)
    BY <2>1, <2>2, NickAttemptsNat
  <2>5. nick_attempt' <= NickAttempts \/ control' = "stop"
    BY <1>13, <2>1, <2>2, NickAttemptsNat DEF OnNickRefused
  <2>. QED
    BY <1>13, <2>1, <2>3, <2>4, <2>5, TakeTyped DEF OnNickRefused, TypeInv, TypeOK
<1>14. CASE OnWelcome
  BY <1>14, TakeTyped DEF OnWelcome, TypeInv, TypeOK
<1>. QED
  BY <1>1, <1>2, <1>4, <1>5, <1>6, <1>7, <1>8, <1>9, <1>10, <1>11, <1>12, <1>13,
     <1>14 DEF OnLine

-----------------------------------------------------------------------------
(* The server's steps: each says something, and notes something of itself. *)

ServerStates ==
    [aware : BOOLEAN, offers : SUBSET Names, negotiating : BOOLEAN, nick : BOOLEAN,
     user : BOOLEAN, exchange : {"idle", "payload", "final", "done"},
     account : BOOLEAN, refused : BOOLEAN, welcomed : BOOLEAN]

LEMMA AppendTyped ==
  ASSUME NEW S, NEW s \in Seq(S), NEW x \in S
  PROVE  Append(s, x) \in Seq(S)
OBVIOUS

LEMMA ThreeTyped ==
  ASSUME NEW S, NEW x \in S, NEW y \in S, NEW z \in S
  PROVE  <<x, y, z>> \in Seq(S)
<1>1. <<x, y>> \in Seq(S)
  OBVIOUS
<1>2. Append(<<x, y>>, z) \in Seq(S)
  BY <1>1, AppendTyped
<1>3. <<x, y, z>> = Append(<<x, y>>, z)
  OBVIOUS
<1>. QED
  BY <1>2, <1>3

LEMMA AnswerTyped ==
  \A kind \in {"AUTHENTICATE-+", "challenge", "signature", "forged", "LOGGEDIN",
               "SASLSUCCESS", "SASLFAIL", "SASLMECHS", "SASLALREADY", "NICKREFUSED",
               "WELCOME"} :
     Said(kind) \in FromServer /\ <<Said(kind)>> \in Seq(FromServer)
<1>1. \A kind \in {"AUTHENTICATE-+", "challenge", "signature", "forged", "LOGGEDIN",
                   "SASLSUCCESS", "SASLFAIL", "SASLMECHS", "SASLALREADY",
                   "NICKREFUSED", "WELCOME"} : Said(kind) \in FromServer
  BY DEF Said, FromServer
<1>. QED
  BY <1>1, OneTyped

LEMMA NamesTyped ==
  \A kind \in {"LS-more", "LS", "ACK", "NAK", "NEW", "DEL"} :
     \A names \in SUBSET Names :
        /\ SaidOf(kind, names) \in FromServer
        /\ <<SaidOf(kind, names)>> \in Seq(FromServer)
<1>1. \A kind \in {"LS-more", "LS", "ACK", "NAK", "NEW", "DEL"} :
         \A names \in SUBSET Names : SaidOf(kind, names) \in FromServer
  BY DEF SaidOf, FromServer
<1>. QED
  BY <1>1, OneTyped

LEMMA ReplyTyped ==
  ASSUME TypeOK, NEW messages \in Seq(FromServer), Reply(messages)
  PROVE  toClient' \in Seq(FromServer)
<1>1. toClient \in Seq(FromServer)
  BY DEF TypeOK
<1>. QED
  BY <1>1, JoinTyped DEF Reply

LEMMA ServerTakesTyped ==
  ASSUME TypeOK, NEW kind, ServerTakes(kind)
  PROVE  /\ toServer' \in Seq(FromClient)
         /\ Asked.names \in SUBSET Names
<1>1. toServer \in Seq(FromClient) /\ toServer # <<>>
  BY DEF TypeOK, ServerTakes
<1>2. Head(toServer) \in FromClient /\ Tail(toServer) \in Seq(FromClient)
  BY <1>1
<1>. QED
  BY <1>2 DEF ServerTakes, Asked, FromClient

\* An exchange that is refused, or accepted.
LEMMA LoginTyped ==
  ASSUME TypeOK
  PROVE  /\ \A messages \in Seq(FromServer) :
               RefuseLogin(messages) => server' \in ServerStates /\ toClient' \in Seq(FromServer)
         /\ AcceptLogin => server' \in ServerStates /\ toClient' \in Seq(FromServer)
<1>1. server \in ServerStates
  BY DEF TypeOK, ServerStates
<1>2. ASSUME NEW messages \in Seq(FromServer), RefuseLogin(messages)
      PROVE  server' \in ServerStates /\ toClient' \in Seq(FromServer)
  <2>1. Append(messages, Said("SASLFAIL")) \in Seq(FromServer)
    BY AnswerTyped, AppendTyped
  <2>. QED
    BY <1>1, <1>2, <2>1, ReplyTyped DEF RefuseLogin, ServerStates
<1>3. ASSUME AcceptLogin
      PROVE  server' \in ServerStates /\ toClient' \in Seq(FromServer)
  <2>1. <<Said("LOGGEDIN"), Said("SASLSUCCESS")>> =
            <<Said("LOGGEDIN")>> \o <<Said("SASLSUCCESS")>>
    OBVIOUS
  <2>2. <<Said("LOGGEDIN"), Said("SASLSUCCESS")>> \in Seq(FromServer)
    BY <2>1, AnswerTyped, JoinTyped
  <2>. QED
    BY <1>1, <1>3, <2>2, ReplyTyped DEF AcceptLogin, ServerStates
<1>. QED
  BY <1>2, <1>3

LEMMA ServerTyped ==
  ASSUME TypeOK, ServerActs \/ ServerAnnounces \/ ServerLogsIn
  PROVE  server' \in ServerStates /\ toClient' \in Seq(FromServer)
<1>1. server \in ServerStates /\ toClient \in Seq(FromServer)
  BY DEF TypeOK, ServerStates
<1>2. CASE ServerListsCaps
  <2>1. CASE UNCHANGED <<server, toClient>>
    BY <1>1, <2>1
  <2>2. CASE ~(UNCHANGED <<server, toClient>>)
    <3>1. PICK offers \in SUBSET Supported :
            LET all == offers \cup (IF network.sts THEN {"sts"} ELSE {}) IN
            /\ server' = [server EXCEPT !.negotiating = TRUE, !.offers = all]
            /\ \E first \in SUBSET all :
                  Reply((IF first = {} THEN <<>> ELSE <<SaidOf("LS-more", first)>>)
                        \o <<SaidOf("LS", all \ first)>>)
      BY <1>2, <2>2 DEF ServerListsCaps
    <3>. DEFINE all == offers \cup (IF network.sts THEN {"sts"} ELSE {})
    <3>2. all \in SUBSET Names
      BY DEF Supported, Names
    <3>3. PICK first \in SUBSET all :
            Reply((IF first = {} THEN <<>> ELSE <<SaidOf("LS-more", first)>>)
                  \o <<SaidOf("LS", all \ first)>>)
      BY <3>1
    <3>4. (IF first = {} THEN <<>> ELSE <<SaidOf("LS-more", first)>>) \in Seq(FromServer)
      BY <3>2, NamesTyped, EmptyTyped
    <3>5. <<SaidOf("LS", all \ first)>> \in Seq(FromServer)
      BY <3>2, NamesTyped
    <3>6. (IF first = {} THEN <<>> ELSE <<SaidOf("LS-more", first)>>)
             \o <<SaidOf("LS", all \ first)>> \in Seq(FromServer)
      BY <3>4, <3>5, JoinTyped
    <3>7. server' \in ServerStates
      BY <1>1, <3>1, <3>2 DEF ServerStates
    <3>. QED
      BY <3>3, <3>6, <3>7, ReplyTyped
  <2>. QED
    BY <2>1, <2>2
<1>3. CASE ServerAnswersRequest
  <2>1. Asked.names \in SUBSET Names
    BY <1>3, ServerTakesTyped DEF ServerAnswersRequest
  <2>2. /\ <<SaidOf("ACK", Asked.names)>> \in Seq(FromServer)
        /\ <<SaidOf("NAK", Asked.names)>> \in Seq(FromServer)
    BY <2>1, NamesTyped
  <2>. QED
    BY <1>1, <1>3, <2>2, ReplyTyped DEF ServerAnswersRequest
<1>4. CASE ServerTakesNick
  BY <1>1, <1>4, AnswerTyped, ReplyTyped DEF ServerTakesNick, ServerStates
<1>5. CASE ServerTakesUser
  BY <1>1, <1>5 DEF ServerTakesUser, ServerStates
<1>6. CASE ServerStartsExchange
  BY <1>1, <1>6, AnswerTyped, EmptyTyped, LoginTyped, ReplyTyped
  DEF ServerStartsExchange, ServerStates
<1>7. CASE ServerReadsPayload
  BY <1>1, <1>7, AnswerTyped, EmptyTyped, LoginTyped, ReplyTyped
  DEF ServerReadsPayload, ServerStates
<1>8. CASE ServerEndsExchange
  BY <1>1, <1>8, AnswerTyped, ReplyTyped DEF ServerEndsExchange, ServerStates
<1>9. CASE ServerHears
  BY <1>1, <1>9 DEF ServerHears
<1>10. CASE ServerWelcomes
  BY <1>1, <1>10, AnswerTyped, ReplyTyped DEF ServerWelcomes, ServerStates
<1>11. CASE ServerAnnounces
  <2>1. PICK name \in Names :
          \/ /\ server' = [server EXCEPT !.offers = @ \cup {name}]
             /\ Reply(<<SaidOf("NEW", {name})>>)
          \/ /\ server' = [server EXCEPT !.offers = @ \ {name}]
             /\ Reply(<<SaidOf("DEL", {name})>>)
    BY <1>11 DEF ServerAnnounces
  <2>2. /\ <<SaidOf("NEW", {name})>> \in Seq(FromServer)
        /\ <<SaidOf("DEL", {name})>> \in Seq(FromServer)
    BY NamesTyped
  <2>3. server' \in ServerStates
    BY <1>1, <2>1 DEF ServerStates
  <2>. QED
    BY <2>1, <2>2, <2>3, ReplyTyped
<1>12. CASE ServerLogsIn
  BY <1>1, <1>12, AnswerTyped, ReplyTyped DEF ServerLogsIn, ServerStates
<1>. QED
  BY <1>2, <1>3, <1>4, <1>5, <1>6, <1>7, <1>8, <1>9, <1>10, <1>11, <1>12
  DEF ServerActs

LEMMA TypeInit == Init => TypeInv
<1>. SUFFICES ASSUME Init PROVE TypeInv
  OBVIOUS
<1>1. caps \in CapsStates /\ sasl \in SaslStates
  BY DEF Init, NoCaps, FreshSasl, CapsStates, SaslStates
<1>2. server \in ServerStates
  BY DEF Init, FreshServer, ServerStates
<1>3. endpoint \in [tls : BOOLEAN, verify : BOOLEAN]
  BY NetworksAssumption DEF Init, EndpointOf, Profiles
<1>4. nick_attempt \in 0..(NickAttempts + 1) /\ nick_attempt <= NickAttempts
  BY NickAttemptsNat DEF Init
<1>5. spent \in [connections : Nat, announcements : Nat, logins : Nat]
  BY DEF Init
<1>6. toServer \in Seq(FromClient) /\ toClient \in Seq(FromServer)
  BY EmptyTyped DEF Init
<1>. QED
  BY <1>1, <1>2, <1>3, <1>4, <1>5, <1>6
  DEF Init, TypeInv, TypeOK, CapsStates, SaslStates, ServerStates

LEMMA TypeStep == TypeInv /\ [Next]_vars => TypeInv'
<1>. SUFFICES ASSUME TypeInv, [Next]_vars
              PROVE  TypeInv'
  OBVIOUS
<1>. USE DEF CapsStates, SaslStates, ServerStates, FreshTypes
<1>1. CASE OnConnected
  <2>1. \A kind \in {"CAP-LS", "NICK", "USER"} : Said(kind) \in FromClient
    BY DEF Said, FromClient
  <2>2. <<Said("CAP-LS"), Said("NICK"), Said("USER")>> \in Seq(FromClient)
    BY <2>1, ThreeTyped
  <2>3. toServer' \in Seq(FromClient)
    BY <1>1, <2>2, SendTyped DEF OnConnected, TypeInv, TypeOK
  <2>4. Reset
    BY <1>1 DEF OnConnected
  <2>5. sts_verified_transport' \in BOOLEAN
    BY <1>1 DEF OnConnected
  <2>6. FreshTypes'
    BY <2>4, ResetTyped
  <2>7. /\ UNCHANGED <<network, loop, link, endpoint, policy, spent, control, alive, toClient,
                       server, login_failed>>
        /\ status' = "Registering" /\ greeted' = TRUE /\ warned' = FALSE
    BY <1>1 DEF OnConnected, drive
  <2>8. DriveTypes'
    BY <2>7, Grouped DEF DriveTypes
  <2>9. SessionTypes'
    BY <2>5, <2>6, <2>7, Grouped DEF SessionTypes
  <2>10. WireTypes'
    BY <2>3, <2>7, Grouped DEF WireTypes
  <2>. QED
    BY <2>8, <2>9, <2>10, GroupedNext
<1>2. CASE OnLine
  BY <1>2, LinesTypeInv
<1>3. CASE Say
  <2>1. toServer' \in Seq(FromClient)
    BY <1>3, LineTyped, SendTyped DEF Say, TypeInv, TypeOK
  <2>. QED
    BY <1>3, <2>1 DEF Say, TypeInv, TypeOK, drive, session
<1>4. CASE Quit
  BY <1>4 DEF Quit, TypeInv, TypeOK, drive, session
<1>5. CASE Stall
  BY <1>5 DEF Stall, TypeInv, TypeOK, drive, session
<1>6. CASE DialSucceeds
  <2>1. server' \in ServerStates
    BY <1>6 DEF DialSucceeds, FreshServer
  <2>2. spent' \in [connections : Nat, announcements : Nat, logins : Nat]
    BY <1>6 DEF DialSucceeds, TypeInv, TypeOK
  <2>3. link' \in {"plain", "unverified", "verified"}
    BY <1>6 DEF DialSucceeds, LinkOf
  <2>. QED
    BY <1>6, <2>1, <2>2, <2>3 DEF DialSucceeds, TypeInv, TypeOK, session
<1>7. CASE DialFails
  <2>1. FreshTypes'
    BY <1>7, ResetTyped DEF DialFails
  <2>2. /\ loop' = "waiting" /\ status' = "Reconnecting"
        /\ sts_verified_transport' = FALSE
        /\ UNCHANGED <<network, control, alive, link, endpoint, policy, spent, toServer,
                       toClient, server, greeted, warned, login_failed>>
    BY <1>7 DEF DialFails
  <2>3. DriveTypes'
    BY <2>2, Grouped DEF DriveTypes
  <2>4. SessionTypes'
    BY <2>1, <2>2, Grouped DEF SessionTypes
  <2>5. WireTypes'
    BY <2>2, Grouped DEF WireTypes
  <2>. QED
    BY <2>3, <2>4, <2>5, GroupedNext
<1>8. CASE LeaveLoop
  <2>1. server' \in ServerStates
    BY <1>8 DEF LeaveLoop, FreshServer
  <2>2. toServer' \in Seq(FromClient) /\ toClient' \in Seq(FromServer)
    BY <1>8, EmptyTyped DEF LeaveLoop
  <2>3. WireTypes'
    BY <2>1, <2>2 DEF WireTypes
  <2>4. /\ link' = "none" /\ alive' = FALSE /\ greeted' = FALSE
        /\ control' = "continue"
        /\ UNCHANGED <<network, policy, spent, warned, login_failed>>
    BY <1>8 DEF LeaveLoop
  <2>5. CASE control = "upgrade"
    <3>1. /\ endpoint' = [tls |-> TRUE, verify |-> TRUE]
          /\ loop' = "dialling" /\ status' = "Connecting"
          /\ UNCHANGED <<caps, cap_ended, registered, sasl, scram, nick_attempt,
                         sts_verified_transport>>
      BY <1>8, <2>5 DEF LeaveLoop
    <3>2. endpoint' \in [tls : BOOLEAN, verify : BOOLEAN]
      BY <3>1
    <3>3. DriveTypes'
      BY <2>4, <3>1, <3>2, Grouped DEF DriveTypes
    <3>4. nick_attempt' <= NickAttempts
      BY <2>5, <3>1, Grouped DEF SessionTypes
    <3>5. SessionTypes'
      BY <2>4, <3>1, <3>4, Grouped DEF SessionTypes
    <3>. QED
      BY <2>3, <3>3, <3>5, GroupedNext
  <2>6. CASE control # "upgrade"
    <3>1. /\ Reset /\ sts_verified_transport' = FALSE /\ UNCHANGED endpoint
          /\ loop' \in {"ended", "waiting"}
          /\ status' \in {"Disconnected", "Reconnecting"}
      BY <1>8, <2>6 DEF LeaveLoop
    <3>2. FreshTypes'
      BY <3>1, ResetTyped
    <3>3. DriveTypes'
      BY <2>4, <3>1, Grouped DEF DriveTypes
    <3>4. SessionTypes'
      BY <2>4, <3>1, <3>2, Grouped DEF SessionTypes
    <3>. QED
      BY <2>3, <3>3, <3>4, GroupedNext
  <2>. QED
    BY <2>5, <2>6
<1>9. CASE Retry
  BY <1>9 DEF Retry, TypeInv, TypeOK
<1>10. CASE QuitWhileWaiting
  BY <1>10 DEF QuitWhileWaiting, TypeInv, TypeOK, session
<1>11. CASE Connect
  <2>1. endpoint' \in [tls : BOOLEAN, verify : BOOLEAN]
    BY <1>11, NetworksAssumption DEF Connect, EndpointOf, Profiles, TypeInv, TypeOK
  <2>2. FreshTypes'
    BY <1>11, ResetTyped DEF Connect
  <2>3. /\ loop' = "dialling" /\ status' = "Connecting"
        /\ sts_verified_transport' = FALSE
        /\ login_failed' = FALSE /\ warned' = FALSE
        /\ UNCHANGED <<network, control, alive, link, policy, spent, toServer, toClient, server,
                       greeted>>
    BY <1>11 DEF Connect
  <2>4. DriveTypes'
    BY <2>1, <2>3, Grouped DEF DriveTypes
  <2>5. SessionTypes'
    BY <2>2, <2>3, Grouped DEF SessionTypes
  <2>6. WireTypes'
    BY <2>3, Grouped DEF WireTypes
  <2>. QED
    BY <2>4, <2>5, <2>6, GroupedNext
<1>12. CASE SocketEnds
  <2>1. toServer' \in Seq(FromClient)
    BY <1>12, EmptyTyped DEF SocketEnds
  <2>2. DriveTypes'
    BY <1>12, Grouped DEF SocketEnds, DriveTypes, drive
  <2>3. SessionTypes'
    BY <1>12, Grouped DEF SocketEnds, SessionTypes, session
  <2>4. WireTypes'
    BY <1>12, <2>1, Grouped DEF SocketEnds, WireTypes
  <2>. QED
    BY <2>2, <2>3, <2>4, GroupedNext
<1>13. CASE ServerActs \/ ServerAnnounces \/ ServerLogsIn
  <2>1. server' \in ServerStates /\ toClient' \in Seq(FromServer)
    BY <1>13, ServerTyped DEF TypeInv
  <2>2. /\ toServer' \in Seq(FromClient)
        /\ spent' \in [connections : Nat, announcements : Nat, logins : Nat]
        /\ UNCHANGED <<control, alive, session, greeted, warned, login_failed>>
    <3>1. CASE ServerAnnounces \/ ServerLogsIn
      BY <3>1 DEF ServerAnnounces, ServerLogsIn, TypeInv, TypeOK
    <3>2. CASE ServerWelcomes
      BY <3>2 DEF ServerWelcomes, drive, TypeInv, TypeOK
    <3>3. ASSUME NEW kind, ServerTakes(kind)
          PROVE  <<toServer', spent', control', alive', session', greeted', warned',
                   login_failed'>> =
                 <<Tail(toServer), spent, control, alive, session, greeted, warned,
                   login_failed>>
      BY <3>3 DEF ServerTakes, drive
    <3>4. CASE \E kind : ServerTakes(kind)
      BY <3>3, <3>4, ServerTakesTyped DEF TypeInv, TypeOK
    <3>. QED
      BY <1>13, <3>1, <3>2, <3>4
      DEF ServerActs, ServerListsCaps, ServerAnswersRequest, ServerTakesNick,
          ServerTakesUser, ServerStartsExchange, ServerReadsPayload,
          ServerEndsExchange, ServerHears
  <2>3. UNCHANGED <<network, loop, link, endpoint, policy>>
    BY <1>13, ServerKeepsTransport
  <2>. QED
    BY <2>1, <2>2, <2>3 DEF TypeInv, TypeOK, session
<1>14. CASE UNCHANGED vars
  BY <1>14 DEF vars, drive, session, TypeInv, TypeOK
<1>. QED
  BY <1>1, <1>2, <1>3, <1>4, <1>5, <1>6, <1>7, <1>8, <1>9, <1>10, <1>11, <1>12,
     <1>13, <1>14 DEF Next

\* Type correctness; with it, a registration tries no more nicknames than it
\* has, and no CAP answer takes the count of requests below zero.
THEOREM RegistrationTypeCorrect == Spec => []TypeOK
<1>1. TypeInv => TypeOK
  BY DEF TypeInv
<1>. QED
  BY TypeInit, TypeStep, <1>1, PTL DEF Spec

-----------------------------------------------------------------------------
(* What is on a wire: none of some kinds, one of a kind and no other of its *)
(* kinds, one kind before any of another, and nothing of the negotiation    *)
(* after its end.                                                           *)

Lacks(s, kinds) == \A i \in 1..Len(s) : s[i].kind \notin kinds
Sole(s, kinds, kind) ==
    \E i \in 1..Len(s) :
        /\ s[i].kind = kind
        /\ \A j \in 1..Len(s) : j # i => s[j].kind \notin kinds
Before(s, first, then) ==
    \E i \in 1..Len(s) :
        /\ s[i].kind = first
        /\ \A j \in 1..Len(s) : j < i => s[j].kind # then
Closes(s) ==
    \A i, j \in 1..Len(s) :
        i < j /\ s[i].kind = "CAP-END" => s[j].kind \notin {"CAP-END", "AUTHENTICATE"}

\* What is left of a wire, and what two parts of it make, place by place.
LEMMA TailAt ==
  ASSUME NEW S, NEW s \in Seq(S), s # <<>>
  PROVE  /\ Len(s) \in Nat \ {0} /\ Head(s) = s[1]
         /\ Tail(s) \in Seq(S) /\ Len(Tail(s)) = Len(s) - 1
         /\ \A i \in 1..Len(Tail(s)) : i + 1 \in 1..Len(s) /\ Tail(s)[i] = s[i + 1]
OBVIOUS

LEMMA JoinAt ==
  ASSUME NEW S, NEW s \in Seq(S), NEW t \in Seq(S)
  PROVE  /\ Len(s) \in Nat /\ Len(t) \in Nat
         /\ s \o t \in Seq(S) /\ Len(s \o t) = Len(s) + Len(t)
         /\ \A i \in 1..Len(s) : (s \o t)[i] = s[i]
         /\ \A i \in 1..Len(t) : Len(s) + i \in 1..Len(s \o t) /\ (s \o t)[Len(s) + i] = t[i]
         /\ \A i \in 1..Len(s \o t) :
               \/ i \in 1..Len(s) /\ (s \o t)[i] = s[i]
               \/ i - Len(s) \in 1..Len(t) /\ (s \o t)[i] = t[i - Len(s)]
OBVIOUS

LEMMA LacksTail ==
  ASSUME NEW S, NEW s \in Seq(S), s # <<>>, NEW kinds, Lacks(s, kinds)
  PROVE  Lacks(Tail(s), kinds) /\ Head(s).kind \notin kinds
BY TailAt DEF Lacks

LEMMA LacksJoin ==
  ASSUME NEW S, NEW s \in Seq(S), NEW t \in Seq(S), NEW kinds, Lacks(s, kinds), Lacks(t, kinds)
  PROVE  Lacks(s \o t, kinds)
BY JoinAt DEF Lacks

LEMMA SoleTail ==
  ASSUME NEW S, NEW s \in Seq(S), s # <<>>, NEW kinds, NEW kind \in kinds, Sole(s, kinds, kind)
  PROVE  /\ Head(s).kind \in kinds => Head(s).kind = kind /\ Lacks(Tail(s), kinds)
         /\ Head(s).kind \notin kinds => Sole(Tail(s), kinds, kind)
<1>1. PICK i \in 1..Len(s) :
        /\ s[i].kind = kind
        /\ \A j \in 1..Len(s) : j # i => s[j].kind \notin kinds
  BY DEF Sole
<1>2. CASE i = 1
  BY <1>1, <1>2, TailAt DEF Lacks
<1>3. CASE i # 1
  <2>1. i - 1 \in 1..Len(Tail(s)) /\ Tail(s)[i - 1] = s[i]
    BY <1>3, TailAt
  <2>2. \A j \in 1..Len(Tail(s)) : j # i - 1 => Tail(s)[j].kind \notin kinds
    BY <1>1, TailAt
  <2>3. Sole(Tail(s), kinds, kind)
    BY <1>1, <2>1, <2>2 DEF Sole
  <2>4. Head(s).kind \notin kinds
    BY <1>1, <1>3, TailAt
  <2>. QED
    BY <2>3, <2>4
<1>. QED
  BY <1>2, <1>3

LEMMA SoleJoin ==
  ASSUME NEW S, NEW s \in Seq(S), NEW t \in Seq(S), NEW kinds, NEW kind \in kinds
  PROVE  /\ Sole(s, kinds, kind) /\ Lacks(t, kinds) => Sole(s \o t, kinds, kind)
         /\ Lacks(s, kinds) /\ Sole(t, kinds, kind) => Sole(s \o t, kinds, kind)
<1>1. ASSUME Sole(s, kinds, kind), Lacks(t, kinds)
      PROVE  Sole(s \o t, kinds, kind)
  <2>1. PICK i \in 1..Len(s) :
          /\ s[i].kind = kind
          /\ \A j \in 1..Len(s) : j # i => s[j].kind \notin kinds
    BY <1>1 DEF Sole
  <2>2. i \in 1..Len(s \o t) /\ (s \o t)[i].kind = kind
    BY <2>1, JoinAt
  <2>3. \A j \in 1..Len(s \o t) : j # i => (s \o t)[j].kind \notin kinds
    BY <1>1, <2>1, JoinAt DEF Lacks
  <2>. QED
    BY <2>2, <2>3 DEF Sole
<1>2. ASSUME Lacks(s, kinds), Sole(t, kinds, kind)
      PROVE  Sole(s \o t, kinds, kind)
  <2>1. PICK i \in 1..Len(t) :
          /\ t[i].kind = kind
          /\ \A j \in 1..Len(t) : j # i => t[j].kind \notin kinds
    BY <1>2 DEF Sole
  <2>2. Len(s) + i \in 1..Len(s \o t) /\ (s \o t)[Len(s) + i].kind = kind
    BY <2>1, JoinAt
  <2>3. ASSUME NEW j \in 1..Len(s \o t), j # Len(s) + i
        PROVE  (s \o t)[j].kind \notin kinds
    <3>1. CASE j \in 1..Len(s)
      BY <1>2, <3>1, JoinAt DEF Lacks
    <3>2. CASE j - Len(s) \in 1..Len(t) /\ (s \o t)[j] = t[j - Len(s)]
      <4>1. j - Len(s) # i
        BY <2>3, JoinAt
      <4>. QED
        BY <2>1, <3>2, <4>1
    <3>. QED
      BY <3>1, <3>2, JoinAt
  <2>. QED
    BY <2>2, <2>3 DEF Sole
<1>. QED
  BY <1>1, <1>2

LEMMA BeforeTail ==
  ASSUME NEW S, NEW s \in Seq(S), s # <<>>, NEW first, NEW then, first # then, Before(s, first, then)
  PROVE  /\ Head(s).kind # then
         /\ Head(s).kind # first => Before(Tail(s), first, then)
<1>1. PICK i \in 1..Len(s) :
        /\ s[i].kind = first
        /\ \A j \in 1..Len(s) : j < i => s[j].kind # then
  BY DEF Before
<1>2. CASE i = 1
  BY <1>1, <1>2, TailAt
<1>3. CASE i # 1
  <2>1. i - 1 \in 1..Len(Tail(s)) /\ Tail(s)[i - 1] = s[i]
    BY <1>3, TailAt
  <2>2. \A j \in 1..Len(Tail(s)) : j < i - 1 => Tail(s)[j].kind # then
    BY <1>1, TailAt
  <2>3. Before(Tail(s), first, then)
    BY <1>1, <2>1, <2>2 DEF Before
  <2>4. Head(s).kind # then
    BY <1>1, <1>3, TailAt
  <2>. QED
    BY <2>3, <2>4
<1>. QED
  BY <1>2, <1>3

LEMMA BeforeJoin ==
  ASSUME NEW S, NEW s \in Seq(S), NEW t \in Seq(S), NEW first, NEW then
  PROVE  /\ Before(s, first, then) => Before(s \o t, first, then)
         /\ Lacks(s, {then}) /\ Before(t, first, then) => Before(s \o t, first, then)
<1>1. ASSUME Before(s, first, then)
      PROVE  Before(s \o t, first, then)
  <2>1. PICK i \in 1..Len(s) :
          /\ s[i].kind = first
          /\ \A j \in 1..Len(s) : j < i => s[j].kind # then
    BY <1>1 DEF Before
  <2>2. i \in 1..Len(s \o t) /\ (s \o t)[i].kind = first
    BY <2>1, JoinAt
  <2>3. \A j \in 1..Len(s \o t) : j < i => (s \o t)[j].kind # then
    BY <2>1, JoinAt
  <2>. QED
    BY <2>2, <2>3 DEF Before
<1>2. ASSUME Lacks(s, {then}), Before(t, first, then)
      PROVE  Before(s \o t, first, then)
  <2>1. PICK i \in 1..Len(t) :
          /\ t[i].kind = first
          /\ \A j \in 1..Len(t) : j < i => t[j].kind # then
    BY <1>2 DEF Before
  <2>2. Len(s) + i \in 1..Len(s \o t) /\ (s \o t)[Len(s) + i].kind = first
    BY <2>1, JoinAt
  <2>3. ASSUME NEW j \in 1..Len(s \o t), j < Len(s) + i
        PROVE  (s \o t)[j].kind # then
    <3>1. CASE j \in 1..Len(s)
      BY <1>2, <3>1, JoinAt DEF Lacks
    <3>2. CASE j - Len(s) \in 1..Len(t) /\ (s \o t)[j] = t[j - Len(s)]
      <4>1. j - Len(s) < i
        BY <2>3, JoinAt
      <4>. QED
        BY <2>1, <3>2, <4>1
    <3>. QED
      BY <3>1, <3>2, JoinAt
  <2>. QED
    BY <2>2, <2>3 DEF Before
<1>. QED
  BY <1>1, <1>2

LEMMA ClosesTail ==
  ASSUME NEW S, NEW s \in Seq(S), s # <<>>, Closes(s)
  PROVE  /\ Closes(Tail(s))
         /\ Head(s).kind = "CAP-END" => Lacks(Tail(s), {"CAP-END", "AUTHENTICATE"})
<1>1. ASSUME NEW i \in 1..Len(Tail(s)), NEW j \in 1..Len(Tail(s)), i < j,
             Tail(s)[i].kind = "CAP-END"
      PROVE  Tail(s)[j].kind \notin {"CAP-END", "AUTHENTICATE"}
  <2>1. i + 1 \in 1..Len(s) /\ j + 1 \in 1..Len(s)
    BY TailAt
  <2>0. Len(Tail(s)) \in Nat
    BY TailAt
  <2>2. i + 1 < j + 1
    BY <1>1, <2>0
  <2>3. Tail(s)[i] = s[i + 1] /\ Tail(s)[j] = s[j + 1]
    BY TailAt
  <2>. QED
    BY <1>1, <2>1, <2>2, <2>3 DEF Closes
<1>2. ASSUME Head(s).kind = "CAP-END", NEW j \in 1..Len(Tail(s))
      PROVE  Tail(s)[j].kind \notin {"CAP-END", "AUTHENTICATE"}
  <2>1. 1 \in 1..Len(s) /\ j + 1 \in 1..Len(s) /\ 1 < j + 1
    BY TailAt
  <2>2. s[1].kind = "CAP-END" /\ Tail(s)[j] = s[j + 1]
    BY <1>2, TailAt
  <2>. QED
    BY <2>1, <2>2 DEF Closes
<1>. QED
  BY <1>1, <1>2 DEF Closes, Lacks

LEMMA ClosesJoin ==
  ASSUME NEW S, NEW s \in Seq(S), NEW t \in Seq(S), Closes(s),
         \/ Lacks(t, {"CAP-END", "AUTHENTICATE"})
         \/ Lacks(s, {"CAP-END"}) /\ Len(t) = 1
  PROVE  Closes(s \o t)
<1>. SUFFICES ASSUME NEW i \in 1..Len(s \o t), NEW j \in 1..Len(s \o t), i < j,
                     (s \o t)[i].kind = "CAP-END"
              PROVE  (s \o t)[j].kind \notin {"CAP-END", "AUTHENTICATE"}
  BY DEF Closes
<1>. DEFINE Left(k) == k \in 1..Len(s) /\ (s \o t)[k] = s[k]
            Right(k) == k - Len(s) \in 1..Len(t) /\ (s \o t)[k] = t[k - Len(s)]
<1>0. Len(s \o t) \in Nat /\ Len(s) \in Nat /\ Len(t) \in Nat
  BY JoinAt
<1>1. (Left(i) \/ Right(i)) /\ (Left(j) \/ Right(j))
  BY JoinAt
<1>2. i \in Int /\ j \in Int /\ Len(s) \in Nat /\ Len(t) \in Nat /\ i < j
  BY <1>0
<1>3. CASE Left(i) /\ Left(j)
  BY <1>3 DEF Closes
<1>4. CASE Left(i) /\ Right(j)
  BY <1>4 DEF Lacks
<1>5. CASE Right(i) /\ Left(j)
  BY <1>2, <1>5
<1>6. CASE Right(i) /\ Right(j)
  <2>1. CASE Lacks(t, {"CAP-END", "AUTHENTICATE"})
    BY <1>6, <2>1 DEF Lacks
  <2>2. CASE Len(t) = 1
    BY <1>2, <1>6, <2>2
  <2>. QED
    BY <2>1, <2>2
<1>. QED
  BY <1>1, <1>3, <1>4, <1>5, <1>6

-----------------------------------------------------------------------------
(* The inductive invariants of the proofs below. *)

\* What is on a wire that is not there, what a connection has before it is
\* greeted, and what a welcome and a login on their way say of the server.
WireInv ==
    /\ loop # "open" => ~alive /\ ~greeted
    /\ ~alive => toServer = <<>>
    /\ ~greeted =>
          /\ toClient = <<>>
          /\ \E aware \in BOOLEAN : server = FreshServer(aware)
          /\ \A i \in 1..Len(toServer) : toServer[i].kind = "said"
    /\ ~server.welcomed => Lacks(toClient, {"WELCOME"})
    /\ ~server.account => Lacks(toClient, {"LOGGEDIN"})
    /\ registered /\ greeted => server.welcomed
    /\ sasl \in {"Authenticated", "Refused"} /\ greeted => server.account

\* In the clear no policy has been offered, and while none is, the session is
\* registered only where it is connected and its reader speaks only to a server
\* that has welcomed them.
NoPolicyHeard ==
    /\ "sts" \notin server.offers \cup caps.available
    /\ \A i \in 1..Len(toClient) :
          toClient[i].kind \in {"LS-more", "LS", "NEW"} => "sts" \notin toClient[i].names
SaidInv ==
    NeverUpgraded =>
        /\ endpoint.tls \/ NoPolicyHeard
        /\ control # "upgrade"
        /\ registered => greeted
        /\ ~server.welcomed => Lacks(toServer, {"said"})

\* A registration is quiet until the client's question, if the server knows of
\* capabilities, is read; then it negotiates; and it is over once the server has
\* read the end of it.  A refusal is ahead of any welcome.
Later == {"CAP-REQ", "CAP-END", "AUTHENTICATE", "payload", "AUTHENTICATE-*"}
Quiet ==
    /\ ~cap_ended /\ server.exchange = "idle" /\ ~server.refused /\ ~server.negotiating
    /\ Lacks(toServer, Later)
    /\ \A i \in 1..Len(toClient) : toClient[i].kind \in {"NICKREFUSED", "WELCOME", "LOGGEDIN"}
    /\ server.aware => ~server.welcomed
    /\ server.aware /\ alive =>
          /\ Sole(toServer, {"CAP-LS"}, "CAP-LS") /\ Before(toServer, "CAP-LS", "NICK")
          /\ ~server.nick
Negotiates ==
    /\ server.aware /\ server.negotiating /\ ~server.welcomed
    /\ Lacks(toServer, {"CAP-LS"}) /\ Closes(toServer)
    /\ ~cap_ended => Lacks(toServer, {"CAP-END"})
Concluded ==
    /\ server.aware /\ ~server.negotiating /\ cap_ended /\ server.exchange = "idle"
    /\ Lacks(toServer, {"CAP-LS", "CAP-END", "AUTHENTICATE"})
PhaseInv ==
    /\ greeted => Quiet \/ Negotiates \/ Concluded
    /\ greeted /\ server.refused =>
          /\ ~registered
          /\ control # "continue" \/ Before(toClient, "SASLFAIL", "WELCOME")

\* A login that is right, where nothing is announced: at most one thing of it is
\* in flight, and both ends are where that thing leaves them.
Asks == {"CAP-LS", "CAP-REQ", "AUTHENTICATE", "payload", "AUTHENTICATE-*", "CAP-END"}
Replies == {"LS", "ACK", "NAK", "NEW", "AUTHENTICATE-+", "challenge", "signature", "forged",
            "SASLSUCCESS", "SASLFAIL", "SASLMECHS", "SASLALREADY"}
Unspoken == Lacks(toServer, Asks) /\ Lacks(toClient, Replies)
Asking(kind) == Sole(toServer, Asks, kind) /\ Lacks(toClient, Replies)
Replying(kind) == Lacks(toServer, Asks) /\ Sole(toClient, Replies, kind)
At(exchange, state) == server.exchange = exchange /\ scram = state
Turn ==
    \/ Unspoken
    \/ \E kind \in {"CAP-LS", "CAP-REQ", "AUTHENTICATE"} : Asking(kind) /\ At("idle", "none")
    \/ \E kind \in {"LS", "ACK", "NAK"} : Replying(kind) /\ At("idle", "none")
    \/ Replying("AUTHENTICATE-+") /\ At("payload", "none")
    \/ /\ Asking("payload")
       /\ \/ Mechanism # "SCRAM" /\ At("payload", "none")
          \/ /\ Mechanism = "SCRAM"
             /\ At("payload", "started") \/ At("final", "expecting") \/ At("done", "expecting")
    \/ Mechanism = "SCRAM" /\ Replying("challenge") /\ At("final", "started")
    \/ Mechanism = "SCRAM" /\ Replying("signature") /\ At("done", "expecting")
    \/ Replying("SASLSUCCESS") /\ server.exchange = "idle"
    \/ Replying("SASLALREADY") /\ server.exchange = "idle"
    \/ Asking("CAP-END") /\ server.exchange = "idle"
GoodInv ==
    network.good /\ network.taken = "accepted" /\ spent.announcements = 0 =>
        ~login_failed /\ (greeted => Turn)

\* In the clear, on a network with a policy, the list that names it comes before
\* anything the client would act on.
Ahead(messages, available) ==
    \E i \in 1..Len(messages) :
        /\ messages[i].kind = "LS"
        /\ \A j \in 1..Len(messages) : j < i => messages[j].kind \notin {"LS", "NEW"}
        /\ \/ "sts" \in available \cup messages[i].names
           \/ \E j \in 1..Len(messages) :
                 j < i /\ messages[j].kind = "LS-more" /\ "sts" \in messages[j].names
PolicyAhead == Ahead(toClient, caps.available)
PlainInv ==
    link = "plain" /\ network.sts =>
        /\ Lacks(toServer, Later) /\ server.exchange = "idle"
        /\ Lacks(toClient, Replies \ {"LS", "NEW"})
        /\ greeted =>
             /\ ~cap_ended /\ ~sts_verified_transport
             /\ \/ control # "continue"
                \/ ~server.negotiating /\ Lacks(toClient, {"LS", "LS-more", "NEW"})
                \/ PolicyAhead

-----------------------------------------------------------------------------
(* What a line makes the session do. *)

LEMMA LineTaken ==
  ASSUME OnLine
  PROVE  /\ loop = "open" /\ control = "continue" /\ greeted
         /\ toClient # <<>> /\ toClient' = Tail(toClient)
         /\ UNCHANGED <<network, loop, link, alive, endpoint, spent, server, greeted,
                        sts_verified_transport>>
<1>1. CASE OnLsMore
  BY <1>1 DEF OnLsMore, Take
<1>2. CASE OnLs
  BY <1>2 DEF OnLs, Take, FinishNegotiation, EndNegotiation, Upgrades
<1>3. CASE OnAck
  BY <1>3 DEF OnAck, Settles, Take, FinishNegotiation, EndNegotiation
<1>4. CASE OnNak
  BY <1>4 DEF OnNak, Settles, Take, FinishNegotiation, EndNegotiation
<1>5. CASE OnNew
  BY <1>5 DEF OnNew, Take, Upgrades
<1>6. CASE OnDel
  BY <1>6 DEF OnDel, Take
<1>7. CASE OnAuthenticate
  BY <1>7 DEF OnAuthenticate, Take, Answers, AbortScram, AbortSasl
<1>8. CASE OnLoggedIn
  BY <1>8 DEF OnLoggedIn, Take
<1>9. CASE OnSaslSuccess
  BY <1>9 DEF OnSaslSuccess, Take
<1>10. CASE OnSaslFail
  BY <1>10 DEF OnSaslFail, Take, AbortSasl
<1>11. CASE OnSaslMechs
  BY <1>11 DEF OnSaslMechs, Take
<1>12. CASE OnNickRefused
  BY <1>12 DEF OnNickRefused, Take
<1>13. CASE OnWelcome
  BY <1>13 DEF OnWelcome, Take
<1>. QED
  BY <1>1, <1>2, <1>3, <1>4, <1>5, <1>6, <1>7, <1>8, <1>9, <1>10, <1>11, <1>12,
     <1>13 DEF OnLine

\* Of what it knows of itself.
LEMMA LineKnows ==
  ASSUME OnLine
  PROVE  /\ registered' = registered \/ Head(toClient).kind = "WELCOME"
         /\ warned' = warned \/ Head(toClient).kind = "WELCOME"
         /\ sasl' \in {sasl, "InProgress", "Failed"} \/ Head(toClient).kind = "LOGGEDIN"
<1>1. CASE OnLsMore
  BY <1>1 DEF OnLsMore, Take
<1>2. CASE OnLs
  BY <1>2 DEF OnLs, Take, FinishNegotiation, EndNegotiation, Upgrades
<1>3. CASE OnAck
  BY <1>3 DEF OnAck, Settles, Take, FinishNegotiation, EndNegotiation
<1>4. CASE OnNak
  BY <1>4 DEF OnNak, Settles, Take, FinishNegotiation, EndNegotiation
<1>5. CASE OnNew
  BY <1>5 DEF OnNew, Take, Upgrades
<1>6. CASE OnDel
  BY <1>6 DEF OnDel, Take
<1>7. CASE OnAuthenticate
  BY <1>7 DEF OnAuthenticate, Take, Answers, AbortScram, AbortSasl
<1>8. CASE OnLoggedIn
  BY <1>8 DEF OnLoggedIn, Take
<1>9. CASE OnSaslSuccess
  BY <1>9 DEF OnSaslSuccess, Take
<1>10. CASE OnSaslFail
  BY <1>10 DEF OnSaslFail, Take, AbortSasl
<1>11. CASE OnSaslMechs
  BY <1>11 DEF OnSaslMechs, Take
<1>12. CASE OnNickRefused
  BY <1>12 DEF OnNickRefused, Take
<1>13. CASE OnWelcome
  BY <1>13 DEF OnWelcome, Take
<1>. QED
  BY <1>1, <1>2, <1>3, <1>4, <1>5, <1>6, <1>7, <1>8, <1>9, <1>10, <1>11, <1>12,
     <1>13 DEF OnLine

\* Of how it goes on.
LEMMA LineEnds ==
  ASSUME OnLine
  PROVE  /\ Head(toClient).kind = "SASLFAIL" => control' = "stop"
         /\ control' = "upgrade" => Head(toClient).kind \in {"LS", "NEW"} /\ Upgrades(Offered(Named))
<1>1. CASE OnLsMore
  BY <1>1 DEF OnLsMore, Take
<1>2. CASE OnLs
  BY <1>2 DEF OnLs, Take, FinishNegotiation, EndNegotiation, Upgrades
<1>3. CASE OnAck
  BY <1>3 DEF OnAck, Settles, Take, FinishNegotiation, EndNegotiation
<1>4. CASE OnNak
  BY <1>4 DEF OnNak, Settles, Take, FinishNegotiation, EndNegotiation
<1>5. CASE OnNew
  BY <1>5 DEF OnNew, Take, Upgrades
<1>6. CASE OnDel
  BY <1>6 DEF OnDel, Take
<1>7. CASE OnAuthenticate
  BY <1>7 DEF OnAuthenticate, Take, Answers, AbortScram, AbortSasl
<1>8. CASE OnLoggedIn
  BY <1>8 DEF OnLoggedIn, Take
<1>9. CASE OnSaslSuccess
  BY <1>9 DEF OnSaslSuccess, Take
<1>10. CASE OnSaslFail
  BY <1>10 DEF OnSaslFail, Take, AbortSasl
<1>11. CASE OnSaslMechs
  BY <1>11 DEF OnSaslMechs, Take
<1>12. CASE OnNickRefused
  BY <1>12 DEF OnNickRefused, Take
<1>13. CASE OnWelcome
  BY <1>13 DEF OnWelcome, Take
<1>. QED
  BY <1>1, <1>2, <1>3, <1>4, <1>5, <1>6, <1>7, <1>8, <1>9, <1>10, <1>11, <1>12,
     <1>13 DEF OnLine

\* And of what it writes.
WritesNothing == UNCHANGED <<toServer, cap_ended>>
Writes(kinds) ==
    /\ UNCHANGED cap_ended
    /\ \E line \in FromClient : line.kind \in kinds /\ Send(<<line>>)
StartsLogin == ~cap_ended /\ UNCHANGED cap_ended /\ Send(<<Said("AUTHENTICATE")>>)
EndsCaps == ~cap_ended /\ cap_ended' = TRUE /\ Send(<<Said("CAP-END")>>)

LEMMA SendNothing ==
  ASSUME TypeInv, Send(<<>>)
  PROVE  toServer' = toServer
<1>1. toServer \in Seq(FromClient)
  BY DEF TypeInv, TypeOK
<1>. QED
  BY <1>1 DEF Send

LEMMA EndSays ==
  ASSUME TypeInv, EndNegotiation
  PROVE  WritesNothing \/ EndsCaps
<1>1. cap_ended \in BOOLEAN
  BY DEF TypeInv, TypeOK
<1>2. CASE cap_ended
  BY <1>1, <1>2, SendNothing DEF EndNegotiation, WritesNothing
<1>3. CASE ~cap_ended
  BY <1>1, <1>3 DEF EndNegotiation, EndsCaps
<1>. QED
  BY <1>2, <1>3

LEMMA FinishSays ==
  ASSUME TypeInv, NEW known, FinishNegotiation(known)
  PROVE  WritesNothing \/ StartsLogin \/ EndsCaps
<1>1. CASE cap_ended /\ Send(<<>>) /\ UNCHANGED <<cap_ended, sasl>>
  BY <1>1, SendNothing DEF WritesNothing
<1>2. CASE ~cap_ended /\ Send(<<Said("AUTHENTICATE")>>) /\ UNCHANGED cap_ended
  BY <1>2 DEF StartsLogin
<1>3. CASE EndNegotiation
  BY <1>3, EndSays
<1>. QED
  BY <1>1, <1>2, <1>3 DEF FinishNegotiation

LEMMA RequestSays ==
  ASSUME TypeInv, NEW known \in CapsStates, Send(Request(known)), UNCHANGED cap_ended
  PROVE  WritesNothing \/ Writes({"CAP-REQ"})
<1>1. CASE Wanted(known) = {}
  BY <1>1, SendNothing DEF Request, WritesNothing
<1>2. CASE Wanted(known) # {}
  <2>1. Wanted(known) \in SUBSET Names
    BY DEF Wanted, Supported, CapsStates
  <2>2. SaidOf("CAP-REQ", Wanted(known)) \in FromClient
    BY <2>1 DEF SaidOf, FromClient
  <2>3. Send(<<SaidOf("CAP-REQ", Wanted(known))>>)
    BY <1>2 DEF Request
  <2>4. SaidOf("CAP-REQ", Wanted(known)).kind = "CAP-REQ"
    BY DEF SaidOf
  <2>. QED
    BY <2>2, <2>3, <2>4 DEF Writes
<1>. QED
  BY <1>1, <1>2

LEMMA WritesOne ==
  \A kind \in {"NICK", "payload", "AUTHENTICATE-*"} :
     Send(<<Said(kind)>>) /\ UNCHANGED cap_ended => Writes({kind})
<1>1. \A kind \in {"NICK", "payload", "AUTHENTICATE-*"} : Said(kind).kind = kind
  BY DEF Said
<1>. QED
  BY <1>1, LineTyped DEF Writes

LEMMA LineSays ==
  ASSUME TypeInv, OnLine
  PROVE  /\ \/ WritesNothing \/ StartsLogin \/ EndsCaps
            \/ Writes({"CAP-REQ"}) \/ Writes({"payload"}) \/ Writes({"AUTHENTICATE-*"})
            \/ Head(toClient).kind = "NICKREFUSED" /\ Writes({"NICK"})
         /\ Head(toClient).kind \in {"WELCOME", "LOGGEDIN"} => WritesNothing
         /\ Head(toClient).kind = "NICKREFUSED" => WritesNothing \/ Writes({"NICK"})
<1>. DEFINE known == Offered(Named)
<1>1. CASE OnLsMore
  BY <1>1 DEF OnLsMore, Take, WritesNothing
<1>2. CASE OnLs
  <2>1. Take("LS") /\ known \in CapsStates
    BY <1>2, TakeTyped, CapsTyped DEF OnLs, TypeInv
  <2>2. \/ UNCHANGED <<toServer, cap_ended>>
        \/ FinishNegotiation(known)
        \/ Send(Request(known)) /\ UNCHANGED cap_ended
    BY <1>2 DEF OnLs
  <2>3. Head(toClient).kind = "LS"
    BY <2>1 DEF Take
  <2>. HIDE DEF known
  <2>4. WritesNothing \/ StartsLogin \/ EndsCaps \/ Writes({"CAP-REQ"})
    BY <2>1, <2>2, FinishSays, RequestSays DEF WritesNothing
  <2>. QED
    BY <2>3, <2>4
<1>3. ASSUME NEW answer \in {"ACK", "NAK"}, NEW told, Take(answer), Settles(told)
      PROVE  /\ Head(toClient).kind = answer
             /\ WritesNothing \/ StartsLogin \/ EndsCaps
  <2>1. FinishNegotiation(told) \/ UNCHANGED <<cap_ended, toServer>>
    BY <1>3 DEF Settles
  <2>. QED
    BY <1>3, <2>1, FinishSays DEF WritesNothing, Take
<1>4. CASE OnAck
  BY <1>3, <1>4 DEF OnAck
<1>5. CASE OnNak
  BY <1>3, <1>5 DEF OnNak
<1>6. CASE OnNew
  <2>1. Take("NEW") /\ known \in CapsStates
    BY <1>6, TakeTyped, CapsTyped DEF OnNew, TypeInv
  <2>2. \/ UNCHANGED <<toServer, cap_ended>>
        \/ Send(Request(known)) /\ UNCHANGED cap_ended
    BY <1>6 DEF OnNew
  <2>3. Head(toClient).kind = "NEW"
    BY <2>1 DEF Take
  <2>. HIDE DEF known
  <2>4. WritesNothing \/ Writes({"CAP-REQ"})
    BY <2>1, <2>2, RequestSays DEF WritesNothing
  <2>. QED
    BY <2>3, <2>4
<1>7. CASE OnDel
  BY <1>7 DEF OnDel, Take, WritesNothing
<1>8. CASE OnAuthenticate
  <2>1. Head(toClient).kind \in {"AUTHENTICATE-+", "challenge", "signature", "forged"}
    BY <1>8 DEF OnAuthenticate, Take
  <2>2. UNCHANGED cap_ended /\ (Send(<<Said("payload")>>) \/ Send(<<Said("AUTHENTICATE-*")>>))
    BY <1>8 DEF OnAuthenticate, Answers, AbortScram
  <2>3. Writes({"payload"}) \/ Writes({"AUTHENTICATE-*"})
    BY <2>2, WritesOne
  <2>. QED
    BY <2>1, <2>3
<1>9. CASE OnLoggedIn
  BY <1>9 DEF OnLoggedIn, Take, WritesNothing
<1>10. CASE OnSaslSuccess
  <2>1. Head(toClient).kind \in {"SASLSUCCESS", "SASLALREADY"} /\ EndNegotiation
    BY <1>10 DEF OnSaslSuccess, Take
  <2>. QED
    BY <2>1, EndSays
<1>11. CASE OnSaslFail
  BY <1>11 DEF OnSaslFail, Take, WritesNothing
<1>12. CASE OnSaslMechs
  <2>1. Head(toClient).kind = "SASLMECHS" /\ EndNegotiation
    BY <1>12 DEF OnSaslMechs, Take
  <2>. QED
    BY <2>1, EndSays
<1>13. CASE OnNickRefused
  <2>1. Head(toClient).kind = "NICKREFUSED"
    BY <1>13 DEF OnNickRefused, Take
  <2>2. UNCHANGED cap_ended /\ (Send(<<Said("NICK")>>) \/ UNCHANGED toServer)
    BY <1>13 DEF OnNickRefused
  <2>3. WritesNothing \/ Writes({"NICK"})
    BY <2>2, WritesOne DEF WritesNothing
  <2>. QED
    BY <2>1, <2>3
<1>14. CASE OnWelcome
  BY <1>14 DEF OnWelcome, Take, WritesNothing
<1>. QED
  BY <1>1, <1>2, <1>4, <1>5, <1>6, <1>7, <1>8, <1>9, <1>10, <1>11, <1>12, <1>13,
     <1>14 DEF OnLine

-----------------------------------------------------------------------------
(* What the server's steps have in common. *)

LEMMA LacksNone == \A kinds : Lacks(<<>>, kinds)
  BY DEF Lacks

LEMMA LacksOne ==
  ASSUME NEW m, NEW kinds, m.kind \notin kinds
  PROVE  Lacks(<<m>>, kinds)
BY DEF Lacks

LEMMA SaidIs == \A kind, names : Said(kind).kind = kind /\ SaidOf(kind, names).kind = kind
  BY DEF Said, SaidOf

LEMMA Sends ==
  ASSUME TypeInv, NEW lines \in Seq(FromClient), Send(lines)
  PROVE  /\ toServer \in Seq(FromClient)
         /\ toServer' = toServer \o lines \/ (~alive /\ toServer' = toServer)
BY DEF Send, TypeInv, TypeOK

LEMMA ServerFrame ==
  ASSUME ServerActs \/ ServerAnnounces \/ ServerLogsIn
  PROVE  /\ alive
         /\ UNCHANGED <<network, loop, link, endpoint, policy, control, alive, status, caps,
                        cap_ended, registered, sasl, scram, nick_attempt,
                        sts_verified_transport, greeted, warned, login_failed>>
         /\ toServer' = toServer \/ (toServer # <<>> /\ toServer' = Tail(toServer))
<1>1. CASE ServerListsCaps
  BY <1>1 DEF ServerListsCaps, ServerTakes, drive, session
<1>2. CASE ServerAnswersRequest
  BY <1>2 DEF ServerAnswersRequest, ServerTakes, drive, session
<1>3. CASE ServerTakesNick
  BY <1>3 DEF ServerTakesNick, ServerTakes, drive, session
<1>4. CASE ServerTakesUser
  BY <1>4 DEF ServerTakesUser, ServerTakes, drive, session
<1>5. CASE ServerStartsExchange
  BY <1>5 DEF ServerStartsExchange, ServerTakes, drive, session
<1>6. CASE ServerReadsPayload
  BY <1>6 DEF ServerReadsPayload, ServerTakes, drive, session
<1>7. CASE ServerEndsExchange
  BY <1>7 DEF ServerEndsExchange, ServerTakes, drive, session
<1>8. CASE ServerHears
  BY <1>8 DEF ServerHears, ServerTakes, drive, session
<1>9. CASE ServerWelcomes
  BY <1>9 DEF ServerWelcomes, drive, session
<1>10. CASE ServerAnnounces
  BY <1>10 DEF ServerAnnounces, session
<1>11. CASE ServerLogsIn
  BY <1>11 DEF ServerLogsIn, session
<1>. QED
  BY <1>1, <1>2, <1>3, <1>4, <1>5, <1>6, <1>7, <1>8, <1>9, <1>10, <1>11
  DEF ServerActs

\* A list of what is offered is one line, or two.
LEMMA ListSays ==
  ASSUME TypeInv, ServerListsCaps, ~(UNCHANGED <<server, toClient>>)
  PROVE  /\ server.aware
         /\ \E all \in SUBSET Names :
               /\ network.sts <=> "sts" \in all
               /\ server' = [server EXCEPT !.negotiating = TRUE, !.offers = all]
               /\ \E first \in SUBSET all :
                     Reply((IF first = {} THEN <<>> ELSE <<SaidOf("LS-more", first)>>)
                           \o <<SaidOf("LS", all \ first)>>)
<1>1. PICK offers \in SUBSET Supported :
        LET all == offers \cup (IF network.sts THEN {"sts"} ELSE {}) IN
        /\ server' = [server EXCEPT !.negotiating = TRUE, !.offers = all]
        /\ \E first \in SUBSET all :
              Reply((IF first = {} THEN <<>> ELSE <<SaidOf("LS-more", first)>>)
                    \o <<SaidOf("LS", all \ first)>>)
  BY DEF ServerListsCaps
<1>. DEFINE all == offers \cup (IF network.sts THEN {"sts"} ELSE {})
<1>2. all \in SUBSET Names /\ (network.sts <=> "sts" \in all)
  BY DEF Supported, Names
<1>. QED
  BY <1>1, <1>2 DEF ServerListsCaps

\* The list as one sequence of messages.
Listing(all, messages) ==
    \E first \in SUBSET all :
        messages = (IF first = {} THEN <<>> ELSE <<SaidOf("LS-more", first)>>)
                   \o <<SaidOf("LS", all \ first)>>

LEMMA ListingIs ==
  ASSUME NEW all \in SUBSET Names, NEW messages, Listing(all, messages)
  PROVE  /\ messages \in Seq(FromServer) /\ Len(messages) \in {1, 2}
         /\ \A i \in 1..Len(messages) :
               messages[i].kind \in {"LS-more", "LS"} /\ messages[i].names \subseteq all
         /\ messages[Len(messages)].kind = "LS"
         /\ Len(messages) = 2 =>
               /\ messages[1].kind = "LS-more"
               /\ messages[1].names \cup messages[2].names = all
         /\ Len(messages) = 1 => messages[1].names = all
<1>1. PICK first \in SUBSET all :
        messages = (IF first = {} THEN <<>> ELSE <<SaidOf("LS-more", first)>>)
                   \o <<SaidOf("LS", all \ first)>>
  BY DEF Listing
<1>. DEFINE more == SaidOf("LS-more", first)
            last == SaidOf("LS", all \ first)
<1>2. more \in FromServer /\ last \in FromServer
  BY NamesTyped
<1>3. /\ more.kind = "LS-more" /\ more.names = first
      /\ last.kind = "LS" /\ last.names = all \ first
  BY DEF SaidOf
<1>4. messages = IF first = {} THEN <<last>> ELSE <<more, last>>
  BY <1>1
<1>. HIDE DEF more, last
<1>5. CASE first = {}
  BY <1>2, <1>3, <1>4, <1>5
<1>6. CASE first # {}
  BY <1>2, <1>3, <1>4, <1>6
<1>. QED
  BY <1>5, <1>6

LEMMA ListLacks ==
  ASSUME NEW all \in SUBSET Names, NEW messages, Listing(all, messages), NEW kinds,
         "LS" \notin kinds, "LS-more" \notin kinds
  PROVE  Lacks(messages, kinds)
<1>1. ASSUME NEW i \in 1..Len(messages)
      PROVE  messages[i].kind = "LS-more" \/ messages[i].kind = "LS"
  <2>1. \A j \in 1..Len(messages) : messages[j].kind \in {"LS-more", "LS"}
    BY ListingIs
  <2>. QED
    BY <2>1
<1>. QED
  BY <1>1 DEF Lacks

LEMMA LacksAppend ==
  ASSUME NEW S, NEW s \in Seq(S), NEW m \in S, NEW kinds, Lacks(s, kinds), m.kind \notin kinds
  PROVE  Lacks(Append(s, m), kinds)
<1>1. /\ Len(s) \in Nat /\ Len(Append(s, m)) = Len(s) + 1
      /\ \A i \in 1..Len(s) : Append(s, m)[i] = s[i]
      /\ Append(s, m)[Len(s) + 1] = m
  OBVIOUS
<1>. QED
  BY <1>1 DEF Lacks

LEMMA TwoLack ==
  ASSUME NEW m, NEW n, NEW kinds, m.kind \notin kinds, n.kind \notin kinds
  PROVE  Lacks(<<m, n>>, kinds)
BY DEF Lacks

\* What names capabilities that are there.
Lists == {"LS-more", "LS", "NEW"}

\* What a step of the server adds to what it has said, as to a welcome and a
\* login.
Speaks(messages) ==
    /\ messages \in Seq(FromServer) /\ toClient' = toClient \o messages
    /\ server.welcomed => server'.welcomed
    /\ server.account => server'.account
    /\ server'.welcomed \/ Lacks(messages, {"WELCOME"})
    /\ server'.account \/ Lacks(messages, {"LOGGEDIN"})
    /\ ServerListsCaps \/ ServerAnnounces \/ Lacks(messages, Lists)

LEMMA Silent ==
  ASSUME TypeInv, UNCHANGED toClient,
         server.welcomed => server'.welcomed, server.account => server'.account
  PROVE  Speaks(<<>>)
<1>1. toClient \in Seq(FromServer)
  BY DEF TypeInv, TypeOK
<1>2. toClient = toClient \o <<>> /\ <<>> \in Seq(FromServer)
  BY <1>1
<1>. QED
  BY <1>2, LacksNone DEF Speaks

LEMMA SpeaksOne ==
  ASSUME TypeInv, NEW m \in FromServer, Reply(<<m>>),
         server.welcomed => server'.welcomed, server.account => server'.account,
         m.kind \notin {"WELCOME", "LOGGEDIN"},
         ServerListsCaps \/ ServerAnnounces \/ m.kind \notin Lists
  PROVE  Speaks(<<m>>)
<1>1. <<m>> \in Seq(FromServer)
  BY OneTyped
<1>2. Lacks(<<m>>, {"WELCOME"}) /\ Lacks(<<m>>, {"LOGGEDIN"})
  BY LacksOne
<1>3. ServerListsCaps \/ ServerAnnounces \/ Lacks(<<m>>, Lists)
  BY LacksOne
<1>. QED
  BY <1>1, <1>2, <1>3 DEF Speaks, Reply

LEMMA ServerSays ==
  ASSUME TypeInv, ServerActs \/ ServerAnnounces \/ ServerLogsIn
  PROVE  \E messages : Speaks(messages)
<1>0. server \in ServerStates
  BY DEF TypeInv, TypeOK, ServerStates
<1>1. CASE ServerListsCaps
  <2>1. CASE UNCHANGED <<server, toClient>>
    BY <2>1, Silent
  <2>2. CASE ~(UNCHANGED <<server, toClient>>)
    <3>1. PICK all \in SUBSET Names :
            /\ server' = [server EXCEPT !.negotiating = TRUE, !.offers = all]
            /\ \E first \in SUBSET all :
                  Reply((IF first = {} THEN <<>> ELSE <<SaidOf("LS-more", first)>>)
                        \o <<SaidOf("LS", all \ first)>>)
      BY <1>1, <2>2, ListSays
    <3>2. PICK messages : Listing(all, messages) /\ Reply(messages)
      BY <3>1 DEF Listing
    <3>3. Lacks(messages, {"WELCOME"}) /\ Lacks(messages, {"LOGGEDIN"})
      BY <3>2, ListLacks
    <3>4. messages \in Seq(FromServer)
      BY <3>2, ListingIs
    <3>5. server'.welcomed = server.welcomed /\ server'.account = server.account
      BY <1>0, <3>1 DEF ServerStates
    <3>. QED
      BY <1>1, <3>2, <3>3, <3>4, <3>5 DEF Speaks, Reply
  <2>. QED
    BY <2>1, <2>2
<1>2. CASE ServerAnswersRequest
  <2>1. /\ SaidOf("ACK", Asked.names) \in FromServer
        /\ SaidOf("NAK", Asked.names) \in FromServer
    BY <1>2, ServerTakesTyped, NamesTyped DEF ServerAnswersRequest, TypeInv
  <2>. QED
    BY <1>2, <2>1, SpeaksOne, SaidIs DEF ServerAnswersRequest, Lists
<1>3. ASSUME NEW kind \in {"AUTHENTICATE-+", "challenge", "signature", "forged",
                           "SASLFAIL", "SASLMECHS", "SASLALREADY", "NICKREFUSED"},
             Reply(<<Said(kind)>>),
             server.welcomed => server'.welcomed, server.account => server'.account
      PROVE  \E messages : Speaks(messages)
  <2>1. /\ Said(kind) \in FromServer /\ Said(kind).kind \notin {"WELCOME", "LOGGEDIN"}
        /\ Said(kind).kind \notin Lists
    BY AnswerTyped, SaidIs DEF Lists
  <2>. QED
    BY <1>3, <2>1, SpeaksOne
<1>4. ASSUME RefuseLogin(<<>>)
      PROVE  \E messages : Speaks(messages)
  <2>1. Append(<<>>, Said("SASLFAIL")) = <<Said("SASLFAIL")>>
    OBVIOUS
  <2>2. Reply(<<Said("SASLFAIL")>>)
    BY <1>4, <2>1 DEF RefuseLogin
  <2>3. server'.welcomed = server.welcomed /\ server'.account = server.account
    BY <1>0, <1>4 DEF RefuseLogin, ServerStates
  <2>. QED
    BY <1>3, <2>2, <2>3
<1>5. ASSUME RefuseLogin(<<Said("SASLMECHS")>>)
      PROVE  \E messages : Speaks(messages)
  <2>. DEFINE messages == Append(<<Said("SASLMECHS")>>, Said("SASLFAIL"))
  <2>1. <<Said("SASLMECHS")>> \in Seq(FromServer) /\ Said("SASLFAIL") \in FromServer
    BY AnswerTyped
  <2>2. messages \in Seq(FromServer)
    BY <2>1, AppendTyped
  <2>3. server'.welcomed = server.welcomed /\ server'.account = server.account
    BY <1>0, <1>5 DEF RefuseLogin, ServerStates
  <2>4. /\ Lacks(<<Said("SASLMECHS")>>, {"WELCOME"})
        /\ Lacks(<<Said("SASLMECHS")>>, {"LOGGEDIN"})
        /\ Lacks(<<Said("SASLMECHS")>>, Lists)
    BY SaidIs, LacksOne DEF Lists
  <2>5. /\ Said("SASLFAIL").kind \notin {"WELCOME"}
        /\ Said("SASLFAIL").kind \notin {"LOGGEDIN"}
        /\ Said("SASLFAIL").kind \notin Lists
    BY SaidIs DEF Lists
  <2>7. Lacks(messages, {"WELCOME"})
    BY <2>1, <2>4, <2>5, LacksAppend
  <2>8. Lacks(messages, {"LOGGEDIN"})
    BY <2>1, <2>4, <2>5, LacksAppend
  <2>6. Reply(messages)
    BY <1>5 DEF RefuseLogin
  <2>9. Lacks(messages, Lists)
    BY <2>1, <2>4, <2>5, LacksAppend
  <2>. QED
    BY <2>2, <2>3, <2>6, <2>7, <2>8, <2>9 DEF Speaks, Reply
<1>6. ASSUME AcceptLogin
      PROVE  \E messages : Speaks(messages)
  <2>1. <<Said("LOGGEDIN"), Said("SASLSUCCESS")>> =
            <<Said("LOGGEDIN")>> \o <<Said("SASLSUCCESS")>>
    OBVIOUS
  <2>2. <<Said("LOGGEDIN"), Said("SASLSUCCESS")>> \in Seq(FromServer)
    BY <2>1, AnswerTyped, JoinTyped
  <2>3. server'.welcomed = server.welcomed /\ server'.account
    BY <1>0, <1>6 DEF AcceptLogin, ServerStates
  <2>4. /\ Lacks(<<Said("LOGGEDIN"), Said("SASLSUCCESS")>>, {"WELCOME"})
        /\ Lacks(<<Said("LOGGEDIN"), Said("SASLSUCCESS")>>, Lists)
    BY SaidIs, TwoLack DEF Lists
  <2>. QED
    BY <1>6, <2>2, <2>3, <2>4 DEF Speaks, Reply, AcceptLogin
<1>7. CASE ServerTakesNick
  <2>1. CASE UNCHANGED toClient /\ server' = [server EXCEPT !.nick = TRUE]
    BY <1>0, <2>1, Silent DEF ServerStates
  <2>. QED
    BY <1>3, <1>7, <2>1 DEF ServerTakesNick
<1>8. CASE ServerTakesUser
  BY <1>0, <1>8, Silent DEF ServerTakesUser, ServerStates
<1>9. CASE ServerStartsExchange
  <2>1. CASE server' = [server EXCEPT !.exchange = "payload"] /\ Reply(<<Said("AUTHENTICATE-+")>>)
    <3>1. server'.welcomed = server.welcomed /\ server'.account = server.account
      BY <1>0, <2>1 DEF ServerStates
    <3>. QED
      BY <1>3, <2>1, <3>1
  <2>2. CASE RefuseLogin(<<>>) \/ RefuseLogin(<<Said("SASLMECHS")>>)
    BY <1>4, <1>5, <2>2
  <2>3. CASE UNCHANGED server /\ (Reply(<<Said("SASLALREADY")>>) \/ Reply(<<Said("SASLMECHS")>>))
    BY <1>3, <2>3
  <2>. QED
    BY <1>9, <2>1, <2>2, <2>3 DEF ServerStartsExchange
<1>10. CASE ServerReadsPayload
  <2>1. CASE AcceptLogin \/ RefuseLogin(<<>>)
    BY <1>4, <1>6, <2>1
  <2>2. ASSUME NEW kind \in {"challenge", "signature", "forged"}, NEW next,
               server' = [server EXCEPT !.exchange = next], Reply(<<Said(kind)>>)
        PROVE  \E messages : Speaks(messages)
    <3>1. server'.welcomed = server.welcomed /\ server'.account = server.account
      BY <1>0, <2>2 DEF ServerStates
    <3>. QED
      BY <1>3, <2>2, <3>1
  <2>3. CASE UNCHANGED <<server, toClient>>
    BY <2>3, Silent
  <2>. QED
    BY <1>10, <2>1, <2>2, <2>3 DEF ServerReadsPayload
<1>11. CASE ServerEndsExchange
  <2>1. server'.welcomed = server.welcomed /\ server'.account = server.account
    BY <1>0, <1>11 DEF ServerEndsExchange, ServerStates
  <2>2. UNCHANGED toClient \/ Reply(<<Said("SASLFAIL")>>)
    BY <1>11 DEF ServerEndsExchange
  <2>. QED
    BY <1>3, <2>1, <2>2, Silent
<1>12. CASE ServerHears
  BY <1>12, Silent DEF ServerHears
<1>13. CASE ServerWelcomes
  <2>1. server'.welcomed /\ server'.account = server.account
    BY <1>0, <1>13 DEF ServerWelcomes, ServerStates
  <2>2. /\ <<Said("WELCOME")>> \in Seq(FromServer)
        /\ Lacks(<<Said("WELCOME")>>, {"LOGGEDIN"}) /\ Lacks(<<Said("WELCOME")>>, Lists)
    BY AnswerTyped, SaidIs, LacksOne DEF Lists
  <2>. QED
    BY <1>13, <2>1, <2>2 DEF Speaks, Reply, ServerWelcomes
<1>14. CASE ServerAnnounces
  <2>1. PICK name \in Names :
          \/ /\ server' = [server EXCEPT !.offers = @ \cup {name}]
             /\ Reply(<<SaidOf("NEW", {name})>>)
          \/ /\ server' = [server EXCEPT !.offers = @ \ {name}]
             /\ Reply(<<SaidOf("DEL", {name})>>)
    BY <1>14 DEF ServerAnnounces
  <2>2. SaidOf("NEW", {name}) \in FromServer /\ SaidOf("DEL", {name}) \in FromServer
    BY NamesTyped
  <2>3. server'.welcomed = server.welcomed /\ server'.account = server.account
    BY <1>0, <2>1 DEF ServerStates
  <2>. QED
    BY <1>14, <2>1, <2>2, <2>3, SpeaksOne, SaidIs
<1>15. CASE ServerLogsIn
  <2>1. server'.welcomed = server.welcomed /\ server'.account
    BY <1>0, <1>15 DEF ServerLogsIn, ServerStates
  <2>2. /\ <<Said("LOGGEDIN")>> \in Seq(FromServer)
        /\ Lacks(<<Said("LOGGEDIN")>>, {"WELCOME"}) /\ Lacks(<<Said("LOGGEDIN")>>, Lists)
    BY AnswerTyped, SaidIs, LacksOne DEF Lists
  <2>. QED
    BY <1>15, <2>1, <2>2 DEF Speaks, Reply, ServerLogsIn
<1>. QED
  BY <1>1, <1>2, <1>7, <1>8, <1>9, <1>10, <1>11, <1>12, <1>13, <1>14, <1>15
  DEF ServerActs

-----------------------------------------------------------------------------
(* A connection before it is greeted, and what a welcome and a login say. *)

\* What one line does to what the client has written, and what a group of
\* kinds it is not of has of it.
LEMMA OneWritten ==
  ASSUME TypeInv, NEW line \in FromClient, Send(<<line>>)
  PROVE  /\ toServer \in Seq(FromClient) /\ <<line>> \in Seq(FromClient)
         /\ toServer' = toServer \o <<line>> \/ (~alive /\ toServer' = toServer)
         /\ \A kinds : Lacks(toServer, kinds) /\ line.kind \notin kinds => Lacks(toServer', kinds)
<1>1. /\ toServer \in Seq(FromClient) /\ <<line>> \in Seq(FromClient)
      /\ toServer' = toServer \o <<line>> \/ (~alive /\ toServer' = toServer)
  BY OneTyped, Sends
<1>2. ASSUME NEW kinds, Lacks(toServer, kinds), line.kind \notin kinds
      PROVE  Lacks(toServer', kinds)
  BY <1>1, <1>2, LacksOne, LacksJoin
<1>. QED
  BY <1>1, <1>2

LEMMA LineLacks ==
  ASSUME TypeInv, OnLine
  PROVE  /\ toClient \in Seq(FromServer) /\ toClient # <<>>
         /\ \A kinds : Lacks(toClient, kinds) =>
               Lacks(toClient', kinds) /\ Head(toClient).kind \notin kinds
<1>1. toClient \in Seq(FromServer) /\ toClient # <<>> /\ toClient' = Tail(toClient)
  BY LineTaken DEF TypeInv, TypeOK
<1>. QED
  BY <1>1, LacksTail

LEMMA WroteWhileDead ==
  ASSUME TypeInv, OnLine, ~alive
  PROVE  toServer' = toServer
<1>1. \A lines : Send(lines) => toServer' = toServer
  BY DEF Send
<1>. QED
  BY <1>1, LineSays DEF WritesNothing, StartsLogin, EndsCaps, Writes

LEMMA WireLine ==
  ASSUME TypeInv, WireInv, OnLine
  PROVE  WireInv'
<1>1. /\ loop = "open" /\ greeted
      /\ UNCHANGED <<loop, alive, server, greeted>>
  BY LineTaken
<1>2. ~alive' => toServer' = <<>>
  BY <1>1, WroteWhileDead DEF WireInv
<1>3. ~server'.welcomed => Lacks(toClient', {"WELCOME"})
  BY <1>1, LineLacks DEF WireInv
<1>4. ~server'.account => Lacks(toClient', {"LOGGEDIN"})
  BY <1>1, LineLacks DEF WireInv
<1>5. Head(toClient).kind = "WELCOME" => server.welcomed
  BY LineLacks DEF WireInv
<1>6. Head(toClient).kind = "LOGGEDIN" => server.account
  BY LineLacks DEF WireInv
<1>7. registered' => server'.welcomed
  BY <1>1, <1>5, LineKnows DEF WireInv
<1>8. sasl' \in {"Authenticated", "Refused"} => server'.account
  BY <1>1, <1>6, LineKnows DEF WireInv
<1>. QED
  BY <1>1, <1>2, <1>3, <1>4, <1>7, <1>8 DEF WireInv

\* A server that nobody has spoken to says nothing.
LEMMA UngreetedServer ==
  ASSUME TypeInv, WireInv, ~greeted, ServerActs \/ ServerAnnounces \/ ServerLogsIn
  PROVE  UNCHANGED <<server, toClient>>
<1>1. PICK aware \in BOOLEAN : server = FreshServer(aware)
  BY DEF WireInv
<1>2. ~server.nick /\ ~server.negotiating /\ ~server.welcomed
  BY <1>1 DEF FreshServer
<1>3. toServer # <<>> => Asked.kind = "said"
  BY DEF WireInv, Asked, TypeInv, TypeOK
<1>4. \A kind : ServerTakes(kind) => kind = "said"
  BY <1>3 DEF ServerTakes
<1>5. CASE ServerHears
  BY <1>5 DEF ServerHears
<1>6. ~ServerWelcomes /\ ~ServerAnnounces /\ ~ServerLogsIn
  BY <1>2 DEF ServerWelcomes, ServerAnnounces, ServerLogsIn
<1>7. /\ ~ServerListsCaps /\ ~ServerAnswersRequest /\ ~ServerTakesNick /\ ~ServerTakesUser
      /\ ~ServerStartsExchange /\ ~ServerReadsPayload /\ ~ServerEndsExchange
  BY <1>4
  DEF ServerListsCaps, ServerAnswersRequest, ServerTakesNick, ServerTakesUser,
      ServerStartsExchange, ServerReadsPayload, ServerEndsExchange
<1>. QED
  BY <1>5, <1>6, <1>7 DEF ServerActs

LEMMA WireServer ==
  ASSUME TypeInv, WireInv, ServerActs \/ ServerAnnounces \/ ServerLogsIn
  PROVE  WireInv'
<1>1. /\ alive /\ UNCHANGED <<loop, alive, greeted, registered, sasl>>
      /\ toServer' = toServer \/ (toServer # <<>> /\ toServer' = Tail(toServer))
  BY ServerFrame
<1>2. PICK messages : Speaks(messages)
  BY ServerSays
<1>3. toServer \in Seq(FromClient) /\ toClient \in Seq(FromServer)
  BY DEF TypeInv, TypeOK
<1>4. /\ messages \in Seq(FromServer) /\ toClient' = toClient \o messages
      /\ server.welcomed => server'.welcomed
      /\ server.account => server'.account
      /\ server'.welcomed \/ Lacks(messages, {"WELCOME"})
      /\ server'.account \/ Lacks(messages, {"LOGGEDIN"})
  BY <1>2 DEF Speaks
<1>5. ~server'.welcomed => Lacks(toClient', {"WELCOME"})
  BY <1>3, <1>4, LacksJoin DEF WireInv
<1>6. ~server'.account => Lacks(toClient', {"LOGGEDIN"})
  BY <1>3, <1>4, LacksJoin DEF WireInv
<1>7. ASSUME ~greeted
      PROVE  /\ toClient' = <<>>
             /\ \E aware \in BOOLEAN : server' = FreshServer(aware)
             /\ \A i \in 1..Len(toServer') : toServer'[i].kind = "said"
  <2>1. UNCHANGED <<server, toClient>>
    BY <1>7, UngreetedServer
  <2>2. \A i \in 1..Len(toServer) : toServer[i].kind = "said"
    BY <1>7 DEF WireInv
  <2>3. ASSUME NEW i \in 1..Len(toServer')
        PROVE  toServer'[i].kind = "said"
    <3>1. CASE toServer' = toServer
      BY <2>2, <3>1
    <3>2. CASE toServer # <<>> /\ toServer' = Tail(toServer)
      <4>1. i + 1 \in 1..Len(toServer) /\ Tail(toServer)[i] = toServer[i + 1]
        BY <1>3, <3>2, TailAt
      <4>. QED
        BY <2>2, <3>2, <4>1
    <3>. QED
      BY <1>1, <3>1, <3>2
  <2>. QED
    BY <1>7, <2>1, <2>3 DEF WireInv
<1>8. registered' /\ greeted' => server'.welcomed
  BY <1>1, <1>4 DEF WireInv
<1>9. sasl' \in {"Authenticated", "Refused"} /\ greeted' => server'.account
  BY <1>1, <1>4 DEF WireInv
<1>10. /\ loop' # "open" => ~alive' /\ ~greeted'
       /\ ~alive' => toServer' = <<>>
       /\ ~greeted' =>
             /\ toClient' = <<>>
             /\ \E aware \in BOOLEAN : server' = FreshServer(aware)
             /\ \A i \in 1..Len(toServer') : toServer'[i].kind = "said"
  BY <1>1, <1>7 DEF WireInv
<1>. QED
  BY <1>5, <1>6, <1>8, <1>9, <1>10 DEF WireInv

LEMMA WireInit == Init => WireInv
<1>. SUFFICES ASSUME Init PROVE WireInv
  OBVIOUS
<1>1. FreshSasl \notin {"Authenticated", "Refused"}
  BY DEF FreshSasl
<1>2. toServer = <<>> /\ toClient = <<>> /\ server = FreshServer(TRUE)
  BY DEF Init
<1>3. \A i \in 1..Len(toServer) : toServer[i].kind = "said"
  BY <1>2
<1>4. loop # "open" /\ ~alive /\ ~greeted /\ ~registered /\ sasl = FreshSasl
  BY DEF Init
<1>. QED
  BY <1>1, <1>2, <1>3, <1>4, LacksNone DEF WireInv

LEMMA WireStep == TypeInv /\ WireInv /\ [Next]_vars => WireInv'
<1>. SUFFICES ASSUME TypeInv, WireInv, [Next]_vars
              PROVE  WireInv'
  OBVIOUS
<1>0. toServer \in Seq(FromClient)
  BY DEF TypeInv, TypeOK
<1>1. CASE OnConnected
  <2>1. /\ loop = "open" /\ greeted' = TRUE /\ registered' = FALSE /\ sasl' = FreshSasl
        /\ UNCHANGED <<loop, alive, toClient, server>>
    BY <1>1 DEF OnConnected, drive, Reset
  <2>2. FreshSasl \notin {"Authenticated", "Refused"}
    BY DEF FreshSasl
  <2>3. ~alive => toServer' = toServer
    BY <1>1 DEF OnConnected, Send
  <2>. QED
    BY <2>1, <2>2, <2>3 DEF WireInv
<1>2. CASE OnLine
  BY <1>2, WireLine
<1>3. CASE Say
  <2>1. /\ loop = "open" /\ Send(<<Said("said")>>)
        /\ UNCHANGED <<loop, alive, greeted, toClient, server, registered, sasl>>
    BY <1>3 DEF Say, drive, session
  <2>2. Said("said") \in FromClient /\ Said("said").kind = "said"
    BY LineTyped, SaidIs
  <2>3. <<Said("said")>> \in Seq(FromClient)
    BY LineTyped
  <2>4. toServer' = toServer \o <<Said("said")>> \/ (~alive /\ toServer' = toServer)
    BY <2>1, <2>3, Sends
  <2>5. ASSUME ~greeted, NEW i \in 1..Len(toServer')
        PROVE  toServer'[i].kind = "said"
    <3>1. \A j \in 1..Len(toServer) : toServer[j].kind = "said"
      BY <2>5 DEF WireInv
    <3>2. CASE toServer' = toServer
      BY <2>5, <3>1, <3>2
    <3>3. CASE toServer' = toServer \o <<Said("said")>>
      <4>1. \/ i \in 1..Len(toServer) /\ toServer'[i] = toServer[i]
            \/ /\ i - Len(toServer) \in 1..Len(<<Said("said")>>)
               /\ toServer'[i] = <<Said("said")>>[i - Len(toServer)]
        BY <1>0, <2>3, <2>5, <3>3, JoinAt
      <4>2. \A j \in 1..Len(<<Said("said")>>) : <<Said("said")>>[j] = Said("said")
        OBVIOUS
      <4>. QED
        BY <2>2, <3>1, <4>1, <4>2
    <3>. QED
      BY <2>4, <3>2, <3>3
  <2>6. ~alive => toServer' = toServer
    BY <2>1 DEF Send
  <2>. QED
    BY <2>1, <2>5, <2>6 DEF WireInv
<1>4. CASE Quit \/ Stall
  BY <1>4 DEF Quit, Stall, drive, session, WireInv
<1>5. CASE DialSucceeds
  <2>1. /\ loop' = "open" /\ alive' = TRUE /\ ~greeted
        /\ \E aware \in BOOLEAN : server' = FreshServer(aware)
        /\ UNCHANGED <<toServer, toClient, greeted>>
    BY <1>5 DEF DialSucceeds, WireInv
  <2>2. toClient = <<>> /\ \A i \in 1..Len(toServer) : toServer[i].kind = "said"
    BY <2>1 DEF WireInv
  <2>. QED
    BY <2>1, <2>2, LacksNone DEF WireInv
<1>6. CASE DialFails \/ Retry \/ QuitWhileWaiting \/ Connect
  <2>1. /\ loop # "open" /\ loop' # "open"
        /\ UNCHANGED <<alive, greeted, toServer, toClient, server>>
    BY <1>6 DEF DialFails, Retry, QuitWhileWaiting, Connect
  <2>. QED
    BY <2>1 DEF WireInv
<1>7. CASE LeaveLoop
  <2>1. /\ ~alive' /\ ~greeted' /\ toServer' = <<>> /\ toClient' = <<>>
        /\ server' = FreshServer(TRUE)
    BY <1>7 DEF LeaveLoop
  <2>2. \A i \in 1..Len(toServer') : toServer'[i].kind = "said"
    BY <2>1
  <2>. QED
    BY <2>1, <2>2, LacksNone DEF WireInv
<1>8. CASE SocketEnds
  <2>1. /\ loop = "open" /\ toServer' = <<>>
        /\ UNCHANGED <<loop, greeted, toClient, server, registered, sasl>>
    BY <1>8 DEF SocketEnds, drive, session
  <2>2. \A i \in 1..Len(toServer') : toServer'[i].kind = "said"
    BY <2>1
  <2>. QED
    BY <2>1, <2>2 DEF WireInv
<1>9. CASE ServerActs \/ ServerAnnounces \/ ServerLogsIn
  BY <1>9, WireServer
<1>10. CASE UNCHANGED vars
  BY <1>10 DEF vars, drive, session, WireInv
<1>. QED
  BY <1>1, <1>2, <1>3, <1>4, <1>5, <1>6, <1>7, <1>8, <1>9, <1>10 DEF Next

LEMMA LineWelcomes == OnLine /\ Head(toClient).kind = "WELCOME" => OnWelcome
  BY DEF OnLine, OnLsMore, OnLs, OnAck, OnNak, OnNew, OnDel, OnAuthenticate, OnLoggedIn,
         OnSaslSuccess, OnSaslFail, OnSaslMechs, OnNickRefused, Take

LEMMA StrangerStep == TypeInv /\ WireInv /\ NeverQuietlyAStranger /\ [Next]_vars
                          => NeverQuietlyAStranger'
<1>. SUFFICES ASSUME TypeInv, WireInv, NeverQuietlyAStranger, [Next]_vars
              PROVE  NeverQuietlyAStranger'
  OBVIOUS
<1>. USE DEF NeverQuietlyAStranger, Mechanism
<1>1. CASE OnConnected
  BY <1>1 DEF OnConnected, Reset
<1>2. CASE OnLine
  <2>1. greeted /\ UNCHANGED <<network, greeted, server>>
    BY <1>2, LineTaken
  <2>2. CASE Head(toClient).kind = "WELCOME"
    <3>1. OnWelcome
      BY <1>2, <2>2, LineWelcomes
    <3>2. warned' = (network.mechanism # "NONE" /\ sasl \notin {"Authenticated", "Refused"})
      BY <3>1 DEF OnWelcome
    <3>3. sasl \in {"Authenticated", "Refused"} => server.account
      BY <2>1 DEF WireInv
    <3>. QED
      BY <2>1, <3>2, <3>3
  <2>3. CASE Head(toClient).kind # "WELCOME"
    <3>1. registered' = registered /\ warned' = warned
      BY <1>2, <2>3, LineKnows
    <3>. QED
      BY <2>1, <3>1
  <2>. QED
    BY <2>2, <2>3
<1>3. CASE Say \/ Quit \/ Stall \/ SocketEnds
  BY <1>3 DEF Say, Quit, Stall, SocketEnds, drive, session
<1>4. CASE DialSucceeds \/ DialFails \/ Retry \/ QuitWhileWaiting \/ Connect
  <2>1. loop # "open" /\ UNCHANGED greeted
    BY <1>4 DEF DialSucceeds, DialFails, Retry, QuitWhileWaiting, Connect
  <2>. QED
    BY <2>1 DEF WireInv
<1>5. CASE LeaveLoop
  BY <1>5 DEF LeaveLoop
<1>6. CASE ServerActs \/ ServerAnnounces \/ ServerLogsIn
  <2>1. UNCHANGED <<network, greeted, registered, warned>>
    BY <1>6, ServerFrame
  <2>2. server.account => server'.account
    BY <1>6, ServerSays DEF Speaks
  <2>. QED
    BY <2>1, <2>2
<1>7. CASE UNCHANGED vars
  BY <1>7 DEF vars, drive, session
<1>. QED
  BY <1>1, <1>2, <1>3, <1>4, <1>5, <1>6, <1>7 DEF Next

-----------------------------------------------------------------------------
(* The three phases of a registration. *)

\* Any number of lines of one kind that neither opens nor ends anything.
Plain == {"CAP-REQ", "NICK", "USER", "payload", "AUTHENTICATE-*", "said"}

LEMMA NegotiatesWrites ==
  ASSUME TypeInv, Negotiates, UNCHANGED server,
         \/ WritesNothing \/ StartsLogin \/ EndsCaps
         \/ \E kind \in Plain : Writes({kind})
  PROVE  Negotiates'
<1>0. toServer \in Seq(FromClient)
  BY DEF TypeInv, TypeOK
<1>. SUFFICES /\ Lacks(toServer', {"CAP-LS"}) /\ Closes(toServer')
              /\ ~cap_ended' => Lacks(toServer', {"CAP-END"})
  BY DEF Negotiates
<1>1. CASE WritesNothing
  BY <1>1 DEF WritesNothing, Negotiates
<1>2. ASSUME NEW line \in FromClient, Send(<<line>>), line.kind # "CAP-LS",
             \/ line.kind \notin {"CAP-END", "AUTHENTICATE"}
             \/ Lacks(toServer, {"CAP-END"})
      PROVE  /\ Lacks(toServer', {"CAP-LS"}) /\ Closes(toServer')
             /\ line.kind # "CAP-END" /\ Lacks(toServer, {"CAP-END"})
                   => Lacks(toServer', {"CAP-END"})
  <2>1. Lacks(toServer, {"CAP-LS"}) /\ Closes(toServer)
    BY DEF Negotiates
  <2>2. /\ <<line>> \in Seq(FromClient)
        /\ toServer' = toServer \o <<line>> \/ (~alive /\ toServer' = toServer)
        /\ \A kinds : Lacks(toServer, kinds) /\ line.kind \notin kinds => Lacks(toServer', kinds)
    BY <1>2, OneWritten
  <2>3. \/ Lacks(<<line>>, {"CAP-END", "AUTHENTICATE"})
        \/ Lacks(toServer, {"CAP-END"}) /\ Len(<<line>>) = 1
    BY <1>2, LacksOne
  <2>4. Closes(toServer')
    BY <1>0, <2>1, <2>2, <2>3, ClosesJoin
  <2>5. Lacks(toServer', {"CAP-LS"})
    BY <1>2, <2>1, <2>2
  <2>6. line.kind # "CAP-END" /\ Lacks(toServer, {"CAP-END"}) => Lacks(toServer', {"CAP-END"})
    BY <2>2
  <2>. QED
    BY <2>4, <2>5, <2>6
<1>3. CASE StartsLogin
  <2>1. /\ ~cap_ended /\ UNCHANGED cap_ended /\ Send(<<Said("AUTHENTICATE")>>)
        /\ Said("AUTHENTICATE") \in FromClient /\ Said("AUTHENTICATE").kind = "AUTHENTICATE"
    BY <1>3, LineTyped, SaidIs DEF StartsLogin
  <2>2. Lacks(toServer, {"CAP-END"})
    BY <2>1 DEF Negotiates
  <2>. QED
    BY <1>2, <2>1, <2>2
<1>4. CASE EndsCaps
  <2>1. /\ ~cap_ended /\ cap_ended' = TRUE /\ Send(<<Said("CAP-END")>>)
        /\ Said("CAP-END") \in FromClient /\ Said("CAP-END").kind = "CAP-END"
    BY <1>4, LineTyped, SaidIs DEF EndsCaps
  <2>2. Lacks(toServer, {"CAP-END"})
    BY <2>1 DEF Negotiates
  <2>. QED
    BY <1>2, <2>1, <2>2
<1>5. ASSUME NEW kind \in Plain, Writes({kind})
      PROVE  /\ Lacks(toServer', {"CAP-LS"}) /\ Closes(toServer')
             /\ ~cap_ended' => Lacks(toServer', {"CAP-END"})
  <2>1. PICK line \in FromClient : line.kind = kind /\ Send(<<line>>)
    BY <1>5 DEF Writes
  <2>2. line.kind \notin {"CAP-LS", "CAP-END", "AUTHENTICATE"}
    BY <2>1 DEF Plain
  <2>3. UNCHANGED cap_ended
    BY <1>5 DEF Writes
  <2>4. ~cap_ended => Lacks(toServer, {"CAP-END"})
    BY DEF Negotiates
  <2>. QED
    BY <1>2, <2>1, <2>2, <2>3, <2>4
<1>. QED
  BY <1>1, <1>3, <1>4, <1>5

LEMMA ConcludedWrites ==
  ASSUME TypeInv, Concluded, UNCHANGED server,
         \/ WritesNothing \/ StartsLogin \/ EndsCaps
         \/ \E kind \in Plain : Writes({kind})
  PROVE  Concluded'
<1>1. cap_ended /\ Lacks(toServer, {"CAP-LS", "CAP-END", "AUTHENTICATE"})
  BY DEF Concluded
<1>2. CASE WritesNothing
  BY <1>2 DEF WritesNothing, Concluded
<1>3. ~StartsLogin /\ ~EndsCaps
  BY <1>1 DEF StartsLogin, EndsCaps
<1>4. ASSUME NEW kind \in Plain, Writes({kind})
      PROVE  Concluded'
  <2>1. PICK line \in FromClient : line.kind = kind /\ Send(<<line>>)
    BY <1>4 DEF Writes
  <2>2. line.kind \notin {"CAP-LS", "CAP-END", "AUTHENTICATE"}
    BY <2>1 DEF Plain
  <2>3. Lacks(toServer', {"CAP-LS", "CAP-END", "AUTHENTICATE"})
    BY <1>1, <2>1, <2>2, OneWritten
  <2>. QED
    BY <1>4, <2>3 DEF Writes, Concluded
<1>. QED
  BY <1>2, <1>3, <1>4

\* Before the list the client writes its nickname again, and what it says.
LEMMA QuietWrites ==
  ASSUME TypeInv, Quiet, UNCHANGED <<server, alive>>,
         \A i \in 1..Len(toClient') :
             toClient'[i].kind \in {"NICKREFUSED", "WELCOME", "LOGGEDIN"},
         WritesNothing \/ Writes({"NICK"}) \/ Writes({"said"})
  PROVE  Quiet'
<1>0. toServer \in Seq(FromClient)
  BY DEF TypeInv, TypeOK
<1>1. CASE WritesNothing
  BY <1>1 DEF WritesNothing, Quiet
<1>2. ASSUME NEW kind \in {"NICK", "said"}, Writes({kind})
      PROVE  Quiet'
  <2>1. PICK line \in FromClient : line.kind = kind /\ Send(<<line>>)
    BY <1>2 DEF Writes
  <2>2. UNCHANGED cap_ended
    BY <1>2 DEF Writes
  <2>3. line.kind \notin Later /\ line.kind \notin {"CAP-LS"}
    BY <2>1 DEF Later
  <2>4. /\ <<line>> \in Seq(FromClient)
        /\ toServer' = toServer \o <<line>> \/ (~alive /\ toServer' = toServer)
        /\ Lacks(toServer, Later) => Lacks(toServer', Later)
    BY <2>1, <2>3, OneWritten
  <2>5. Lacks(<<line>>, {"CAP-LS"})
    BY <2>3, LacksOne
  <2>6. ASSUME server.aware, alive
        PROVE  Sole(toServer', {"CAP-LS"}, "CAP-LS") /\ Before(toServer', "CAP-LS", "NICK")
    <3>1. Sole(toServer, {"CAP-LS"}, "CAP-LS") /\ Before(toServer, "CAP-LS", "NICK")
      BY <2>6 DEF Quiet
    <3>2. toServer' = toServer \o <<line>>
      BY <2>4, <2>6
    <3>3. Sole(toServer \o <<line>>, {"CAP-LS"}, "CAP-LS")
      BY <1>0, <2>4, <2>5, <3>1, SoleJoin
    <3>4. Before(toServer \o <<line>>, "CAP-LS", "NICK")
      BY <1>0, <2>4, <3>1, BeforeJoin
    <3>. QED
      BY <3>2, <3>3, <3>4
  <2>. QED
    BY <2>2, <2>4, <2>6 DEF Quiet
<1>. QED
  BY <1>1, <1>2

LEMMA PhaseLine ==
  ASSUME TypeInv, OnLine, Quiet \/ Negotiates \/ Concluded
  PROVE  Quiet' \/ Negotiates' \/ Concluded'
<1>1. UNCHANGED <<server, alive>> /\ toClient # <<>> /\ toClient' = Tail(toClient)
  BY LineTaken
<1>2. toClient \in Seq(FromServer)
  BY DEF TypeInv, TypeOK
<1>3. \/ WritesNothing \/ StartsLogin \/ EndsCaps
      \/ \E kind \in Plain : Writes({kind})
  BY LineSays DEF Plain
<1>4. CASE Quiet
  <2>1. \A i \in 1..Len(toClient) :
           toClient[i].kind \in {"NICKREFUSED", "WELCOME", "LOGGEDIN"}
    BY <1>4 DEF Quiet
  <2>2. ASSUME NEW i \in 1..Len(toClient')
        PROVE  toClient'[i].kind \in {"NICKREFUSED", "WELCOME", "LOGGEDIN"}
    <3>1. i + 1 \in 1..Len(toClient) /\ Tail(toClient)[i] = toClient[i + 1]
      BY <1>1, <1>2, TailAt
    <3>. QED
      BY <1>1, <2>1, <3>1
  <2>3. Head(toClient).kind \in {"NICKREFUSED", "WELCOME", "LOGGEDIN"}
    <3>1. Head(toClient) = toClient[1] /\ 1 \in 1..Len(toClient)
      BY <1>1, <1>2, TailAt
    <3>. QED
      BY <2>1, <3>1
  <2>4. WritesNothing \/ Writes({"NICK"})
    BY <2>3, LineSays
  <2>. QED
    BY <1>1, <1>4, <2>2, <2>4, QuietWrites
<1>5. CASE Negotiates
  BY <1>1, <1>3, <1>5, NegotiatesWrites
<1>6. CASE Concluded
  BY <1>1, <1>3, <1>6, ConcludedWrites
<1>. QED
  BY <1>4, <1>5, <1>6

LEMMA SaysWrites == ASSUME Say PROVE Writes({"said"})
<1>1. Send(<<Said("said")>>) /\ UNCHANGED cap_ended
  BY DEF Say, session
<1>2. Said("said") \in FromClient /\ Said("said").kind = "said"
  BY LineTyped, SaidIs
<1>. QED
  BY <1>1, <1>2 DEF Writes

LEMMA PhaseSay ==
  ASSUME TypeInv, Say, Quiet \/ Negotiates \/ Concluded
  PROVE  Quiet' \/ Negotiates' \/ Concluded'
<1>1. UNCHANGED <<server, alive, toClient>>
  BY DEF Say
<1>2. Writes({"said"}) /\ "said" \in Plain
  BY SaysWrites DEF Plain
<1>3. \E kind \in Plain : Writes({kind})
  BY <1>2
<1>4. CASE Quiet
  <2>1. \A i \in 1..Len(toClient') :
           toClient'[i].kind \in {"NICKREFUSED", "WELCOME", "LOGGEDIN"}
    BY <1>1, <1>4 DEF Quiet
  <2>. QED
    BY <1>1, <1>2, <1>4, <2>1, QuietWrites
<1>5. CASE Negotiates
  BY <1>1, <1>3, <1>5, NegotiatesWrites
<1>6. CASE Concluded
  BY <1>1, <1>3, <1>6, ConcludedWrites
<1>. QED
  BY <1>4, <1>5, <1>6

\* What a line asks of the server, and what of the server it changes.
LEMMA Takes ==
  ASSUME TypeInv, NEW kind, ServerTakes(kind)
  PROVE  /\ toServer # <<>> /\ toServer \in Seq(FromClient) /\ toServer' = Tail(toServer)
         /\ alive /\ Head(toServer).kind = kind
         /\ UNCHANGED <<network, alive, cap_ended, registered, scram, control, greeted>>
BY DEF ServerTakes, Asked, TypeInv, TypeOK, session, drive

LEMMA ServerChanges ==
  ASSUME TypeInv, ServerActs \/ ServerAnnounces \/ ServerLogsIn
  PROVE  /\ server'.aware = server.aware
         /\ \/ ServerListsCaps \/ ServerEndsExchange
            \/ server'.negotiating = server.negotiating
         /\ ServerListsCaps \/ ServerAnnounces \/ server'.offers = server.offers
         /\ ServerTakesNick \/ server'.nick = server.nick
         /\ ServerWelcomes \/ server'.welcomed = server.welcomed
         /\ \/ ServerStartsExchange \/ ServerReadsPayload \/ ServerEndsExchange
            \/ server'.exchange = server.exchange /\ server'.refused = server.refused
<1>. USE DEF ServerStates
<1>0. server \in ServerStates
  BY DEF TypeInv, TypeOK
<1>1. CASE ServerListsCaps
  BY <1>0, <1>1 DEF ServerListsCaps
<1>2. CASE ServerAnswersRequest
  BY <1>0, <1>2 DEF ServerAnswersRequest
<1>3. CASE ServerTakesNick
  BY <1>0, <1>3 DEF ServerTakesNick
<1>4. CASE ServerTakesUser
  BY <1>0, <1>4 DEF ServerTakesUser
<1>5. CASE ServerStartsExchange
  BY <1>0, <1>5 DEF ServerStartsExchange, RefuseLogin
<1>6. CASE ServerReadsPayload
  BY <1>0, <1>6 DEF ServerReadsPayload, RefuseLogin, AcceptLogin
<1>7. CASE ServerEndsExchange
  BY <1>0, <1>7 DEF ServerEndsExchange
<1>8. CASE ServerHears
  BY <1>0, <1>8 DEF ServerHears
<1>9. CASE ServerWelcomes
  BY <1>0, <1>9 DEF ServerWelcomes
<1>10. CASE ServerAnnounces
  BY <1>0, <1>10 DEF ServerAnnounces
<1>11. CASE ServerLogsIn
  BY <1>0, <1>11 DEF ServerLogsIn
<1>. QED
  BY <1>1, <1>2, <1>3, <1>4, <1>5, <1>6, <1>7, <1>8, <1>9, <1>10, <1>11
  DEF ServerActs

\* What is taken off the front leaves what the rest lacks, and how it closes.
LEMMA FrontTaken ==
  ASSUME TypeInv, ServerActs \/ ServerAnnounces \/ ServerLogsIn
  PROVE  /\ \A kinds : Lacks(toServer, kinds) => Lacks(toServer', kinds)
         /\ Closes(toServer) => Closes(toServer')
<1>1. toServer' = toServer \/ (toServer # <<>> /\ toServer' = Tail(toServer))
  BY ServerFrame
<1>2. toServer \in Seq(FromClient)
  BY DEF TypeInv, TypeOK
<1>3. CASE toServer' = toServer
  BY <1>3
<1>4. CASE toServer # <<>> /\ toServer' = Tail(toServer)
  <2>1. Closes(toServer) => Closes(toServer')
    BY <1>2, <1>4, ClosesTail
  <2>2. ASSUME NEW kinds, Lacks(toServer, kinds)
        PROVE  Lacks(toServer', kinds)
    BY <1>2, <1>4, <2>2, LacksTail
  <2>. QED
    BY <2>1, <2>2
<1>. QED
  BY <1>1, <1>3, <1>4

LEMMA ReadsWhatIsThere ==
  ASSUME TypeInv, NEW kind, ServerTakes(kind), NEW kinds, Lacks(toServer, kinds)
  PROVE  kind \notin kinds
BY Takes, LacksTail

LEMMA NegotiatesServer ==
  ASSUME TypeInv, Negotiates, ServerActs \/ ServerAnnounces \/ ServerLogsIn
  PROVE  Negotiates' \/ Concluded'
<1>1. /\ server.aware /\ server.negotiating /\ ~server.welcomed
      /\ Lacks(toServer, {"CAP-LS"}) /\ Closes(toServer)
      /\ ~cap_ended => Lacks(toServer, {"CAP-END"})
  BY DEF Negotiates
<1>2. UNCHANGED cap_ended
  BY ServerFrame
<1>3. ~ServerListsCaps
  BY <1>1, ReadsWhatIsThere DEF ServerListsCaps
<1>4. ~ServerWelcomes
  BY <1>1 DEF ServerWelcomes
<1>5. /\ server'.aware /\ ~server'.welcomed
      /\ Lacks(toServer', {"CAP-LS"}) /\ Closes(toServer')
      /\ ~cap_ended' => Lacks(toServer', {"CAP-END"})
  BY <1>1, <1>2, <1>4, FrontTaken, ServerChanges
<1>6. CASE server'.negotiating
  BY <1>5, <1>6 DEF Negotiates
<1>7. CASE ~server'.negotiating
  <2>1. ServerEndsExchange
    BY <1>1, <1>3, <1>7, ServerChanges
  <2>2. server \in ServerStates
    BY DEF TypeInv, TypeOK, ServerStates
  <2>3. CASE ServerTakes("AUTHENTICATE-*")
    <3>1. Asked.kind = "AUTHENTICATE-*"
      BY <2>3 DEF ServerTakes
    <3>2. server'.negotiating = server.negotiating
      BY <2>1, <2>2, <3>1 DEF ServerEndsExchange, ServerStates
    <3>. QED
      BY <1>1, <1>7, <3>2
  <2>4. CASE ServerTakes("CAP-END")
    <3>1. /\ toServer # <<>> /\ toServer \in Seq(FromClient) /\ toServer' = Tail(toServer)
          /\ Head(toServer).kind = "CAP-END"
      BY <2>4, Takes
    <3>2. Lacks(toServer', {"CAP-END", "AUTHENTICATE"})
      BY <1>1, <3>1, ClosesTail
    <3>3. Lacks(toServer', {"CAP-LS", "CAP-END", "AUTHENTICATE"})
      BY <1>5, <3>2 DEF Lacks
    <3>4. cap_ended
      BY <1>1, <2>4, ReadsWhatIsThere
    <3>5. server'.exchange = "idle"
      BY <2>1, <2>2 DEF ServerEndsExchange, ServerStates
    <3>. QED
      BY <1>2, <1>5, <1>7, <3>3, <3>4, <3>5 DEF Concluded, TypeInv, TypeOK
  <2>. QED
    BY <2>1, <2>3, <2>4 DEF ServerEndsExchange
<1>. QED
  BY <1>6, <1>7

LEMMA ConcludedServer ==
  ASSUME TypeInv, Concluded, ServerActs \/ ServerAnnounces \/ ServerLogsIn
  PROVE  Concluded' /\ server'.refused = server.refused
<1>1. /\ server.aware /\ ~server.negotiating /\ cap_ended /\ server.exchange = "idle"
      /\ Lacks(toServer, {"CAP-LS", "CAP-END", "AUTHENTICATE"})
  BY DEF Concluded
<1>2. cap_ended' /\ Lacks(toServer', {"CAP-LS", "CAP-END", "AUTHENTICATE"})
  BY <1>1, FrontTaken, ServerFrame
<1>3. ~ServerListsCaps /\ ~ServerStartsExchange /\ ~ServerTakes("CAP-END")
  <2>1. ~ServerTakes("CAP-LS") /\ ~ServerTakes("AUTHENTICATE") /\ ~ServerTakes("CAP-END")
    BY <1>1, ReadsWhatIsThere
  <2>. QED
    BY <2>1 DEF ServerListsCaps, ServerStartsExchange
<1>4. server \in ServerStates
  BY DEF TypeInv, TypeOK, ServerStates
<1>5. ServerReadsPayload => UNCHANGED server
  BY <1>1 DEF ServerReadsPayload
<1>6. ServerEndsExchange => server' = server
  <2>1. SUFFICES ASSUME ServerEndsExchange PROVE server' = server
    OBVIOUS
  <2>2. Asked.kind = "AUTHENTICATE-*"
    BY <1>3, <2>1 DEF ServerEndsExchange, ServerTakes
  <2>3. server' = [server EXCEPT !.negotiating = server.negotiating]
    BY <1>1, <2>1, <2>2 DEF ServerEndsExchange
  <2>. QED
    BY <1>4, <2>3 DEF ServerStates
<1>7. /\ server'.aware /\ server'.negotiating = server.negotiating
      /\ server'.exchange = server.exchange /\ server'.refused = server.refused
  BY <1>1, <1>3, <1>5, <1>6, ServerChanges
<1>. QED
  BY <1>1, <1>2, <1>7 DEF Concluded

LEMMA QuietServer ==
  ASSUME TypeInv, Quiet, ServerActs \/ ServerAnnounces \/ ServerLogsIn
  PROVE  (Quiet' \/ Negotiates') /\ server'.refused = server.refused
<1>1. /\ ~cap_ended /\ server.exchange = "idle" /\ ~server.refused /\ ~server.negotiating
      /\ Lacks(toServer, Later)
      /\ \A i \in 1..Len(toClient) : toClient[i].kind \in {"NICKREFUSED", "WELCOME", "LOGGEDIN"}
      /\ server.aware => ~server.welcomed
      /\ server.aware /\ alive =>
            /\ Sole(toServer, {"CAP-LS"}, "CAP-LS") /\ Before(toServer, "CAP-LS", "NICK")
            /\ ~server.nick
  BY DEF Quiet
<1>2. alive /\ UNCHANGED <<alive, cap_ended>> /\ Lacks(toServer', Later)
  BY <1>1, FrontTaken, ServerFrame
<1>3. /\ toServer \in Seq(FromClient) /\ toClient \in Seq(FromServer)
      /\ server \in ServerStates
  BY DEF TypeInv, TypeOK, ServerStates
<1>4. ~ServerTakes("AUTHENTICATE") /\ ~ServerTakes("payload") /\ ~ServerTakes("CAP-REQ")
      /\ ~ServerTakes("AUTHENTICATE-*") /\ ~ServerTakes("CAP-END")
  BY <1>1, ReadsWhatIsThere DEF Later
<1>5. ~ServerStartsExchange /\ ~ServerReadsPayload /\ ~ServerEndsExchange /\ ~ServerAnswersRequest
  BY <1>4 DEF ServerStartsExchange, ServerReadsPayload, ServerEndsExchange, ServerAnswersRequest
<1>6. server'.refused = server.refused /\ server'.exchange = server.exchange
  BY <1>5, ServerChanges
\* The server lists its capabilities.
<1>7. CASE ServerListsCaps /\ server.aware
  <2>1. server'.negotiating
    BY <1>3, <1>7 DEF ServerListsCaps, ServerStates
  <2>2. server'.aware /\ ~server'.welcomed
    BY <1>1, <1>7, ServerChanges DEF ServerListsCaps, ServerWelcomes
  <2>3. /\ toServer # <<>> /\ toServer' = Tail(toServer) /\ Head(toServer).kind = "CAP-LS"
    BY <1>7, Takes DEF ServerListsCaps
  <2>4. Lacks(toServer', {"CAP-LS"})
    BY <1>1, <1>2, <1>3, <1>7, <2>3, SoleTail
  <2>5. Lacks(toServer', {"CAP-END"}) /\ Closes(toServer')
    BY <1>2 DEF Lacks, Closes, Later
  <2>. QED
    BY <1>6, <2>1, <2>2, <2>4, <2>5 DEF Negotiates
\* Anything else it does leaves the phase as it was.
<1>8. CASE ~(ServerListsCaps /\ server.aware)
  <2>1. server'.aware = server.aware /\ ~server'.negotiating
    <3>1. ServerListsCaps => server' = server
      BY <1>8 DEF ServerListsCaps
    <3>. QED
      BY <1>1, <1>5, <3>1, ServerChanges
  <2>2. ASSUME server.aware
        PROVE  /\ Sole(toServer', {"CAP-LS"}, "CAP-LS") /\ Before(toServer', "CAP-LS", "NICK")
               /\ ~server'.nick /\ ~server'.welcomed
    <3>1. /\ Sole(toServer, {"CAP-LS"}, "CAP-LS") /\ Before(toServer, "CAP-LS", "NICK")
          /\ ~server.nick /\ ~server.welcomed
      BY <1>1, <1>2, <2>2
    <3>2. ~ServerTakes("NICK")
      BY <1>3, <3>1, BeforeTail, Takes
    <3>3. ~ServerTakesNick /\ ~ServerWelcomes
      BY <3>1, <3>2 DEF ServerTakesNick, ServerWelcomes
    <3>4. ~server'.nick /\ ~server'.welcomed
      BY <3>1, <3>3, ServerChanges
    <3>5. CASE toServer' = toServer
      BY <3>1, <3>4, <3>5
    <3>6. CASE toServer # <<>> /\ toServer' = Tail(toServer)
      <4>1. Head(toServer).kind # "CAP-LS"
        <5>1. ServerTakes("USER") \/ ServerTakes("said") \/ toServer' = toServer
          BY <1>5, <1>8, <2>2, <3>3
          DEF ServerActs, ServerTakesUser, ServerHears, ServerAnnounces, ServerLogsIn
        <5>2. toServer' # toServer
          BY <1>3, <3>6, TailAt
        <5>. QED
          BY <5>1, <5>2, Takes
      <4>2. Sole(Tail(toServer), {"CAP-LS"}, "CAP-LS")
        BY <1>3, <3>1, <3>6, <4>1, SoleTail
      <4>3. Before(Tail(toServer), "CAP-LS", "NICK")
        BY <1>3, <3>1, <3>6, <4>1, BeforeTail
      <4>. QED
        BY <3>4, <3>6, <4>2, <4>3
    <3>. QED
      BY <3>5, <3>6, ServerFrame
  <2>3. \A i \in 1..Len(toClient') : toClient'[i].kind \in {"NICKREFUSED", "WELCOME", "LOGGEDIN"}
    <3>1. ASSUME NEW kind \in {"NICKREFUSED", "WELCOME", "LOGGEDIN"}, Reply(<<Said(kind)>>)
          PROVE  \A i \in 1..Len(toClient') :
                    toClient'[i].kind \in {"NICKREFUSED", "WELCOME", "LOGGEDIN"}
      <4>1. <<Said(kind)>> \in Seq(FromServer) /\ Said(kind).kind = kind
        BY AnswerTyped, SaidIs
      <4>2. \A j \in 1..Len(<<Said(kind)>>) : <<Said(kind)>>[j] = Said(kind)
        OBVIOUS
      <4>3. ASSUME NEW i \in 1..Len(toClient')
            PROVE  toClient'[i].kind \in {"NICKREFUSED", "WELCOME", "LOGGEDIN"}
        <5>1. \/ i \in 1..Len(toClient) /\ toClient'[i] = toClient[i]
              \/ /\ i - Len(toClient) \in 1..Len(<<Said(kind)>>)
                 /\ toClient'[i] = <<Said(kind)>>[i - Len(toClient)]
          BY <1>3, <3>1, <4>1, JoinAt DEF Reply
        <5>. QED
          BY <1>1, <4>1, <4>2, <5>1
      <4>. QED
        BY <4>3
    <3>2. CASE UNCHANGED toClient
      BY <1>1, <3>2
    <3>3. \/ UNCHANGED toClient
          \/ \E kind \in {"NICKREFUSED", "WELCOME", "LOGGEDIN"} : Reply(<<Said(kind)>>)
      <4>1. ~ServerAnnounces
        BY <1>1 DEF ServerAnnounces
      <4>. QED
        BY <1>5, <1>8, <4>1
        DEF ServerActs, ServerListsCaps, ServerTakesNick, ServerTakesUser, ServerHears,
            ServerWelcomes, ServerLogsIn
    <3>. QED
      BY <3>1, <3>2, <3>3
  <2>. QED
    BY <1>1, <1>2, <1>6, <2>1, <2>2, <2>3 DEF Quiet
<1>. QED
  BY <1>7, <1>8

LEMMA BeforeAppend ==
  ASSUME NEW S, NEW s \in Seq(S), NEW m \in S, NEW then, Lacks(s, {then})
  PROVE  Before(Append(s, m), m.kind, then)
<1>1. /\ Len(s) \in Nat /\ Len(Append(s, m)) = Len(s) + 1
      /\ \A i \in 1..Len(s) : Append(s, m)[i] = s[i]
      /\ Append(s, m)[Len(s) + 1] = m
  OBVIOUS
<1>2. Len(s) + 1 \in 1..Len(Append(s, m))
  BY <1>1
<1>3. \A j \in 1..Len(Append(s, m)) : j < Len(s) + 1 => Append(s, m)[j].kind # then
  BY <1>1 DEF Lacks
<1>. QED
  BY <1>1, <1>2, <1>3 DEF Before

LEMMA BeforeOne ==
  ASSUME NEW m, NEW then
  PROVE  Before(<<m>>, m.kind, then)
BY DEF Before

\* A refusal is told when it is made.
LEMMA RefusalTold ==
  ASSUME TypeInv, ServerActs \/ ServerAnnounces \/ ServerLogsIn,
         server'.refused # server.refused
  PROVE  \E messages \in Seq(FromServer) :
            toClient' = toClient \o messages /\ Before(messages, "SASLFAIL", "WELCOME")
<1>0. server \in ServerStates
  BY DEF TypeInv, TypeOK, ServerStates
<1>1. Said("SASLFAIL") \in FromServer /\ <<Said("SASLFAIL")>> \in Seq(FromServer)
  BY AnswerTyped
<1>2. Said("SASLFAIL").kind = "SASLFAIL"
  BY SaidIs
<1>3. ASSUME NEW told \in {<<>>, <<Said("SASLMECHS")>>}, RefuseLogin(told)
      PROVE  \E messages \in Seq(FromServer) :
                toClient' = toClient \o messages /\ Before(messages, "SASLFAIL", "WELCOME")
  <2>1. told \in Seq(FromServer)
    BY AnswerTyped, EmptyTyped
  <2>2. Lacks(told, {"WELCOME"})
    BY SaidIs, LacksNone, LacksOne
  <2>3. Append(told, Said("SASLFAIL")) \in Seq(FromServer)
    BY <1>1, <2>1, AppendTyped
  <2>4. Before(Append(told, Said("SASLFAIL")), "SASLFAIL", "WELCOME")
    BY <1>1, <1>2, <2>1, <2>2, BeforeAppend
  <2>. QED
    BY <1>3, <2>3, <2>4 DEF RefuseLogin, Reply
<1>4. CASE ServerStartsExchange
  <2>1. \E told \in {<<>>, <<Said("SASLMECHS")>>} : RefuseLogin(told)
    BY <1>0, <1>4 DEF ServerStartsExchange, ServerStates
  <2>. QED
    BY <1>3, <2>1
<1>5. CASE ServerReadsPayload
  <2>1. RefuseLogin(<<>>)
    BY <1>0, <1>5 DEF ServerReadsPayload, AcceptLogin, ServerStates
  <2>. QED
    BY <1>3, <2>1
<1>6. CASE ServerEndsExchange
  <2>1. Reply(<<Said("SASLFAIL")>>)
    BY <1>0, <1>6 DEF ServerEndsExchange, ServerStates
  <2>2. Before(<<Said("SASLFAIL")>>, "SASLFAIL", "WELCOME")
    BY <1>2, BeforeOne
  <2>. QED
    BY <1>1, <2>1, <2>2 DEF Reply
<1>. QED
  BY <1>4, <1>5, <1>6, ServerChanges

Phases == Quiet \/ Negotiates \/ Concluded
RefusalAhead ==
    server.refused =>
        /\ ~registered
        /\ control # "continue" \/ Before(toClient, "SASLFAIL", "WELCOME")

LEMMA RefusalServer ==
  ASSUME TypeInv, WireInv, greeted, Phases, RefusalAhead,
         ServerActs \/ ServerAnnounces \/ ServerLogsIn
  PROVE  RefusalAhead'
<1>0. toClient \in Seq(FromServer)
  BY DEF TypeInv, TypeOK
<1>1. UNCHANGED <<registered, control>>
  BY ServerFrame
<1>2. CASE server'.refused = server.refused
  <2>1. PICK messages : messages \in Seq(FromServer) /\ toClient' = toClient \o messages
    BY ServerSays DEF Speaks
  <2>2. Before(toClient, "SASLFAIL", "WELCOME") => Before(toClient', "SASLFAIL", "WELCOME")
    BY <1>0, <2>1, BeforeJoin
  <2>. QED
    BY <1>1, <1>2, <2>2 DEF RefusalAhead
<1>3. CASE server'.refused # server.refused
  <2>1. Negotiates
    BY <1>3, QuietServer, ConcludedServer DEF Phases
  <2>2. ~server.welcomed
    BY <2>1 DEF Negotiates
  <2>3. ~registered /\ Lacks(toClient, {"WELCOME"})
    BY <2>2 DEF WireInv
  <2>4. PICK messages \in Seq(FromServer) :
           toClient' = toClient \o messages /\ Before(messages, "SASLFAIL", "WELCOME")
    BY <1>3, RefusalTold
  <2>5. Before(toClient', "SASLFAIL", "WELCOME")
    BY <1>0, <2>3, <2>4, BeforeJoin
  <2>. QED
    BY <1>1, <2>3, <2>5 DEF RefusalAhead
<1>. QED
  BY <1>2, <1>3

LEMMA RefusalLine ==
  ASSUME TypeInv, RefusalAhead, OnLine
  PROVE  RefusalAhead'
<1>1. /\ control = "continue" /\ toClient # <<>> /\ toClient' = Tail(toClient)
      /\ UNCHANGED server
  BY LineTaken
<1>2. toClient \in Seq(FromServer)
  BY DEF TypeInv, TypeOK
<1>. SUFFICES ASSUME server.refused
              PROVE  /\ ~registered'
                     /\ control' # "continue" \/ Before(toClient', "SASLFAIL", "WELCOME")
  BY <1>1 DEF RefusalAhead
<1>3. ~registered /\ Before(toClient, "SASLFAIL", "WELCOME")
  BY <1>1 DEF RefusalAhead
<1>4. /\ Head(toClient).kind # "WELCOME"
      /\ Head(toClient).kind # "SASLFAIL" => Before(Tail(toClient), "SASLFAIL", "WELCOME")
  BY <1>1, <1>2, <1>3, BeforeTail
<1>5. ~registered'
  BY <1>3, <1>4, LineKnows
<1>6. Head(toClient).kind = "SASLFAIL" => control' = "stop"
  BY LineEnds
<1>. QED
  BY <1>1, <1>4, <1>5, <1>6

\* What is said on being connected.
LEMMA Greeting ==
  ASSUME TypeInv, WireInv, OnConnected
  PROVE  Quiet' /\ ~server'.refused
<1>0. toServer \in Seq(FromClient)
  BY DEF TypeInv, TypeOK
<1>1. /\ ~greeted /\ greeted' = TRUE /\ cap_ended' = FALSE
      /\ UNCHANGED <<server, toClient, alive>>
      /\ Send(<<Said("CAP-LS"), Said("NICK"), Said("USER")>>)
  BY DEF OnConnected, Reset
<1>2. /\ toClient = <<>> /\ \A i \in 1..Len(toServer) : toServer[i].kind = "said"
      /\ \E aware \in BOOLEAN : server = FreshServer(aware)
  BY <1>1 DEF WireInv
<1>. DEFINE lines == <<Said("CAP-LS"), Said("NICK"), Said("USER")>>
<1>3. \A kind \in {"CAP-LS", "NICK", "USER"} : Said(kind) \in FromClient /\ Said(kind).kind = kind
  BY LineTyped, SaidIs
<1>4. lines \in Seq(FromClient)
  BY <1>3, ThreeTyped
<1>5. /\ Len(lines) = 3 /\ lines[1] = Said("CAP-LS") /\ lines[2] = Said("NICK")
      /\ lines[3] = Said("USER")
  OBVIOUS
<1>6. toServer' = toServer \o lines \/ (~alive /\ toServer' = toServer)
  BY <1>1, <1>4, Sends
<1>. HIDE DEF lines
<1>7. /\ lines[1].kind = "CAP-LS" /\ lines[2].kind = "NICK" /\ lines[3].kind = "USER"
  BY <1>3, <1>5
<1>8. \A i \in 1..Len(lines) : i = 1 \/ i = 2 \/ i = 3
  BY <1>5
<1>9. Lacks(lines, Later)
  BY <1>7, <1>8 DEF Lacks, Later
<1>10. Sole(lines, {"CAP-LS"}, "CAP-LS")
  <2>1. 1 \in 1..Len(lines)
    BY <1>5
  <2>2. \A j \in 1..Len(lines) : j # 1 => lines[j].kind \notin {"CAP-LS"}
    BY <1>7, <1>8
  <2>. QED
    BY <1>7, <2>1, <2>2 DEF Sole
<1>11. Before(lines, "CAP-LS", "NICK")
  <2>1. 1 \in 1..Len(lines)
    BY <1>5
  <2>2. \A j \in 1..Len(lines) : ~(j < 1)
    BY <1>5
  <2>. QED
    BY <1>7, <2>1, <2>2 DEF Before
<1>12. Lacks(toServer, Later) /\ Lacks(toServer, {"CAP-LS"}) /\ Lacks(toServer, {"NICK"})
  BY <1>2 DEF Lacks, Later
<1>13. Lacks(toServer', Later)
  <2>1. Lacks(toServer \o lines, Later)
    BY <1>0, <1>4, <1>9, <1>12, LacksJoin
  <2>. QED
    BY <1>6, <1>12, <2>1
<1>14. alive => /\ Sole(toServer', {"CAP-LS"}, "CAP-LS")
                /\ Before(toServer', "CAP-LS", "NICK")
  BY <1>0, <1>4, <1>6, <1>10, <1>11, <1>12, SoleJoin, BeforeJoin
<1>15. /\ server'.exchange = "idle" /\ ~server'.refused /\ ~server'.negotiating
       /\ ~server'.welcomed /\ ~server'.nick
  BY <1>1, <1>2 DEF FreshServer
<1>16. \A i \in 1..Len(toClient') : toClient'[i].kind \in {"NICKREFUSED", "WELCOME", "LOGGEDIN"}
  BY <1>1, <1>2
<1>. QED
  BY <1>1, <1>13, <1>14, <1>15, <1>16 DEF Quiet

\* The phases as one invariant.
LEMMA PhaseIs == PhaseInv <=> (greeted => Phases /\ RefusalAhead)
  BY DEF PhaseInv, Phases, RefusalAhead

LEMMA PhaseIsNext == PhaseInv' <=> (greeted' => Phases' /\ RefusalAhead')
  BY DEF PhaseInv, Phases, RefusalAhead

LEMMA PhaseInit == Init => PhaseInv
  BY DEF Init, PhaseInv

LEMMA PhaseStep == TypeInv /\ WireInv /\ PhaseInv /\ [Next]_vars => PhaseInv'
<1>. SUFFICES ASSUME TypeInv, WireInv, PhaseInv, [Next]_vars
              PROVE  greeted' => Phases' /\ RefusalAhead'
  BY PhaseIsNext
<1>1. CASE OnConnected
  BY <1>1, Greeting DEF Phases, RefusalAhead
<1>2. CASE OnLine
  <2>1. Phases /\ RefusalAhead
    BY <1>2, LineTaken, PhaseIs
  <2>. QED
    BY <1>2, <2>1, PhaseLine, RefusalLine DEF Phases
<1>3. CASE Say
  <2>1. UNCHANGED <<greeted, server, registered, control, toClient>>
    BY <1>3 DEF Say, session
  <2>. QED
    BY <1>3, <2>1, PhaseSay, PhaseIs DEF Phases, RefusalAhead
<1>4. CASE Quit \/ Stall
  <2>1. /\ UNCHANGED <<greeted, server, registered, toClient, toServer, alive, cap_ended>>
        /\ control' # "continue"
    BY <1>4 DEF Quit, Stall, session
  <2>2. greeted => Phases /\ RefusalAhead
    BY PhaseIs
  <2>3. Quiet => Quiet'
    BY <2>1 DEF Quiet
  <2>4. Negotiates => Negotiates'
    BY <2>1 DEF Negotiates
  <2>5. Concluded => Concluded'
    BY <2>1 DEF Concluded
  <2>6. RefusalAhead => RefusalAhead'
    BY <2>1 DEF RefusalAhead
  <2>. QED
    BY <2>1, <2>2, <2>3, <2>4, <2>5, <2>6 DEF Phases
<1>5. CASE DialSucceeds \/ DialFails \/ Retry \/ QuitWhileWaiting \/ Connect
  <2>1. loop # "open" /\ UNCHANGED greeted
    BY <1>5 DEF DialSucceeds, DialFails, Retry, QuitWhileWaiting, Connect
  <2>. QED
    BY <2>1 DEF WireInv
<1>6. CASE LeaveLoop
  BY <1>6 DEF LeaveLoop
<1>7. CASE SocketEnds
  <2>1. /\ UNCHANGED <<greeted, server, registered, control, toClient, cap_ended>>
        /\ ~alive' /\ toServer' = <<>>
    BY <1>7 DEF SocketEnds, session
  <2>2. greeted => Phases /\ RefusalAhead
    BY PhaseIs
  <2>3. Quiet => Quiet'
    BY <2>1, LacksNone DEF Quiet
  <2>4. Closes(toServer')
    BY <2>1 DEF Closes
  <2>5. Negotiates => Negotiates'
    BY <2>1, <2>4, LacksNone DEF Negotiates
  <2>6. Concluded => Concluded'
    BY <2>1, LacksNone DEF Concluded
  <2>7. RefusalAhead => RefusalAhead'
    BY <2>1 DEF RefusalAhead
  <2>. QED
    BY <2>1, <2>2, <2>3, <2>5, <2>6, <2>7 DEF Phases
<1>8. CASE ServerActs \/ ServerAnnounces \/ ServerLogsIn
  <2>1. SUFFICES ASSUME greeted' PROVE Phases' /\ RefusalAhead'
    OBVIOUS
  <2>2. greeted
    BY <1>8, <2>1, ServerFrame
  <2>3. Phases /\ RefusalAhead
    BY <2>2, PhaseIs
  <2>4. RefusalAhead'
    BY <1>8, <2>2, <2>3, RefusalServer
  <2>5. Phases'
    BY <1>8, <2>3, QuietServer, NegotiatesServer, ConcludedServer DEF Phases
  <2>. QED
    BY <2>4, <2>5
<1>9. CASE UNCHANGED vars
  <2>1. UNCHANGED <<greeted, server, registered, control, toClient, toServer, cap_ended, alive>>
    BY <1>9 DEF vars, session
  <2>2. Quiet => Quiet'
    BY <2>1 DEF Quiet
  <2>3. Negotiates => Negotiates'
    BY <2>1 DEF Negotiates
  <2>4. Concluded => Concluded'
    BY <2>1 DEF Concluded
  <2>5. RefusalAhead => RefusalAhead'
    BY <2>1 DEF RefusalAhead
  <2>6. greeted => Phases /\ RefusalAhead
    BY PhaseIs
  <2>. QED
    BY <2>1, <2>2, <2>3, <2>4, <2>5, <2>6 DEF Phases
<1>. QED
  BY <1>1, <1>2, <1>3, <1>4, <1>5, <1>6, <1>7, <1>8, <1>9 DEF Next

\* A reader who is connected is known to the server as who they said or has been
\* told that they are not, and is not one the server turned down (session.rs,
\* abort_sasl and on_welcome).
THEOREM KnownOrToldCorrect == Spec => []KnownOrTold
<1>. DEFINE Inv == TypeInv /\ WireInv /\ PhaseInv /\ NeverQuietlyAStranger
<1>1. Init => Inv
  <2>1. Init => NeverQuietlyAStranger
    BY DEF Init, NeverQuietlyAStranger
  <2>. QED
    BY <2>1, TypeInit, WireInit, PhaseInit
<1>2. Inv /\ [Next]_vars => Inv'
  BY TypeStep, WireStep, PhaseStep, StrangerStep
<1>3. Inv => KnownOrTold
  BY PhaseIs DEF KnownOrTold, RefusedIsNotConnected, RefusalAhead
<1>. QED
  BY <1>1, <1>2, <1>3, PTL DEF Spec

-----------------------------------------------------------------------------
(* What the reader says, and to whom. *)

\* A line does not make the session say anything for the reader.
LEMMA LineSaysNothing ==
  ASSUME TypeInv, OnLine, Lacks(toServer, {"said"})
  PROVE  Lacks(toServer', {"said"})
<1>1. CASE WritesNothing
  BY <1>1 DEF WritesNothing
<1>2. ASSUME NEW line \in FromClient, Send(<<line>>), line.kind # "said"
      PROVE  Lacks(toServer', {"said"})
  BY <1>2, OneWritten
<1>3. CASE StartsLogin
  <2>1. Said("AUTHENTICATE") \in FromClient /\ Said("AUTHENTICATE").kind # "said"
    BY LineTyped, SaidIs
  <2>. QED
    BY <1>2, <1>3, <2>1 DEF StartsLogin
<1>4. CASE EndsCaps
  <2>1. Said("CAP-END") \in FromClient /\ Said("CAP-END").kind # "said"
    BY LineTyped, SaidIs
  <2>. QED
    BY <1>2, <1>4, <2>1 DEF EndsCaps
<1>5. ASSUME NEW kind \in {"CAP-REQ", "payload", "AUTHENTICATE-*", "NICK"}, Writes({kind})
      PROVE  Lacks(toServer', {"said"})
  BY <1>2, <1>5 DEF Writes
<1>. QED
  BY <1>1, <1>3, <1>4, <1>5, LineSays

\* What is available is what was, and what the line names.
LEMMA OfferedIs ==
  ASSUME TypeInv, NEW names \in SUBSET Names
  PROVE  /\ Offered(names).available = caps.available \cup names
         /\ Requested(Offered(names)).available = caps.available \cup names
         /\ Answered(caps).available = caps.available
         /\ [Answered(caps) EXCEPT !.enabled = @ \cup names].available = caps.available
<1>1. caps \in CapsStates
  BY DEF TypeInv, TypeOK, CapsStates
<1>2. Offered(names) \in CapsStates /\ Offered(names).available = caps.available \cup names
  BY <1>1 DEF Offered, CapsStates
<1>3. Requested(Offered(names)).available = caps.available \cup names
  BY <1>2 DEF Requested, CapsStates
<1>4. Answered(caps) \in CapsStates /\ Answered(caps).available = caps.available
  BY <1>1 DEF Answered, CapsStates
<1>5. [Answered(caps) EXCEPT !.enabled = @ \cup names].available = caps.available
  BY <1>4 DEF CapsStates
<1>. QED
  BY <1>2, <1>3, <1>4, <1>5

LEMMA LineOffers ==
  ASSUME TypeInv, OnLine
  PROVE  \/ caps'.available \subseteq caps.available
         \/ /\ Head(toClient).kind \in {"LS-more", "LS", "NEW"}
            /\ caps'.available = caps.available \cup Named
<1>0. Named \in SUBSET Names
  <2>1. toClient \in Seq(FromServer) /\ toClient # <<>>
    BY LineTaken DEF TypeInv, TypeOK
  <2>2. Head(toClient) \in FromServer
    BY <2>1
  <2>. QED
    BY <2>2 DEF Named, FromServer
<1>1. CASE OnLsMore
  BY <1>0, <1>1, OfferedIs DEF OnLsMore, Take
<1>2. CASE OnLs
  <2>1. Head(toClient).kind = "LS" /\ caps' \in {Offered(Named), Requested(Offered(Named))}
    BY <1>2 DEF OnLs, Take
  <2>. QED
    BY <1>0, <2>1, OfferedIs
<1>3. CASE OnAck
  <2>1. caps' = [Answered(caps) EXCEPT !.enabled = @ \cup Named]
    BY <1>3 DEF OnAck, Settles
  <2>. QED
    BY <1>0, <2>1, OfferedIs
<1>4. CASE OnNak
  <2>1. caps' = Answered(caps)
    BY <1>4 DEF OnNak, Settles
  <2>. QED
    BY <1>0, <2>1, OfferedIs
<1>5. CASE OnNew
  <2>1. Head(toClient).kind = "NEW" /\ caps' \in {Offered(Named), Requested(Offered(Named))}
    BY <1>5 DEF OnNew, Take
  <2>. QED
    BY <1>0, <2>1, OfferedIs
<1>6. CASE OnDel
  BY <1>6 DEF OnDel, TypeInv, TypeOK
<1>7. CASE OnAuthenticate
  BY <1>7 DEF OnAuthenticate
<1>8. CASE OnLoggedIn
  BY <1>8 DEF OnLoggedIn
<1>9. CASE OnSaslSuccess
  BY <1>9 DEF OnSaslSuccess
<1>10. CASE OnSaslFail
  BY <1>10 DEF OnSaslFail
<1>11. CASE OnSaslMechs
  BY <1>11 DEF OnSaslMechs
<1>12. CASE OnNickRefused
  BY <1>12 DEF OnNickRefused
<1>13. CASE OnWelcome
  BY <1>13 DEF OnWelcome
<1>. QED
  BY <1>1, <1>2, <1>3, <1>4, <1>5, <1>6, <1>7, <1>8, <1>9, <1>10, <1>11, <1>12,
     <1>13 DEF OnLine

\* That the connection is in the clear only where the reader chose it.
EndpointInv == network.tls => endpoint.tls

LEMMA EndpointInit == Init => EndpointInv
  BY DEF Init, EndpointInv, EndpointOf

LEMMA EndpointStep == EndpointInv /\ [Next]_vars => EndpointInv'
<1>. SUFFICES ASSUME EndpointInv, [Next]_vars
              PROVE  EndpointInv'
  OBVIOUS
<1>. USE DEF EndpointInv
<1>1. CASE OnConnected \/ Say \/ Quit \/ Stall \/ SocketEnds
  BY <1>1 DEF OnConnected, Say, Quit, Stall, SocketEnds, drive
<1>2. CASE OnLine
  BY <1>2, LineTaken
<1>3. CASE DialSucceeds \/ DialFails \/ Retry \/ QuitWhileWaiting
  BY <1>3 DEF DialSucceeds, DialFails, Retry, QuitWhileWaiting
<1>4. CASE Connect
  BY <1>4 DEF Connect, EndpointOf
<1>5. CASE LeaveLoop
  BY <1>5 DEF LeaveLoop
<1>6. CASE ServerActs \/ ServerAnnounces \/ ServerLogsIn
  BY <1>6, ServerFrame
<1>7. CASE UNCHANGED vars
  BY <1>7 DEF vars, drive
<1>. QED
  BY <1>1, <1>2, <1>3, <1>4, <1>5, <1>6, <1>7 DEF Next

\* Where no policy is offered, none is heard.
Policyless(messages) ==
    \A i \in 1..Len(messages) :
        messages[i].kind \in {"LS-more", "LS", "NEW"} => "sts" \notin messages[i].names

LEMMA HeardIs ==
  NoPolicyHeard <=> "sts" \notin server.offers \cup caps.available /\ Policyless(toClient)
BY DEF NoPolicyHeard, Policyless

LEMMA HeardIsNext ==
  NoPolicyHeard' <=> "sts" \notin server'.offers \cup caps'.available /\ Policyless(toClient')
BY DEF NoPolicyHeard, Policyless

LEMMA PolicylessJoin ==
  ASSUME NEW s \in Seq(FromServer), NEW t \in Seq(FromServer), Policyless(s), Policyless(t)
  PROVE  Policyless(s \o t)
BY JoinAt DEF Policyless

LEMMA PolicylessTail ==
  ASSUME NEW s \in Seq(FromServer), s # <<>>, Policyless(s)
  PROVE  /\ Policyless(Tail(s))
         /\ Head(s).kind \in {"LS-more", "LS", "NEW"} => "sts" \notin Head(s).names
BY TailAt DEF Policyless

LEMMA PolicylessLine ==
  ASSUME TypeInv, OnLine, NoPolicyHeard
  PROVE  NoPolicyHeard' /\ control' # "upgrade"
<1>1. /\ toClient # <<>> /\ toClient' = Tail(toClient) /\ control = "continue"
      /\ UNCHANGED server
  BY LineTaken
<1>2. toClient \in Seq(FromServer)
  BY DEF TypeInv, TypeOK
<1>3. /\ Policyless(Tail(toClient))
      /\ Head(toClient).kind \in {"LS-more", "LS", "NEW"} => "sts" \notin Named
  BY <1>1, <1>2, HeardIs, PolicylessTail DEF Named
<1>4. "sts" \notin caps'.available
  BY <1>3, HeardIs, LineOffers
<1>5. control' # "upgrade"
  <2>1. SUFFICES ASSUME control' = "upgrade" PROVE FALSE
    OBVIOUS
  <2>2. Head(toClient).kind \in {"LS", "NEW"} /\ "sts" \in Offered(Named).available
    BY <2>1, LineEnds DEF Upgrades
  <2>3. Head(toClient) \in FromServer
    BY <1>1, <1>2
  <2>4. Named \in SUBSET Names
    BY <2>3 DEF Named, FromServer
  <2>5. "sts" \in caps.available \cup Named
    BY <2>2, <2>4, OfferedIs
  <2>. QED
    BY <1>3, <2>2, <2>5, HeardIs
<1>. QED
  BY <1>1, <1>3, <1>4, <1>5, HeardIs, HeardIsNext

LEMMA NetworkStays == ASSUME [Next]_vars PROVE network' = network
<1>1. CASE OnConnected \/ Say \/ Quit \/ Stall \/ SocketEnds
  BY <1>1 DEF OnConnected, Say, Quit, Stall, SocketEnds, drive
<1>2. CASE OnLine
  BY <1>2, LineTaken
<1>3. CASE DialSucceeds \/ DialFails \/ Retry \/ QuitWhileWaiting \/ Connect \/ LeaveLoop
  BY <1>3 DEF DialSucceeds, DialFails, Retry, QuitWhileWaiting, Connect, LeaveLoop
<1>4. CASE ServerActs \/ ServerAnnounces \/ ServerLogsIn
  BY <1>4, ServerFrame
<1>5. CASE UNCHANGED vars
  BY <1>5 DEF vars, drive
<1>. QED
  BY <1>1, <1>2, <1>3, <1>4, <1>5 DEF Next

LEMMA AnnouncementsStay ==
  ASSUME TypeInv, [Next]_vars, ~ServerAnnounces
  PROVE  spent'.announcements = spent.announcements
<1>0. spent \in [connections : Nat, announcements : Nat, logins : Nat]
  BY DEF TypeInv, TypeOK
<1>1. CASE OnConnected \/ Say \/ Quit \/ Stall \/ SocketEnds
  BY <1>1 DEF OnConnected, Say, Quit, Stall, SocketEnds, drive
<1>2. CASE OnLine
  BY <1>2, LineTaken
<1>3. CASE DialFails \/ Retry \/ QuitWhileWaiting \/ Connect \/ LeaveLoop
  BY <1>3 DEF DialFails, Retry, QuitWhileWaiting, Connect, LeaveLoop
<1>4. CASE DialSucceeds \/ ServerLogsIn
  BY <1>0, <1>4 DEF DialSucceeds, ServerLogsIn
<1>5. CASE ServerActs
  BY <1>5
  DEF ServerActs, ServerListsCaps, ServerAnswersRequest, ServerTakesNick, ServerTakesUser,
      ServerStartsExchange, ServerReadsPayload, ServerEndsExchange, ServerHears,
      ServerWelcomes, ServerTakes, drive
<1>6. CASE UNCHANGED vars
  BY <1>6 DEF vars, drive
<1>. QED
  BY <1>1, <1>2, <1>3, <1>4, <1>5, <1>6 DEF Next

LEMMA PolicylessServer ==
  ASSUME TypeInv, NoPolicyHeard, ~network.sts, ServerActs \/ ServerLogsIn, ~ServerAnnounces
  PROVE  NoPolicyHeard'
<1>0. toClient \in Seq(FromServer) /\ server \in ServerStates
  BY DEF TypeInv, TypeOK, ServerStates
<1>1. UNCHANGED caps
  BY ServerFrame
<1>2. CASE ServerListsCaps /\ UNCHANGED <<server, toClient>>
  BY <1>1, <1>2, HeardIs, HeardIsNext
<1>3. CASE ServerListsCaps /\ ~(UNCHANGED <<server, toClient>>)
  <2>1. PICK all \in SUBSET Names :
          /\ network.sts <=> "sts" \in all
          /\ server' = [server EXCEPT !.negotiating = TRUE, !.offers = all]
          /\ \E first \in SUBSET all :
                Reply((IF first = {} THEN <<>> ELSE <<SaidOf("LS-more", first)>>)
                      \o <<SaidOf("LS", all \ first)>>)
    BY <1>3, ListSays
  <2>2. PICK messages : Listing(all, messages) /\ Reply(messages)
    BY <2>1 DEF Listing
  <2>3. messages \in Seq(FromServer) /\ Policyless(messages)
    BY <2>1, <2>2, ListingIs DEF Policyless
  <2>4. Policyless(toClient')
    BY <1>0, <2>2, <2>3, HeardIs, PolicylessJoin DEF Reply
  <2>5. server'.offers = all
    BY <1>0, <2>1 DEF ServerStates
  <2>. QED
    BY <1>1, <2>1, <2>4, <2>5, HeardIs, HeardIsNext
<1>4. CASE ~ServerListsCaps
  <2>1. PICK messages : /\ messages \in Seq(FromServer) /\ toClient' = toClient \o messages
                        /\ Lacks(messages, Lists)
    BY <1>4, ServerSays DEF Speaks
  <2>2. Policyless(messages)
    BY <2>1 DEF Policyless, Lacks, Lists
  <2>3. Policyless(toClient')
    BY <1>0, <2>1, <2>2, HeardIs, PolicylessJoin
  <2>4. server'.offers = server.offers
    BY <1>4, ServerChanges
  <2>. QED
    BY <1>1, <2>3, <2>4, HeardIs, HeardIsNext
<1>. QED
  BY <1>2, <1>3, <1>4

\* A connection that nobody has been greeted on is offered nothing.
LEMMA PolicylessFresh ==
  ASSUME ~greeted', WireInv', caps'.available = {}
  PROVE  NoPolicyHeard'
<1>1. toClient' = <<>> /\ \E aware \in BOOLEAN : server' = FreshServer(aware)
  BY DEF WireInv
<1>2. server'.offers = {}
  BY <1>1 DEF FreshServer
<1>3. Policyless(toClient')
  BY <1>1 DEF Policyless
<1>. QED
  BY <1>2, <1>3, HeardIsNext

LEMMA AnnouncedNext ==
  ASSUME TypeInv, [Next]_vars, NeverUpgraded'
  PROVE  /\ NeverUpgraded /\ network' = network
         /\ ~network.tls => ~network.sts /\ ~ServerAnnounces
<1>1. network' = network
  BY NetworkStays
<1>2. spent.announcements \in Nat
  BY DEF TypeInv, TypeOK
<1>3. spent'.announcements = 0 => spent.announcements = 0 /\ ~ServerAnnounces
  <2>1. ServerAnnounces => spent'.announcements = spent.announcements + 1
    BY DEF ServerAnnounces, TypeInv, TypeOK
  <2>2. ~ServerAnnounces => spent'.announcements = spent.announcements
    BY AnnouncementsStay
  <2>. QED
    BY <1>2, <2>1, <2>2
<1>. QED
  BY <1>1, <1>3 DEF NeverUpgraded

\* The first half of SaidInv: no policy reaches a connection in the clear.
LEMMA UnheardStep ==
  ASSUME TypeInv, WireInv, WireInv', EndpointInv, EndpointInv', SaidInv, [Next]_vars,
         NeverUpgraded'
  PROVE  endpoint'.tls \/ NoPolicyHeard'
<1>1. /\ NeverUpgraded /\ network' = network
      /\ ~network.tls => ~network.sts /\ ~ServerAnnounces
  BY AnnouncedNext
<1>2. control # "upgrade" /\ (endpoint.tls \/ NoPolicyHeard)
  BY <1>1 DEF SaidInv
<1>3. CASE network.tls
  BY <1>1, <1>3 DEF EndpointInv
<1>4. CASE ~network.tls
  <2>1. CASE OnConnected
    <3>1. /\ UNCHANGED <<endpoint, server, toClient>> /\ caps' = NoCaps
      BY <2>1 DEF OnConnected, drive, Reset
    <3>2. caps'.available = {}
      BY <3>1 DEF NoCaps
    <3>. QED
      BY <1>2, <3>1, <3>2, HeardIs, HeardIsNext
  <2>2. CASE OnLine
    BY <1>2, <2>2, PolicylessLine, LineTaken
  <2>3. CASE Say \/ Quit \/ Stall \/ SocketEnds
    <3>1. UNCHANGED <<endpoint, server, toClient, caps>>
      BY <2>3 DEF Say, Quit, Stall, SocketEnds, drive, session
    <3>. QED
      BY <1>2, <3>1, HeardIs, HeardIsNext
  <2>4. CASE DialSucceeds
    <3>1. /\ UNCHANGED <<endpoint, toClient, caps>>
          /\ \E aware \in BOOLEAN : server' = FreshServer(aware)
      BY <2>4 DEF DialSucceeds, session
    <3>2. server'.offers = {}
      BY <3>1 DEF FreshServer
    <3>. QED
      BY <1>2, <3>1, <3>2, HeardIs, HeardIsNext
  <2>5. CASE DialFails \/ Connect \/ LeaveLoop
    <3>1. ~greeted' /\ caps' = NoCaps
      BY <1>2, <2>5 DEF DialFails, Connect, LeaveLoop, Reset, WireInv
    <3>2. caps'.available = {}
      BY <3>1 DEF NoCaps
    <3>. QED
      BY <3>1, <3>2, PolicylessFresh
  <2>6. CASE Retry \/ QuitWhileWaiting
    <3>1. UNCHANGED <<endpoint, server, toClient, caps>>
      BY <2>6 DEF Retry, QuitWhileWaiting, session
    <3>. QED
      BY <1>2, <3>1, HeardIs, HeardIsNext
  <2>7. CASE ServerActs \/ ServerLogsIn
    <3>1. UNCHANGED endpoint
      BY <2>7, ServerFrame
    <3>. QED
      BY <1>1, <1>2, <1>4, <2>7, <3>1, PolicylessServer
  <2>8. CASE UNCHANGED vars
    <3>1. UNCHANGED <<endpoint, server, toClient, caps>>
      BY <2>8 DEF vars, drive, session
    <3>. QED
      BY <1>2, <3>1, HeardIs, HeardIsNext
  <2>. QED
    BY <1>1, <1>4, <2>1, <2>2, <2>3, <2>4, <2>5, <2>6, <2>7, <2>8 DEF Next
<1>. QED
  BY <1>3, <1>4

LEMMA NoUpgradeStep ==
  ASSUME TypeInv, SaidInv, [Next]_vars, NeverUpgraded
  PROVE  control' # "upgrade"
<1>1. control # "upgrade" /\ (endpoint.tls \/ NoPolicyHeard)
  BY DEF SaidInv
<1>2. CASE OnConnected \/ Say \/ Quit \/ Stall \/ SocketEnds
  BY <1>1, <1>2 DEF OnConnected, Say, Quit, Stall, SocketEnds
<1>3. CASE OnLine
  <2>1. CASE endpoint.tls
    BY <1>3, <2>1, LineEnds DEF Upgrades
  <2>2. CASE NoPolicyHeard
    BY <1>3, <2>2, PolicylessLine
  <2>. QED
    BY <1>1, <2>1, <2>2
<1>4. CASE DialSucceeds \/ DialFails \/ Retry \/ QuitWhileWaiting \/ Connect \/ LeaveLoop
  BY <1>1, <1>4 DEF DialSucceeds, DialFails, Retry, QuitWhileWaiting, Connect, LeaveLoop
<1>5. CASE ServerActs \/ ServerAnnounces \/ ServerLogsIn
  BY <1>1, <1>5, ServerFrame
<1>6. CASE UNCHANGED vars
  BY <1>1, <1>6 DEF vars
<1>. QED
  BY <1>2, <1>3, <1>4, <1>5, <1>6 DEF Next

LEMMA RegisteredStep ==
  ASSUME TypeInv, WireInv, SaidInv, [Next]_vars, NeverUpgraded
  PROVE  registered' => greeted'
<1>1. control # "upgrade" /\ (registered => greeted)
  BY DEF SaidInv
<1>2. CASE OnConnected \/ Say \/ Quit \/ Stall \/ SocketEnds
  BY <1>1, <1>2 DEF OnConnected, Say, Quit, Stall, SocketEnds, session
<1>3. CASE OnLine
  BY <1>1, <1>3, LineTaken
<1>4. CASE DialSucceeds \/ Retry \/ QuitWhileWaiting
  BY <1>1, <1>4 DEF DialSucceeds, Retry, QuitWhileWaiting, session
<1>5. CASE DialFails \/ Connect \/ LeaveLoop
  BY <1>1, <1>5 DEF DialFails, Connect, LeaveLoop, Reset
<1>6. CASE ServerActs \/ ServerAnnounces \/ ServerLogsIn
  BY <1>1, <1>6, ServerFrame
<1>7. CASE UNCHANGED vars
  BY <1>1, <1>7 DEF vars, session
<1>. QED
  BY <1>2, <1>3, <1>4, <1>5, <1>6, <1>7 DEF Next

LEMMA UnsaidStep ==
  ASSUME TypeInv, WireInv, WireInv', SaidInv, [Next]_vars, NeverUpgraded
  PROVE  ~server'.welcomed => Lacks(toServer', {"said"})
<1>0. toServer \in Seq(FromClient)
  BY DEF TypeInv, TypeOK
<1>1. /\ registered => greeted
      /\ ~server.welcomed => Lacks(toServer, {"said"})
  BY DEF SaidInv
<1>2. CASE OnConnected
  <2>1. UNCHANGED server /\ Send(<<Said("CAP-LS"), Said("NICK"), Said("USER")>>)
    BY <1>2 DEF OnConnected
  <2>. DEFINE lines == <<Said("CAP-LS"), Said("NICK"), Said("USER")>>
  <2>2. \A kind \in {"CAP-LS", "NICK", "USER"} :
           Said(kind) \in FromClient /\ Said(kind).kind = kind
    BY LineTyped, SaidIs
  <2>3. lines \in Seq(FromClient)
    BY <2>2, ThreeTyped
  <2>4. \A i \in 1..Len(lines) : lines[i] \in {Said("CAP-LS"), Said("NICK"), Said("USER")}
    OBVIOUS
  <2>5. toServer' = toServer \o lines \/ (~alive /\ toServer' = toServer)
    BY <2>1, <2>3, Sends
  <2>. HIDE DEF lines
  <2>6. Lacks(lines, {"said"})
    BY <2>2, <2>4 DEF Lacks
  <2>7. Lacks(toServer, {"said"}) => Lacks(toServer \o lines, {"said"})
    BY <1>0, <2>3, <2>6, LacksJoin
  <2>. QED
    BY <1>1, <2>1, <2>5, <2>7
<1>3. CASE OnLine
  <2>1. UNCHANGED server
    BY <1>3, LineTaken
  <2>. QED
    BY <1>1, <1>3, <2>1, LineSaysNothing
<1>4. CASE Say
  <2>1. registered /\ UNCHANGED server
    BY <1>4 DEF Say
  <2>. QED
    BY <1>1, <2>1 DEF WireInv
<1>5. CASE Quit \/ Stall
  BY <1>1, <1>5 DEF Quit, Stall
<1>6. CASE DialSucceeds
  <2>1. toServer' = toServer /\ toServer = <<>>
    BY <1>6 DEF DialSucceeds, WireInv
  <2>. QED
    BY <2>1, LacksNone
<1>7. CASE DialFails \/ Retry \/ QuitWhileWaiting \/ Connect
  BY <1>1, <1>7 DEF DialFails, Retry, QuitWhileWaiting, Connect
<1>8. CASE LeaveLoop \/ SocketEnds
  BY <1>8, LacksNone DEF LeaveLoop, SocketEnds
<1>9. CASE ServerActs \/ ServerAnnounces \/ ServerLogsIn
  <2>1. server.welcomed => server'.welcomed
    BY <1>9, ServerSays DEF Speaks
  <2>. QED
    BY <1>1, <1>9, <2>1, FrontTaken
<1>10. CASE UNCHANGED vars
  BY <1>1, <1>10 DEF vars
<1>. QED
  BY <1>2, <1>3, <1>4, <1>5, <1>6, <1>7, <1>8, <1>9, <1>10 DEF Next

LEMMA SaidInit == Init => SaidInv
<1>. SUFFICES ASSUME Init PROVE SaidInv
  OBVIOUS
<1>1. server.offers = {} /\ caps.available = {} /\ toClient = <<>> /\ toServer = <<>>
  BY DEF Init, FreshServer, NoCaps
<1>2. NoPolicyHeard
  BY <1>1, HeardIs DEF Policyless
<1>3. control # "upgrade" /\ ~registered
  BY DEF Init
<1>. QED
  BY <1>1, <1>2, <1>3, LacksNone DEF SaidInv

LEMMA SaidStep ==
  ASSUME TypeInv, WireInv, WireInv', EndpointInv, EndpointInv', SaidInv, [Next]_vars
  PROVE  SaidInv'
<1>. SUFFICES ASSUME NeverUpgraded'
              PROVE  /\ endpoint'.tls \/ NoPolicyHeard'
                     /\ control' # "upgrade"
                     /\ registered' => greeted'
                     /\ ~server'.welcomed => Lacks(toServer', {"said"})
  BY DEF SaidInv
<1>1. NeverUpgraded
  BY AnnouncedNext
<1>. QED
  BY <1>1, UnheardStep, NoUpgradeStep, RegisteredStep, UnsaidStep

\* After a dial that left the session as it was, what is said before the greeting
\* is ahead of all the registration writes.
SaidFirst(s) ==
    \A i, j \in 1..Len(s) : i < j /\ s[j].kind = "said" => s[i].kind = "said"
EarlyInv ==
    /\ alive => link # "none"
    /\ registered /\ ~greeted => Verified
    /\ ~server.welcomed => SaidFirst(toServer) /\ (Verified \/ Lacks(toServer, {"said"}))

LEMMA SaidFirstTail ==
  ASSUME NEW S, NEW s \in Seq(S), s # <<>>, SaidFirst(s)
  PROVE  SaidFirst(Tail(s))
<1>. SUFFICES ASSUME NEW i \in 1..Len(Tail(s)), NEW j \in 1..Len(Tail(s)), i < j,
                     Tail(s)[j].kind = "said"
              PROVE  Tail(s)[i].kind = "said"
  BY DEF SaidFirst
<1>1. /\ i + 1 \in 1..Len(s) /\ Tail(s)[i] = s[i + 1]
      /\ j + 1 \in 1..Len(s) /\ Tail(s)[j] = s[j + 1]
  BY TailAt
<1>2. i + 1 < j + 1
  OBVIOUS
<1>. QED
  BY <1>1, <1>2 DEF SaidFirst

LEMMA SaidFirstJoin ==
  ASSUME NEW S, NEW s \in Seq(S), NEW t \in Seq(S), SaidFirst(s), Lacks(t, {"said"})
  PROVE  SaidFirst(s \o t)
<1>. SUFFICES ASSUME NEW i \in 1..Len(s \o t), NEW j \in 1..Len(s \o t), i < j,
                     (s \o t)[j].kind = "said"
              PROVE  (s \o t)[i].kind = "said"
  BY DEF SaidFirst
<1>1. j \in 1..Len(s) /\ (s \o t)[j] = s[j]
  BY JoinAt DEF Lacks
<1>2. i \in 1..Len(s) /\ (s \o t)[i] = s[i]
  BY <1>1, JoinAt
<1>. QED
  BY <1>1, <1>2 DEF SaidFirst

LEMMA SaidFirstAll ==
  ASSUME NEW s, \A i \in 1..Len(s) : s[i].kind = "said"
  PROVE  SaidFirst(s)
BY DEF SaidFirst

\* What a line or a greeting writes is none of it said.
LEMMA LineSaysAfter ==
  ASSUME TypeInv, OnLine, SaidFirst(toServer)
  PROVE  SaidFirst(toServer')
<1>1. CASE WritesNothing
  BY <1>1 DEF WritesNothing
<1>2. ASSUME NEW line \in FromClient, Send(<<line>>), line.kind # "said"
      PROVE  SaidFirst(toServer')
  <2>1. /\ toServer \in Seq(FromClient) /\ <<line>> \in Seq(FromClient)
        /\ toServer' = toServer \o <<line>> \/ toServer' = toServer
    BY <1>2, OneWritten
  <2>2. Lacks(<<line>>, {"said"})
    BY <1>2, LacksOne
  <2>. QED
    BY <2>1, <2>2, SaidFirstJoin
<1>3. CASE StartsLogin
  <2>1. Said("AUTHENTICATE") \in FromClient /\ Said("AUTHENTICATE").kind # "said"
    BY LineTyped, SaidIs
  <2>. QED
    BY <1>2, <1>3, <2>1 DEF StartsLogin
<1>4. CASE EndsCaps
  <2>1. Said("CAP-END") \in FromClient /\ Said("CAP-END").kind # "said"
    BY LineTyped, SaidIs
  <2>. QED
    BY <1>2, <1>4, <2>1 DEF EndsCaps
<1>5. ASSUME NEW kind \in {"CAP-REQ", "payload", "AUTHENTICATE-*", "NICK"}, Writes({kind})
      PROVE  SaidFirst(toServer')
  BY <1>2, <1>5 DEF Writes
<1>. QED
  BY <1>1, <1>3, <1>4, <1>5, LineSays

LEMMA GreetingLacksSaid ==
  ASSUME TypeInv, OnConnected
  PROVE  /\ toServer \in Seq(FromClient) /\ UNCHANGED server
         /\ \E lines \in Seq(FromClient) :
               Lacks(lines, {"said"}) /\ (toServer' = toServer \o lines \/ toServer' = toServer)
<1>1. UNCHANGED server /\ Send(<<Said("CAP-LS"), Said("NICK"), Said("USER")>>)
  BY DEF OnConnected
<1>. DEFINE lines == <<Said("CAP-LS"), Said("NICK"), Said("USER")>>
<1>2. \A kind \in {"CAP-LS", "NICK", "USER"} :
         Said(kind) \in FromClient /\ Said(kind).kind = kind
  BY LineTyped, SaidIs
<1>3. lines \in Seq(FromClient)
  BY <1>2, ThreeTyped
<1>4. \A i \in 1..Len(lines) : lines[i] \in {Said("CAP-LS"), Said("NICK"), Said("USER")}
  OBVIOUS
<1>5. toServer' = toServer \o lines \/ (~alive /\ toServer' = toServer)
  BY <1>1, <1>3, Sends
<1>6. toServer \in Seq(FromClient)
  BY DEF TypeInv, TypeOK
<1>. HIDE DEF lines
<1>7. Lacks(lines, {"said"})
  BY <1>2, <1>4 DEF Lacks
<1>. QED
  BY <1>1, <1>3, <1>5, <1>6, <1>7

LEMMA EarlyInit == Init => EarlyInv
<1>. SUFFICES ASSUME Init PROVE EarlyInv
  OBVIOUS
<1>1. ~registered /\ ~alive /\ toServer = <<>>
  BY DEF Init
<1>2. SaidFirst(<<>>)
  BY DEF SaidFirst
<1>. QED
  BY <1>1, <1>2, LacksNone DEF EarlyInv

LEMMA EarlyStep ==
  ASSUME TypeInv, WireInv, EarlyInv, [Next]_vars
  PROVE  EarlyInv'
<1>0. toServer \in Seq(FromClient)
  BY DEF TypeInv, TypeOK
<1>1. SaidFirst(<<>>)
  BY DEF SaidFirst
<1>. USE DEF Verified
<1>2. CASE OnConnected
  <2>1. PICK lines \in Seq(FromClient) :
          Lacks(lines, {"said"}) /\ (toServer' = toServer \o lines \/ toServer' = toServer)
    BY <1>2, GreetingLacksSaid
  <2>2. UNCHANGED <<server, endpoint>> /\ ~registered'
    BY <1>2 DEF OnConnected, drive, Reset
  <2>5. UNCHANGED <<alive, link>>
    BY <1>2 DEF OnConnected, drive
  <2>3. ~server.welcomed => SaidFirst(toServer')
    BY <1>0, <2>1, SaidFirstJoin DEF EarlyInv
  <2>4. Lacks(toServer, {"said"}) => Lacks(toServer', {"said"})
    BY <1>0, <2>1, LacksJoin
  <2>. QED
    BY <2>2, <2>3, <2>4, <2>5 DEF EarlyInv
<1>3. CASE OnLine
  <2>1. UNCHANGED <<server, endpoint, greeted, alive, link>> /\ greeted
    BY <1>3, LineTaken
  <2>. QED
    BY <1>3, <2>1, LineSaysAfter, LineSaysNothing DEF EarlyInv
<1>4. CASE Say
  <2>1. registered /\ UNCHANGED <<server, endpoint, greeted, registered, alive, link>>
    BY <1>4 DEF Say, drive, session
  <2>2. CASE greeted
    BY <2>1, <2>2 DEF WireInv, EarlyInv
  <2>3. CASE ~greeted
    <3>1. \A i \in 1..Len(toServer) : toServer[i].kind = "said"
      BY <2>3 DEF WireInv
    <3>2. Send(<<Said("said")>>) /\ Said("said") \in FromClient /\ Said("said").kind = "said"
      BY <1>4, LineTyped, SaidIs DEF Say
    <3>3. <<Said("said")>> \in Seq(FromClient)
          /\ (toServer' = toServer \o <<Said("said")>> \/ toServer' = toServer)
      BY <3>2, OneWritten
    <3>4. \A i \in 1..Len(<<Said("said")>>) : <<Said("said")>>[i].kind = "said"
      BY <3>2
    <3>5. \A i \in 1..Len(toServer') : toServer'[i].kind = "said"
      BY <1>0, <3>1, <3>3, <3>4, JoinAt
    <3>. QED
      BY <2>1, <2>3, <3>5, SaidFirstAll DEF EarlyInv
  <2>. QED
    BY <2>2, <2>3
<1>5. CASE Quit \/ Stall
  BY <1>5 DEF Quit, Stall, drive, session, EarlyInv
<1>6. CASE DialSucceeds
  <2>1. toServer' = toServer /\ toServer = <<>> /\ UNCHANGED <<endpoint, greeted, registered>>
        /\ link' # "none"
    BY <1>6 DEF DialSucceeds, session, WireInv, LinkOf
  <2>. QED
    BY <1>1, <2>1, LacksNone DEF EarlyInv
<1>7. CASE DialFails \/ Connect
  <2>1. ~registered' /\ UNCHANGED <<toServer, server, alive, link>> /\ toServer = <<>>
    BY <1>7 DEF DialFails, Connect, Reset, WireInv
  <2>. QED
    BY <1>1, <2>1, LacksNone DEF EarlyInv
<1>8. CASE Retry \/ QuitWhileWaiting
  BY <1>8 DEF Retry, QuitWhileWaiting, session, EarlyInv
<1>9. CASE LeaveLoop
  <2>1. toServer' = <<>> /\ (~registered' \/ Verified') /\ ~alive'
    BY <1>9 DEF LeaveLoop, Reset
  <2>. QED
    BY <1>1, <2>1, LacksNone DEF EarlyInv
<1>10. CASE SocketEnds
  <2>1. toServer' = <<>> /\ UNCHANGED <<endpoint, greeted, registered>> /\ ~alive'
    BY <1>10 DEF SocketEnds, drive, session
  <2>. QED
    BY <1>1, <2>1, LacksNone DEF EarlyInv
<1>11. CASE ServerActs \/ ServerAnnounces \/ ServerLogsIn
  <2>1. server.welcomed => server'.welcomed
    BY <1>11, ServerSays DEF Speaks
  <2>2. UNCHANGED <<endpoint, greeted, registered, alive, link>>
        /\ (toServer' = toServer \/ (toServer # <<>> /\ toServer' = Tail(toServer)))
    BY <1>11, ServerFrame
  <2>3. SaidFirst(toServer) => SaidFirst(toServer')
    BY <1>0, <2>2, SaidFirstTail
  <2>4. Lacks(toServer, {"said"}) => Lacks(toServer', {"said"})
    BY <1>11, FrontTaken
  <2>. QED
    BY <2>1, <2>2, <2>3, <2>4 DEF EarlyInv
<1>12. CASE UNCHANGED vars
  BY <1>12 DEF vars, drive, session, EarlyInv
<1>. QED
  BY <1>2, <1>3, <1>4, <1>5, <1>6, <1>7, <1>8, <1>9, <1>10, <1>11, <1>12 DEF Next

\* What the reader says goes to a server that has welcomed them, on every network.
\* Where a policy makes the loop dial again with the session as it was, what is
\* said before the connection is greeted is ahead of all of its registration, on
\* a verified connection, and that is all that goes to a server too early
\* (dispatch.rs, dispatch; session.rs, registered; task.rs, drive).
THEOREM SaidOnceRegisteredCorrect == Spec => []SaidOnceRegistered
<1>. DEFINE Inv == TypeInv /\ WireInv /\ EndpointInv /\ SaidInv /\ PolicyInv /\ EarlyInv
<1>1. Init => Inv
  BY TypeInit, WireInit, EndpointInit, SaidInit, PolicyInit, EarlyInit
<1>2. Inv /\ [Next]_vars => Inv'
  <2>1. SUFFICES ASSUME Inv, [Next]_vars PROVE Inv'
    OBVIOUS
  <2>2. TypeInv' /\ WireInv' /\ EndpointInv' /\ PolicyInv' /\ EarlyInv'
    BY <2>1, TypeStep, WireStep, EndpointStep, PolicyStep, EarlyStep
  <2>3. SaidInv'
    BY <2>1, <2>2, SaidStep
  <2>. QED
    BY <2>2, <2>3
<1>3. Inv => SaidOnceRegistered
  <2>1. SUFFICES ASSUME Inv, NEW i \in DOMAIN toServer,
                        toServer[i].kind = "said", ~server.welcomed
                 PROVE  SaidEarly(i)
    BY DEF SaidOnceRegistered
  <2>2. toServer \in Seq(FromClient)
    BY <2>1 DEF TypeInv, TypeOK
  <2>3. i \in 1..Len(toServer) /\ toServer # <<>>
    BY <2>1, <2>2
  <2>4. ~Lacks(toServer, {"said"})
    BY <2>1, <2>3 DEF Lacks
  <2>5. ~NeverUpgraded
    BY <2>1, <2>4 DEF SaidInv
  <2>6. link = "verified"
    <3>1. alive /\ loop = "open"
      BY <2>1, <2>3 DEF WireInv
    <3>2. link # "none"
      BY <2>1, <3>1 DEF EarlyInv
    <3>3. Verified /\ link = LinkOf(endpoint)
      BY <2>1, <2>4, <3>2 DEF EarlyInv, PolicyInv
    <3>. QED
      BY <3>3 DEF LinkOf, Verified
  <2>7. \A j \in 1..(i - 1) : toServer[j].kind = "said"
    <3>1. \A j \in 1..(i - 1) : j \in 1..Len(toServer) /\ j < i
      BY <2>2, <2>3
    <3>. QED
      BY <2>1, <2>3, <3>1 DEF EarlyInv, SaidFirst
  <2>. QED
    BY <2>5, <2>6, <2>7 DEF SaidEarly
<1>. QED
  BY <1>1, <1>2, <1>3, PTL DEF Spec

-----------------------------------------------------------------------------
(* A server in the clear that is to be spoken to over TLS. *)

LEMMA AheadJoin ==
  ASSUME NEW s \in Seq(FromServer), NEW t \in Seq(FromServer), NEW available,
         Ahead(s, available)
  PROVE  Ahead(s \o t, available)
<1>1. PICK i \in 1..Len(s) :
        /\ s[i].kind = "LS"
        /\ \A j \in 1..Len(s) : j < i => s[j].kind \notin {"LS", "NEW"}
        /\ \/ "sts" \in available \cup s[i].names
           \/ \E j \in 1..Len(s) :
                 j < i /\ s[j].kind = "LS-more" /\ "sts" \in s[j].names
  BY DEF Ahead
<1>2. i \in 1..Len(s \o t) /\ (s \o t)[i] = s[i]
  BY JoinAt
<1>3. \A j \in 1..Len(s \o t) : j < i => j \in 1..Len(s) /\ (s \o t)[j] = s[j]
  BY JoinAt
<1>4. \A j \in 1..Len(s \o t) : j < i => (s \o t)[j].kind \notin {"LS", "NEW"}
  BY <1>1, <1>3
<1>5. \/ "sts" \in available \cup (s \o t)[i].names
      \/ \E j \in 1..Len(s \o t) :
            j < i /\ (s \o t)[j].kind = "LS-more" /\ "sts" \in (s \o t)[j].names
  <2>1. CASE "sts" \in available \cup s[i].names
    BY <1>2, <2>1
  <2>2. ASSUME NEW j \in 1..Len(s), j < i, s[j].kind = "LS-more", "sts" \in s[j].names
        PROVE  \E k \in 1..Len(s \o t) :
                  k < i /\ (s \o t)[k].kind = "LS-more" /\ "sts" \in (s \o t)[k].names
    <3>1. j \in 1..Len(s \o t) /\ (s \o t)[j] = s[j]
      BY JoinAt
    <3>. QED
      BY <2>2, <3>1
  <2>. QED
    BY <1>1, <2>1, <2>2
<1>. QED
  BY <1>1, <1>2, <1>4, <1>5 DEF Ahead

LEMMA AheadTail ==
  ASSUME NEW s \in Seq(FromServer), s # <<>>, NEW available, Ahead(s, available)
  PROVE  /\ Head(s).kind # "NEW"
         /\ Head(s).kind = "LS" => "sts" \in available \cup Head(s).names
         /\ Head(s).kind # "LS" =>
               \A later :
                  /\ "sts" \in available => "sts" \in later
                  /\ Head(s).kind = "LS-more" /\ "sts" \in Head(s).names => "sts" \in later
                  => Ahead(Tail(s), later)
<1>1. PICK i \in 1..Len(s) :
        /\ s[i].kind = "LS"
        /\ \A j \in 1..Len(s) : j < i => s[j].kind \notin {"LS", "NEW"}
        /\ \/ "sts" \in available \cup s[i].names
           \/ \E j \in 1..Len(s) :
                 j < i /\ s[j].kind = "LS-more" /\ "sts" \in s[j].names
  BY DEF Ahead
<1>2. Len(s) \in Nat \ {0} /\ Head(s) = s[1] /\ 1 \in 1..Len(s)
  BY TailAt
<1>3. CASE i = 1
  <2>1. "sts" \in available \cup s[1].names
    <3>1. \A j \in 1..Len(s) : ~(j < 1)
      BY <1>2
    <3>. QED
      BY <1>1, <1>3, <3>1
  <2>. QED
    BY <1>1, <1>2, <1>3, <2>1
<1>4. CASE i # 1
  <2>1. Head(s).kind \notin {"LS", "NEW"}
    BY <1>1, <1>2, <1>4
  <2>2. i - 1 \in 1..Len(Tail(s)) /\ Tail(s)[i - 1] = s[i]
    BY <1>2, <1>4, TailAt
  <2>3. \A j \in 1..Len(Tail(s)) : j < i - 1 => Tail(s)[j].kind \notin {"LS", "NEW"}
    BY <1>1, TailAt
  <2>4. ASSUME NEW later, "sts" \in available => "sts" \in later,
               Head(s).kind = "LS-more" /\ "sts" \in Head(s).names => "sts" \in later
        PROVE  \/ "sts" \in later \cup Tail(s)[i - 1].names
               \/ \E j \in 1..Len(Tail(s)) :
                     /\ j < i - 1 /\ Tail(s)[j].kind = "LS-more"
                     /\ "sts" \in Tail(s)[j].names
    <3>1. CASE "sts" \in available \cup s[i].names
      BY <2>2, <2>4, <3>1
    <3>2. ASSUME NEW j \in 1..Len(s), j < i, s[j].kind = "LS-more", "sts" \in s[j].names
          PROVE  \/ "sts" \in later
                 \/ \E k \in 1..Len(Tail(s)) :
                       /\ k < i - 1 /\ Tail(s)[k].kind = "LS-more"
                       /\ "sts" \in Tail(s)[k].names
      <4>1. CASE j = 1
        BY <1>2, <2>4, <3>2, <4>1
      <4>2. CASE j # 1
        <5>1. j - 1 \in 1..Len(Tail(s)) /\ Tail(s)[j - 1] = s[j] /\ j - 1 < i - 1
          BY <1>2, <3>2, <4>2, TailAt
        <5>. QED
          BY <3>2, <5>1
      <4>. QED
        BY <4>1, <4>2
    <3>. QED
      BY <1>1, <3>1, <3>2
  <2>5. \A later :
           /\ "sts" \in available => "sts" \in later
           /\ Head(s).kind = "LS-more" /\ "sts" \in Head(s).names => "sts" \in later
           => Ahead(Tail(s), later)
    BY <1>1, <2>2, <2>3, <2>4 DEF Ahead
  <2>. QED
    BY <2>1, <2>5
<1>. QED
  BY <1>3, <1>4

LEMMA AheadListing ==
  ASSUME NEW s \in Seq(FromServer), Lacks(s, Lists), NEW all \in SUBSET Names,
         NEW messages, Listing(all, messages), "sts" \in all, NEW available
  PROVE  Ahead(s \o messages, available)
<1>1. messages \in Seq(FromServer) /\ Len(messages) \in {1, 2}
      /\ messages[Len(messages)].kind = "LS"
  BY ListingIs
<1>. DEFINE both == s \o messages
            last == Len(s) + Len(messages)
<1>2. /\ Len(s) \in Nat /\ last \in 1..Len(both) /\ Len(both) = last
      /\ both[last] = messages[Len(messages)]
  <2>0. \A n : n \in {1, 2} => n \in 1..n
    OBVIOUS
  <2>1. Len(s) \in Nat /\ Len(messages) \in 1..Len(messages)
    BY <1>1, <2>0, JoinAt
  <2>2. /\ Len(s \o messages) = Len(s) + Len(messages)
        /\ Len(s) + Len(messages) \in 1..Len(s \o messages)
        /\ (s \o messages)[Len(s) + Len(messages)] = messages[Len(messages)]
    BY <1>1, <2>1, JoinAt
  <2>. QED
    BY <2>1, <2>2
<1>3. \A i \in 1..Len(s) : i \in 1..Len(both) /\ both[i] = s[i]
  BY <1>1, JoinAt
<1>4. CASE Len(messages) = 1
  <2>1. messages[1].names = all
    BY <1>4, ListingIs
  <2>2. ASSUME NEW j \in 1..Len(both), j < last
        PROVE  both[j].kind \notin {"LS", "NEW"}
    <3>1. j \in 1..Len(s)
      BY <1>2, <1>4, <2>2
    <3>. QED
      BY <1>3, <3>1 DEF Lacks, Lists
  <2>. QED
    BY <1>1, <1>2, <1>4, <2>1, <2>2 DEF Ahead
<1>5. CASE Len(messages) = 2
  <2>1. messages[1].kind = "LS-more" /\ messages[1].names \cup messages[2].names = all
    BY <1>5, ListingIs
  <2>2. Len(s) + 1 \in 1..Len(both) /\ both[Len(s) + 1] = messages[1] /\ Len(s) + 1 < last
    BY <1>1, <1>2, <1>5, JoinAt
  <2>3. ASSUME NEW j \in 1..Len(both), j < last
        PROVE  both[j].kind \notin {"LS", "NEW"}
    <3>1. j \in 1..Len(s) \/ j = Len(s) + 1
      BY <1>2, <1>5, <2>3
    <3>2. CASE j \in 1..Len(s)
      BY <1>3, <3>2 DEF Lacks, Lists
    <3>3. CASE j = Len(s) + 1
      BY <2>1, <2>2, <3>3
    <3>. QED
      BY <3>1, <3>2, <3>3
  <2>4. \/ "sts" \in available \cup both[last].names
        \/ \E j \in 1..Len(both) :
              j < last /\ both[j].kind = "LS-more" /\ "sts" \in both[j].names
    <3>1. "sts" \in messages[1].names \/ "sts" \in messages[2].names
      BY <2>1
    <3>. QED
      BY <1>2, <1>5, <2>1, <2>2, <3>1
  <2>. QED
    BY <1>1, <1>2, <2>3, <2>4 DEF Ahead
<1>. QED
  BY <1>1, <1>4, <1>5

\* Lines that do not carry the negotiation on.
LEMMA LineMild ==
  ASSUME TypeInv, OnLine,
         Head(toClient).kind \in {"LS-more", "DEL", "LOGGEDIN", "WELCOME", "NICKREFUSED"}
  PROVE  WritesNothing \/ Writes({"NICK"})
<1>1. CASE OnLsMore
  BY <1>1 DEF OnLsMore, WritesNothing
<1>2. CASE OnDel
  BY <1>2 DEF OnDel, WritesNothing
<1>3. CASE Head(toClient).kind \in {"LOGGEDIN", "WELCOME", "NICKREFUSED"}
  BY <1>3, LineSays
<1>4. Head(toClient).kind \in {"LS-more", "DEL"} => OnLsMore \/ OnDel
  BY DEF OnLine, OnLs, OnAck, OnNak, OnNew, OnAuthenticate, OnLoggedIn, OnSaslSuccess,
         OnSaslFail, OnSaslMechs, OnNickRefused, OnWelcome, Take
<1>. QED
  BY <1>1, <1>2, <1>3, <1>4

LEMMA MildLacks ==
  ASSUME TypeInv, WritesNothing \/ Writes({"NICK"}), NEW kinds, "NICK" \notin kinds,
         Lacks(toServer, kinds)
  PROVE  Lacks(toServer', kinds) /\ cap_ended' = cap_ended
<1>1. CASE WritesNothing
  BY <1>1 DEF WritesNothing
<1>2. CASE Writes({"NICK"})
  <2>1. PICK line \in FromClient : line.kind = "NICK" /\ Send(<<line>>)
    BY <1>2 DEF Writes
  <2>2. Lacks(toServer', kinds)
    BY <2>1, OneWritten
  <2>. QED
    BY <1>2, <2>2 DEF Writes
<1>. QED
  BY <1>1, <1>2

\* What is known to be available of a policy is not forgotten.
LEMMA LineRemembers ==
  ASSUME TypeInv, OnLine
  PROVE  /\ "sts" \in caps.available => "sts" \in caps'.available
         /\ Head(toClient).kind = "LS-more" /\ "sts" \in Named => "sts" \in caps'.available
<1>0. Named \in SUBSET Names
  <2>1. toClient \in Seq(FromServer) /\ toClient # <<>>
    BY LineTaken DEF TypeInv, TypeOK
  <2>2. Head(toClient) \in FromServer
    BY <2>1
  <2>. QED
    BY <2>2 DEF Named, FromServer
<1>1. CASE OnLsMore
  BY <1>0, <1>1, OfferedIs DEF OnLsMore, Take
<1>2. CASE OnLs
  <2>1. Head(toClient).kind = "LS" /\ caps' \in {Offered(Named), Requested(Offered(Named))}
    BY <1>2 DEF OnLs, Take
  <2>. QED
    BY <1>0, <2>1, OfferedIs
<1>3. CASE OnAck
  <2>1. Head(toClient).kind = "ACK" /\ caps' = [Answered(caps) EXCEPT !.enabled = @ \cup Named]
    BY <1>3 DEF OnAck, Settles, Take
  <2>. QED
    BY <1>0, <2>1, OfferedIs
<1>4. CASE OnNak
  <2>1. Head(toClient).kind = "NAK" /\ caps' = Answered(caps)
    BY <1>4 DEF OnNak, Settles, Take
  <2>. QED
    BY <1>0, <2>1, OfferedIs
<1>5. CASE OnNew
  <2>1. Head(toClient).kind = "NEW" /\ caps' \in {Offered(Named), Requested(Offered(Named))}
    BY <1>5 DEF OnNew, Take
  <2>. QED
    BY <1>0, <2>1, OfferedIs
<1>6. CASE OnDel
  BY <1>6 DEF OnDel, Take, TypeInv, TypeOK
<1>7. CASE OnAuthenticate
  BY <1>7 DEF OnAuthenticate, Take
<1>8. CASE OnLoggedIn
  BY <1>8 DEF OnLoggedIn, Take
<1>9. CASE OnSaslSuccess
  BY <1>9 DEF OnSaslSuccess, Take
<1>10. CASE OnSaslFail
  BY <1>10 DEF OnSaslFail, Take
<1>11. CASE OnSaslMechs
  BY <1>11 DEF OnSaslMechs, Take
<1>12. CASE OnNickRefused
  BY <1>12 DEF OnNickRefused, Take
<1>13. CASE OnWelcome
  BY <1>13 DEF OnWelcome, Take
<1>. QED
  BY <1>1, <1>2, <1>3, <1>4, <1>5, <1>6, <1>7, <1>8, <1>9, <1>10, <1>11, <1>12,
     <1>13 DEF OnLine

\* The three ways to stand with such a server, once greeted.
Standing ==
    /\ ~cap_ended /\ ~sts_verified_transport
    /\ \/ control # "continue"
       \/ ~server.negotiating /\ Lacks(toClient, Lists)
       \/ PolicyAhead
LEMMA PlainIs ==
  PlainInv <=>
    (link = "plain" /\ network.sts =>
        /\ Lacks(toServer, Later) /\ server.exchange = "idle"
        /\ Lacks(toClient, Replies \ {"LS", "NEW"}) /\ (greeted => Standing))
<1>1. Lacks(toClient, {"LS", "LS-more", "NEW"}) <=> Lacks(toClient, Lists)
  BY DEF Lacks, Lists
<1>. QED
  BY <1>1 DEF PlainInv, Standing

LEMMA PlainIsNext ==
  PlainInv' <=>
    (link' = "plain" /\ network'.sts =>
        /\ Lacks(toServer', Later) /\ server'.exchange = "idle"
        /\ Lacks(toClient', Replies \ {"LS", "NEW"}) /\ (greeted' => Standing'))
<1>1. Lacks(toClient', {"LS", "LS-more", "NEW"}) <=> Lacks(toClient', Lists)
  BY DEF Lacks, Lists
<1>. QED
  BY <1>1 DEF PlainInv, Standing

LEMMA PlainLine ==
  ASSUME TypeInv, PolicyInv, PlainInv, OnLine
  PROVE  PlainInv'
<1>1. /\ control = "continue" /\ greeted /\ toClient # <<>> /\ toClient' = Tail(toClient)
      /\ UNCHANGED <<network, link, endpoint, server, greeted, sts_verified_transport>>
  BY LineTaken
<1>2. toClient \in Seq(FromServer)
  BY DEF TypeInv, TypeOK
<1>. SUFFICES ASSUME link = "plain", network.sts
              PROVE  /\ Lacks(toServer', Later) /\ server'.exchange = "idle"
                     /\ Lacks(toClient', Replies \ {"LS", "NEW"}) /\ (greeted' => Standing')
  BY <1>1, PlainIsNext
<1>3. /\ Lacks(toServer, Later) /\ server.exchange = "idle"
      /\ Lacks(toClient, Replies \ {"LS", "NEW"}) /\ Standing
  BY <1>1, PlainIs
<1>4. ~endpoint.tls /\ ~sts_verified_transport /\ ~cap_ended
  BY <1>3 DEF PolicyInv, LinkOf, Standing
<1>5. Lacks(toClient', Replies \ {"LS", "NEW"}) /\ Head(toClient).kind \notin Replies \ {"LS", "NEW"}
  BY <1>1, <1>2, <1>3, LacksTail
<1>6. Head(toClient).kind \in {"LS-more", "LS", "NEW", "DEL", "LOGGEDIN", "NICKREFUSED", "WELCOME"}
  <2>1. Head(toClient) \in FromServer
    BY <1>1, <1>2
  <2>. QED
    BY <1>5, <2>1 DEF FromServer, Replies
<1>7. CASE ~server.negotiating /\ Lacks(toClient, Lists)
  <2>1. Lacks(toClient', Lists) /\ Head(toClient).kind \notin Lists
    BY <1>1, <1>2, <1>7, LacksTail
  <2>2. Head(toClient).kind \in {"DEL", "LOGGEDIN", "NICKREFUSED", "WELCOME"}
    BY <1>6, <2>1 DEF Lists
  <2>3. WritesNothing \/ Writes({"NICK"})
    BY <2>2, LineMild
  <2>4. Lacks(toServer', Later) /\ cap_ended' = cap_ended
    BY <1>3, <2>3, MildLacks DEF Later
  <2>. QED
    BY <1>1, <1>3, <1>4, <1>5, <1>7, <2>1, <2>4 DEF Standing
<1>8. CASE PolicyAhead
  <2>1. /\ Head(toClient).kind # "NEW"
        /\ Head(toClient).kind = "LS" => "sts" \in caps.available \cup Named
    BY <1>1, <1>2, <1>8, AheadTail DEF PolicyAhead, Named
  <2>2. CASE Head(toClient).kind = "LS"
    <3>1. Named \in SUBSET Names
      <4>1. Head(toClient) \in FromServer
        BY <1>1, <1>2
      <4>. QED
        BY <4>1 DEF Named, FromServer
    <3>2. Upgrades(Offered(Named))
      BY <1>4, <2>1, <2>2, <3>1, OfferedIs DEF Upgrades
    <3>3. OnLs
      BY <2>2
      DEF OnLine, OnLsMore, OnAck, OnNak, OnNew, OnDel, OnAuthenticate, OnLoggedIn,
          OnSaslSuccess, OnSaslFail, OnSaslMechs, OnNickRefused, OnWelcome, Take
    <3>4. control' = "upgrade" /\ UNCHANGED <<toServer, cap_ended>>
      BY <3>2, <3>3 DEF OnLs
    <3>. QED
      BY <1>1, <1>3, <1>4, <1>5, <3>4 DEF Standing
  <2>3. CASE Head(toClient).kind # "LS"
    <3>1. WritesNothing \/ Writes({"NICK"})
      BY <1>6, <2>1, <2>3, LineMild
    <3>2. Lacks(toServer', Later) /\ cap_ended' = cap_ended
      BY <1>3, <3>1, MildLacks DEF Later
    <3>3. Ahead(Tail(toClient), caps'.available)
      BY <1>1, <1>2, <1>8, <2>3, AheadTail, LineRemembers DEF PolicyAhead, Named
    <3>4. PolicyAhead'
      BY <1>1, <3>3 DEF PolicyAhead
    <3>. QED
      BY <1>1, <1>3, <1>4, <1>5, <3>2, <3>4 DEF Standing
  <2>. QED
    BY <2>2, <2>3
<1>. QED
  BY <1>1, <1>3, <1>7, <1>8 DEF Standing

LEMMA PlainServer ==
  ASSUME TypeInv, WireInv, PhaseInv, PlainInv, ServerActs \/ ServerAnnounces \/ ServerLogsIn
  PROVE  PlainInv'
<1>0. /\ toClient \in Seq(FromServer) /\ toServer \in Seq(FromClient)
      /\ server \in ServerStates
  BY DEF TypeInv, TypeOK, ServerStates
<1>1. UNCHANGED <<network, link, control, caps, cap_ended, greeted, sts_verified_transport>>
  BY ServerFrame
<1>. SUFFICES ASSUME link = "plain", network.sts
              PROVE  /\ Lacks(toServer', Later) /\ server'.exchange = "idle"
                     /\ Lacks(toClient', Replies \ {"LS", "NEW"}) /\ (greeted' => Standing')
  BY <1>1, PlainIsNext
<1>2. /\ Lacks(toServer, Later) /\ server.exchange = "idle"
      /\ Lacks(toClient, Replies \ {"LS", "NEW"}) /\ (greeted => Standing)
  BY PlainIs
<1>3. Lacks(toServer', Later)
  BY <1>2, FrontTaken
<1>4. ~ServerTakes("AUTHENTICATE") /\ ~ServerTakes("payload") /\ ~ServerTakes("CAP-REQ")
      /\ ~ServerTakes("AUTHENTICATE-*") /\ ~ServerTakes("CAP-END")
  BY <1>2, ReadsWhatIsThere DEF Later
<1>5. ~ServerStartsExchange /\ ~ServerReadsPayload /\ ~ServerEndsExchange /\ ~ServerAnswersRequest
  BY <1>4 DEF ServerStartsExchange, ServerReadsPayload, ServerEndsExchange, ServerAnswersRequest
<1>6. server'.exchange = "idle"
  BY <1>2, <1>5, ServerChanges
\* What is added to an answer that is ahead leaves it ahead.
<1>7. ASSUME NEW messages \in Seq(FromServer), toClient' = toClient \o messages, PolicyAhead
      PROVE  PolicyAhead'
  BY <1>0, <1>1, <1>7, AheadJoin DEF PolicyAhead
\* A step that says nothing of capabilities.
<1>8. ASSUME NEW messages \in Seq(FromServer), toClient' = toClient \o messages,
             Lacks(messages, Replies \ {"LS", "NEW"}), Lacks(messages, Lists),
             server'.negotiating = server.negotiating
      PROVE  Lacks(toClient', Replies \ {"LS", "NEW"}) /\ (greeted' => Standing')
  <2>1. Lacks(toClient', Replies \ {"LS", "NEW"})
    BY <1>0, <1>2, <1>8, LacksJoin
  <2>2. Lacks(toClient, Lists) => Lacks(toClient', Lists)
    BY <1>0, <1>8, LacksJoin
  <2>3. PolicyAhead => PolicyAhead'
    BY <1>7, <1>8
  <2>. QED
    BY <1>1, <1>2, <1>8, <2>1, <2>2, <2>3 DEF Standing
<1>9. ASSUME UNCHANGED toClient, server'.negotiating = server.negotiating
      PROVE  Lacks(toClient', Replies \ {"LS", "NEW"}) /\ (greeted' => Standing')
  BY <1>1, <1>2, <1>9 DEF Standing, PolicyAhead
<1>10. ASSUME NEW kind \in {"NICKREFUSED", "WELCOME", "LOGGEDIN"}, Reply(<<Said(kind)>>),
              server'.negotiating = server.negotiating
       PROVE  Lacks(toClient', Replies \ {"LS", "NEW"}) /\ (greeted' => Standing')
  <2>1. <<Said(kind)>> \in Seq(FromServer) /\ Said(kind).kind = kind
    BY AnswerTyped, SaidIs
  <2>2. kind \notin Replies /\ kind \notin Lists
    BY DEF Replies, Lists
  <2>3. Lacks(<<Said(kind)>>, Replies \ {"LS", "NEW"}) /\ Lacks(<<Said(kind)>>, Lists)
    BY <2>1, <2>2, LacksOne
  <2>. QED
    BY <1>8, <1>10, <2>1, <2>3 DEF Reply
<1>11. CASE ServerTakesNick \/ ServerTakesUser \/ ServerHears \/ ServerWelcomes \/ ServerLogsIn
  <2>1. server'.negotiating = server.negotiating
    BY <1>0, <1>11
    DEF ServerTakesNick, ServerTakesUser, ServerHears, ServerWelcomes, ServerLogsIn, ServerStates
  <2>2. \/ UNCHANGED toClient
        \/ \E kind \in {"NICKREFUSED", "WELCOME", "LOGGEDIN"} : Reply(<<Said(kind)>>)
    BY <1>11 DEF ServerTakesNick, ServerTakesUser, ServerHears, ServerWelcomes, ServerLogsIn
  <2>. QED
    BY <1>3, <1>6, <1>9, <1>10, <2>1, <2>2
<1>12. CASE ServerListsCaps
  <2>1. CASE UNCHANGED <<server, toClient>>
    BY <1>3, <1>6, <1>9, <2>1
  <2>2. CASE ~(UNCHANGED <<server, toClient>>)
    <3>1. PICK all \in SUBSET Names :
            /\ network.sts <=> "sts" \in all
            /\ \E first \in SUBSET all :
                  Reply((IF first = {} THEN <<>> ELSE <<SaidOf("LS-more", first)>>)
                        \o <<SaidOf("LS", all \ first)>>)
      BY <1>12, <2>2, ListSays
    <3>2. PICK messages : Listing(all, messages) /\ Reply(messages)
      BY <3>1 DEF Listing
    <3>3. messages \in Seq(FromServer) /\ toClient' = toClient \o messages
      BY <3>2, ListingIs DEF Reply
    <3>4. Lacks(messages, Replies \ {"LS", "NEW"})
      BY <3>2, ListLacks DEF Replies
    <3>5. Lacks(toClient', Replies \ {"LS", "NEW"})
      BY <1>0, <1>2, <3>3, <3>4, LacksJoin
    <3>6. Lacks(toClient, Lists) => PolicyAhead'
      BY <1>0, <3>1, <3>2, <3>3, AheadListing DEF PolicyAhead
    <3>7. PolicyAhead => PolicyAhead'
      BY <1>7, <3>3
    <3>8. greeted' => Standing'
      BY <1>1, <1>2, <3>6, <3>7 DEF Standing
    <3>. QED
      BY <1>3, <1>6, <3>5, <3>8
  <2>. QED
    BY <2>1, <2>2
<1>13. CASE ServerAnnounces
  <2>1. /\ server.aware /\ (server.negotiating \/ server.welcomed)
        /\ \E name \in Names : Reply(<<SaidOf("NEW", {name})>>) \/ Reply(<<SaidOf("DEL", {name})>>)
    BY <1>13 DEF ServerAnnounces
  <2>2. PICK m \in FromServer : Reply(<<m>>) /\ m.kind \in {"NEW", "DEL"}
    BY <2>1, NamesTyped, SaidIs
  <2>3. <<m>> \in Seq(FromServer) /\ Lacks(<<m>>, Replies \ {"LS", "NEW"})
    BY <2>2, OneTyped, LacksOne DEF Replies
  <2>4. Lacks(toClient', Replies \ {"LS", "NEW"})
    BY <1>0, <1>2, <2>2, <2>3, LacksJoin DEF Reply
  <2>5. PolicyAhead => PolicyAhead'
    BY <1>7, <2>2, <2>3 DEF Reply
  <2>6. greeted /\ ~cap_ended => server.negotiating
    <3>1. SUFFICES ASSUME greeted, ~cap_ended PROVE server.negotiating
      OBVIOUS
    <3>2. Quiet \/ Negotiates \/ Concluded
      BY <3>1, PhaseIs DEF Phases
    <3>. QED
      BY <2>1, <3>1, <3>2 DEF Quiet, Negotiates, Concluded
  <2>7. greeted' => Standing'
    BY <1>1, <1>2, <2>5, <2>6 DEF Standing
  <2>. QED
    BY <1>3, <1>6, <2>4, <2>7
<1>. QED
  BY <1>5, <1>11, <1>12, <1>13 DEF ServerActs

LEMMA PlainInit == Init => PlainInv
  BY DEF Init, PlainInv

LEMMA PlainStep ==
  ASSUME TypeInv, PolicyInv, PolicyInv', WireInv, WireInv', PhaseInv, PlainInv, [Next]_vars
  PROVE  PlainInv'
<1>1. CASE OnConnected
  <2>1. /\ UNCHANGED <<network, link, endpoint, toClient, server>>
        /\ cap_ended' = FALSE /\ sts_verified_transport' = (endpoint.tls /\ endpoint.verify)
    BY <1>1 DEF OnConnected, drive, Reset
  <2>2. Quiet'
    BY <1>1, Greeting
  <2>3. Lacks(toServer', Later) /\ server'.exchange = "idle" /\ ~server'.negotiating
    BY <2>2 DEF Quiet
  <2>4. toClient' = <<>>
    BY <1>1, <2>1 DEF OnConnected, WireInv
  <2>5. link = "plain" => ~endpoint.tls
    BY DEF PolicyInv, LinkOf
  <2>6. Lacks(toClient', Lists) /\ Lacks(toClient', Replies \ {"LS", "NEW"})
    BY <2>4, LacksNone
  <2>. QED
    BY <2>1, <2>3, <2>5, <2>6, PlainIsNext DEF Standing
<1>2. CASE OnLine
  BY <1>2, PlainLine
<1>3. CASE Say
  <2>1. UNCHANGED <<network, link, control, toClient, server, caps, cap_ended, greeted,
                    sts_verified_transport>>
    BY <1>3 DEF Say, drive, session
  <2>2. PICK line \in FromClient : line.kind = "said" /\ Send(<<line>>)
    BY <1>3, SaysWrites DEF Writes
  <2>3. Lacks(toServer, Later) => Lacks(toServer', Later)
    BY <2>2, OneWritten DEF Later
  <2>. QED
    BY <2>1, <2>3, PlainIs, PlainIsNext DEF Standing, PolicyAhead
<1>4. CASE Quit \/ Stall
  <2>1. /\ UNCHANGED <<network, link, toClient, toServer, server, cap_ended, greeted,
                       sts_verified_transport>>
        /\ control' # "continue"
    BY <1>4 DEF Quit, Stall, drive, session
  <2>. QED
    BY <2>1, PlainIs, PlainIsNext DEF Standing
<1>5. CASE DialSucceeds
  <2>1. /\ UNCHANGED <<toServer, toClient, greeted>> /\ loop = "dialling"
        /\ \E aware \in BOOLEAN : server' = FreshServer(aware)
    BY <1>5 DEF DialSucceeds
  <2>2. toServer' = <<>> /\ toClient' = <<>> /\ ~greeted'
    BY <2>1 DEF WireInv
  <2>3. server'.exchange = "idle"
    BY <2>1 DEF FreshServer
  <2>. QED
    BY <2>2, <2>3, LacksNone, PlainIsNext
<1>6. CASE DialFails \/ Retry \/ QuitWhileWaiting \/ Connect
  <2>1. loop # "open" /\ UNCHANGED link
    BY <1>6 DEF DialFails, Retry, QuitWhileWaiting, Connect
  <2>2. link' # "plain"
    BY <2>1 DEF PolicyInv
  <2>. QED
    BY <2>2, PlainIsNext
<1>7. CASE LeaveLoop
  BY <1>7, PlainIsNext DEF LeaveLoop
<1>8. CASE SocketEnds
  <2>1. /\ UNCHANGED <<network, link, control, toClient, server, caps, cap_ended, greeted,
                       sts_verified_transport>>
        /\ toServer' = <<>>
    BY <1>8 DEF SocketEnds, drive, session
  <2>. QED
    BY <2>1, LacksNone, PlainIs, PlainIsNext DEF Standing, PolicyAhead
<1>9. CASE ServerActs \/ ServerAnnounces \/ ServerLogsIn
  BY <1>9, PlainServer
<1>10. CASE UNCHANGED vars
  <2>1. UNCHANGED <<network, link, control, toClient, toServer, server, caps, cap_ended,
                    greeted, sts_verified_transport>>
    BY <1>10 DEF vars, drive, session
  <2>. QED
    BY <2>1, PlainIs, PlainIsNext DEF Standing, PolicyAhead
<1>. QED
  BY <1>1, <1>2, <1>3, <1>4, <1>5, <1>6, <1>7, <1>8, <1>9, <1>10 DEF Next

\* Once a server in the clear has said that it is to be spoken to over TLS,
\* nothing more of the registration goes to it: not what the client would turn
\* on, and no part of a login (session.rs, handle_sts).
THEOREM NothingAfterThePolicyCorrect == Spec => []NothingAfterThePolicy
<1>. DEFINE Inv == TypeInv /\ PolicyInv /\ WireInv /\ PhaseInv /\ PlainInv
<1>1. Init => Inv
  BY TypeInit, PolicyInit, WireInit, PhaseInit, PlainInit
<1>2. Inv /\ [Next]_vars => Inv'
  <2>1. SUFFICES ASSUME Inv, [Next]_vars PROVE Inv'
    OBVIOUS
  <2>2. TypeInv' /\ PolicyInv' /\ WireInv' /\ PhaseInv'
    BY <2>1, TypeStep, PolicyStep, WireStep, PhaseStep
  <2>3. PlainInv'
    BY <2>1, <2>2, PlainStep
  <2>. QED
    BY <2>2, <2>3
<1>3. Inv => NothingAfterThePolicy
  <2>1. SUFFICES ASSUME Inv, link = "plain", network.sts, NEW i \in DOMAIN toServer
                 PROVE  toServer[i].kind \notin {"CAP-REQ", "AUTHENTICATE", "payload"}
    BY DEF NothingAfterThePolicy
  <2>2. toServer \in Seq(FromClient)
    BY <2>1 DEF TypeInv, TypeOK
  <2>3. i \in 1..Len(toServer)
    BY <2>1, <2>2
  <2>4. Lacks(toServer, Later)
    BY <2>1, PlainIs
  <2>. QED
    BY <2>3, <2>4 DEF Lacks, Later
<1>. QED
  BY <1>1, <1>2, <1>3, PTL DEF Spec

-----------------------------------------------------------------------------
(* A login that is right, where the server announces nothing. *)

LEMMA CapsAnswer ==
  ASSUME TypeInv, OnLine, Head(toClient).kind \in {"LS", "ACK", "NAK"}
  PROVE  /\ WritesNothing \/ StartsLogin \/ EndsCaps \/ Writes({"CAP-REQ"})
         /\ UNCHANGED <<scram, login_failed>>
<1>1. OnLs \/ OnAck \/ OnNak
  BY DEF OnLine, OnLsMore, OnNew, OnDel, OnAuthenticate, OnLoggedIn, OnSaslSuccess,
         OnSaslFail, OnSaslMechs, OnNickRefused, OnWelcome, Take
<1>2. UNCHANGED <<scram, login_failed>>
  BY <1>1 DEF OnLs, OnAck, OnNak, Settles
<1>4. CASE OnAck \/ OnNak
  <2>1. \E told : FinishNegotiation(told) \/ UNCHANGED <<cap_ended, toServer>>
    BY <1>4 DEF OnAck, OnNak, Settles
  <2>. QED
    BY <1>2, <2>1, FinishSays DEF WritesNothing
<1>5. CASE OnLs
  <2>. DEFINE known == Offered(Named)
  <2>1. known \in CapsStates
    BY <1>5, TakeTyped, CapsTyped DEF OnLs, TypeInv
  <2>2. \/ UNCHANGED <<toServer, cap_ended>>
        \/ FinishNegotiation(known)
        \/ Send(Request(known)) /\ UNCHANGED cap_ended
    BY <1>5 DEF OnLs
  <2>. HIDE DEF known
  <2>. QED
    BY <1>2, <2>1, <2>2, FinishSays, RequestSays DEF WritesNothing
<1>. QED
  BY <1>1, <1>4, <1>5

LEMMA LoginAnswer ==
  ASSUME TypeInv, OnLine, Head(toClient).kind \in {"SASLSUCCESS", "SASLALREADY"}
  PROVE  (WritesNothing \/ EndsCaps) /\ UNCHANGED <<scram, login_failed>>
<1>1. OnSaslSuccess
  BY DEF OnLine, OnLsMore, OnLs, OnAck, OnNak, OnNew, OnDel, OnAuthenticate, OnLoggedIn,
         OnSaslFail, OnSaslMechs, OnNickRefused, OnWelcome, Take
<1>. QED
  BY <1>1, EndSays DEF OnSaslSuccess

LEMMA ExchangeAnswer ==
  ASSUME OnLine, Head(toClient).kind \in {"AUTHENTICATE-+", "challenge", "signature"}
  PROVE  OnAuthenticate
BY DEF OnLine, OnLsMore, OnLs, OnAck, OnNak, OnNew, OnDel, OnLoggedIn, OnSaslSuccess,
       OnSaslFail, OnSaslMechs, OnNickRefused, OnWelcome, Take

LEMMA MildFrame ==
  ASSUME OnLine,
         Head(toClient).kind \in {"LS-more", "DEL", "LOGGEDIN", "WELCOME", "NICKREFUSED"}
  PROVE  UNCHANGED <<scram, login_failed>>
<1>1. OnLsMore \/ OnDel \/ OnLoggedIn \/ OnWelcome \/ OnNickRefused
  BY DEF OnLine, OnLs, OnAck, OnNak, OnNew, OnAuthenticate, OnSaslSuccess, OnSaslFail,
         OnSaslMechs, Take
<1>. QED
  BY <1>1 DEF OnLsMore, OnDel, OnLoggedIn, OnWelcome, OnNickRefused

\* A turn is kept by what neither asks nor replies.
Holds(kinds, before, after) ==
    /\ Lacks(before, kinds) => Lacks(after, kinds)
    /\ \A kind \in kinds : Sole(before, kinds, kind) => Sole(after, kinds, kind)

LEMMA TurnKept ==
  ASSUME Turn, UNCHANGED <<network, scram>>, server'.exchange = server.exchange,
         Holds(Asks, toServer, toServer'), Holds(Replies, toClient, toClient')
  PROVE  Turn'
<1>1. Unspoken => Unspoken'
  BY DEF Unspoken, Holds
<1>2. \A kind \in Asks : Asking(kind) => Asking(kind)'
  BY DEF Asking, Holds
<1>3. \A kind \in Replies : Replying(kind) => Replying(kind)'
  BY DEF Replying, Holds
<1>4. \A exchange, state : At(exchange, state) => At(exchange, state)'
  BY DEF At
<1>5. {"CAP-LS", "CAP-REQ", "AUTHENTICATE", "payload", "CAP-END"} \subseteq Asks
  BY DEF Asks
<1>6. {"LS", "ACK", "NAK", "AUTHENTICATE-+", "challenge", "signature", "SASLSUCCESS",
       "SASLALREADY"} \subseteq Replies
  BY DEF Replies
<1>7. Mechanism' = Mechanism
  BY DEF Mechanism
<1>. QED
  BY <1>1, <1>2, <1>3, <1>4, <1>5, <1>6, <1>7 DEF Turn

LEMMA HoldsSame == \A kinds, wire : Holds(kinds, wire, wire)
  BY DEF Holds

LEMMA HoldsJoin ==
  ASSUME NEW S, NEW s \in Seq(S), NEW t \in Seq(S), NEW kinds, Lacks(t, kinds)
  PROVE  Holds(kinds, s, s \o t)
BY LacksJoin, SoleJoin DEF Holds

LEMMA HoldsTail ==
  ASSUME NEW S, NEW s \in Seq(S), s # <<>>, NEW kinds, Head(s).kind \notin kinds
  PROVE  Holds(kinds, s, Tail(s))
<1>1. Lacks(s, kinds) => Lacks(Tail(s), kinds)
  BY LacksTail
<1>2. \A kind \in kinds : Sole(s, kinds, kind) => Sole(Tail(s), kinds, kind)
  BY SoleTail
<1>. QED
  BY <1>1, <1>2 DEF Holds

LEMMA HoldsWrite ==
  ASSUME TypeInv, NEW kind, kind \notin Asks, WritesNothing \/ Writes({kind})
  PROVE  Holds(Asks, toServer, toServer')
<1>1. CASE WritesNothing
  BY <1>1, HoldsSame DEF WritesNothing
<1>2. CASE Writes({kind})
  <2>1. PICK line \in FromClient : line.kind = kind /\ Send(<<line>>)
    BY <1>2 DEF Writes
  <2>2. /\ toServer \in Seq(FromClient) /\ <<line>> \in Seq(FromClient)
        /\ toServer' = toServer \o <<line>> \/ toServer' = toServer
    BY <2>1, OneWritten
  <2>3. Lacks(<<line>>, Asks)
    BY <2>1, LacksOne
  <2>. QED
    BY <2>2, <2>3, HoldsSame, HoldsJoin
<1>. QED
  BY <1>1, <1>2

LEMMA SoleOne ==
  ASSUME NEW m, NEW kinds, m.kind \in kinds
  PROVE  Sole(<<m>>, kinds, m.kind)
BY DEF Sole

\* After a reply is taken in, the next turn is what the line asks for.
LEMMA NextAsked ==
  ASSUME TypeInv, Lacks(toServer, Asks), Lacks(toClient', Replies),
         NEW line \in FromClient, line.kind \in Asks, Send(<<line>>)
  PROVE  Unspoken' \/ Asking(line.kind)'
<1>1. /\ toServer \in Seq(FromClient) /\ <<line>> \in Seq(FromClient)
      /\ toServer' = toServer \o <<line>> \/ toServer' = toServer
  BY OneWritten
<1>2. Sole(toServer \o <<line>>, Asks, line.kind)
  BY <1>1, SoleOne, SoleJoin
<1>. QED
  BY <1>1, <1>2 DEF Unspoken, Asking

\* What the turn is when a reply is taken in.
LEMMA TurnRead ==
  ASSUME TypeInv, Turn, toClient # <<>>, Head(toClient).kind \in Replies
  PROVE  /\ Lacks(toServer, Asks) /\ Lacks(Tail(toClient), Replies)
         /\ \/ Head(toClient).kind \in {"LS", "ACK", "NAK"} /\ At("idle", "none")
            \/ Head(toClient).kind = "AUTHENTICATE-+" /\ At("payload", "none")
            \/ /\ Head(toClient).kind = "challenge" /\ Mechanism = "SCRAM"
               /\ At("final", "started")
            \/ /\ Head(toClient).kind = "signature" /\ Mechanism = "SCRAM"
               /\ At("done", "expecting")
            \/ /\ Head(toClient).kind \in {"SASLSUCCESS", "SASLALREADY"}
               /\ server.exchange = "idle"
<1>0. toClient \in Seq(FromServer)
  BY DEF TypeInv, TypeOK
<1>1. ~Lacks(toClient, Replies)
  BY <1>0, LacksTail
<1>2. \A kind \in Asks : ~Asking(kind)
  BY <1>1 DEF Asking
<1>3. ~Unspoken
  BY <1>1 DEF Unspoken
<1>4. \A kind \in Replies :
         Replying(kind) => /\ Lacks(toServer, Asks) /\ Lacks(Tail(toClient), Replies)
                           /\ Head(toClient).kind = kind
  BY <1>0, SoleTail DEF Replying
<1>5. {"CAP-LS", "CAP-REQ", "AUTHENTICATE", "payload", "CAP-END"} \subseteq Asks
  BY DEF Asks
<1>6. {"LS", "ACK", "NAK", "AUTHENTICATE-+", "challenge", "signature", "SASLSUCCESS",
       "SASLALREADY"} \subseteq Replies
  BY DEF Replies
<1>7. \/ \E kind \in {"LS", "ACK", "NAK"} : Replying(kind) /\ At("idle", "none")
      \/ Replying("AUTHENTICATE-+") /\ At("payload", "none")
      \/ Mechanism = "SCRAM" /\ Replying("challenge") /\ At("final", "started")
      \/ Mechanism = "SCRAM" /\ Replying("signature") /\ At("done", "expecting")
      \/ Replying("SASLSUCCESS") /\ server.exchange = "idle"
      \/ Replying("SASLALREADY") /\ server.exchange = "idle"
  BY <1>2, <1>3, <1>5 DEF Turn
<1>. QED
  BY <1>4, <1>6, <1>7

LEMMA TurnLine ==
  ASSUME TypeInv, Turn, OnLine
  PROVE  Turn' /\ login_failed' = login_failed
<1>1. /\ toClient # <<>> /\ toClient' = Tail(toClient)
      /\ UNCHANGED <<network, server>>
  BY LineTaken
<1>2. toClient \in Seq(FromServer)
  BY DEF TypeInv, TypeOK
<1>3. Head(toClient) \in FromServer
  BY <1>1, <1>2
<1>4. CASE Head(toClient).kind \notin Replies
  <2>1. Head(toClient).kind \in {"LS-more", "DEL", "LOGGEDIN", "WELCOME", "NICKREFUSED"}
    BY <1>3, <1>4 DEF FromServer, Replies
  <2>2. WritesNothing \/ Writes({"NICK"})
    BY <2>1, LineMild
  <2>3. Holds(Asks, toServer, toServer')
    BY <2>2, HoldsWrite DEF Asks
  <2>4. Holds(Replies, toClient, toClient')
    BY <1>1, <1>2, <1>4, HoldsTail
  <2>. QED
    BY <1>1, <2>1, <2>3, <2>4, MildFrame, TurnKept
<1>5. CASE Head(toClient).kind \in Replies
  <2>1. Lacks(toServer, Asks) /\ Lacks(toClient', Replies)
    BY <1>1, <1>5, TurnRead
  <2>2. WritesNothing => Unspoken'
    BY <2>1 DEF WritesNothing, Unspoken
  <2>3. EndsCaps => Unspoken' \/ Asking("CAP-END")'
    BY <2>1, LineTyped, SaidIs, NextAsked DEF EndsCaps, Asks
  <2>4. StartsLogin => Unspoken' \/ Asking("AUTHENTICATE")'
    BY <2>1, LineTyped, SaidIs, NextAsked DEF StartsLogin, Asks
  <2>5. Writes({"CAP-REQ"}) => Unspoken' \/ Asking("CAP-REQ")'
    BY <2>1, NextAsked DEF Writes, Asks
  <2>6. Send(<<Said("payload")>>) => Unspoken' \/ Asking("payload")'
    BY <2>1, LineTyped, SaidIs, NextAsked DEF Asks
  <2>7. CASE Head(toClient).kind \in {"LS", "ACK", "NAK"} /\ At("idle", "none")
    <3>1. /\ WritesNothing \/ StartsLogin \/ EndsCaps \/ Writes({"CAP-REQ"})
          /\ UNCHANGED <<scram, login_failed>>
      BY <2>7, CapsAnswer
    <3>2. At("idle", "none")' /\ server'.exchange = "idle"
      BY <1>1, <2>7, <3>1 DEF At
    <3>. QED
      BY <2>2, <2>3, <2>4, <2>5, <3>1, <3>2 DEF Turn
  <2>8. CASE Head(toClient).kind = "AUTHENTICATE-+" /\ At("payload", "none")
    <3>1. OnAuthenticate /\ scram = "none" /\ server'.exchange = "payload"
      BY <1>1, <2>8, ExchangeAnswer DEF At
    <3>2. \/ Mechanism \in {"PLAIN", "EXTERNAL"} /\ Answers("none")
          \/ Mechanism = "SCRAM" /\ Answers("started")
      BY <3>1 DEF OnAuthenticate, Understood
    <3>3. /\ Send(<<Said("payload")>>) /\ login_failed' = login_failed
          /\ \/ Mechanism # "SCRAM" /\ scram' = "none"
             \/ Mechanism = "SCRAM" /\ scram' = "started"
      BY <3>2 DEF Answers
    <3>4. Mechanism' = Mechanism
      BY <1>1 DEF Mechanism
    <3>. QED
      BY <2>6, <3>1, <3>3, <3>4 DEF Turn, At
  <2>9. CASE /\ Head(toClient).kind = "challenge" /\ Mechanism = "SCRAM"
             /\ At("final", "started")
    <3>1. OnAuthenticate /\ scram = "started" /\ server'.exchange = "final"
      BY <1>1, <2>9, ExchangeAnswer DEF At
    <3>2. Answers("expecting")
      BY <2>9, <3>1 DEF OnAuthenticate, Understood
    <3>3. Send(<<Said("payload")>>) /\ login_failed' = login_failed /\ scram' = "expecting"
      BY <3>2 DEF Answers
    <3>4. Mechanism' = "SCRAM"
      BY <1>1, <2>9 DEF Mechanism
    <3>. QED
      BY <2>6, <3>1, <3>3, <3>4 DEF Turn, At
  <2>10. CASE /\ Head(toClient).kind = "signature" /\ Mechanism = "SCRAM"
              /\ At("done", "expecting")
    <3>1. OnAuthenticate /\ scram = "expecting" /\ server'.exchange = "done"
      BY <1>1, <2>10, ExchangeAnswer DEF At
    <3>2. Answers("expecting")
      BY <2>10, <3>1 DEF OnAuthenticate, Understood
    <3>3. Send(<<Said("payload")>>) /\ login_failed' = login_failed /\ scram' = "expecting"
      BY <3>2 DEF Answers
    <3>4. Mechanism' = "SCRAM"
      BY <1>1, <2>10 DEF Mechanism
    <3>. QED
      BY <2>6, <3>1, <3>3, <3>4 DEF Turn, At
  <2>11. CASE /\ Head(toClient).kind \in {"SASLSUCCESS", "SASLALREADY"}
              /\ server.exchange = "idle"
    <3>1. (WritesNothing \/ EndsCaps) /\ login_failed' = login_failed
      BY <2>11, LoginAnswer
    <3>. QED
      BY <1>1, <2>2, <2>3, <2>11, <3>1 DEF Turn
  <2>. QED
    BY <1>1, <1>5, <2>7, <2>8, <2>9, <2>10, <2>11, TurnRead
<1>. QED
  BY <1>4, <1>5

\* What the turn is when the server reads what it is asked.
LEMMA TurnAsked ==
  ASSUME TypeInv, Turn, NEW kind \in Asks, ServerTakes(kind)
  PROVE  /\ Lacks(toClient, Replies) /\ Lacks(toServer', Asks)
         /\ \/ kind \in {"CAP-LS", "CAP-REQ", "AUTHENTICATE"} /\ At("idle", "none")
            \/ /\ kind = "payload"
               /\ \/ Mechanism # "SCRAM" /\ At("payload", "none")
                  \/ /\ Mechanism = "SCRAM"
                     /\ \/ At("payload", "started") \/ At("final", "expecting")
                        \/ At("done", "expecting")
            \/ kind = "CAP-END" /\ server.exchange = "idle"
<1>0. /\ toServer \in Seq(FromClient) /\ toServer # <<>> /\ toServer' = Tail(toServer)
      /\ Head(toServer).kind = kind
  BY Takes
<1>1. ~Lacks(toServer, Asks)
  BY <1>0, LacksTail
<1>2. ~Unspoken /\ \A reply : ~Replying(reply)
  BY <1>1 DEF Unspoken, Replying
<1>3. \A asked \in Asks :
         Asking(asked) => /\ Lacks(toClient, Replies) /\ Lacks(toServer', Asks)
                          /\ kind = asked
  BY <1>0, SoleTail DEF Asking
<1>4. {"CAP-LS", "CAP-REQ", "AUTHENTICATE", "payload", "CAP-END"} \subseteq Asks
  BY DEF Asks
<1>5. \/ \E asked \in {"CAP-LS", "CAP-REQ", "AUTHENTICATE"} : Asking(asked) /\ At("idle", "none")
      \/ /\ Asking("payload")
         /\ \/ Mechanism # "SCRAM" /\ At("payload", "none")
            \/ /\ Mechanism = "SCRAM"
               /\ \/ At("payload", "started") \/ At("final", "expecting")
                  \/ At("done", "expecting")
      \/ Asking("CAP-END") /\ server.exchange = "idle"
  BY <1>2 DEF Turn
<1>. QED
  BY <1>3, <1>4, <1>5

LEMMA NextReplied ==
  ASSUME TypeInv, Lacks(toClient, Replies), Lacks(toServer', Asks),
         NEW messages \in Seq(FromServer), Reply(messages),
         NEW kind \in Replies, Sole(messages, Replies, kind)
  PROVE  Replying(kind)'
<1>1. toClient \in Seq(FromServer) /\ toClient' = toClient \o messages
  BY DEF TypeInv, TypeOK, Reply
<1>2. Sole(toClient', Replies, kind)
  BY <1>1, SoleJoin
<1>. QED
  BY <1>2 DEF Replying

LEMMA ListReplies ==
  ASSUME NEW all \in SUBSET Names, NEW messages, Listing(all, messages)
  PROVE  messages \in Seq(FromServer) /\ Sole(messages, Replies, "LS")
<1>1. /\ messages \in Seq(FromServer) /\ Len(messages) \in {1, 2}
      /\ messages[Len(messages)].kind = "LS"
      /\ Len(messages) = 2 => messages[1].kind = "LS-more"
  BY ListingIs
<1>2. \A n : n \in {1, 2} => n \in 1..n
  OBVIOUS
<1>3. ASSUME NEW j \in 1..Len(messages), j # Len(messages)
      PROVE  messages[j].kind \notin Replies
  <2>1. j = 1 /\ Len(messages) = 2
    BY <1>1, <1>3
  <2>. QED
    BY <1>1, <2>1 DEF Replies
<1>. QED
  BY <1>1, <1>2, <1>3 DEF Sole

LEMMA TurnServer ==
  ASSUME TypeInv, Turn, network.good, network.taken = "accepted", ~ServerAnnounces,
         ServerActs \/ ServerLogsIn
  PROVE  Turn'
<1>0. /\ toClient \in Seq(FromServer) /\ toServer \in Seq(FromClient)
      /\ server \in ServerStates
  BY DEF TypeInv, TypeOK, ServerStates
<1>1. UNCHANGED <<network, scram>>
  BY ServerFrame
<1>2. Mechanism' = Mechanism
  BY <1>1 DEF Mechanism
\* A reply of one message.
<1>3. ASSUME NEW kind \in Replies, NEW m \in FromServer, m.kind = kind, Reply(<<m>>),
             Lacks(toClient, Replies), Lacks(toServer', Asks)
      PROVE  Replying(kind)'
  <2>1. <<m>> \in Seq(FromServer) /\ Sole(<<m>>, Replies, kind)
    BY <1>3, OneTyped, SoleOne
  <2>. QED
    BY <1>3, <2>1, NextReplied
<1>4. ASSUME AcceptLogin, Lacks(toClient, Replies), Lacks(toServer', Asks)
      PROVE  Turn'
  <2>. DEFINE one == <<Said("LOGGEDIN")>>
              two == <<Said("SASLSUCCESS")>>
  <2>1. <<Said("LOGGEDIN"), Said("SASLSUCCESS")>> = one \o two
    OBVIOUS
  <2>2. one \in Seq(FromServer) /\ two \in Seq(FromServer)
    BY AnswerTyped
  <2>3. Lacks(one, Replies)
    BY SaidIs, LacksOne DEF Replies
  <2>4. Sole(two, Replies, "SASLSUCCESS") /\ "SASLSUCCESS" \in Replies
    BY SaidIs, SoleOne DEF Replies
  <2>. HIDE DEF one, two
  <2>5. one \o two \in Seq(FromServer) /\ Sole(one \o two, Replies, "SASLSUCCESS")
    BY <2>2, <2>3, <2>4, JoinTyped, SoleJoin
  <2>6. Reply(one \o two) /\ server'.exchange = "idle"
    BY <1>0, <1>4, <2>1 DEF AcceptLogin, ServerStates
  <2>7. Replying("SASLSUCCESS")'
    BY <1>4, <2>4, <2>5, <2>6, NextReplied
  <2>. QED
    BY <2>6, <2>7 DEF Turn
<1>5. CASE ServerListsCaps
  <2>1. /\ Lacks(toClient, Replies) /\ Lacks(toServer', Asks) /\ At("idle", "none")
    BY <1>5, TurnAsked DEF ServerListsCaps, Asks
  <2>2. At("idle", "none")'
    BY <1>0, <1>1, <1>5, <2>1 DEF ServerListsCaps, ServerStates, At
  <2>3. CASE UNCHANGED toClient
    BY <2>1, <2>3 DEF Turn, Unspoken
  <2>4. CASE toClient' # toClient
    <3>1. PICK all \in SUBSET Names :
            \E first \in SUBSET all :
               Reply((IF first = {} THEN <<>> ELSE <<SaidOf("LS-more", first)>>)
                     \o <<SaidOf("LS", all \ first)>>)
      BY <1>5, <2>4, ListSays
    <3>2. PICK messages : Listing(all, messages) /\ Reply(messages)
      BY <3>1 DEF Listing
    <3>3. "LS" \in Replies
      BY DEF Replies
    <3>4. Replying("LS")'
      BY <2>1, <3>2, <3>3, ListReplies, NextReplied
    <3>. QED
      BY <2>2, <3>4 DEF Turn
  <2>. QED
    BY <2>3, <2>4
<1>6. CASE ServerAnswersRequest
  <2>1. /\ Lacks(toClient, Replies) /\ Lacks(toServer', Asks) /\ At("idle", "none")
    BY <1>6, TurnAsked DEF ServerAnswersRequest, Asks
  <2>2. At("idle", "none")'
    BY <1>1, <1>6, <2>1 DEF ServerAnswersRequest, At
  <2>3. /\ SaidOf("ACK", Asked.names) \in FromServer /\ SaidOf("NAK", Asked.names) \in FromServer
    BY <1>6, ServerTakesTyped, NamesTyped DEF ServerAnswersRequest, TypeInv
  <2>4. Replying("ACK")' \/ Replying("NAK")'
    BY <1>3, <1>6, <2>1, <2>3, SaidIs DEF ServerAnswersRequest, Replies
  <2>. QED
    BY <2>2, <2>4 DEF Turn
<1>7. CASE ServerStartsExchange
  <2>1. /\ Lacks(toClient, Replies) /\ Lacks(toServer', Asks)
        /\ server.exchange = "idle" /\ scram = "none"
    BY <1>7, TurnAsked DEF ServerStartsExchange, Asks, At
  <2>2. CASE Reply(<<Said("SASLALREADY")>>) /\ UNCHANGED server
    <3>1. Replying("SASLALREADY")'
      BY <1>3, <2>1, <2>2, AnswerTyped, SaidIs DEF Replies
    <3>. QED
      BY <2>1, <2>2, <3>1 DEF Turn
  <2>3. CASE /\ server' = [server EXCEPT !.exchange = "payload"]
             /\ Reply(<<Said("AUTHENTICATE-+")>>)
    <3>1. Replying("AUTHENTICATE-+")'
      BY <1>3, <2>1, <2>3, AnswerTyped, SaidIs DEF Replies
    <3>2. At("payload", "none")'
      BY <1>0, <1>1, <2>1, <2>3 DEF At, ServerStates
    <3>. QED
      BY <3>1, <3>2 DEF Turn
  <2>. QED
    BY <1>7, <2>1, <2>2, <2>3 DEF ServerStartsExchange
<1>8. CASE ServerReadsPayload
  <2>1. /\ Lacks(toClient, Replies) /\ Lacks(toServer', Asks)
        /\ \/ Mechanism # "SCRAM" /\ server.exchange = "payload"
           \/ /\ Mechanism = "SCRAM"
              /\ \/ server.exchange = "payload" /\ scram = "started"
                 \/ server.exchange = "final" /\ scram = "expecting"
                 \/ server.exchange = "done" /\ scram = "expecting"
    BY <1>8, TurnAsked DEF ServerReadsPayload, Asks, At
  <2>2. CASE AcceptLogin
    BY <1>4, <2>1, <2>2
  <2>3. CASE /\ Mechanism = "SCRAM" /\ scram = "started"
             /\ server' = [server EXCEPT !.exchange = "final"]
             /\ Reply(<<Said("challenge")>>)
    <3>1. Replying("challenge")'
      BY <1>3, <2>1, <2>3, AnswerTyped, SaidIs DEF Replies
    <3>2. At("final", "started")'
      BY <1>0, <1>1, <2>3 DEF At, ServerStates
    <3>. QED
      BY <1>2, <2>3, <3>1, <3>2 DEF Turn
  <2>4. CASE /\ Mechanism = "SCRAM" /\ scram = "expecting"
             /\ server' = [server EXCEPT !.exchange = "done"]
             /\ Reply(<<Said("signature")>>)
    <3>1. Replying("signature")'
      BY <1>3, <2>1, <2>4, AnswerTyped, SaidIs DEF Replies
    <3>2. At("done", "expecting")'
      BY <1>0, <1>1, <2>4 DEF At, ServerStates
    <3>. QED
      BY <1>2, <2>4, <3>1, <3>2 DEF Turn
  <2>. QED
    BY <1>8, <2>1, <2>2, <2>3, <2>4 DEF ServerReadsPayload
<1>9. CASE ServerEndsExchange
  <2>1. /\ Lacks(toClient, Replies) /\ Lacks(toServer', Asks) /\ server.exchange = "idle"
    <3>1. PICK kind \in {"AUTHENTICATE-*", "CAP-END"} : ServerTakes(kind)
      BY <1>9 DEF ServerEndsExchange
    <3>2. kind \in Asks
      BY DEF Asks
    <3>. QED
      BY <3>1, <3>2, TurnAsked
  <2>2. UNCHANGED toClient
    BY <1>9, <2>1 DEF ServerEndsExchange
  <2>. QED
    BY <2>1, <2>2 DEF Turn, Unspoken
\* What is neither asked nor replied.
<1>10. CASE ServerTakesNick \/ ServerTakesUser \/ ServerHears \/ ServerWelcomes \/ ServerLogsIn
  <2>1. server'.exchange = server.exchange
    BY <1>0, <1>10
    DEF ServerTakesNick, ServerTakesUser, ServerHears, ServerWelcomes, ServerLogsIn, ServerStates
  <2>2. \/ UNCHANGED toClient
        \/ \E kind \in {"NICKREFUSED", "WELCOME", "LOGGEDIN"} : Reply(<<Said(kind)>>)
    BY <1>10 DEF ServerTakesNick, ServerTakesUser, ServerHears, ServerWelcomes, ServerLogsIn
  <2>3. Holds(Replies, toClient, toClient')
    <3>1. ASSUME NEW kind \in {"NICKREFUSED", "WELCOME", "LOGGEDIN"}, Reply(<<Said(kind)>>)
          PROVE  Holds(Replies, toClient, toClient')
      <4>1. <<Said(kind)>> \in Seq(FromServer) /\ Said(kind).kind \notin Replies
        BY AnswerTyped, SaidIs DEF Replies
      <4>. QED
        BY <1>0, <3>1, <4>1, LacksOne, HoldsJoin DEF Reply
    <3>. QED
      BY <2>2, <3>1, HoldsSame
  <2>4. Holds(Asks, toServer, toServer')
    <3>1. CASE ServerWelcomes \/ ServerLogsIn
      BY <3>1, HoldsSame DEF ServerWelcomes, ServerLogsIn
    <3>2. ASSUME NEW kind \in {"NICK", "USER", "said"}, ServerTakes(kind)
          PROVE  Holds(Asks, toServer, toServer')
      <4>1. /\ toServer # <<>> /\ toServer' = Tail(toServer) /\ Head(toServer).kind = kind
        BY <3>2, Takes
      <4>2. kind \notin Asks
        BY DEF Asks
      <4>. QED
        BY <1>0, <4>1, <4>2, HoldsTail
    <3>. QED
      BY <1>10, <3>1, <3>2 DEF ServerTakesNick, ServerTakesUser, ServerHears
  <2>. QED
    BY <1>1, <2>1, <2>3, <2>4, TurnKept
<1>. QED
  BY <1>5, <1>6, <1>7, <1>8, <1>9, <1>10 DEF ServerActs

LEMMA GoodInit == Init => GoodInv
  BY DEF Init, GoodInv

LEMMA GoodStep ==
  ASSUME TypeInv, WireInv, GoodInv, [Next]_vars
  PROVE  GoodInv'
<1>1. network' = network
  BY NetworkStays
<1>. SUFFICES ASSUME network.good, network.taken = "accepted", spent'.announcements = 0
              PROVE  ~login_failed' /\ (greeted' => Turn')
  BY <1>1 DEF GoodInv
<1>2. spent.announcements = 0 /\ ~ServerAnnounces
  <2>1. spent.announcements \in Nat
    BY DEF TypeInv, TypeOK
  <2>2. ServerAnnounces => spent'.announcements = spent.announcements + 1
    BY DEF ServerAnnounces, TypeInv, TypeOK
  <2>3. ~ServerAnnounces => spent'.announcements = spent.announcements
    BY AnnouncementsStay
  <2>. QED
    BY <2>1, <2>2, <2>3
<1>3. ~login_failed /\ (greeted => Turn)
  BY <1>2 DEF GoodInv
<1>4. toServer \in Seq(FromClient)
  BY DEF TypeInv, TypeOK
<1>5. CASE OnConnected
  <2>1. /\ UNCHANGED <<toClient, server, login_failed, alive>> /\ scram' = "none" /\ ~greeted
        /\ Send(<<Said("CAP-LS"), Said("NICK"), Said("USER")>>)
    BY <1>5 DEF OnConnected, Reset
  <2>2. /\ toClient = <<>> /\ \A i \in 1..Len(toServer) : toServer[i].kind = "said"
        /\ \E aware \in BOOLEAN : server = FreshServer(aware)
    BY <2>1 DEF WireInv
  <2>3. At("idle", "none")'
    BY <2>1, <2>2 DEF At, FreshServer
  <2>4. Lacks(toServer, Asks)
    BY <2>2 DEF Lacks, Asks
  <2>5. Lacks(toClient', Replies)
    BY <2>1, <2>2, LacksNone
  <2>. DEFINE lines == <<Said("CAP-LS"), Said("NICK"), Said("USER")>>
  <2>6. \A kind \in {"CAP-LS", "NICK", "USER"} :
           Said(kind) \in FromClient /\ Said(kind).kind = kind
    BY LineTyped, SaidIs
  <2>7. lines \in Seq(FromClient)
    BY <2>6, ThreeTyped
  <2>8. /\ Len(lines) = 3 /\ lines[1] = Said("CAP-LS") /\ lines[2] = Said("NICK")
        /\ lines[3] = Said("USER")
    OBVIOUS
  <2>9. toServer' = toServer \o lines \/ toServer' = toServer
    BY <2>1, <2>7, Sends
  <2>. HIDE DEF lines
  <2>10. Sole(lines, Asks, "CAP-LS")
    <3>1. 1 \in 1..Len(lines) /\ lines[1].kind = "CAP-LS"
      BY <2>6, <2>8
    <3>2. \A j \in 1..Len(lines) : j # 1 => lines[j].kind \in {"NICK", "USER"}
      BY <2>6, <2>8
    <3>3. \A j \in 1..Len(lines) : j # 1 => lines[j].kind \notin Asks
      BY <3>2 DEF Asks
    <3>. QED
      BY <3>1, <3>3 DEF Sole
  <2>11. "CAP-LS" \in Asks
    BY DEF Asks
  <2>12. Sole(toServer \o lines, Asks, "CAP-LS")
    BY <1>4, <2>4, <2>7, <2>10, <2>11, SoleJoin
  <2>13. Unspoken' \/ Asking("CAP-LS")'
    BY <2>4, <2>5, <2>9, <2>12 DEF Unspoken, Asking
  <2>. QED
    BY <1>3, <2>1, <2>3, <2>13 DEF Turn
<1>6. CASE OnLine
  BY <1>3, <1>6, LineTaken, TurnLine
<1>7. CASE Say
  <2>1. UNCHANGED <<network, scram, server, toClient, greeted, login_failed>>
    BY <1>7 DEF Say, drive, session
  <2>2. Holds(Asks, toServer, toServer')
    BY <1>7, SaysWrites, HoldsWrite DEF Asks
  <2>. QED
    BY <1>3, <2>1, <2>2, HoldsSame, TurnKept
<1>8. CASE Quit \/ Stall \/ UNCHANGED vars
  <2>1. UNCHANGED <<network, scram, server, toClient, toServer, greeted, login_failed>>
    BY <1>8 DEF Quit, Stall, drive, session, vars
  <2>. QED
    BY <1>3, <2>1, HoldsSame, TurnKept
<1>9. CASE DialSucceeds \/ DialFails \/ Retry \/ QuitWhileWaiting \/ Connect
  <2>1. loop # "open" /\ UNCHANGED greeted /\ (login_failed' = login_failed \/ ~login_failed')
    BY <1>9 DEF DialSucceeds, DialFails, Retry, QuitWhileWaiting, Connect
  <2>. QED
    BY <1>3, <2>1 DEF WireInv
<1>10. CASE LeaveLoop
  BY <1>3, <1>10 DEF LeaveLoop
<1>11. CASE SocketEnds
  <2>1. /\ UNCHANGED <<network, scram, server, toClient, greeted, login_failed>>
        /\ toServer' = <<>>
    BY <1>11 DEF SocketEnds, drive, session
  <2>2. \A kind : Asking(kind) => Unspoken'
    BY <2>1, LacksNone DEF Asking, Unspoken
  <2>3. Unspoken => Unspoken'
    BY <2>1, LacksNone DEF Unspoken
  <2>4. \A kind : Replying(kind) => Replying(kind)'
    BY <2>1, LacksNone DEF Replying
  <2>5. \A exchange, state : At(exchange, state) => At(exchange, state)'
    BY <2>1 DEF At
  <2>6. Mechanism' = Mechanism
    BY <2>1 DEF Mechanism
  <2>7. Turn => Turn'
    BY <2>1, <2>2, <2>3, <2>4, <2>5, <2>6 DEF Turn
  <2>. QED
    BY <1>3, <2>1, <2>7
<1>12. CASE ServerActs \/ ServerLogsIn
  <2>1. UNCHANGED <<greeted, login_failed>>
    BY <1>12, ServerFrame
  <2>. QED
    BY <1>2, <1>3, <1>12, <2>1, TurnServer
<1>. QED
  BY <1>2, <1>5, <1>6, <1>7, <1>8, <1>9, <1>10, <1>11, <1>12 DEF Next

\* A reader whose account and secret are right is never stopped as if they were
\* not, whatever a lost connection left of an exchange, unless the server
\* announces capabilities (session.rs, reset_connection_state and abort_sasl).
THEOREM GoodLoginSurvivesCorrect == Spec => []GoodLoginSurvives
<1>. DEFINE Inv == TypeInv /\ WireInv /\ GoodInv
<1>1. Init => Inv
  BY TypeInit, WireInit, GoodInit
<1>2. Inv /\ [Next]_vars => Inv'
  <2>1. SUFFICES ASSUME Inv, [Next]_vars PROVE Inv'
    OBVIOUS
  <2>2. TypeInv' /\ WireInv'
    BY <2>1, TypeStep, WireStep
  <2>3. GoodInv'
    BY <2>1, GoodStep
  <2>. QED
    BY <2>2, <2>3
<1>3. Inv => GoodLoginSurvives
  BY DEF GoodInv, GoodLoginSurvives, OnlyABadLoginStops
<1>. QED
  BY <1>1, <1>2, <1>3, PTL DEF Spec

=============================================================================
