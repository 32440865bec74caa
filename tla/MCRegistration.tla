--------------------------- MODULE MCRegistration ---------------------------
(* Model-checking instances of Registration: the networks of each run.     *)
EXTENDS Registration

\* A network reached over verified TLS that advertises no policy.
Login(mechanism, certificate, good, taken) ==
    [mechanism |-> mechanism, certificate |-> certificate, good |-> good,
     taken |-> taken, tls |-> TRUE, verify |-> TRUE, sts |-> FALSE]

\* A network that advertises a policy, however it is configured to be reached.
Strict(mechanism, tls, verify) ==
    [Login(mechanism, FALSE, TRUE, "accepted") EXCEPT
        !.tls = tls, !.verify = verify, !.sts = TRUE]

AnonymousNetwork == {Login("NONE", FALSE, TRUE, "accepted")}
GoodLogin == {Login("SCRAM", FALSE, TRUE, "accepted")}
PlainNetwork == {[Login("NONE", FALSE, TRUE, "accepted") EXCEPT !.tls = FALSE, !.verify = FALSE]}
BadLogins == {Login(mechanism, FALSE, FALSE, "accepted") : mechanism \in {"PLAIN", "SCRAM"}}
Unlisted == {Login("PLAIN", FALSE, TRUE, "not-listed")}
UntakenLogins ==
    {Login("EXTERNAL", certificate, TRUE, "refused") : certificate \in BOOLEAN}
StrictNetworks ==
    {Strict("PLAIN", FALSE, FALSE), Strict("NONE", TRUE, FALSE), Strict("NONE", TRUE, TRUE)}

AllNetworks ==
    AnonymousNetwork \cup PlainNetwork \cup GoodLogin \cup BadLogins \cup Unlisted \cup UntakenLogins
    \cup StrictNetworks

=============================================================================
