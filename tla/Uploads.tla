--------------------------------- MODULE Uploads ---------------------------------
(***************************************************************************)
(* Files dropped on the window or picked by the composer: described, then  *)
(* confirmed under the name of the host they go to, then sent one by one   *)
(* and their links said in the conversation they were dropped on.          *)
(***************************************************************************)
EXTENDS Naturals, Sequences, FiniteSets, SequencesExt

CONSTANTS
    Targets, Hosts,
    Drops,          \* what may be dropped together: sequences of files
    TooLarge,       \* files this client will not send
    MaxDrops, MaxSends, MaxMoves,
    None

\* A drop of no files is no drop (DropToUpload.tsx).
File == UNION {ToSet(files) : files \in Drops}
UploadsAssumption ==
    /\ None \notin Targets \cup Hosts /\ {MaxDrops, MaxSends, MaxMoves} \subseteq Nat
    /\ \A files \in Drops : files \in Seq(File) /\ files # <<>>

VARIABLES
    active, provider,   \* the conversation in focus, and the host the backend sends to
    describing,         \* drops whose files are being described
    pending, host, hostRead, \* the confirmation, the host it names, and the read of it
    sending,            \* the send under way: [files, at, destination, step]
    busy, dead,
    said,               \* links said, with the drop and the place in it each is of
    drops,      \* the conversations files were dropped on, in turn
    sends, moves,
    stale,              \* one was agreed to with its host not read or no longer the provider's,
                        \* or the provider was changed while files were sent
    resent              \* sent again after some of it was

confirmation == <<pending, host, hostRead>>
vars == <<active, provider, describing, confirmation, sending, busy, dead, said,
          drops, sends, moves, stale, resent>>

Confirm(files, destination, id) == [files |-> files, destination |-> destination, id |-> id]

\* A file let go of over the window, or handed over by the composer's button.
describe(files) ==
    /\ Len(drops) < MaxDrops /\ active # None /\ drops' = Append(drops, active)
    /\ describing' = describing \cup {Confirm(files, active, Len(drops) + 1)}
    /\ UNCHANGED <<active, provider, confirmation, sending, busy, dead, said, sends, moves, stale,
                   resent>>
\* What could not be described is listed as unreadable; either way it is asked about.
Described(d, readable) ==
    /\ describing' = describing \ {d}
    /\ pending' = IF readable THEN d ELSE [d EXCEPT !.files = [i \in DOMAIN @ |-> None]]
    /\ hostRead' = "asked"
    /\ UNCHANGED <<active, provider, host, sending, busy, dead, said, drops, sends, moves, stale,
                   resent>>
\* The host is read again for each confirmation, and the old one stands until it is.
HostRead ==
    /\ pending # None /\ hostRead = "asked" /\ hostRead' = "read" /\ host' = provider
    /\ UNCHANGED <<active, provider, describing, pending, sending, busy, dead, said, drops, sends,
                   moves, stale, resent>>

Refused(file) == file = None \/ file \in TooLarge
Offered == /\ pending # None /\ dead = None /\ ~busy /\ host # None
           /\ \A i \in DOMAIN pending.files : ~Refused(pending.files[i])
send ==
    /\ Offered /\ sends < MaxSends /\ sends' = sends + 1
    /\ busy' = TRUE
    /\ sending' = [files |-> pending.files, at |-> 1, destination |-> pending.destination,
                   named |-> host, step |-> "upload", id |-> pending.id]
    /\ stale' = (stale \/ hostRead # "read" \/ host # provider)
    /\ resent' = (resent \/ \E i \in DOMAIN said : said[i].id = pending.id)
    /\ UNCHANGED <<active, provider, describing, confirmation, dead, said, drops, moves>>

cancel ==
    /\ pending # None /\ dead = None /\ ~busy /\ pending' = None /\ hostRead' = None
    /\ UNCHANGED <<active, provider, describing, host, sending, busy, dead, said, drops, sends, moves,
                   stale, resent>>

Link(destination, host_) ==
    [file |-> sending.files[sending.at], destination |-> destination, host |-> host_,
     named |-> sending.named, id |-> sending.id, at |-> sending.at]
\* The provider is asked for at each file, not at the first.
Uploaded(opens) ==
    /\ sending # None /\ sending.step = "upload" /\ provider # None
    /\ IF opens
       THEN /\ sending' = [sending EXCEPT !.step = provider] /\ UNCHANGED <<dead, busy>>
       ELSE /\ dead' = Link(sending.destination, provider) /\ busy' = FALSE /\ sending' = None
    /\ UNCHANGED <<active, provider, describing, confirmation, said, drops, sends, moves, stale,
                   resent>>
\* A plausible slip in LinkSaid: the link goes to the conversation in focus by then.
LinkSaidHere ==
    /\ sending # None /\ sending.step # "upload" /\ active # None
    /\ said' = Append(said, Link(active, sending.step))
    /\ IF sending.at = Len(sending.files)
       THEN sending' = None /\ busy' = FALSE /\ pending' = None /\ hostRead' = None
       ELSE /\ sending' = [sending EXCEPT !.at = @ + 1, !.step = "upload"]
            /\ UNCHANGED <<busy, pending, hostRead>>
    /\ UNCHANGED <<active, provider, describing, host, dead, drops, sends, moves, stale, resent>>
\* The last link said puts the confirmation away, whichever it is by then.
LinkSaid ==
    /\ sending # None /\ sending.step # "upload"
    /\ said' = Append(said, Link(sending.destination, sending.step))
    /\ IF sending.at = Len(sending.files)
       THEN sending' = None /\ busy' = FALSE /\ pending' = None /\ hostRead' = None
       ELSE /\ sending' = [sending EXCEPT !.at = @ + 1, !.step = "upload"]
            /\ UNCHANGED <<busy, pending, hostRead>>
    /\ UNCHANGED <<active, provider, describing, host, dead, drops, sends, moves, stale, resent>>
\* An upload or a saying that fails leaves the confirmation up, with all its files.
SendFails ==
    /\ sending # None /\ sending' = None /\ busy' = FALSE
    /\ UNCHANGED <<active, provider, describing, confirmation, dead, said, drops, sends, moves, stale,
                   resent>>

\* An address that opens for nobody is held, and sent only if asked for; the files
\* after it go no further.
CloseDead(anyway) ==
    /\ dead # None /\ dead' = None /\ pending' = None /\ hostRead' = None
    /\ said' = IF anyway THEN Append(said, dead) ELSE said
    /\ UNCHANGED <<active, provider, describing, host, sending, busy, drops, sends, moves, stale, resent>>

Focus(t) ==
    /\ moves < MaxMoves /\ t # active /\ moves' = moves + 1 /\ active' = t
    /\ UNCHANGED <<provider, describing, confirmation, sending, busy, dead, said, drops, sends, stale,
                   resent>>
\* Saved or removed on the uploads page, by a call that may end under a confirmation.
Provide(h) ==
    /\ moves < MaxMoves /\ h # provider /\ moves' = moves + 1 /\ provider' = h
    /\ stale' = (stale \/ sending # None)
    /\ UNCHANGED <<active, describing, confirmation, sending, busy, dead, said, drops, sends,
                   resent>>

Init ==
    /\ active \in Targets /\ provider \in Hosts /\ describing = {}
    /\ pending = None /\ host = None /\ hostRead = None /\ sending = None
    /\ busy = FALSE /\ dead = None /\ said = <<>>
    /\ drops = <<>> /\ sends = 0 /\ moves = 0 /\ stale = FALSE /\ resent = FALSE
Next ==
    \/ \E files \in Drops : describe(files)
    \/ \E d \in describing, readable \in BOOLEAN : Described(d, readable)
    \/ HostRead \/ send \/ cancel \/ LinkSaid \/ SendFails
    \/ \E opens \in BOOLEAN : Uploaded(opens) \/ CloseDead(opens)
    \/ \E t \in Targets \cup {None} : Focus(t)
    \/ \E h \in Hosts \cup {None} : Provide(h)
Spec == Init /\ [][Next]_vars

-----------------------------------------------------------------------------
TypeOK ==
    /\ active \in Targets \cup {None} /\ provider \in Hosts \cup {None}
    /\ busy = (sending # None) /\ host \in Hosts \cup {None}

\* A link is said in the conversation its file was dropped on, wherever the reader
\* went while it was described and uploaded, and goes to the host the confirmation
\* named.  The exceptions (stale): one agreed to before its host had been read, or
\* after the provider had been changed under it, and one whose provider was changed
\* between two of its files, each of which asks for the provider anew.
LinksGoWhereAgreed ==
    \A i \in DOMAIN said :
        /\ said[i].destination = drops[said[i].id]
        /\ ~stale => said[i].host = said[i].named

\* Links arrive in the order their files are listed, each said once, whatever failed
\* on the way; a confirmation agreed to again after part of it was said is the exception.
LinksInOrder ==
    ~resent => \A i, j \in DOMAIN said :
        i < j /\ said[i].id = said[j].id => said[i].at < said[j].at

\* As the confirmation has it: it names where the file is going.
\* The code does not keep it (README, section 7).
HostIsNamed == \A i \in DOMAIN said : said[i].host = said[i].named
=============================================================================
