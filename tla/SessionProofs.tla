------------------------------ MODULE SessionProofs ------------------------------
(***************************************************************************)
(* What holds of the parts of a network's session, for any conversations,  *)
(* intervals, queues and bounds.                                           *)
(*                                                                         *)
(* Read markers.  A badge is what came in and was not read, which stands   *)
(* on the order of what is on its way: a line said is newer than all the   *)
(* session holds of its conversation (Fresh), so each is counted once      *)
(* (Owes).  A marker is followed because whatever the network's is ahead   *)
(* by is still on its way to the session, or asked for (Caught), and what  *)
(* the session's is ahead by is on its way to the network (Passed).        *)
(*                                                                         *)
(* Keepalive.  A server that forgot the socket is given up within two      *)
(* intervals unless the task had to wait for room, and one that answers is *)
(* not, unless its answer is still to be taken or its PING to be written.  *)
(* A task that never had to wait has taken every tick before the next unit *)
(* (TickInv), so once the server is silent the clock runs to the first     *)
(* tick, which leaves a PING out, and from there to the second             *)
(* (SilenceInv).                                                           *)
(*                                                                         *)
(* Rules of plugins.  What waits in a conversation is newer than what was  *)
(* taken there, and both are in order (OrderInv); an arrival belongs to    *)
(* one conversation or was passed over (OnceInv). That a message is raised *)
(* once follows: it was taken before it was raised, so no worker gets it   *)
(* again (RaiseInv).                                                       *)
(***************************************************************************)
EXTENDS ReadMarkers, FiniteSetTheorems, SequenceTheorems, SetBounds

Line ==
    [what : {"PRIVMSG", "MARKREAD", "TARGETS"}, to : Conversations, at : Nat]
        \cup [what : {"JOIN"}, to : Conversations]
        \cup [what : {"BATCH"}, to : Conversations, messages : SUBSET Nat]
Request ==
    [what : {"GET", "JOIN", "PART"}, to : Conversations] \cup [what : {"MARKREAD"}, to : Conversations, at : Nat]
        \cup [what : {"TARGETS"}, since : Nat] \cup [what : {"CHATHISTORY"}, to : Conversations, since : Nat]

MarksType ==
    /\ said \in Seq([to : Conversations, loud : BOOLEAN])
    /\ {marked, archived, read_markers, unread, highlights, raises} \subseteq [Conversations -> Nat]
    /\ {unread_at, owed} \subseteq [Conversations -> SUBSET Nat]
    /\ lines \in Seq(Line) /\ sent \in Seq(Request)
    /\ open \subseteq Conversations /\ up \in BOOLEAN /\ drops \in Nat
    /\ \A c \in Conversations : archived[c] <= Len(said)
    /\ \A k \in DOMAIN lines : /\ lines[k].what = "PRIVMSG" => lines[k].at \in 1..Len(said)
                               /\ lines[k].what = "BATCH" => lines[k].messages \subseteq 1..Len(said)
    /\ ~up => lines = <<>>

-----------------------------------------------------------------------------
(* Queues. *)

LEMMA HeadOff ==
    ASSUME NEW S, NEW s \in Seq(S), s # <<>>
    PROVE  /\ Tail(s) \in Seq(S) /\ Head(s) \in S /\ Head(s) = s[1] /\ 1 \in DOMAIN s
           /\ \A k \in DOMAIN s : k \in Nat
           /\ \A k \in DOMAIN Tail(s) : k \in Nat /\ k + 1 \in DOMAIN s /\ Tail(s)[k] = s[k + 1]
           /\ \A k \in DOMAIN s : k = 1 \/ (k - 1 \in DOMAIN Tail(s) /\ Tail(s)[k - 1] = s[k])
<1>1. /\ Tail(s) \in Seq(S) /\ Head(s) \in S /\ Head(s) = s[1] /\ Len(Tail(s)) = Len(s) - 1
      /\ \A k \in 1..Len(s) - 1 : Tail(s)[k] = s[k + 1]
    BY HeadTailProperties
<1>2. DOMAIN s = 1..Len(s) /\ Len(s) \in Nat /\ DOMAIN Tail(s) = 1..Len(s) - 1 /\ Len(s) # 0
    BY <1>1, LenProperties, EmptySeq
<1>3. \A k \in 1..Len(s) : k = 1 \/ (k - 1 \in 1..Len(s) - 1 /\ Tail(s)[k - 1] = s[k])
    BY <1>1, <1>2
<1>4. QED
    BY <1>1, <1>2, <1>3

LEMMA IsSeqOf ==
    ASSUME NEW S, NEW n \in Nat, NEW f \in [1..n -> S]
    PROVE  f \in Seq(S)
BY SeqDef

LEMMA PutBehind ==
    ASSUME NEW S, NEW s \in Seq(S), NEW t \in Seq(S)
    PROVE  /\ s \o t \in Seq(S) /\ Len(s) \in Nat
           /\ \A k \in DOMAIN s : k \in DOMAIN (s \o t) /\ k \in Nat /\ k <= Len(s) /\ (s \o t)[k] = s[k]
           /\ \A k \in DOMAIN t : k \in Nat /\ Len(s) + k \in DOMAIN (s \o t) /\ (s \o t)[Len(s) + k] = t[k] /\ k > 0
           /\ \A k \in DOMAIN (s \o t) : \/ k \in DOMAIN s
                                         \/ \E l \in DOMAIN t : k = Len(s) + l
<1>1. /\ s \o t \in Seq(S) /\ Len(s \o t) = Len(s) + Len(t)
      /\ \A i \in 1..Len(s) + Len(t) : (s \o t)[i] = IF i <= Len(s) THEN s[i] ELSE t[i - Len(s)]
    BY ConcatProperties
<1>2. /\ Len(s) \in Nat /\ Len(t) \in Nat /\ DOMAIN s = 1..Len(s) /\ DOMAIN t = 1..Len(t)
      /\ DOMAIN (s \o t) = 1..Len(s) + Len(t)
    BY <1>1, LenProperties
<1>3. ASSUME NEW k \in DOMAIN t
      PROVE  k \in Nat /\ k > 0 /\ Len(s) + k \in DOMAIN (s \o t) /\ (s \o t)[Len(s) + k] = t[k]
    <2>1. k \in 1..Len(t) /\ Len(s) + k \in 1..Len(s) + Len(t) /\ ~(Len(s) + k <= Len(s)) /\ Len(s) + k - Len(s) = k
        BY <1>2
    <2>2. QED
        BY <1>1, <1>2, <2>1
<1>4. ASSUME NEW k \in DOMAIN (s \o t), k \notin DOMAIN s
      PROVE  \E l \in DOMAIN t : k = Len(s) + l
    <2>1. k - Len(s) \in DOMAIN t /\ k = Len(s) + (k - Len(s))
        BY <1>2, <1>4
    <2>2. QED
        BY <2>1
<1>5. QED
    BY <1>1, <1>2, <1>3, <1>4

LEMMA MoreLines ==
    ASSUME NEW S, NEW s \in Seq(S), NEW more \in Seq(S)
    PROVE  /\ s \o more \in Seq(S)
           /\ \A k \in DOMAIN (s \o more) : \/ k \in DOMAIN s /\ (s \o more)[k] = s[k]
                                            \/ \E l \in DOMAIN more : (s \o more)[k] = more[l]
<1>1. /\ s \o more \in Seq(S)
      /\ \A k \in DOMAIN s : (s \o more)[k] = s[k]
      /\ \A k \in DOMAIN more : (s \o more)[Len(s) + k] = more[k]
      /\ \A k \in DOMAIN (s \o more) : k \in DOMAIN s \/ \E l \in DOMAIN more : k = Len(s) + l
    BY SMTT(20), PutBehind
<1>2. QED
    BY <1>1

LEMMA PutOne ==
    ASSUME NEW S, NEW s \in Seq(S), NEW e \in S
    PROVE  /\ Append(s, e) = s \o <<e>> /\ <<e>> \in Seq(S) /\ Append(s, e) \in Seq(S)
           /\ DOMAIN <<e>> = {1} /\ <<e>>[1] = e
<1>1. <<e>> \in Seq(S) /\ DOMAIN <<e>> = {1} /\ <<e>>[1] = e
    OBVIOUS
<1>2. QED
    BY <1>1, AppendIsConcat, AppendProperties

-----------------------------------------------------------------------------
(* Lines in order. *)

Newer(line, at) ==
    /\ line.what = "PRIVMSG" => line.at < at
    /\ line.what = "BATCH" => \A m \in line.messages : m < at
\* A line said is newer than what the record holds, and than what comes before it.
Fresh(ls, held) ==
    \A k \in DOMAIN ls : ls[k].what = "PRIVMSG" =>
        /\ ls[k].at > held[ls[k].to]
        /\ \A j \in DOMAIN ls : j < k /\ ls[j].to = ls[k].to => Newer(ls[j], ls[k].at)

LEMMA FreshTaken ==
    ASSUME NEW ls \in Seq(Line), ls # <<>>, NEW held, NEW held2, Fresh(ls, held),
           \A c \in Conversations : \/ held2[c] = held[c]
                                    \/ /\ c = Head(ls).to /\ Head(ls).what = "PRIVMSG" /\ held2[c] = Head(ls).at
                                    \/ /\ c = Head(ls).to /\ Head(ls).what = "BATCH" /\ held2[c] \in Head(ls).messages
    PROVE  Fresh(Tail(ls), held2)
<1> DEFINE tl == Tail(ls)
<1>1. /\ Head(ls) = ls[1] /\ 1 \in DOMAIN ls /\ tl \in Seq(Line)
      /\ \A k \in DOMAIN tl : k \in Nat /\ k + 1 \in DOMAIN ls /\ tl[k] = ls[k + 1]
    BY HeadOff
<1>2. SUFFICES ASSUME NEW k \in DOMAIN tl, tl[k].what = "PRIVMSG"
               PROVE  /\ tl[k].at > held2[tl[k].to]
                      /\ \A j \in DOMAIN tl : j < k /\ tl[j].to = tl[k].to => Newer(tl[j], tl[k].at)
    BY DEF Fresh
<1>3. /\ ls[k + 1].at > held[ls[k + 1].to]
      /\ \A j \in DOMAIN ls : j < k + 1 /\ ls[j].to = ls[k + 1].to => Newer(ls[j], ls[k + 1].at)
    BY <1>1, <1>2 DEF Fresh
<1>4. \A j \in DOMAIN tl : j < k /\ tl[j].to = tl[k].to => Newer(tl[j], tl[k].at)
    BY <1>1, <1>3
<1>5. tl[k].at \in Nat /\ tl[k].to \in Conversations
    <2>1. tl[k] \in Line
        BY <1>1, ElementOfSeq, LenProperties
    <2>2. QED
        BY <1>2, <2>1 DEF Line
<1>6. 1 < k + 1
    <2>1. k \in 1..Len(tl)
        BY <1>1, LenProperties
    <2>2. QED
        BY <2>1
<1>7. tl[k].at > held2[tl[k].to]
    <2>1. CASE held2[tl[k].to] = held[tl[k].to]
        BY <1>1, <1>3, <2>1
    <2>2. CASE ls[1].to = tl[k].to /\ ls[1].what = "PRIVMSG" /\ held2[tl[k].to] = ls[1].at
        <3>1. ls[1].at < tl[k].at /\ ls[1] \in Line
            BY <1>1, <1>3, <1>6, <2>2 DEF Newer
        <3>2. ls[1].at \in Nat
            BY <3>1, <2>2 DEF Line
        <3>3. QED
            BY <3>1, <3>2, <1>5, <2>2
    <2>3. CASE ls[1].to = tl[k].to /\ ls[1].what = "BATCH" /\ held2[tl[k].to] \in ls[1].messages
        <3>1. held2[tl[k].to] < tl[k].at /\ ls[1] \in Line
            BY <1>1, <1>3, <1>6, <2>3 DEF Newer
        <3>2. ls[1].messages \in SUBSET Nat
            BY <3>1, <2>3 DEF Line
        <3>3. QED
            BY <3>1, <3>2, <1>5, <2>3
    <2>4. QED
        BY <1>1, <1>5, <2>1, <2>2, <2>3
<1>8. QED
    BY <1>4, <1>7

LEMMA FreshMore ==
    ASSUME NEW ls \in Seq(Line), NEW more \in Seq(Line), NEW held, Fresh(ls, held),
           \A k \in DOMAIN more : more[k].what # "PRIVMSG"
    PROVE  Fresh(ls \o more, held)
<1> DEFINE all == ls \o more
<1>1. /\ all \in Seq(Line) /\ Len(ls) \in Nat
      /\ \A k \in DOMAIN ls : k \in DOMAIN all /\ k \in Nat /\ k <= Len(ls) /\ all[k] = ls[k]
      /\ \A k \in DOMAIN more : k \in Nat /\ Len(ls) + k \in DOMAIN all /\ all[Len(ls) + k] = more[k] /\ k > 0
      /\ \A k \in DOMAIN all : k \in DOMAIN ls \/ \E l \in DOMAIN more : k = Len(ls) + l
    BY SMTT(20), PutBehind
<1> HIDE DEF all
<1>2. ASSUME NEW k \in DOMAIN all, all[k].what = "PRIVMSG" PROVE k \in DOMAIN ls
    BY <1>1, <1>2
<1>3. ASSUME NEW k \in DOMAIN ls, NEW j \in DOMAIN all, j < k PROVE j \in DOMAIN ls
    BY <1>1, <1>3
<1>4. QED
    BY <1>1, <1>2, <1>3 DEF Fresh, all

LEMMA FreshSaid ==
    ASSUME NEW ls \in Seq(Line), NEW n \in Nat, NEW c \in Conversations, NEW held \in [Conversations -> Nat],
           Fresh(ls, held), held[c] <= n,
           \A k \in DOMAIN ls : /\ ls[k].what = "PRIVMSG" => ls[k].at \in 1..n
                                /\ ls[k].what = "BATCH" => ls[k].messages \subseteq 1..n,
           NEW said_line \in Line, said_line = [what |-> "PRIVMSG", to |-> c, at |-> n + 1]
    PROVE  Fresh(ls \o <<said_line>>, held)
<1> DEFINE all == ls \o <<said_line>>
<1>0. <<said_line>> \in Seq(Line) /\ DOMAIN <<said_line>> = {1} /\ <<said_line>>[1] = said_line
    OBVIOUS
<1>1. /\ all \in Seq(Line) /\ Len(ls) \in Nat
      /\ \A k \in DOMAIN ls : k \in DOMAIN all /\ k \in Nat /\ k <= Len(ls) /\ all[k] = ls[k]
      /\ all[Len(ls) + 1] = said_line
      /\ \A k \in DOMAIN all : k \in DOMAIN ls \/ k = Len(ls) + 1
    BY <1>0, PutBehind
<1> HIDE DEF all
<1>2. ASSUME NEW k \in DOMAIN ls, NEW j \in DOMAIN all, j < k PROVE j \in DOMAIN ls
    BY <1>1, <1>2
<1>3. ASSUME NEW j \in DOMAIN ls PROVE Newer(all[j], n + 1)
    BY <1>1 DEF Newer
<1>4. ASSUME NEW k \in DOMAIN all, all[k].what = "PRIVMSG"
      PROVE  /\ all[k].at > held[all[k].to]
             /\ \A j \in DOMAIN all : j < k /\ all[j].to = all[k].to => Newer(all[j], all[k].at)
    <2>1. CASE k \in DOMAIN ls
        BY <1>1, <1>2, <1>4, <2>1 DEF Fresh
    <2>2. CASE k = Len(ls) + 1
        <3>1. all[k].at = n + 1 /\ all[k].to = c
            BY <1>1, <2>2
        <3>2. \A j \in DOMAIN all : j < k => j \in DOMAIN ls
            BY <1>1, <2>2
        <3>3. QED
            BY <3>1, <3>2, <1>3
    <2>3. QED
        BY <1>1, <2>1, <2>2
<1>5. QED
    BY <1>4 DEF Fresh, all

-----------------------------------------------------------------------------
(* What the network answers. *)

Told(ls, c, at) == \E k \in DOMAIN ls : ls[k].what = "MARKREAD" /\ ls[k].to = c /\ ls[k].at >= at
\* No line is ahead of the network's markers, and the marker of a channel follows its JOIN.
Followed(ls, mk) ==
    /\ \A k \in DOMAIN ls : ls[k].what = "MARKREAD" => ls[k].at <= mk[ls[k].to]
    /\ \A j \in DOMAIN ls : ls[j].what = "JOIN" =>
           \E k \in DOMAIN ls : /\ j < k /\ ls[k].what = "MARKREAD" /\ ls[k].to = ls[j].to
                                /\ ls[k].at >= mk[ls[j].to]
\* What is put behind the lines tells where the markers went.
Tells(more, mk) ==
    /\ more \in Seq(Line) /\ mk \in [Conversations -> Nat] /\ Followed(more, mk)
    /\ \A c \in Conversations : mk[c] = marked[c] \/ (mk[c] > marked[c] /\ Told(more, c, mk[c]))
Answers(more, mk) ==
    /\ Tells(more, mk)
    /\ \A k \in DOMAIN more : /\ more[k].what # "PRIVMSG"
                              /\ more[k].what = "BATCH" => more[k].messages \subseteq 1..Len(said)

LEMMA SaidIs ==
    ASSUME MarksType
    PROVE  /\ Len(said) \in Nat /\ DOMAIN said = 1..Len(said)
           /\ \A m \in DOMAIN said : said[m].to \in Conversations /\ said[m].loud \in BOOLEAN
           /\ \A c : Of(c) \subseteq 1..Len(said) /\ Newest(c) \in 0..Len(said)
           /\ \A c \in Conversations : archived[c] \in 0..Len(said)
<1>1. /\ Len(said) \in Nat /\ DOMAIN said = 1..Len(said)
      /\ \A m \in DOMAIN said : said[m].to \in Conversations /\ said[m].loud \in BOOLEAN
    <2>1. said \in Seq([to : Conversations, loud : BOOLEAN])
        BY DEF MarksType
    <2>2. Len(said) \in Nat /\ DOMAIN said = 1..Len(said)
        BY <2>1, LenProperties
    <2>3. \A m \in 1..Len(said) : said[m] \in [to : Conversations, loud : BOOLEAN]
        BY <2>1, ElementOfSeq
    <2>4. QED
        BY <2>2, <2>3
<1>2. ASSUME NEW c
      PROVE  Of(c) \subseteq 1..Len(said) /\ Newest(c) \in 0..Len(said)
    <2>1. Of(c) \subseteq 1..Len(said)
        BY <1>1 DEF Of
    <2>2. CASE Of(c) = {}
        BY <1>1, <2>1, <2>2 DEF Newest
    <2>3. CASE Of(c) # {}
        <3>1. Of(c) \in SUBSET (0..Len(said)) /\ Of(c) \in SUBSET Nat
            BY <1>1, <2>1
        <3>2. Max(Of(c)) \in Of(c)
            BY <1>1, <2>3, <3>1, MaxNat
        <3>3. Newest(c) = Max(Of(c))
            BY <2>3 DEF Newest
        <3>4. QED
            BY <1>1, <2>1, <3>2, <3>3
    <2>4. QED
        BY <2>1, <2>2, <2>3
<1>3. \A c \in Conversations : archived[c] \in 0..Len(said)
    BY <1>1 DEF MarksType
<1>4. QED
    BY <1>1, <1>2, <1>3

LEMMA OneLine ==
    ASSUME NEW e \in Line
    PROVE  <<e>> \in Seq(Line) /\ DOMAIN <<e>> = {1} /\ <<e>>[1] = e
OBVIOUS

\* One line that tells a marker, which may have moved to it.
LEMMA SetTells ==
    ASSUME MarksType, NEW c \in Conversations, NEW at \in Nat, at >= marked[c]
    PROVE  LET mk == [marked EXCEPT ![c] = at]
               more == <<Set(c, at)>>
           IN  Answers(more, mk) /\ Told(more, c, mk[c])
<1> DEFINE mk == [marked EXCEPT ![c] = at]
           more == <<Set(c, at)>>
<1>1. Set(c, at) \in Line /\ Set(c, at).what = "MARKREAD" /\ Set(c, at).to = c /\ Set(c, at).at = at
    BY DEF Set, Line
<1>2. more \in Seq(Line) /\ DOMAIN more = {1} /\ more[1] = Set(c, at)
    BY <1>1, OneLine
<1>3. mk \in [Conversations -> Nat] /\ mk[c] = at /\ \A d \in Conversations : d = c \/ mk[d] = marked[d]
    BY DEF MarksType
<1>4. \A d \in Conversations : mk[d] \in Nat /\ marked[d] \in Nat
    BY <1>3 DEF MarksType
<1> HIDE DEF mk, more
<1>5. Told(more, c, mk[c])
    BY <1>1, <1>2, <1>3, <1>4 DEF Told
<1>6. Followed(more, mk)
    BY <1>1, <1>2, <1>3, <1>4 DEF Followed
<1>7. \A d \in Conversations : mk[d] = marked[d] \/ (mk[d] > marked[d] /\ Told(more, d, mk[d]))
    BY <1>3, <1>4, <1>5
<1>8. QED
    BY <1>1, <1>2, <1>3, <1>5, <1>6, <1>7 DEF Answers, Tells, mk, more

LEMMA Unmarked ==
    ASSUME MarksType, NEW c \in Conversations
    PROVE  [marked EXCEPT ![c] = marked[c]] = marked /\ marked[c] \in Nat
BY DEF MarksType

\* Lines that tell no marker.
LEMMA OthersAnswer ==
    ASSUME MarksType, NEW more \in Seq(Line),
           \A k \in DOMAIN more : /\ more[k].what \in {"TARGETS", "BATCH"}
                                  /\ more[k].what = "BATCH" => more[k].messages \subseteq 1..Len(said)
    PROVE  Answers(more, marked)
BY DEF Answers, Tells, Followed, MarksType

LEMMA MaxOfTwo ==
    ASSUME NEW a \in Nat, NEW b \in Nat
    PROVE  Max({a, b}) \in {a, b} /\ Max({a, b}) >= a /\ Max({a, b}) >= b
<1>1. {a, b} \in SUBSET (0..a + b) /\ a + b \in Nat /\ {a, b} # {}
    OBVIOUS
<1>2. QED
    BY <1>1, MaxNat

LEMMA Answered ==
    ASSUME ReadMarkersAssumption, MarksType, ServerReads
    PROVE  /\ sent # <<>> /\ sent' = Tail(sent)
           /\ \E more \in Seq(Line) :
                /\ lines' = lines \o more /\ Answers(more, marked')
                /\ Head(sent).what \in {"GET", "MARKREAD", "JOIN"} =>
                       Told(more, Head(sent).to, marked'[Head(sent).to])
           /\ UNCHANGED <<said, up, client, bounds>>
<1> DEFINE line == Head(sent)
<1>1. sent # <<>> /\ sent' = Tail(sent) /\ Answer(line) /\ UNCHANGED <<said, up, client, bounds>>
    BY DEF ServerReads
<1>2. line \in Request
    BY <1>1, HeadOff DEF MarksType
<1>3. lines \in Seq(Line)
    BY DEF MarksType
<1> HIDE DEF line
<1>4. SUFFICES \E more \in Seq(Line) :
                 /\ lines' = lines \o more /\ Answers(more, marked')
                 /\ line.what \in {"GET", "MARKREAD", "JOIN"} => Told(more, line.to, marked'[line.to])
    BY <1>1 DEF line
<1>5. CASE line.what \in {"MARKREAD", "GET"}
    <2>1. line.to \in Conversations
        BY <1>2, <1>5 DEF Request
    <2>2. PICK at \in Nat : at >= marked[line.to] /\ marked' = [marked EXCEPT ![line.to] = at]
                            /\ lines' = Append(lines, Set(line.to, at))
        <3>1. CASE line.what = "MARKREAD"
            <4> DEFINE at == Max({line.at, marked[line.to]})
            <4>1. line.at \in Nat /\ marked[line.to] \in Nat
                BY <1>2, <2>1, <3>1 DEF Request, MarksType
            <4>2. at \in Nat /\ at >= marked[line.to]
                BY <4>1, MaxOfTwo
            <4>3. marked' = [marked EXCEPT ![line.to] = at] /\ lines' = Append(lines, Set(line.to, at))
                BY <1>1, <3>1 DEF Answer
            <4>4. QED
                BY <4>2, <4>3
        <3>2. CASE line.what = "GET"
            <4>1. marked' = marked /\ lines' = Append(lines, Set(line.to, marked[line.to]))
                BY <1>1, <3>2 DEF Answer
            <4>2. marked[line.to] \in Nat /\ [marked EXCEPT ![line.to] = marked[line.to]] = marked
                BY <2>1, Unmarked
            <4>3. QED
                BY <4>1, <4>2
        <3>3. QED
            BY <1>5, <3>1, <3>2
    <2>3. Answers(<<Set(line.to, at)>>, marked') /\ Told(<<Set(line.to, at)>>, line.to, marked'[line.to])
        BY <2>1, <2>2, SetTells
    <2>4. Set(line.to, at) \in Line
        BY <2>1 DEF Set, Line
    <2>5. <<Set(line.to, at)>> \in Seq(Line) /\ lines' = lines \o <<Set(line.to, at)>>
        BY <1>3, <2>2, <2>4, PutOne
    <2>6. QED
        BY <2>3, <2>5
<1>6. CASE line.what = "JOIN"
    <2>1. line.to \in Conversations /\ line \in Line
        BY <1>2, <1>6 DEF Request, Line
    <2> DEFINE set == Set(line.to, marked[line.to])
               more == <<line, set>>
    <2>2. marked' = marked /\ lines' = lines \o more
        BY <1>1, <1>6 DEF Answer
    <2>3. marked \in [Conversations -> Nat] /\ marked[line.to] \in Nat
        BY <2>1 DEF MarksType
    <2>4. set \in Line /\ set.what = "MARKREAD" /\ set.to = line.to /\ set.at = marked[line.to]
        BY <2>1, <2>3 DEF Set, Line
    <2>5. more \in Seq(Line) /\ DOMAIN more = {1, 2} /\ more[1] = line /\ more[2] = set
        BY <2>1, <2>4
    <2> HIDE DEF set, more
    <2>6. Told(more, line.to, marked[line.to])
        BY <2>3, <2>4, <2>5 DEF Told
    <2>7. Followed(more, marked)
        BY <1>6, <2>3, <2>4, <2>5 DEF Followed
    <2>8. Answers(more, marked)
        BY <1>6, <2>3, <2>4, <2>5, <2>7 DEF Answers, Tells
    <2>9. QED
        BY <2>2, <2>5, <2>6, <2>8
<1>7. CASE line.what = "PART"
    <2>1. marked' = marked /\ lines' = lines
        BY <1>1, <1>7 DEF Answer
    <2>2. <<>> \in Seq(Line) /\ DOMAIN <<>> = {} /\ lines \o <<>> = lines
        BY <1>3, ConcatEmptySeq, EmptySeq
    <2>3. Answers(<<>>, marked)
        BY <2>2, OthersAnswer
    <2>4. QED
        BY <1>7, <2>1, <2>2, <2>3
<1>8. CASE line.what = "TARGETS"
    <2> DEFINE those == {c \in Queries : Newest(c) > line.since}
    <2>1. PICK spoken \in SetToSeqs(those) :
            /\ marked' = marked
            /\ lines' = lines \o [k \in DOMAIN spoken |-> [what |-> "TARGETS", to |-> spoken[k], at |-> Newest(spoken[k])]]
        BY <1>1, <1>8 DEF Answer
    <2> DEFINE more == [k \in DOMAIN spoken |-> [what |-> "TARGETS", to |-> spoken[k], at |-> Newest(spoken[k])]]
    <2>2. those \subseteq Conversations /\ IsFiniteSet(those)
        BY FS_Subset DEF Conversations, ReadMarkersAssumption
    <2>3. Cardinality(those) \in Nat
        BY <2>2, FS_CardinalityType
    <2>4. spoken \in [1..Cardinality(those) -> those]
        BY DEF SetToSeqs
    <2>5. DOMAIN more = 1..Cardinality(those) /\ \A k \in 1..Cardinality(those) : more[k] \in Line /\ more[k].what = "TARGETS"
        <3>1. \A c : Newest(c) \in Nat
            BY SaidIs
        <3>2. QED
            BY <2>2, <2>4, <3>1 DEF Line
    <2>6. more \in Seq(Line)
        <3>1. more \in [1..Cardinality(those) -> Line]
            BY <2>5
        <3>2. QED
            BY <2>3, <3>1, SeqDef
    <2> HIDE DEF more, those
    <2>7. Answers(more, marked)
        BY <2>5, <2>6, OthersAnswer
    <2>8. QED
        BY <1>8, <2>1, <2>6, <2>7 DEF more
<1>9. CASE line.what = "CHATHISTORY"
    <2>1. PICK again \in BOOLEAN :
            /\ marked' = marked
            /\ lines' = Append(lines, [what |-> "BATCH", to |-> line.to,
                    messages |-> {m \in Of(line.to) : m > line.since \/ (again /\ m = line.since)}])
        BY <1>1, <1>9 DEF Answer
    <2> DEFINE ms == {m \in Of(line.to) : m > line.since \/ (again /\ m = line.since)}
               batch == [what |-> "BATCH", to |-> line.to, messages |-> ms]
    <2>2. ms \subseteq 1..Len(said) /\ ms \in SUBSET Nat
        BY SaidIs
    <2>3. batch \in Line /\ batch.what = "BATCH" /\ batch.messages = ms
        BY <1>2, <1>9, <2>2 DEF Request, Line
    <2>4. lines' = Append(lines, batch)
        BY <2>1
    <2> HIDE DEF batch, ms
    <2>5. <<batch>> \in Seq(Line) /\ lines' = lines \o <<batch>> /\ DOMAIN <<batch>> = {1} /\ <<batch>>[1] = batch
        BY <1>3, <2>3, <2>4, PutOne
    <2>6. Answers(<<batch>>, marked)
        BY <2>2, <2>3, <2>5, OthersAnswer
    <2>7. QED
        BY <1>9, <2>1, <2>5, <2>6
<1>10. QED
    BY <1>2, <1>5, <1>6, <1>7, <1>8, <1>9 DEF Request

-----------------------------------------------------------------------------
(* What is owed.                                                           *)

Owes(c) ==
    /\ owed[c] \subseteq 1..archived[c]
    /\ unread_at[c] = Past(owed[c], c) /\ unread[c] = Cardinality(unread_at[c])
    /\ highlights[c] <= Cardinality(Loud(unread_at[c], c)) + raises[c]
    /\ raises[c] = 0 => highlights[c] = Cardinality(Loud(unread_at[c], c))
    /\ c \notin open => owed[c] = {} /\ read_markers[c] = 0 /\ raises[c] = 0

BadgeInv == MarksType /\ Fresh(lines, archived) /\ \A c \in Conversations : Owes(c)

LEMMA Disjoint ==
    ASSUME NEW S, NEW T, IsFiniteSet(S), IsFiniteSet(T), S \cap T = {}
    PROVE  Cardinality(S \cup T) = Cardinality(S) + Cardinality(T)
<1>1. Cardinality(S \cup T) = Cardinality(S) + Cardinality(T) - Cardinality(S \cap T)
    BY FS_Union
<1>2. Cardinality(S \cap T) = 0
    BY FS_EmptySet
<1>3. Cardinality(S) \in Nat /\ Cardinality(T) \in Nat
    BY FS_CardinalityType
<1>4. QED
    BY <1>1, <1>2, <1>3

LEMMA Parted ==
    ASSUME NEW S, NEW T, IsFiniteSet(S), T \subseteq S
    PROVE  Cardinality(S \ T) = Cardinality(S) - Cardinality(T)
<1>1. Cardinality(S \ T) = Cardinality(S) - Cardinality(S \cap T)
    BY FS_Difference
<1>2. S \cap T = T
    OBVIOUS
<1>3. QED
    BY <1>1, <1>2

LEMMA CountsAre ==
    ASSUME MarksType, NEW c \in Conversations
    PROVE  /\ {marked[c], archived[c], read_markers[c], unread[c], highlights[c], raises[c]} \subseteq Nat
           /\ unread_at[c] \subseteq Nat /\ owed[c] \subseteq Nat
BY DEF MarksType

LEMMA OwedIsFinite ==
    ASSUME MarksType, NEW c \in Conversations, Owes(c), NEW S, S \subseteq unread_at[c]
    PROVE  /\ IsFiniteSet(S) /\ IsFiniteSet(Loud(S, c))
           /\ Cardinality(S) \in Nat /\ Cardinality(Loud(S, c)) \in Nat
           /\ S \subseteq 1..archived[c]
<1>1. IsFiniteSet(1..archived[c])
    BY CountsAre, FS_Interval
<1>2. S \subseteq 1..archived[c] /\ Loud(S, c) \subseteq 1..archived[c]
    BY DEF Owes, Past, Loud
<1>3. QED
    BY <1>1, <1>2, FS_Subset, FS_CardinalityType

\* A conversation that is left as it was.
LEMMA OwesKept ==
    ASSUME MarksType, NEW c \in Conversations, Owes(c), said' = said,
           unread[c]' = unread[c], highlights[c]' = highlights[c], unread_at[c]' = unread_at[c],
           read_markers[c]' = read_markers[c], owed[c]' = owed[c], raises[c]' = raises[c],
           archived[c]' \in Nat, archived[c]' >= archived[c], c \in open => c \in open'
    PROVE  Owes(c)'
<1>1. owed[c]' \subseteq 1..archived[c]'
    <2>1. 1..archived[c] \subseteq 1..archived[c]'
        BY CountsAre
    <2>2. QED
        BY <2>1 DEF Owes
<1>2. Past(owed[c], c)' = Past(owed[c], c) /\ Loud(unread_at[c], c)' = Loud(unread_at[c], c)
    BY DEF Past, Loud
<1>3. QED
    BY <1>1, <1>2 DEF Owes

\* New messages are counted.
LEMMA OwesCounted ==
    ASSUME MarksType, NEW c \in open, Owes(c), c \in Conversations, said' = said, c \in open',
           NEW ms \in SUBSET (1..Len(said)), \A m \in ms : m > archived[c],
           unread[c]' = unread[c] + Cardinality(Past(ms, c)),
           highlights[c]' = highlights[c] + Cardinality(Loud(Past(ms, c), c)),
           unread_at[c]' = unread_at[c] \cup Past(ms, c), owed[c]' = owed[c] \cup ms,
           read_markers[c]' = read_markers[c], raises[c]' = raises[c],
           archived[c]' \in Nat, archived[c]' >= archived[c], \A m \in ms : archived[c]' >= m
    PROVE  Owes(c)' /\ Cardinality(Past(ms, c)) \in Nat /\ Cardinality(Loud(Past(ms, c), c)) \in Nat
<1> DEFINE new == Past(ms, c)
<1>0. {archived[c], read_markers[c], unread[c], highlights[c], raises[c]} \subseteq Nat
    BY CountsAre
<1>1. new \subseteq ms /\ Loud(new, c) \subseteq new /\ Loud(new, c) \subseteq ms
    BY DEF Past, Loud
<1>2. IsFiniteSet(new) /\ IsFiniteSet(Loud(new, c)) /\ Cardinality(new) \in Nat /\ Cardinality(Loud(new, c)) \in Nat
    <2>1. IsFiniteSet(1..Len(said))
        BY SaidIs, FS_Interval
    <2>2. QED
        BY <1>1, <2>1, FS_Subset, FS_CardinalityType
<1>3. /\ IsFiniteSet(unread_at[c]) /\ IsFiniteSet(Loud(unread_at[c], c)) /\ unread_at[c] \subseteq 1..archived[c]
      /\ Cardinality(unread_at[c]) \in Nat /\ Cardinality(Loud(unread_at[c], c)) \in Nat
    BY OwedIsFinite
<1>4. unread_at[c] \cap new = {} /\ Loud(unread_at[c], c) \cap Loud(new, c) = {}
    BY <1>0, <1>1, <1>3 DEF Loud
<1>5. Cardinality(unread_at[c] \cup new) = Cardinality(unread_at[c]) + Cardinality(new)
    BY <1>2, <1>3, <1>4, Disjoint
<1>6. Loud(unread_at[c], c)' = Loud(unread_at[c], c) \cup Loud(new, c)
    BY DEF Loud
<1>7. Cardinality(Loud(unread_at[c], c)') = Cardinality(Loud(unread_at[c], c)) + Cardinality(Loud(new, c))
    BY <1>2, <1>3, <1>4, <1>6, Disjoint
<1>8. owed[c]' \subseteq 1..archived[c]'
    <2>1. 1..archived[c] \subseteq 1..archived[c]'
        BY <1>0
    <2>2. ms \subseteq 1..archived[c]'
        BY SaidIs
    <2>3. QED
        BY <2>1, <2>2 DEF Owes
<1>9. unread_at[c]' = Past(owed[c], c)'
    BY DEF Owes, Past
<1>10. unread[c]' = Cardinality(unread_at[c])'
    BY <1>5 DEF Owes
<1>11. /\ highlights[c]' <= Cardinality(Loud(unread_at[c], c)') + raises[c]'
       /\ raises[c]' = 0 => highlights[c]' = Cardinality(Loud(unread_at[c], c)')
    BY <1>0, <1>2, <1>3, <1>7 DEF Owes
<1>12. QED
    BY <1>2, <1>8, <1>9, <1>10, <1>11 DEF Owes

\* The marker moves on past some of what is unread.
LEMMA OwesPassed ==
    ASSUME MarksType, NEW line, NEW c \in Conversations, Owes(c), handle_markread(line), line.to = c,
           c \in open, line.at \in Nat, line.at > read_markers[c], said' = said
    PROVE  Owes(c)' /\ {unread[c]', highlights[c]', raises[c]'} \subseteq Nat /\ unread_at[c]' \subseteq unread_at[c]
<1> DEFINE at == line.at
           reaches == archived[c] # 0 /\ at >= archived[c]
           removed == {m \in unread_at[c] : m <= at}
           less(n, by) == IF reaches \/ by > n THEN 0 ELSE n - by
           now == less(unread[c], Cardinality(removed))
<1>0. ~(c \notin open \/ line.at <= read_markers[c])
    BY CountsAre
<1>1. /\ read_markers' = [read_markers EXCEPT ![c] = at]
      /\ unread' = [unread EXCEPT ![c] = now]
      /\ highlights' = [highlights EXCEPT ![c] = IF now = 0 THEN 0 ELSE less(@, Cardinality(Loud(removed, c)))]
      /\ unread_at' = [unread_at EXCEPT ![c] = IF reaches THEN {} ELSE @ \ removed]
      /\ raises' = IF now = 0 THEN [raises EXCEPT ![c] = 0] ELSE raises
      /\ UNCHANGED <<owed, open, archived>>
    BY <1>0 DEF handle_markread, Emptied
<1>2. /\ MarksType /\ {unread, highlights, raises, read_markers} \subseteq [Conversations -> Nat]
      /\ unread_at \in [Conversations -> SUBSET Nat]
    BY DEF MarksType
<1>3. /\ read_markers[c]' = at /\ unread[c]' = now
      /\ highlights[c]' = IF now = 0 THEN 0 ELSE less(highlights[c], Cardinality(Loud(removed, c)))
      /\ unread_at[c]' = IF reaches THEN {} ELSE unread_at[c] \ removed
      /\ raises[c]' = IF now = 0 THEN 0 ELSE raises[c]
    BY <1>1, <1>2
<1>4. {archived[c], read_markers[c], unread[c], highlights[c], raises[c]} \subseteq Nat
    BY CountsAre
<1>5. /\ IsFiniteSet(removed) /\ IsFiniteSet(Loud(removed, c)) /\ removed \subseteq unread_at[c]
      /\ Cardinality(removed) \in Nat /\ Cardinality(Loud(removed, c)) \in Nat
      /\ IsFiniteSet(unread_at[c]) /\ IsFiniteSet(Loud(unread_at[c], c)) /\ unread_at[c] \subseteq 1..archived[c]
      /\ Cardinality(unread_at[c]) \in Nat /\ Cardinality(Loud(unread_at[c], c)) \in Nat
    BY OwedIsFinite
<1>6. reaches => unread_at[c] \ removed = {}
    BY <1>4, <1>5
<1>7. unread_at[c]' = unread_at[c] \ removed
    BY <1>3, <1>6
<1>8. Cardinality(unread_at[c] \ removed) = Cardinality(unread_at[c]) - Cardinality(removed)
    BY <1>5, Parted
<1>9. /\ Loud(unread_at[c] \ removed, c) = Loud(unread_at[c], c) \ Loud(removed, c)
      /\ Loud(removed, c) \subseteq Loud(unread_at[c], c)
    BY <1>5 DEF Loud
<1>10. Cardinality(Loud(unread_at[c] \ removed, c)) = Cardinality(Loud(unread_at[c], c)) - Cardinality(Loud(removed, c))
    BY <1>5, <1>9, Parted
<1>11. IsFiniteSet(unread_at[c] \ removed) /\ Cardinality(unread_at[c] \ removed) \in Nat
       /\ Cardinality(Loud(unread_at[c] \ removed, c)) \in Nat
    BY OwedIsFinite
<1>12. unread[c] = Cardinality(unread_at[c])
    BY DEF Owes
<1>13. now = Cardinality(unread_at[c] \ removed)
    <2>1. CASE reaches
        BY <1>6, <2>1, FS_EmptySet
    <2>2. CASE ~reaches
        BY <1>5, <1>8, <1>11, <1>12, <2>2
    <2>3. QED
        BY <2>1, <2>2
<1>14. now = 0 => Loud(unread_at[c] \ removed, c) = {}
    BY <1>11, <1>13, FS_EmptySet DEF Loud
<1>15. /\ highlights[c] <= Cardinality(Loud(unread_at[c], c)) + raises[c]
       /\ raises[c] = 0 => highlights[c] = Cardinality(Loud(unread_at[c], c))
    BY DEF Owes
<1>16. reaches => now = 0
    OBVIOUS
<1> DEFINE left == Cardinality(Loud(unread_at[c] \ removed, c))
<1>17. /\ highlights[c]' \in Nat /\ raises[c]' \in Nat /\ now \in Nat
       /\ highlights[c]' <= left + raises[c]'
       /\ raises[c]' = 0 => highlights[c]' = left
    <2>1. CASE now = 0
        <3>1. left = 0
            BY <1>14, <2>1, FS_EmptySet
        <3>2. highlights[c]' = 0 /\ raises[c]' = 0
            BY <1>3, <2>1
        <3> HIDE DEF left
        <3>3. QED
            BY <2>1, <3>1, <3>2
    <2>2. CASE now # 0
        <3>1. highlights[c]' = (IF Cardinality(Loud(removed, c)) > highlights[c] THEN 0
                                 ELSE highlights[c] - Cardinality(Loud(removed, c)))
              /\ raises[c]' = raises[c]
            BY <1>3, <1>16, <2>2
        <3>2. now \in Nat
            BY <1>11, <1>13
        <3> HIDE DEF now, removed, reaches, less, at
        <3>3. QED
            BY <1>4, <1>5, <1>10, <1>11, <1>15, <3>1, <3>2
    <2>3. QED
        BY <2>1, <2>2
<1>18. unread_at[c]' = Past(owed[c], c)'
    BY <1>1, <1>3, <1>4, <1>7 DEF Owes, Past
<1>19. Loud(unread_at[c], c)' = Loud(unread_at[c] \ removed, c)
    BY <1>7 DEF Loud
<1>20. owed[c]' \subseteq 1..archived[c]' /\ c \in open'
    BY <1>1 DEF Owes
<1>21. Owes(c)'
    <2>1. unread[c]' = Cardinality(unread_at[c]')
        BY <1>3, <1>7, <1>13
    <2>2. /\ highlights[c]' <= Cardinality(Loud(unread_at[c], c)') + raises[c]'
          /\ raises[c]' = 0 => highlights[c]' = Cardinality(Loud(unread_at[c], c)')
        BY <1>17, <1>19
    <2>3. QED
        BY <1>18, <1>20, <2>1, <2>2 DEF Owes
<1>22. QED
    BY <1>3, <1>7, <1>17, <1>21

-----------------------------------------------------------------------------
(* The session takes a line.                                               *)

LEMMA Remembered ==
    ASSUME MarksType, NEW c \in Conversations, NEW ms \in SUBSET (1..Len(said)), remember_newest(c, ms)
    PROVE  /\ archived' \in [Conversations -> Nat]
           /\ \A d \in Conversations : /\ archived'[d] \in Nat /\ archived'[d] >= archived[d] /\ archived'[d] <= Len(said)
                                       /\ d # c => archived'[d] = archived[d]
           /\ archived'[c] = archived[c] \/ archived'[c] \in ms
           /\ \A m \in ms : archived'[c] >= m
<1> DEFINE S == ms \cup {archived[c]}
<1>1. archived \in [Conversations -> Nat] /\ \A d \in Conversations : archived[d] \in 0..Len(said)
    BY SaidIs DEF MarksType
<1>2. Len(said) \in Nat /\ S \in SUBSET (0..Len(said)) /\ S # {}
    <2>1. Len(said) \in Nat
        BY SaidIs
    <2>2. 1..Len(said) \subseteq 0..Len(said) /\ archived[c] \in 0..Len(said)
        BY <1>1, <2>1
    <2>3. QED
        BY <2>1, <2>2
<1>3. Max(S) \in S /\ \A x \in S : Max(S) >= x
    BY <1>2, MaxNat
<1>4. archived' = [archived EXCEPT ![c] = Max(S)]
    BY DEF remember_newest
<1> DEFINE top == Max(S)
<1> HIDE DEF top
<1>5. top \in 0..Len(said) /\ top >= archived[c] /\ (\A m \in ms : top >= m) /\ top \in ms \cup {archived[c]}
    BY <1>2, <1>3 DEF top
<1>6. archived' = [archived EXCEPT ![c] = top]
    BY <1>4 DEF top
<1>7. QED
    BY <1>1, <1>2, <1>5, <1>6

LEMMA LineOff ==
    ASSUME MarksType, up, lines # <<>>, lines' = Tail(lines), UNCHANGED <<said, up>>
    PROVE  /\ lines' \in Seq(Line) /\ Head(lines) \in Line
           /\ ~up' => lines' = <<>>
           /\ \A k \in DOMAIN lines' : /\ lines'[k].what = "PRIVMSG" => lines'[k].at \in 1..Len(said')
                                       /\ lines'[k].what = "BATCH" => lines'[k].messages \subseteq 1..Len(said')
           /\ Head(lines).what = "PRIVMSG" => Head(lines).at \in 1..Len(said)
           /\ Head(lines).what = "BATCH" => Head(lines).messages \subseteq 1..Len(said)
<1>1. lines \in Seq(Line)
    BY DEF MarksType
<1>2. /\ lines' \in Seq(Line) /\ Head(lines) \in Line /\ Head(lines) = lines[1] /\ 1 \in DOMAIN lines
      /\ \A k \in DOMAIN lines' : k \in Nat /\ k + 1 \in DOMAIN lines /\ lines'[k] = lines[k + 1]
    BY <1>1, HeadOff
<1>3. QED
    BY <1>2 DEF MarksType

\* Newer messages that are counted, where the conversation is there.
LEMMA Counted ==
    ASSUME ReadMarkersAssumption, MarksType, \A d \in Conversations : Owes(d),
           NEW c \in Conversations, NEW ms \in SUBSET (1..Len(said)), \A m \in ms : m > archived[c],
           count_towards_unread(c, ms), archived' \in [Conversations -> Nat],
           \A d \in Conversations : archived'[d] >= archived[d] /\ archived'[d] <= Len(said),
           \A m \in ms : archived'[c] >= m,
           UNCHANGED <<said, marked, up, open, drops>>, sent' \in Seq(Request),
           lines' \in Seq(Line), ~up' => lines' = <<>>,
           \A k \in DOMAIN lines' : /\ lines'[k].what = "PRIVMSG" => lines'[k].at \in 1..Len(said')
                                    /\ lines'[k].what = "BATCH" => lines'[k].messages \subseteq 1..Len(said')
    PROVE  MarksType' /\ \A d \in Conversations : Owes(d)'
<1>1. /\ {unread, highlights, raises, read_markers} \subseteq [Conversations -> Nat]
      /\ {unread_at, owed} \subseteq [Conversations -> SUBSET Nat]
      /\ open \subseteq Conversations /\ up \in BOOLEAN /\ marked \in [Conversations -> Nat] /\ drops \in Nat
      /\ said \in Seq([to : Conversations, loud : BOOLEAN])
    BY DEF MarksType
<1>2. CASE c \notin open
    <2>1. UNCHANGED <<unread, highlights, unread_at, read_markers, owed, raises>>
        BY <1>2 DEF count_towards_unread, counts
    <2>2. MarksType'
        BY <1>1, <2>1 DEF MarksType
    <2>3. \A d \in Conversations : Owes(d)'
        BY <2>1, OwesKept
    <2>4. QED
        BY <2>2, <2>3
<1>3. CASE c \in open
    <2> DEFINE new == Past(ms, c)
    <2>1. /\ unread' = [unread EXCEPT ![c] = @ + Cardinality(new)]
          /\ highlights' = [highlights EXCEPT ![c] = @ + Cardinality(Loud(new, c))]
          /\ unread_at' = [unread_at EXCEPT ![c] = @ \cup new]
          /\ owed' = [owed EXCEPT ![c] = @ \cup ms]
          /\ UNCHANGED <<read_markers, raises>>
        BY <1>3 DEF count_towards_unread
    <2>2. new \in SUBSET Nat /\ ms \in SUBSET Nat
        <3>1. Len(said) \in Nat
            BY SaidIs
        <3>2. 1..Len(said) \subseteq Nat /\ new \subseteq ms
            BY <3>1 DEF Past
        <3>3. QED
            BY <3>2
    <2>3. Owes(c)' /\ Cardinality(new) \in Nat /\ Cardinality(Loud(new, c)) \in Nat
        BY <1>1, <1>3, <2>1, OwesCounted
    <2> HIDE DEF new
    <2>4. MarksType'
        <3>1. unread' \in [Conversations -> Nat] /\ highlights' \in [Conversations -> Nat]
            BY SMTT(20), <1>1, <2>1, <2>3
        <3>2. unread_at' \in [Conversations -> SUBSET Nat] /\ owed' \in [Conversations -> SUBSET Nat]
            BY <1>1, <2>1, <2>2
        <3>3. raises' \in [Conversations -> Nat] /\ read_markers' \in [Conversations -> Nat]
            BY <1>1, <2>1
        <3>4. QED
            BY <1>1, <3>1, <3>2, <3>3 DEF MarksType
    <2>5. ASSUME NEW d \in Conversations, d # c PROVE Owes(d)'
        BY <1>1, <2>1, <2>5, OwesKept
    <2>6. QED
        BY <2>3, <2>4, <2>5
<1>4. QED
    BY <1>2, <1>3

LEMMA MessageTaken ==
    ASSUME ReadMarkersAssumption, BadgeInv, Hear, Head(lines).what = "PRIVMSG"
    PROVE  BadgeInv'
<1>0. PICK line : line = Head(lines)
    OBVIOUS
<1> DEFINE c == line.to
           first == c \in Queries \ open
<1>1. /\ up /\ lines # <<>> /\ lines' = Tail(lines) /\ append(line)
      /\ UNCHANGED <<said, marked, up, drops>>
    BY <1>0 DEF Hear, network, bounds
<1>2. MarksType /\ Fresh(lines, archived) /\ \A d \in Conversations : Owes(d)
    BY DEF BadgeInv
<1>3. /\ line \in Line /\ line.at \in 1..Len(said) /\ lines' \in Seq(Line) /\ (~up' => lines' = <<>>)
      /\ \A k \in DOMAIN lines' : /\ lines'[k].what = "PRIVMSG" => lines'[k].at \in 1..Len(said')
                                  /\ lines'[k].what = "BATCH" => lines'[k].messages \subseteq 1..Len(said')
    BY <1>0, <1>1, <1>2, LineOff
<1>4. c \in Conversations /\ line.at \in Nat /\ line.at > archived[c] /\ line.at > 0
    <2>1. lines \in Seq(Line)
        BY <1>2 DEF MarksType
    <2>2. line = lines[1] /\ 1 \in DOMAIN lines
        BY <1>0, <1>1, <2>1, HeadOff
    <2>3. line.at > archived[c]
        BY <1>2, <2>2 DEF Fresh
    <2>4. c \in Conversations
        BY <1>3 DEF Line
    <2>5. QED
        BY <1>3, <2>3, <2>4, SaidIs, <1>2
<1>5. {line.at} \in SUBSET (1..Len(said)) /\ remember_newest(c, {line.at})
    BY <1>1, <1>3 DEF append
<1>6. /\ archived' \in [Conversations -> Nat]
      /\ \A d \in Conversations : /\ archived'[d] \in Nat /\ archived'[d] >= archived[d] /\ archived'[d] <= Len(said)
                                  /\ d # c => archived'[d] = archived[d]
      /\ archived'[c] = archived[c] \/ archived'[c] \in {line.at}
      /\ \A m \in {line.at} : archived'[c] >= m
    BY <1>2, <1>4, <1>5, Remembered
<1>7. Fresh(lines', archived')
    <2>1. \A d \in Conversations : archived'[d] = archived[d] \/ (d = Head(lines).to /\ archived'[d] = Head(lines).at)
        BY <1>0, <1>6
    <2>2. lines \in Seq(Line)
        BY <1>2 DEF MarksType
    <2>3. QED
        BY <1>1, <1>2, <2>1, <2>2, FreshTaken
<1>8. /\ {unread, highlights, raises, read_markers} \subseteq [Conversations -> Nat]
      /\ {unread_at, owed} \subseteq [Conversations -> SUBSET Nat]
      /\ open \subseteq Conversations /\ sent \in Seq(Request) /\ marked \in [Conversations -> Nat] /\ drops \in Nat
      /\ said \in Seq([to : Conversations, loud : BOOLEAN])
    BY <1>2 DEF MarksType
<1>9. CASE first
    <2>1. /\ open' = open \cup {c} /\ sent' = Append(sent, Get(c))
          /\ unread' = [unread EXCEPT ![c] = 1] /\ highlights' = highlights
          /\ unread_at' = [unread_at EXCEPT ![c] = {line.at}]
          /\ owed' = [owed EXCEPT ![c] = {line.at}] /\ raises' = [raises EXCEPT ![c] = 0]
          /\ UNCHANGED read_markers
        BY <1>1, <1>9 DEF append
    <2>2. Get(c) \in Request /\ sent' \in Seq(Request)
        BY <1>4, <1>8, <2>1, AppendProperties DEF Get, Request
    <2>3. MarksType'
        <3>1. unread' \in [Conversations -> Nat] /\ highlights' \in [Conversations -> Nat]
            BY <1>8, <2>1
        <3>2. unread_at' \in [Conversations -> SUBSET Nat] /\ owed' \in [Conversations -> SUBSET Nat]
            BY <1>4, <1>8, <2>1
        <3>3. raises' \in [Conversations -> Nat] /\ read_markers' \in [Conversations -> Nat]
            BY <1>8, <2>1
        <3>4. open' \subseteq Conversations
            BY <1>4, <1>8, <2>1
        <3>5. up' \in BOOLEAN
            BY <1>1
        <3>6. QED
            BY <1>1, <1>3, <1>6, <1>8, <2>2, <3>1, <3>2, <3>3, <3>4, <3>5 DEF MarksType
    <2>4. ASSUME NEW d \in Conversations, d # c PROVE Owes(d)'
        BY <1>1, <1>2, <1>6, <1>8, <2>1, <2>4, OwesKept
    <2>5. Owes(c)'
        <3>1. owed[c] = {} /\ read_markers[c] = 0 /\ raises[c] = 0 /\ unread_at[c] = {}
            BY <1>2, <1>4, <1>9 DEF Owes, Past
        <3>2. /\ owed[c]' = {line.at} /\ unread_at[c]' = {line.at} /\ unread[c]' = 1 /\ raises[c]' = 0
              /\ read_markers[c]' = 0 /\ highlights[c]' = highlights[c] /\ c \in open'
            BY <1>4, <1>8, <2>1, <3>1
        <3>3. Loud({}, c) = {} /\ Loud({line.at}, c)' = {}
            BY <1>9 DEF Loud, ReadMarkersAssumption
        <3>4. Cardinality({}) = 0 /\ Cardinality({line.at}) = 1
            BY FS_EmptySet, FS_Singleton
        <3>5. highlights[c] = 0
            BY <1>2, <1>4, <3>1, <3>3, <3>4 DEF Owes
        <3>6. owed[c]' \subseteq 1..archived[c]'
            BY <1>3, <1>4, <1>6, <3>2
        <3>7. Past(owed[c], c)' = {line.at}
            BY <1>4, <3>2 DEF Past
        <3>8. Loud(unread_at[c], c)' = {}
            BY <3>2, <3>3 DEF Loud
        <3>9. /\ unread_at[c]' = Past(owed[c], c)' /\ unread[c]' = Cardinality(unread_at[c]')
              /\ Cardinality(Loud(unread_at[c], c)') = 0 /\ highlights[c]' = 0 /\ raises[c]' = 0
            BY <3>2, <3>4, <3>5, <3>7, <3>8
        <3>10. QED
            BY <3>2, <3>6, <3>9 DEF Owes
    <2>6. QED
        BY <1>7, <2>3, <2>4, <2>5 DEF BadgeInv
<1>10. CASE ~first
    <2>1. /\ open' = open /\ sent' = sent /\ count_towards_unread(c, {line.at})
        BY <1>1, <1>10 DEF append
    <2>2. MarksType' /\ \A d \in Conversations : Owes(d)'
        BY <1>1, <1>2, <1>3, <1>4, <1>5, <1>6, <1>8, <2>1, Counted
    <2>3. QED
        BY <1>7, <2>2 DEF BadgeInv
<1>11. QED
    BY <1>9, <1>10

LEMMA BatchTaken ==
    ASSUME ReadMarkersAssumption, BadgeInv, Hear, Head(lines).what = "BATCH"
    PROVE  BadgeInv'
<1>0. PICK line : line = Head(lines)
    OBVIOUS
<1> DEFINE c == line.to
           missed == {m \in line.messages : m > archived[c]}
           counted == IF c \in gap_fills THEN missed ELSE {}
<1>1. /\ up /\ lines # <<>> /\ lines' = Tail(lines) /\ close_batch(line)
      /\ UNCHANGED <<said, marked, up, drops>>
    BY <1>0 DEF Hear, network, bounds
<1>2. MarksType /\ Fresh(lines, archived) /\ \A d \in Conversations : Owes(d)
    BY DEF BadgeInv
<1>3. /\ line \in Line /\ line.messages \subseteq 1..Len(said) /\ lines' \in Seq(Line) /\ (~up' => lines' = <<>>)
      /\ \A k \in DOMAIN lines' : /\ lines'[k].what = "PRIVMSG" => lines'[k].at \in 1..Len(said')
                                  /\ lines'[k].what = "BATCH" => lines'[k].messages \subseteq 1..Len(said')
    BY <1>0, <1>1, <1>2, LineOff
<1>4. c \in Conversations
    BY <1>0, <1>3 DEF Line
<1>5. /\ count_towards_unread(c, counted) /\ remember_newest(c, line.messages)
      /\ open' = open /\ sent' = sent
    BY <1>1 DEF close_batch
<1>6. /\ archived' \in [Conversations -> Nat]
      /\ \A d \in Conversations : /\ archived'[d] \in Nat /\ archived'[d] >= archived[d] /\ archived'[d] <= Len(said)
                                  /\ d # c => archived'[d] = archived[d]
      /\ archived'[c] = archived[c] \/ archived'[c] \in line.messages
      /\ \A m \in line.messages : archived'[c] >= m
    BY <1>2, <1>3, <1>4, <1>5, Remembered
<1>7. Fresh(lines', archived')
    <2>1. \A d \in Conversations : archived'[d] = archived[d] \/ (d = Head(lines).to /\ archived'[d] \in Head(lines).messages)
        BY <1>0, <1>6
    <2>2. lines \in Seq(Line)
        BY <1>2 DEF MarksType
    <2>3. QED
        BY <1>0, <1>1, <1>2, <2>1, <2>2, FreshTaken
<1>8. counted \subseteq line.messages /\ \A m \in counted : m > archived[c] /\ archived'[c] >= m
    BY <1>6
<1>9. PICK ms : ms = counted
    OBVIOUS
<1>10. ms \in SUBSET (1..Len(said)) /\ count_towards_unread(c, ms) /\ \A m \in ms : m > archived[c] /\ archived'[c] >= m
    BY <1>3, <1>5, <1>8, <1>9
<1>11. sent' \in Seq(Request)
    BY <1>2, <1>5 DEF MarksType
<1>12. MarksType' /\ \A d \in Conversations : Owes(d)'
    BY <1>1, <1>2, <1>3, <1>4, <1>5, <1>6, <1>10, <1>11, Counted
<1>13. QED
    BY <1>7, <1>12 DEF BadgeInv

LEMMA MarkerTaken ==
    ASSUME ReadMarkersAssumption, BadgeInv, Hear, Head(lines).what = "MARKREAD"
    PROVE  BadgeInv'
<1>0. PICK line : line = Head(lines)
    OBVIOUS
<1> DEFINE c == line.to
<1>1. /\ up /\ lines # <<>> /\ lines' = Tail(lines) /\ handle_markread(line) /\ sent' = sent
      /\ UNCHANGED <<said, marked, up, drops>>
    BY <1>0 DEF Hear, network, bounds
<1>2. MarksType /\ Fresh(lines, archived) /\ \A d \in Conversations : Owes(d)
    BY DEF BadgeInv
<1>3. /\ line \in Line /\ lines' \in Seq(Line) /\ (~up' => lines' = <<>>)
      /\ \A k \in DOMAIN lines' : /\ lines'[k].what = "PRIVMSG" => lines'[k].at \in 1..Len(said')
                                  /\ lines'[k].what = "BATCH" => lines'[k].messages \subseteq 1..Len(said')
    BY <1>0, <1>1, <1>2, LineOff
<1>4. c \in Conversations /\ line.at \in Nat
    BY <1>0, <1>3 DEF Line
<1>5. archived' = archived /\ open' = open
    BY <1>1 DEF handle_markread, client
<1>6. Fresh(lines', archived')
    <2>1. lines \in Seq(Line)
        BY <1>2 DEF MarksType
    <2>2. QED
        BY <1>1, <1>2, <1>5, <2>1, FreshTaken
<1>7. /\ {unread, highlights, raises, read_markers, archived} \subseteq [Conversations -> Nat]
      /\ {unread_at, owed} \subseteq [Conversations -> SUBSET Nat]
      /\ open \subseteq Conversations /\ sent \in Seq(Request) /\ marked \in [Conversations -> Nat] /\ drops \in Nat
      /\ said \in Seq([to : Conversations, loud : BOOLEAN])
      /\ \A d \in Conversations : archived[d] <= Len(said)
    BY <1>2 DEF MarksType
<1>8. CASE c \notin open \/ line.at <= read_markers[c]
    <2>1. UNCHANGED <<unread, highlights, unread_at, read_markers, owed, raises>>
        BY <1>1, <1>8 DEF handle_markread, client, counts
    <2>2. MarksType'
        BY <1>1, <1>3, <1>5, <1>7, <2>1 DEF MarksType
    <2>3. ASSUME NEW d \in Conversations PROVE Owes(d)'
        BY <1>1, <1>2, <1>5, <1>7, <2>1, OwesKept
    <2>4. QED
        BY <1>6, <2>2, <2>3 DEF BadgeInv
<1>9. CASE ~(c \notin open \/ line.at <= read_markers[c])
    <2>1. c \in open /\ line.at > read_markers[c]
        BY <1>2, <1>4, <1>9, CountsAre
    <2>2. Owes(c)' /\ {unread[c]', highlights[c]'} \subseteq Nat /\ unread_at[c]' \subseteq unread_at[c]
        BY <1>1, <1>2, <1>4, <2>1, OwesPassed
    <2>3. PICK un, hi, ua :
            /\ unread' = [unread EXCEPT ![c] = un] /\ highlights' = [highlights EXCEPT ![c] = hi]
            /\ unread_at' = [unread_at EXCEPT ![c] = ua] /\ read_markers' = [read_markers EXCEPT ![c] = line.at]
            /\ raises' = [raises EXCEPT ![c] = 0] \/ raises' = raises
            /\ owed' = owed
        BY <1>1, <1>9 DEF handle_markread, Emptied
    <2>4. un \in Nat /\ hi \in Nat /\ ua \in SUBSET Nat
        BY <1>4, <1>7, <2>2, <2>3
    <2>5. unread' \in [Conversations -> Nat] /\ highlights' \in [Conversations -> Nat]
        BY <1>7, <2>3, <2>4
    <2>6. /\ raises' \in [Conversations -> Nat] /\ read_markers' \in [Conversations -> Nat]
          /\ unread_at' \in [Conversations -> SUBSET Nat] /\ owed' \in [Conversations -> SUBSET Nat]
        <3>1. read_markers' \in [Conversations -> Nat]
            BY <1>4, <1>7, <2>3
        <3>2. raises' \in [Conversations -> Nat]
            <4>1. raises \in [Conversations -> Nat]
                BY <1>7
            <4>2. QED
                BY <2>3, <4>1
        <3>3. unread_at' \in [Conversations -> SUBSET Nat] /\ owed' \in [Conversations -> SUBSET Nat]
            BY <1>7, <2>3, <2>4
        <3>4. QED
            BY <3>1, <3>2, <3>3
    <2>7. MarksType'
        BY <1>1, <1>3, <1>5, <1>7, <2>5, <2>6 DEF MarksType
    <2>8. ASSUME NEW d \in Conversations, d # c PROVE Owes(d)'
        <3>1. /\ unread[d]' = unread[d] /\ highlights[d]' = highlights[d] /\ unread_at[d]' = unread_at[d]
              /\ read_markers[d]' = read_markers[d] /\ owed[d]' = owed[d] /\ raises[d]' = raises[d]
            BY <1>7, <2>3, <2>8
        <3>2. QED
            BY <1>1, <1>2, <1>5, <1>7, <3>1, OwesKept
    <2>9. QED
        BY <1>6, <2>2, <2>7, <2>8 DEF BadgeInv
<1>10. QED
    BY <1>8, <1>9

\* A conversation is opened, with nothing owed of it yet.
LEMMA OpenedTaken ==
    ASSUME ReadMarkersAssumption, BadgeInv, Hear, Head(lines).what \in {"JOIN", "TARGETS"}
    PROVE  BadgeInv'
<1>0. PICK line : line = Head(lines)
    OBVIOUS
<1> DEFINE c == line.to
<1>1. /\ up /\ lines # <<>> /\ lines' = Tail(lines)
      /\ line.what = "JOIN" => handle_join(c)
      /\ line.what = "TARGETS" => handle_chathistory(c, line.at)
      /\ UNCHANGED <<said, marked, up, drops>>
    BY <1>0 DEF Hear, network, bounds
<1>2. MarksType /\ Fresh(lines, archived) /\ \A d \in Conversations : Owes(d)
    BY DEF BadgeInv
<1>3. /\ line \in Line /\ lines' \in Seq(Line) /\ (~up' => lines' = <<>>)
      /\ \A k \in DOMAIN lines' : /\ lines'[k].what = "PRIVMSG" => lines'[k].at \in 1..Len(said')
                                  /\ lines'[k].what = "BATCH" => lines'[k].messages \subseteq 1..Len(said')
    BY <1>0, <1>1, <1>2, LineOff
<1>4. c \in Conversations
    BY <1>0, <1>3 DEF Line
<1>5. backfill(c) \in Request /\ Get(c) \in Request /\ sent \in Seq(Request)
    BY <1>2, <1>4, CountsAre DEF backfill, Get, Request, MarksType
<1>6. /\ UNCHANGED <<unread, highlights, unread_at, read_markers, owed, raises, archived>>
      /\ open \subseteq open' /\ open' \subseteq Conversations /\ sent' \in Seq(Request)
    <2>1. open \subseteq Conversations
        BY <1>2 DEF MarksType
    <2>2. CASE line.what = "JOIN"
        <3>1. UNCHANGED <<counts, archived>> /\ open' = open \cup {c} /\ sent' = Append(sent, backfill(c))
            BY <1>1, <2>2 DEF handle_join
        <3>2. sent' \in Seq(Request)
            BY <1>5, <3>1, AppendProperties
        <3>3. QED
            BY <1>4, <2>1, <3>1, <3>2 DEF counts
    <2>3. CASE line.what = "TARGETS"
        <3>1. CASE archived[c] >= line.at
            BY <1>1, <1>5, <2>1, <2>3, <3>1 DEF handle_chathistory, client, counts
        <3>2. CASE ~(archived[c] >= line.at)
            <4> DEFINE first == IF c \in open THEN <<>> ELSE <<Get(c)>>
            <4>1. /\ UNCHANGED <<counts, archived>> /\ open' = open \cup {c}
                  /\ sent' = sent \o first \o <<backfill(c)>>
                BY <1>1, <2>3, <3>2 DEF handle_chathistory
            <4>2. first \in Seq(Request) /\ <<backfill(c)>> \in Seq(Request)
                BY <1>5
            <4>3. sent' \in Seq(Request)
                BY <1>5, <4>1, <4>2, ConcatProperties
            <4>4. QED
                BY <1>4, <2>1, <4>1, <4>3 DEF counts
        <3>3. QED
            BY <3>1, <3>2
    <2>4. QED
        BY <1>0, <2>2, <2>3
<1>7. Fresh(lines', archived')
    <2>1. lines \in Seq(Line)
        BY <1>2 DEF MarksType
    <2>2. QED
        BY <1>1, <1>2, <1>6, <2>1, FreshTaken
<1>8. MarksType'
    BY <1>1, <1>2, <1>3, <1>6 DEF MarksType
<1>9. ASSUME NEW d \in Conversations PROVE Owes(d)'
    BY <1>1, <1>2, <1>6, CountsAre, OwesKept
<1>10. QED
    BY <1>7, <1>8, <1>9 DEF BadgeInv

LEMMA BadgeHeard ==
    ASSUME ReadMarkersAssumption, BadgeInv, Hear
    PROVE  BadgeInv'
<1>1. Head(lines) \in Line
    BY HeadOff DEF Hear, BadgeInv, MarksType
<1>2. Head(lines).what \in {"PRIVMSG", "BATCH", "MARKREAD", "JOIN", "TARGETS"}
    BY <1>1 DEF Line
<1>3. QED
    BY <1>2, MessageTaken, BatchTaken, MarkerTaken, OpenedTaken

-----------------------------------------------------------------------------
(* The network goes on.                                                    *)

LEMMA BadgeSaid ==
    ASSUME ReadMarkersAssumption, BadgeInv, NEW c \in Conversations, NEW loud \in BOOLEAN, Says(c, loud)
    PROVE  BadgeInv'
<1> DEFINE n == Len(said)
           new == [what |-> "PRIVMSG", to |-> c, at |-> n + 1]
<1>1. /\ said' = Append(said, [to |-> c, loud |-> loud])
      /\ lines' = lines \/ (up /\ lines' = Append(lines, new))
      /\ UNCHANGED <<marked, up, sent, unread, highlights, unread_at, read_markers, owed, raises, open, archived, drops>>
    BY DEF Says, Hears, client, counts, bounds
<1>2. MarksType /\ Fresh(lines, archived) /\ \A d \in Conversations : Owes(d)
    BY DEF BadgeInv
<1>3. /\ n \in Nat /\ DOMAIN said = 1..n
      /\ \A d \in Conversations : archived[d] \in 0..n
    BY <1>2, SaidIs
<1>4. /\ said' \in Seq([to : Conversations, loud : BOOLEAN]) /\ Len(said') = n + 1
      /\ \A m \in 1..n : said'[m] = said[m]
    <2>1. [to |-> c, loud |-> loud] \in [to : Conversations, loud : BOOLEAN]
        OBVIOUS
    <2>2. QED
        BY <1>1, <1>2, <2>1, AppendProperties DEF MarksType
<1>5. lines \in Seq(Line) /\ new \in Line /\ archived \in [Conversations -> Nat]
    BY <1>2, <1>3 DEF MarksType, Line
<1>6. \A k \in DOMAIN lines : /\ lines[k].what = "PRIVMSG" => lines[k].at \in 1..n
                              /\ lines[k].what = "BATCH" => lines[k].messages \subseteq 1..n
    BY <1>2 DEF MarksType
<1>7. /\ lines' \in Seq(Line) /\ Fresh(lines', archived')
      /\ \A k \in DOMAIN lines' : /\ lines'[k].what = "PRIVMSG" => lines'[k].at \in 1..n + 1
                                  /\ lines'[k].what = "BATCH" => lines'[k].messages \subseteq 1..n + 1
    <2>0. 1..n \subseteq 1..n + 1 /\ n + 1 \in 1..n + 1
        BY <1>3
    <2>1. CASE lines' = lines
        BY <1>1, <1>2, <1>5, <1>6, <2>0, <2>1
    <2>2. CASE lines' = Append(lines, new)
        <3>1. lines' = lines \o <<new>> /\ lines' \in Seq(Line) /\ <<new>> \in Seq(Line) /\ DOMAIN <<new>> = {1} /\ <<new>>[1] = new
            BY <1>5, <2>2, PutOne
        <3>2. Fresh(lines \o <<new>>, archived)
            <4>1. archived[c] <= n /\ new = [what |-> "PRIVMSG", to |-> c, at |-> n + 1]
                BY <1>3
            <4> HIDE DEF new, n
            <4>2. QED
                BY <1>2, <1>3, <1>5, <1>6, <4>1, FreshSaid
        <3>3. \A k \in DOMAIN lines' : (k \in DOMAIN lines /\ lines'[k] = lines[k]) \/ lines'[k] = new
            <4>1. /\ Len(lines) \in Nat
                  /\ \A k \in DOMAIN lines : (lines \o <<new>>)[k] = lines[k]
                  /\ \A k \in DOMAIN <<new>> : (lines \o <<new>>)[Len(lines) + k] = <<new>>[k]
                  /\ \A k \in DOMAIN (lines \o <<new>>) : \/ k \in DOMAIN lines
                                                          \/ \E l \in DOMAIN <<new>> : k = Len(lines) + l
                BY <1>5, <3>1, PutBehind
            <4> HIDE DEF new
            <4>2. QED
                BY <3>1, <4>1
        <3>4. QED
            BY <1>1, <1>6, <2>0, <3>1, <3>2, <3>3
    <2>3. QED
        BY <1>1, <2>1, <2>2
<1>8. MarksType'
    <2>1. \A d \in Conversations : archived'[d] <= Len(said')
        BY <1>1, <1>3, <1>4
    <2>2. ~up' => lines' = <<>>
        BY <1>1, <1>2 DEF MarksType
    <2>3. QED
        BY <1>1, <1>2, <1>4, <1>7, <2>1, <2>2 DEF MarksType
<1>9. ASSUME NEW d \in Conversations PROVE Owes(d)'
    <2>1. unread_at[d] \subseteq 1..n
        <3>1. unread_at[d] \subseteq 1..archived[d]
            BY <1>2, OwedIsFinite
        <3>2. QED
            BY <1>3, <3>1
    <2>2. Loud(unread_at[d], d)' = Loud(unread_at[d], d)
        BY <1>1, <1>4, <2>1 DEF Loud
    <2>3. Past(owed[d], d)' = Past(owed[d], d)
        BY <1>1 DEF Past
    <2>4. QED
        BY <1>1, <1>2, <2>2, <2>3 DEF Owes
<1>10. QED
    BY <1>7, <1>8, <1>9 DEF BadgeInv

\* The lines of an answer leave what is owed as it is.
LEMMA BadgeAnswered ==
    ASSUME BadgeInv, NEW more \in Seq(Line), Answers(more, marked'), lines' = lines \o more,
           UNCHANGED <<said, up, unread, highlights, unread_at, read_markers, owed, raises, open, archived, drops>>,
           sent' \in Seq(Request), up
    PROVE  BadgeInv'
<1>1. MarksType /\ Fresh(lines, archived) /\ \A d \in Conversations : Owes(d)
    BY DEF BadgeInv
<1>2. lines \in Seq(Line)
    BY <1>1 DEF MarksType
<1>3. Fresh(lines', archived')
    BY <1>1, <1>2, FreshMore DEF Answers
<1>4. MarksType'
    <2>1. lines' \in Seq(Line) /\ \A k \in DOMAIN lines' : (k \in DOMAIN lines /\ lines'[k] = lines[k]) \/ \E l \in DOMAIN more : lines'[k] = more[l]
        BY <1>2, MoreLines
    <2>2. \A k \in DOMAIN lines' : /\ lines'[k].what = "PRIVMSG" => lines'[k].at \in 1..Len(said')
                                   /\ lines'[k].what = "BATCH" => lines'[k].messages \subseteq 1..Len(said')
        BY <1>1, <2>1 DEF MarksType, Answers
    <2>3. marked' \in [Conversations -> Nat]
        BY DEF Answers, Tells
    <2>4. ~up' => lines' = <<>>
        OBVIOUS
    <2>5. /\ said' = said /\ up' = up /\ unread' = unread /\ highlights' = highlights /\ unread_at' = unread_at
          /\ read_markers' = read_markers /\ owed' = owed /\ raises' = raises /\ open' = open
          /\ archived' = archived /\ drops' = drops
        OBVIOUS
    <2>6. {marked, archived, read_markers, unread, highlights, raises}' \subseteq [Conversations -> Nat]
        BY <1>1, <2>3, <2>5 DEF MarksType
    <2>7. {unread_at, owed}' \subseteq [Conversations -> SUBSET Nat]
        BY <1>1, <2>5 DEF MarksType
    <2>8. said' \in Seq([to : Conversations, loud : BOOLEAN]) /\ open' \subseteq Conversations /\ up' \in BOOLEAN /\ drops' \in Nat
        BY <1>1, <2>5 DEF MarksType
    <2>9. \A c \in Conversations : archived'[c] <= Len(said')
        BY <1>1, <2>5 DEF MarksType
    <2>10. QED
        BY <2>1, <2>2, <2>4, <2>6, <2>7, <2>8, <2>9 DEF MarksType
<1>5. ASSUME NEW d \in Conversations PROVE Owes(d)'
    BY <1>1, CountsAre, OwesKept
<1>6. QED
    BY <1>3, <1>4, <1>5 DEF BadgeInv

\* Another client's reading is told to a session that is connected.
LEMMA OtherAnswers ==
    ASSUME ReadMarkersAssumption, MarksType, NEW c \in Conversations, NEW m \in Of(c), OtherReads(c, m)
    PROVE  /\ Answers(<<Set(c, m)>>, marked') /\ <<Set(c, m)>> \in Seq(Line)
           /\ marked' = [marked EXCEPT ![c] = m] /\ m \in Nat /\ m > marked[c]
           /\ IF up THEN lines' = lines \o <<Set(c, m)>> ELSE lines' = lines
           /\ UNCHANGED <<said, up, unread, highlights, unread_at, read_markers, owed, raises, open, archived, drops, sent>>
<1>1. /\ marked' = [marked EXCEPT ![c] = m] /\ m > marked[c]
      /\ IF up THEN lines' = Append(lines, Set(c, m)) ELSE lines' = lines
      /\ UNCHANGED <<said, up, unread, highlights, unread_at, read_markers, owed, raises, open, archived, drops, sent>>
    BY DEF OtherReads, Hears, client, counts
<1>2. Of(c) \subseteq 1..Len(said) /\ Len(said) \in Nat
    BY SaidIs
<1>3. m \in 1..Len(said)
    BY <1>2
<1>4. m \in Nat /\ marked[c] \in Nat /\ m >= marked[c]
    BY <1>1, <1>2, <1>3, CountsAre
<1>5. Set(c, m) \in Line /\ lines \in Seq(Line)
    BY <1>4 DEF Set, Line, MarksType
<1>6. Answers(<<Set(c, m)>>, marked')
    BY <1>1, <1>4, SetTells
<1>7. QED
    BY SMTT(20), <1>1, <1>4, <1>5, <1>6, PutOne

LEMMA BadgeNetwork ==
    ASSUME ReadMarkersAssumption, BadgeInv,
           ServerReads \/ \E c \in Conversations : \E m \in Of(c) : OtherReads(c, m)
    PROVE  BadgeInv'
<1>1. MarksType /\ Fresh(lines, archived) /\ \A d \in Conversations : Owes(d)
    BY DEF BadgeInv
<1>2. CASE ServerReads
    <2>1. PICK more \in Seq(Line) : lines' = lines \o more /\ Answers(more, marked')
        BY <1>1, <1>2, Answered
    <2>2. up /\ sent' = Tail(sent) /\ sent # <<>> /\ UNCHANGED <<said, up, unread, highlights, unread_at, read_markers, owed, raises, open, archived, drops>>
        BY <1>2 DEF ServerReads, client, counts, bounds
    <2>3. sent' \in Seq(Request)
        BY <1>1, <2>2, HeadOff DEF MarksType
    <2>4. QED
        BY <2>1, <2>2, <2>3, BadgeAnswered
<1>3. ASSUME NEW c \in Conversations, NEW m \in Of(c), OtherReads(c, m) PROVE BadgeInv'
    <2>1. /\ Answers(<<Set(c, m)>>, marked') /\ <<Set(c, m)>> \in Seq(Line)
          /\ marked' = [marked EXCEPT ![c] = m] /\ m \in Nat
          /\ IF up THEN lines' = lines \o <<Set(c, m)>> ELSE lines' = lines
          /\ UNCHANGED <<said, up, unread, highlights, unread_at, read_markers, owed, raises, open, archived, drops, sent>>
        BY <1>1, <1>3, OtherAnswers
    <2>2. sent' \in Seq(Request)
        BY <1>1, <2>1 DEF MarksType
    <2>3. CASE up
        BY <2>1, <2>2, <2>3, BadgeAnswered
    <2>4. CASE ~up
        <3>1. MarksType'
            BY <1>1, <2>1, <2>4 DEF MarksType
        <3>2. ASSUME NEW d \in Conversations PROVE Owes(d)'
            BY <1>1, <2>1, CountsAre, OwesKept
        <3>3. QED
            BY <1>1, <2>1, <2>4, <3>1, <3>2 DEF BadgeInv
    <2>5. QED
        BY <2>3, <2>4
<1>4. QED
    BY <1>2, <1>3

-----------------------------------------------------------------------------
(* The reader, the rules and the connection.                               *)

LEMMA EmptiedIs ==
    ASSUME NEW S, NEW f \in [Conversations -> S], NEW c \in Conversations, NEW x \in S
    PROVE  [f EXCEPT ![c] = x] \in [Conversations -> S]
OBVIOUS

\* Nothing is owed of a conversation that is emptied.
LEMMA NothingOwed ==
    ASSUME NEW c \in Conversations, owed'[c] = {}, unread_at'[c] = {}, unread'[c] = 0, highlights'[c] = 0, raises'[c] = 0,
           c \in open' \/ read_markers'[c] = 0
    PROVE  Owes(c)'
<1>1. Past(owed[c], c)' = {} /\ Loud(unread_at[c], c)' = {}
    BY DEF Past, Loud
<1>2. Cardinality({}) = 0
    BY FS_EmptySet
<1>3. unread[c]' = Cardinality(unread_at[c]') /\ Cardinality(Loud(unread_at[c], c)') = 0
    BY <1>1, <1>2
<1>4. QED
    BY <1>1, <1>3 DEF Owes

LEMMA BadgeRead ==
    ASSUME ReadMarkersAssumption, BadgeInv, NEW c \in Conversations, mark_read(c)
    PROVE  BadgeInv'
<1>1. MarksType /\ Fresh(lines, archived) /\ \A d \in Conversations : Owes(d)
    BY DEF BadgeInv
<1>2. PICK rm \in Nat :
        /\ c \in open /\ unread' = [unread EXCEPT ![c] = 0] /\ highlights' = [highlights EXCEPT ![c] = 0]
        /\ unread_at' = [unread_at EXCEPT ![c] = {}] /\ owed' = [owed EXCEPT ![c] = {}]
        /\ raises' = [raises EXCEPT ![c] = 0] /\ read_markers' = [read_markers EXCEPT ![c] = rm]
        /\ UNCHANGED <<said, marked, up, lines, open, archived, drops>>
    <2>1. read_markers \in [Conversations -> Nat] /\ archived[c] \in Nat /\ read_markers[c] \in Nat
        BY <1>1, CountsAre DEF MarksType
    <2>2. [read_markers EXCEPT ![c] = read_markers[c]] = read_markers
        BY <2>1
    <2>3. \/ read_markers' = [read_markers EXCEPT ![c] = archived[c]]
          \/ read_markers' = [read_markers EXCEPT ![c] = read_markers[c]]
        BY <2>2 DEF mark_read
    <2>4. QED
        BY <2>1, <2>3 DEF mark_read, Emptied, network, bounds
<1>3. sent' \in Seq(Request)
    <2>1. Set(c, archived[c]) \in Request /\ sent \in Seq(Request)
        BY <1>1, CountsAre DEF Set, Request, MarksType
    <2>2. sent' = sent \/ sent' = Append(sent, Set(c, archived[c]))
        BY DEF mark_read
    <2>3. QED
        BY <2>1, <2>2, AppendProperties
<1>4. /\ unread' \in [Conversations -> Nat] /\ highlights' \in [Conversations -> Nat] /\ raises' \in [Conversations -> Nat]
      /\ read_markers' \in [Conversations -> Nat]
      /\ unread_at' \in [Conversations -> SUBSET Nat] /\ owed' \in [Conversations -> SUBSET Nat]
    BY <1>1, <1>2, EmptiedIs DEF MarksType
<1>5. MarksType'
    BY <1>1, <1>2, <1>3, <1>4 DEF MarksType
<1>6. Owes(c)'
    BY <1>1, <1>2, NothingOwed DEF MarksType
<1>7. ASSUME NEW d \in Conversations, d # c PROVE Owes(d)'
    <2>1. /\ unread[d]' = unread[d] /\ highlights[d]' = highlights[d] /\ unread_at[d]' = unread_at[d]
          /\ read_markers[d]' = read_markers[d] /\ owed[d]' = owed[d] /\ raises[d]' = raises[d]
        BY <1>1, <1>2, <1>7 DEF MarksType
    <2>2. QED
        BY <1>1, <1>2, <2>1, CountsAre, OwesKept
<1>8. QED
    BY <1>1, <1>2, <1>5, <1>6, <1>7 DEF BadgeInv

LEMMA BadgeRaised ==
    ASSUME ReadMarkersAssumption, BadgeInv, NEW c \in Conversations, NEW m \in Of(c), raise(m)
    PROVE  BadgeInv'
<1>1. MarksType /\ Fresh(lines, archived) /\ \A d \in Conversations : Owes(d)
    BY DEF BadgeInv
<1>2. said[m].to = c
    BY DEF Of
<1>3. /\ \/ highlights' = highlights /\ raises' = raises
         \/ /\ highlights' = [highlights EXCEPT ![c] = @ + 1] /\ raises' = [raises EXCEPT ![c] = @ + 1]
            /\ c \in open
      /\ UNCHANGED <<said, marked, up, lines, sent, unread, unread_at, read_markers, owed, open, archived, drops>>
    BY <1>2 DEF raise, network, bounds
<1>4. /\ highlights \in [Conversations -> Nat] /\ raises \in [Conversations -> Nat]
      /\ highlights[c] \in Nat /\ raises[c] \in Nat
    BY <1>1 DEF MarksType
<1>5. highlights' \in [Conversations -> Nat] /\ raises' \in [Conversations -> Nat]
    <2>1. highlights[c] + 1 \in Nat /\ raises[c] + 1 \in Nat
        BY <1>4
    <2>2. QED
        BY <1>3, <1>4, <2>1
<1>6. MarksType'
    BY <1>1, <1>3, <1>5 DEF MarksType
<1>7. ASSUME NEW d \in Conversations PROVE Owes(d)'
    <2>1. CASE highlights'[d] = highlights[d] /\ raises'[d] = raises[d]
        BY <1>1, <1>3, <2>1, CountsAre, OwesKept
    <2>2. CASE d = c /\ highlights'[c] = highlights[c] + 1 /\ raises'[c] = raises[c] + 1 /\ c \in open
        <3>1. Past(owed[c], c)' = Past(owed[c], c) /\ Loud(unread_at[c], c)' = Loud(unread_at[c], c)
            BY <1>3 DEF Past, Loud
        <3>2. Cardinality(Loud(unread_at[c], c)) \in Nat
            BY <1>1, OwedIsFinite
        <3>3. /\ highlights[c]' <= Cardinality(Loud(unread_at[c], c)') + raises[c]'
              /\ raises[c]' # 0
            BY <1>1, <1>4, <2>2, <3>1, <3>2 DEF Owes
        <3>4. QED
            BY <1>1, <1>3, <2>2, <3>1, <3>3 DEF Owes
    <2>3. QED
        BY <1>3, <1>4, <2>1, <2>2
<1>8. QED
    BY <1>1, <1>3, <1>6, <1>7 DEF BadgeInv

LEMMA BadgeClosed ==
    ASSUME ReadMarkersAssumption, BadgeInv, NEW c \in Conversations, cmd_close(c)
    PROVE  BadgeInv'
<1>1. MarksType /\ Fresh(lines, archived) /\ \A d \in Conversations : Owes(d)
    BY DEF BadgeInv
<1>2. /\ open' = open \ {c} /\ unread' = [unread EXCEPT ![c] = 0] /\ highlights' = [highlights EXCEPT ![c] = 0]
      /\ unread_at' = [unread_at EXCEPT ![c] = {}] /\ owed' = [owed EXCEPT ![c] = {}]
      /\ raises' = [raises EXCEPT ![c] = 0] /\ read_markers' = [read_markers EXCEPT ![c] = 0]
      /\ sent' = sent \/ sent' = Append(sent, [what |-> "PART", to |-> c])
      /\ UNCHANGED <<said, marked, up, lines, archived, drops>>
    BY DEF cmd_close, Emptied, network
<1>3. sent' \in Seq(Request)
    <2>1. [what |-> "PART", to |-> c] \in Request /\ sent \in Seq(Request)
        BY <1>1 DEF Request, MarksType
    <2>2. QED
        BY <1>2, <2>1, AppendProperties
<1>4. /\ unread' \in [Conversations -> Nat] /\ highlights' \in [Conversations -> Nat] /\ raises' \in [Conversations -> Nat]
      /\ read_markers' \in [Conversations -> Nat]
      /\ unread_at' \in [Conversations -> SUBSET Nat] /\ owed' \in [Conversations -> SUBSET Nat]
    BY <1>1, <1>2, EmptiedIs DEF MarksType
<1>5. MarksType'
    <2>1. open' \subseteq Conversations
        BY <1>1, <1>2 DEF MarksType
    <2>2. QED
        BY <1>1, <1>2, <1>3, <1>4, <2>1 DEF MarksType
<1>6. Owes(c)'
    BY <1>1, <1>2, NothingOwed DEF MarksType
<1>7. ASSUME NEW d \in Conversations, d # c PROVE Owes(d)'
    <2>1. /\ unread[d]' = unread[d] /\ highlights[d]' = highlights[d] /\ unread_at[d]' = unread_at[d]
          /\ read_markers[d]' = read_markers[d] /\ owed[d]' = owed[d] /\ raises[d]' = raises[d]
          /\ d \in open => d \in open'
        BY <1>1, <1>2, <1>7 DEF MarksType
    <2>2. QED
        BY <1>1, <1>2, <2>1, CountsAre, OwesKept
<1>8. QED
    BY <1>1, <1>2, <1>5, <1>6, <1>7 DEF BadgeInv

\* What leaves the counts, the record and the lines as they are.
LEMMA BadgeElse ==
    ASSUME BadgeInv, up' \in BOOLEAN, drops' \in Nat, lines' = lines \/ lines' = <<>>, ~up' => lines' = <<>>,
           sent' \in Seq(Request), open \subseteq open', open' \subseteq Conversations,
           UNCHANGED <<said, marked, unread, highlights, unread_at, read_markers, owed, raises, archived>>
    PROVE  BadgeInv'
<1>1. MarksType /\ Fresh(lines, archived) /\ \A d \in Conversations : Owes(d)
    BY DEF BadgeInv
<1>2. <<>> \in Seq(Line) /\ DOMAIN <<>> = {}
    BY EmptySeq
<1>3. MarksType' /\ Fresh(lines', archived')
    <2>1. CASE lines' = lines
        BY <1>1, <2>1 DEF MarksType, Fresh
    <2>2. CASE lines' = <<>>
        BY <1>1, <1>2, <2>2 DEF MarksType, Fresh
    <2>3. QED
        BY <2>1, <2>2
<1>4. ASSUME NEW d \in Conversations PROVE Owes(d)'
    BY <1>1, CountsAre, OwesKept
<1>5. QED
    BY <1>3, <1>4 DEF BadgeInv

LEMMA BadgeOpened ==
    ASSUME ReadMarkersAssumption, BadgeInv, NEW c \in Conversations, open_target(c)
    PROVE  BadgeInv'
<1>1. /\ Join(c) \in Request /\ Get(c) \in Request /\ sent \in Seq(Request) /\ open \subseteq Conversations
      /\ up \in BOOLEAN /\ drops \in Nat /\ (~up => lines = <<>>)
    BY DEF Join, Get, Request, BadgeInv, MarksType
<1>2. /\ \/ sent' = Append(sent, Join(c)) /\ open' = open
         \/ sent' = Append(sent, Get(c)) /\ open' = open \cup {c}
      /\ UNCHANGED <<said, marked, up, lines, unread, highlights, unread_at, read_markers, owed, raises, archived, drops>>
    BY DEF open_target, network, counts, bounds
<1>3. sent' \in Seq(Request) /\ open \subseteq open' /\ open' \subseteq Conversations
    BY <1>1, <1>2, AppendProperties
<1>4. QED
    BY <1>1, <1>2, <1>3, BadgeElse

LEMMA BadgeDropped ==
    ASSUME ReadMarkersAssumption, BadgeInv, Drop
    PROVE  BadgeInv'
<1>1. /\ up' = FALSE /\ lines' = <<>> /\ sent' = <<>> /\ drops' = drops + 1
      /\ UNCHANGED <<said, marked, unread, highlights, unread_at, read_markers, owed, raises, open, archived>>
    BY DEF Drop, counts
<1>2. drops' \in Nat /\ sent' \in Seq(Request) /\ open' \subseteq Conversations
    BY <1>1, EmptySeq DEF BadgeInv, MarksType
<1>3. QED
    BY <1>1, <1>2, BadgeElse

\* In an order of a set every member has its place.
LEMMA Ordered ==
    ASSUME NEW S, IsFiniteSet(S), NEW f \in SetToSeqs(S)
    PROVE  f \in [1..Cardinality(S) -> S] /\ \A c \in S : \E k \in DOMAIN f : f[k] = c
<1> DEFINE D == 1..Cardinality(S)
<1>1. Cardinality(S) \in Nat
    BY FS_CardinalityType
<1>2. f \in [D -> S] /\ \A i, j \in D : i # j => f[i] # f[j]
    BY DEF SetToSeqs
<1>3. f \in Injection(D, S)
    BY <1>2 DEF Injection, IsInjective
<1>4. IsFiniteSet(D) /\ Cardinality(D) = Cardinality(S)
    BY <1>1, FS_Interval
<1>5. f \in Surjection(D, S)
    BY <1>3, <1>4, FS_Injection
<1>6. QED
    BY <1>2, <1>5 DEF Surjection

\* Every channel is joined again and the marker of every query asked for.
LEMMA Connected ==
    ASSUME ReadMarkersAssumption, MarksType, Connect
    PROVE  /\ ~up /\ up' = TRUE /\ sent' \in Seq(Request)
           /\ \A c \in open : \E k \in DOMAIN sent' : sent'[k].what \in {"GET", "JOIN"} /\ sent'[k].to = c
           /\ UNCHANGED <<said, marked, lines, unread, highlights, unread_at, read_markers, owed, raises, open, archived, drops>>
<1> DEFINE since == Max({0} \cup {archived[c] : c \in Conversations})
           S == Channels \cap open
           T == Queries \cap open
<1>1. PICK joins \in SetToSeqs(S), asks \in SetToSeqs(T) :
        sent' = [k \in DOMAIN joins |-> Join(joins[k])] \o [k \in DOMAIN asks |-> Get(asks[k])]
                  \o (IF since = 0 THEN <<>> ELSE <<[what |-> "TARGETS", since |-> since]>>)
    BY DEF Connect
<1> DEFINE rejoins == [k \in DOMAIN joins |-> Join(joins[k])]
           gets == [k \in DOMAIN asks |-> Get(asks[k])]
           missed == IF since = 0 THEN <<>> ELSE <<[what |-> "TARGETS", since |-> since]>>
<1>2. IsFiniteSet(S) /\ IsFiniteSet(T) /\ S \subseteq Conversations /\ T \subseteq Conversations
    BY FS_Subset DEF ReadMarkersAssumption, Conversations
<1>3. /\ joins \in [1..Cardinality(S) -> S] /\ \A c \in S : \E k \in DOMAIN joins : joins[k] = c
      /\ asks \in [1..Cardinality(T) -> T] /\ \A c \in T : \E k \in DOMAIN asks : asks[k] = c
    BY <1>2, Ordered
<1>4. rejoins \in Seq(Request) /\ \A c \in S : \E k \in DOMAIN rejoins : rejoins[k] = Join(c)
    <2>1. rejoins \in [1..Cardinality(S) -> Request]
        BY <1>2, <1>3 DEF Join, Request
    <2>2. Cardinality(S) \in Nat
        BY <1>2, FS_CardinalityType
    <2>3. rejoins \in Seq(Request)
        BY <2>1, <2>2, IsSeqOf
    <2>4. QED
        BY <1>3, <2>3
<1>5. gets \in Seq(Request) /\ \A c \in T : \E k \in DOMAIN gets : gets[k] = Get(c)
    <2>1. gets \in [1..Cardinality(T) -> Request]
        BY <1>2, <1>3 DEF Get, Request
    <2>2. Cardinality(T) \in Nat
        BY <1>2, FS_CardinalityType
    <2>3. gets \in Seq(Request)
        BY <2>1, <2>2, IsSeqOf
    <2>4. QED
        BY <1>3, <2>3
<1>6. missed \in Seq(Request)
    <2> DEFINE held == {0} \cup {archived[c] : c \in Conversations}
    <2>1. Len(said) \in Nat /\ held \in SUBSET (0..Len(said)) /\ held # {}
        BY SaidIs
    <2>2. since \in held
        BY <2>1, MaxNat
    <2> HIDE DEF since, held
    <2>3. since \in Nat
        BY <2>1, <2>2
    <2>4. [what |-> "TARGETS", since |-> since] \in Request
        BY <2>3 DEF Request
    <2>5. QED
        BY <2>4
<1> HIDE DEF rejoins, gets, missed, since, S, T
<1>7. sent' = rejoins \o gets \o missed
    BY <1>1 DEF rejoins, gets, missed
<1>8. /\ rejoins \o gets \in Seq(Request) /\ sent' \in Seq(Request)
      /\ \A k \in DOMAIN rejoins : \E l \in DOMAIN sent' : sent'[l] = rejoins[k]
      /\ \A k \in DOMAIN gets : \E l \in DOMAIN sent' : sent'[l] = gets[k]
    <2>1. /\ rejoins \o gets \in Seq(Request)
          /\ \A k \in DOMAIN rejoins : k \in DOMAIN (rejoins \o gets) /\ (rejoins \o gets)[k] = rejoins[k]
          /\ \A k \in DOMAIN gets : \E l \in DOMAIN (rejoins \o gets) : (rejoins \o gets)[l] = gets[k]
        BY <1>4, <1>5, PutBehind
    <2> DEFINE both == rejoins \o gets
    <2> HIDE DEF both
    <2>2. /\ both \o missed \in Seq(Request)
          /\ \A k \in DOMAIN both : k \in DOMAIN (both \o missed) /\ (both \o missed)[k] = both[k]
        BY <1>6, <2>1, PutBehind DEF both
    <2>3. QED
        BY <1>7, <2>1, <2>2 DEF both
<1>9. ASSUME NEW c \in open
      PROVE  \E k \in DOMAIN sent' : sent'[k].what \in {"GET", "JOIN"} /\ sent'[k].to = c
    <2>1. c \in S \/ c \in T
        BY DEF MarksType, Conversations, S, T
    <2>2. Join(c).what = "JOIN" /\ Join(c).to = c /\ Get(c).what = "GET" /\ Get(c).to = c
        BY DEF Join, Get
    <2>3. QED
        BY <1>4, <1>5, <1>8, <2>1, <2>2
<1>10. /\ ~up /\ up' = TRUE
       /\ UNCHANGED <<said, marked, lines, unread, highlights, unread_at, read_markers, owed, raises, open, archived, drops>>
    BY DEF Connect, network, client, counts, bounds
<1>11. QED
    BY <1>8, <1>9, <1>10

-----------------------------------------------------------------------------
(* The invariant, and what it gives.                                       *)

LEMMA BadgeInit == ASSUME ReadMarkersAssumption, Init PROVE BadgeInv
<1>1. said \in Seq([to : Conversations, loud : BOOLEAN]) /\ lines \in Seq(Line) /\ sent \in Seq(Request)
    BY EmptySeq DEF Init
<1>2. MarksType
    <2>1. Len(said) = 0 /\ DOMAIN lines = {}
        BY EmptySeq DEF Init
    <2>2. QED
        BY <1>1, <2>1 DEF Init, MarksType, Each, Conversations
<1>3. Fresh(lines, archived)
    BY EmptySeq DEF Init, Fresh
<1>4. ASSUME NEW c \in Conversations PROVE Owes(c)
    <2>1. /\ owed[c] = {} /\ unread_at[c] = {} /\ unread[c] = 0 /\ highlights[c] = 0 /\ raises[c] = 0
          /\ read_markers[c] = 0
        BY DEF Init, Each
    <2>2. Past(owed[c], c) = {} /\ Loud(unread_at[c], c) = {} /\ Cardinality({}) = 0
        BY <2>1, FS_EmptySet DEF Past, Loud
    <2>3. QED
        BY <2>1, <2>2 DEF Owes
<1>5. QED
    BY <1>2, <1>3, <1>4 DEF BadgeInv

LEMMA BadgeStep == ASSUME ReadMarkersAssumption, BadgeInv, [Next]_vars PROVE BadgeInv'
<1>1. CASE UNCHANGED vars
    <2>1. UNCHANGED <<said, marked, up, lines, sent, unread, highlights, unread_at, read_markers, owed, raises, open, archived, drops>>
        BY <1>1 DEF vars, network, client, counts, bounds
    <2>2. MarksType'
        BY <2>1 DEF BadgeInv, MarksType
    <2>3. ASSUME NEW d \in Conversations PROVE Owes(d)'
        BY <2>1, CountsAre, OwesKept DEF BadgeInv
    <2>4. QED
        BY <2>1, <2>2, <2>3 DEF BadgeInv
<1>2. CASE Connect
    <2>1. MarksType /\ up' = TRUE /\ sent' \in Seq(Request) /\ open \subseteq Conversations /\ drops \in Nat
          /\ UNCHANGED <<said, marked, lines, unread, highlights, unread_at, read_markers, owed, raises, open, archived, drops>>
        BY <1>2, Connected DEF BadgeInv, MarksType
    <2>2. QED
        BY <2>1, BadgeElse
<1>3. QED
    BY <1>1, <1>2, BadgeHeard, BadgeSaid, BadgeNetwork, BadgeRead, BadgeRaised, BadgeClosed, BadgeOpened, BadgeDropped
    DEF Next

LEMMA BadgeInductive == ASSUME ReadMarkersAssumption PROVE Spec => []BadgeInv
<1>1. Init => BadgeInv
    BY BadgeInit
<1>2. BadgeInv /\ [Next]_vars => BadgeInv'
    BY BadgeStep
<1>3. QED
    BY <1>1, <1>2, PTL DEF Spec

\* The badge of every conversation is what came in and no client of the reader has read,
\* and as loud as what of it names the reader and was raised, for any conversations and
\* however markers, pages, lines, closes and lost connections cross (message.rs,
\* count_towards_unread; session.rs, handle_markread, mark_read, raise).
THEOREM BadgeCorrect == ASSUME ReadMarkersAssumption PROVE Spec => []BadgeIsUnread
<1>1. BadgeInv => BadgeIsUnread
    <2>1. SUFFICES ASSUME BadgeInv, NEW c \in open
                   PROVE  /\ unread[c] = Cardinality(Past(owed[c], c))
                          /\ highlights[c] <= Cardinality(Loud(Past(owed[c], c), c)) + raises[c]
                          /\ raises[c] = 0 => highlights[c] = Cardinality(Loud(Past(owed[c], c), c))
        BY DEF BadgeIsUnread
    <2>2. Owes(c)
        BY <2>1 DEF BadgeInv, MarksType
    <2>3. QED
        BY <2>2 DEF Owes
<1>2. QED
    BY <1>1, BadgeInductive, PTL

-----------------------------------------------------------------------------
(* The marker.                                                             *)

Asked(reqs, c) == \E k \in DOMAIN reqs : reqs[k].what \in {"GET", "MARKREAD", "JOIN"} /\ reqs[k].to = c
Telling(reqs, c, at) == \E k \in DOMAIN reqs : reqs[k].what = "MARKREAD" /\ reqs[k].to = c /\ reqs[k].at >= at
\* What the network's marker is ahead by is on its way, and what the session's is.
Caught(c) == read_markers[c] >= marked[c] \/ Told(lines, c, marked[c]) \/ Asked(sent, c)
Passed(c) == read_markers[c] <= marked[c] \/ Telling(sent, c, read_markers[c])
MarkerInv ==
    /\ Followed(lines, marked)
    /\ up => \A c \in open : Caught(c)
    /\ drops = 0 => up /\ \A c \in open : Passed(c)

LEMMA FollowedTail ==
    ASSUME NEW ls \in Seq(Line), ls # <<>>, NEW mk, Followed(ls, mk)
    PROVE  /\ Followed(Tail(ls), mk)
           /\ Head(ls).what = "MARKREAD" => Head(ls).at <= mk[Head(ls).to]
           /\ Head(ls).what = "JOIN" => Told(Tail(ls), Head(ls).to, mk[Head(ls).to])
           /\ \A c : \A at : Told(ls, c, at) => Told(Tail(ls), c, at) \/ (Head(ls).what = "MARKREAD" /\ Head(ls).to = c /\ Head(ls).at >= at)
<1> DEFINE tl == Tail(ls)
<1>1. /\ Head(ls) = ls[1] /\ 1 \in DOMAIN ls /\ tl \in Seq(Line)
      /\ \A k \in DOMAIN tl : k \in Nat /\ k + 1 \in DOMAIN ls /\ tl[k] = ls[k + 1]
      /\ \A k \in DOMAIN ls : k = 1 \/ (k - 1 \in DOMAIN tl /\ tl[k - 1] = ls[k])
      /\ \A k \in DOMAIN ls : k \in Nat
    BY HeadOff
<1> HIDE DEF tl
<1>2. Followed(tl, mk)
    <2>1. \A k \in DOMAIN tl : tl[k].what = "MARKREAD" => tl[k].at <= mk[tl[k].to]
        BY <1>1 DEF Followed
    <2>2. ASSUME NEW j \in DOMAIN tl, tl[j].what = "JOIN"
          PROVE  \E k \in DOMAIN tl : j < k /\ tl[k].what = "MARKREAD" /\ tl[k].to = tl[j].to /\ tl[k].at >= mk[tl[j].to]
        <3>1. PICK k \in DOMAIN ls : /\ j + 1 < k /\ ls[k].what = "MARKREAD" /\ ls[k].to = ls[j + 1].to
                                     /\ ls[k].at >= mk[ls[j + 1].to]
            BY <1>1, <2>2 DEF Followed
        <3>2. j \in Nat /\ k \in Nat /\ k # 1 /\ j < k - 1
            <4>1. j \in Nat /\ k \in Nat
                BY <1>1
            <4>2. QED
                BY <3>1, <4>1
        <3>3. k - 1 \in DOMAIN tl /\ tl[k - 1] = ls[k]
            BY <1>1, <3>2
        <3>4. QED
            BY <1>1, <3>1, <3>2, <3>3
    <2>3. QED
        BY <2>1, <2>2 DEF Followed
<1>3. Head(ls).what = "JOIN" => Told(tl, Head(ls).to, mk[Head(ls).to])
    <2>1. SUFFICES ASSUME ls[1].what = "JOIN" PROVE Told(tl, ls[1].to, mk[ls[1].to])
        BY <1>1
    <2>2. PICK k \in DOMAIN ls : 1 < k /\ ls[k].what = "MARKREAD" /\ ls[k].to = ls[1].to /\ ls[k].at >= mk[ls[1].to]
        BY <1>1, <2>1 DEF Followed
    <2>3. k # 1
        BY <1>1, <2>2
    <2>4. QED
        BY ZenonT(30), <1>1, <2>2, <2>3 DEF Told
<1>4. Head(ls).what = "MARKREAD" => Head(ls).at <= mk[Head(ls).to]
    BY <1>1 DEF Followed
<1>5. ASSUME NEW c, NEW at, Told(ls, c, at)
      PROVE  Told(tl, c, at) \/ (Head(ls).what = "MARKREAD" /\ Head(ls).to = c /\ Head(ls).at >= at)
    <2>1. PICK k \in DOMAIN ls : ls[k].what = "MARKREAD" /\ ls[k].to = c /\ ls[k].at >= at
        BY <1>5 DEF Told
    <2>2. QED
        BY <1>1, <2>1 DEF Told
<1>6. QED
    BY <1>2, <1>3, <1>4, <1>5 DEF tl

LEMMA AskedTail ==
    ASSUME NEW reqs \in Seq(Request), reqs # <<>>
    PROVE  \A c : /\ Asked(reqs, c) => Asked(Tail(reqs), c) \/ (Head(reqs).what \in {"GET", "MARKREAD", "JOIN"} /\ Head(reqs).to = c)
                  /\ \A at : Telling(reqs, c, at) =>
                        Telling(Tail(reqs), c, at) \/ (Head(reqs).what = "MARKREAD" /\ Head(reqs).to = c /\ Head(reqs).at >= at)
<1>1. Head(reqs) = reqs[1] /\ \A k \in DOMAIN reqs : k = 1 \/ (k - 1 \in DOMAIN Tail(reqs) /\ Tail(reqs)[k - 1] = reqs[k])
    BY HeadOff
<1>2. QED
    BY <1>1 DEF Asked, Telling

\* More lines, which tell where the markers went.
LEMMA MarkersTold ==
    ASSUME MarksType, NEW more, NEW mk, Tells(more, mk), Followed(lines, marked)
    PROVE  /\ Followed(lines \o more, mk)
           /\ \A c \in Conversations : /\ Told(lines, c, marked[c]) => Told(lines \o more, c, mk[c])
                                       /\ Told(more, c, mk[c]) => Told(lines \o more, c, mk[c])
                                       /\ mk[c] = marked[c] \/ (mk[c] > marked[c] /\ Told(lines \o more, c, mk[c]))
                                       /\ mk[c] \in Nat /\ marked[c] \in Nat
<1> DEFINE all == lines \o more
<1>1. lines \in Seq(Line) /\ more \in Seq(Line)
    BY DEF MarksType, Tells
<1>2. /\ all \in Seq(Line) /\ Len(lines) \in Nat
      /\ \A k \in DOMAIN lines : k \in DOMAIN all /\ k \in Nat /\ k <= Len(lines) /\ all[k] = lines[k]
      /\ \A k \in DOMAIN more : k \in Nat /\ Len(lines) + k \in DOMAIN all /\ all[Len(lines) + k] = more[k] /\ k > 0
      /\ \A k \in DOMAIN all : k \in DOMAIN lines \/ \E l \in DOMAIN more : k = Len(lines) + l
    BY SMTT(20), <1>1, PutBehind
<1> HIDE DEF all
<1>3. ASSUME NEW c \in Conversations
      PROVE  /\ mk[c] \in Nat /\ marked[c] \in Nat
             /\ mk[c] = marked[c] \/ (mk[c] > marked[c] /\ Told(more, c, mk[c]))
    BY DEF Tells, MarksType
<1>4. ASSUME NEW c, NEW at PROVE /\ Told(lines, c, at) => Told(all, c, at)
                                 /\ Told(more, c, at) => Told(all, c, at)
    BY <1>2 DEF Told
<1>5. ASSUME NEW k \in DOMAIN all, all[k].what = "MARKREAD" PROVE all[k].at <= mk[all[k].to]
    <2>1. CASE k \in DOMAIN lines
        <3>1. all[k] = lines[k] /\ lines[k] \in Line
            BY <1>1, <1>2, <2>1, ElementOfSeq, LenProperties
        <3>2. lines[k].to \in Conversations /\ lines[k].at \in Nat
            BY <1>5, <3>1 DEF Line
        <3>3. lines[k].at <= marked[lines[k].to] /\ marked[lines[k].to] <= mk[lines[k].to]
            BY <1>3, <1>5, <2>1, <3>1, <3>2 DEF Followed
        <3>4. QED
            BY <1>3, <3>1, <3>2, <3>3
    <2>2. CASE \E l \in DOMAIN more : k = Len(lines) + l
        BY <1>2, <1>5, <2>2 DEF Tells, Followed
    <2>3. QED
        BY <1>2, <2>1, <2>2
<1>6. ASSUME NEW j \in DOMAIN all, all[j].what = "JOIN"
      PROVE  \E k \in DOMAIN all : j < k /\ all[k].what = "MARKREAD" /\ all[k].to = all[j].to /\ all[k].at >= mk[all[j].to]
    <2>1. CASE j \in DOMAIN lines
        <3>1. all[j] = lines[j] /\ lines[j] \in Line /\ j \in Nat /\ j <= Len(lines)
            BY <1>1, <1>2, <2>1, ElementOfSeq, LenProperties
        <3> DEFINE c == lines[j].to
        <3>2. c \in Conversations
            BY <3>1 DEF Line
        <3>3. CASE mk[c] = marked[c]
            <4>1. PICK k \in DOMAIN lines : j < k /\ lines[k].what = "MARKREAD" /\ lines[k].to = c /\ lines[k].at >= marked[c]
                BY <1>6, <2>1, <3>1 DEF Followed
            <4>2. QED
                BY <1>2, <3>1, <3>3, <4>1
        <3>4. CASE Told(more, c, mk[c])
            <4>1. PICK k \in DOMAIN more : more[k].what = "MARKREAD" /\ more[k].to = c /\ more[k].at >= mk[c]
                BY <3>4 DEF Told
            <4>2. Len(lines) + k \in DOMAIN all /\ all[Len(lines) + k] = more[k] /\ j < Len(lines) + k
                BY <1>2, <3>1
            <4>3. QED
                BY <3>1, <4>1, <4>2
        <3>5. QED
            BY <1>3, <3>2, <3>3, <3>4
    <2>2. CASE \E l \in DOMAIN more : j = Len(lines) + l
        <3>1. PICK l \in DOMAIN more : j = Len(lines) + l
            BY <2>2
        <3>2. all[j] = more[l] /\ l \in Nat
            BY <1>2, <3>1
        <3>3. PICK k \in DOMAIN more : l < k /\ more[k].what = "MARKREAD" /\ more[k].to = more[l].to /\ more[k].at >= mk[more[l].to]
            BY <1>6, <3>2 DEF Tells, Followed
        <3>4. Len(lines) + k \in DOMAIN all /\ all[Len(lines) + k] = more[k] /\ k \in Nat
            BY <1>2
        <3>5. j < Len(lines) + k
            BY <1>2, <3>1, <3>2, <3>3, <3>4
        <3>6. QED
            BY <3>2, <3>3, <3>4, <3>5
    <2>3. QED
        BY <1>2, <2>1, <2>2
<1>7. Followed(all, mk)
    BY <1>5, <1>6 DEF Followed
<1>8. QED
    BY <1>3, <1>4, <1>7 DEF all

BothInv == BadgeInv /\ MarkerInv

LEMMA RequestPut ==
    ASSUME NEW reqs \in Seq(Request), NEW more \in Seq(Request)
    PROVE  \A c : /\ Asked(reqs, c) => Asked(reqs \o more, c)
                  /\ Asked(more, c) => Asked(reqs \o more, c)
                  /\ \A at : /\ Telling(reqs, c, at) => Telling(reqs \o more, c, at)
                             /\ Telling(more, c, at) => Telling(reqs \o more, c, at)
<1>1. /\ \A k \in DOMAIN reqs : k \in DOMAIN (reqs \o more) /\ (reqs \o more)[k] = reqs[k]
      /\ \A k \in DOMAIN more : Len(reqs) + k \in DOMAIN (reqs \o more) /\ (reqs \o more)[Len(reqs) + k] = more[k]
    BY SMTT(20), PutBehind
<1> DEFINE all == reqs \o more
<1> HIDE DEF all
<1>2. QED
    BY <1>1 DEF Asked, Telling, all

LEMMA MarkerAnswered ==
    ASSUME ReadMarkersAssumption, BothInv, ServerReads
    PROVE  MarkerInv'
<1> DEFINE req == Head(sent)
<1>1. MarksType /\ Followed(lines, marked)
    BY DEF BothInv, BadgeInv, MarkerInv
<1>2. PICK more \in Seq(Line) :
        /\ lines' = lines \o more /\ Answers(more, marked')
        /\ req.what \in {"GET", "MARKREAD", "JOIN"} => Told(more, req.to, marked'[req.to])
    BY <1>1, Answered
<1>3. /\ up /\ sent # <<>> /\ sent' = Tail(sent) /\ Answer(req)
      /\ UNCHANGED <<up, read_markers, open, drops>>
    BY DEF ServerReads, client, counts, bounds
<1>4. sent \in Seq(Request) /\ req \in Request
    BY <1>1, <1>3, HeadOff DEF MarksType
<1>5. \A c : /\ Asked(sent, c) => Asked(sent', c) \/ (req.what \in {"GET", "MARKREAD", "JOIN"} /\ req.to = c)
             /\ \A at : Telling(sent, c, at) =>
                   Telling(sent', c, at) \/ (req.what = "MARKREAD" /\ req.to = c /\ req.at >= at)
    BY <1>3, <1>4, AskedTail
<1>6. /\ Followed(lines', marked')
      /\ \A c \in Conversations : /\ Told(lines, c, marked[c]) => Told(lines', c, marked'[c])
                                  /\ Told(more, c, marked'[c]) => Told(lines', c, marked'[c])
                                  /\ marked'[c] = marked[c] \/ (marked'[c] > marked[c] /\ Told(lines', c, marked'[c]))
                                  /\ marked'[c] \in Nat /\ marked[c] \in Nat
    <2>1. PICK mk : mk = marked'
        OBVIOUS
    <2>2. Tells(more, mk)
        BY <1>2, <2>1 DEF Answers
    <2>3. QED
        BY <1>1, <1>2, <2>1, <2>2, MarkersTold
<1>7. ASSUME NEW c \in open, Caught(c), c \in Conversations PROVE Caught(c)'
    <2>1. read_markers[c] \in Nat /\ read_markers'[c] = read_markers[c]
        BY <1>1, <1>3, <1>7, CountsAre
    <2>2. CASE marked'[c] # marked[c]
        BY <1>6, <1>7, <2>2 DEF Caught
    <2>3. CASE marked'[c] = marked[c] /\ read_markers[c] >= marked[c]
        BY <2>1, <2>3 DEF Caught
    <2>4. CASE Told(lines, c, marked[c])
        BY <1>6, <1>7, <2>4 DEF Caught
    <2>5. CASE Asked(sent, c)
        BY <1>2, <1>5, <1>6, <1>7, <2>5 DEF Caught
    <2>6. QED
        BY <1>7, <2>2, <2>3, <2>4, <2>5 DEF Caught
<1>8. ASSUME NEW c \in open, Passed(c), c \in Conversations PROVE Passed(c)'
    <2>1. read_markers[c] \in Nat /\ read_markers'[c] = read_markers[c]
        BY <1>1, <1>3, <1>8, CountsAre
    <2>2. CASE read_markers[c] <= marked[c]
        BY <1>6, <1>8, <2>1, <2>2 DEF Passed
    <2>3. CASE Telling(sent', c, read_markers[c])
        BY <2>1, <2>3 DEF Passed
    <2>4. CASE req.what = "MARKREAD" /\ req.to = c /\ req.at >= read_markers[c]
        <3>1. req.at \in Nat /\ marked[c] \in Nat
            BY <1>4, <1>6, <1>8, <2>4 DEF Request
        <3>2. marked' = [marked EXCEPT ![c] = Max({req.at, marked[c]})]
            BY <1>3, <2>4 DEF Answer
        <3>3. Max({req.at, marked[c]}) >= req.at /\ Max({req.at, marked[c]}) \in Nat
            BY <3>1, MaxOfTwo
        <3>4. marked'[c] = Max({req.at, marked[c]})
            BY <1>1, <1>8, <3>2 DEF MarksType
        <3>5. read_markers'[c] <= marked'[c]
            BY <2>1, <2>4, <3>1, <3>3, <3>4
        <3>6. QED
            BY <3>5 DEF Passed
    <2>5. QED
        BY <1>5, <1>8, <2>2, <2>3, <2>4 DEF Passed
<1>9. open' = open /\ open \subseteq Conversations
    BY <1>1, <1>3 DEF MarksType
<1>10. QED
    BY <1>3, <1>6, <1>7, <1>8, <1>9 DEF BothInv, MarkerInv

LEMMA MarkerOther ==
    ASSUME ReadMarkersAssumption, BothInv, NEW c \in Conversations, NEW m \in Of(c), OtherReads(c, m)
    PROVE  MarkerInv'
<1>1. MarksType /\ MarkerInv
    BY DEF BothInv, BadgeInv
<1>2. /\ Answers(<<Set(c, m)>>, marked') /\ <<Set(c, m)>> \in Seq(Line)
      /\ marked' = [marked EXCEPT ![c] = m] /\ m \in Nat /\ m > marked[c]
      /\ IF up THEN lines' = lines \o <<Set(c, m)>> ELSE lines' = lines
      /\ UNCHANGED <<up, read_markers, open, drops, sent>>
    BY <1>1, OtherAnswers
<1>3. \A d \in Conversations : read_markers[d] \in Nat /\ marked[d] \in Nat /\ marked'[d] \in Nat /\ marked'[d] >= marked[d]
    BY SMTT(20), <1>1, <1>2, CountsAre DEF MarksType
<1>4. ASSUME drops = 0, NEW d \in open, d \in Conversations, Passed(d) PROVE Passed(d)'
    BY <1>2, <1>3, <1>4 DEF Passed
<1>5. open' = open /\ open \subseteq Conversations
    BY <1>1, <1>2 DEF MarksType
<1>6. CASE up
    <2>1. PICK mk : mk = marked'
        OBVIOUS
    <2>2. Tells(<<Set(c, m)>>, mk) /\ Followed(lines, marked) /\ lines' = lines \o <<Set(c, m)>>
        BY <1>1, <1>2, <1>6, <2>1 DEF Answers, MarkerInv
    <2>3. /\ Followed(lines', marked')
          /\ \A d \in Conversations : /\ Told(lines, d, marked[d]) => Told(lines', d, marked'[d])
                                      /\ marked'[d] = marked[d] \/ (marked'[d] > marked[d] /\ Told(lines', d, marked'[d]))
        BY <1>1, <2>1, <2>2, MarkersTold
    <2>4. ASSUME NEW d \in open, d \in Conversations, Caught(d) PROVE Caught(d)'
        BY <1>2, <1>3, <2>3, <2>4 DEF Caught
    <2>5. QED
        BY <1>1, <1>2, <1>4, <1>5, <1>6, <2>3, <2>4 DEF MarkerInv
<1>7. CASE ~up
    <2>1. lines = <<>> /\ lines' = <<>>
        BY <1>1, <1>2, <1>7 DEF MarksType
    <2>2. Followed(lines', marked')
        BY <2>1, EmptySeq DEF Followed
    <2>3. QED
        BY <1>1, <1>2, <1>7, <2>2 DEF MarkerInv
<1>8. QED
    BY <1>6, <1>7

\* Where the markers are as they were, what is asked is added to, and what is newly
\* open has no marker yet and is asked for.
LEMMA MarkerElse ==
    ASSUME BothInv, marked' = marked, drops' = drops, up, up' = up,
           NEW more \in Seq(Request), sent' = sent \o more,
           lines' = lines \/ (lines # <<>> /\ lines' = Tail(lines) /\ Head(lines).what # "MARKREAD"),
           \A c \in open' : \/ c \in open /\ read_markers'[c] = read_markers[c]
                            \/ c \in open /\ read_markers'[c] \in Nat /\ read_markers'[c] >= read_markers[c]
                               /\ Telling(more, c, read_markers'[c])
                            \/ /\ c \in Conversations /\ c \notin open /\ read_markers'[c] = read_markers[c]
                               /\ Asked(more, c) \/ (lines # <<>> /\ lines' = Tail(lines) /\ Head(lines).what = "JOIN" /\ Head(lines).to = c)
    PROVE  MarkerInv'
<1>1. MarksType /\ MarkerInv /\ \A c \in Conversations : Owes(c)
    BY DEF BothInv, BadgeInv
<1>2. lines \in Seq(Line) /\ sent \in Seq(Request) /\ open \subseteq Conversations
    BY <1>1 DEF MarksType
<1>3. /\ Followed(lines', marked)
      /\ \A c : \A at : Told(lines, c, at) => Told(lines', c, at)
      /\ lines' = lines \/ (Head(lines).what = "JOIN" => Told(lines', Head(lines).to, marked[Head(lines).to]))
    BY <1>1, <1>2, FollowedTail DEF MarkerInv
<1>4. \A c : /\ Asked(sent, c) => Asked(sent', c)
             /\ Asked(more, c) => Asked(sent', c)
             /\ \A at : /\ Telling(sent, c, at) => Telling(sent', c, at)
                        /\ Telling(more, c, at) => Telling(sent', c, at)
    BY <1>2, RequestPut
<1>5. \A c \in Conversations : read_markers[c] \in Nat /\ marked[c] \in Nat
    BY <1>1, CountsAre
<1>6. ASSUME NEW c \in open' PROVE Caught(c)' /\ (drops = 0 => Passed(c)')
    <2>1. CASE c \in open /\ read_markers'[c] = read_markers[c]
        <3>1. Caught(c) /\ (drops = 0 => Passed(c))
            BY <1>1, <2>1 DEF MarkerInv
        <3>2. QED
            BY <1>3, <1>4, <2>1, <3>1 DEF Caught, Passed
    <2>2. CASE /\ c \in open /\ read_markers'[c] \in Nat /\ read_markers'[c] >= read_markers[c]
               /\ Telling(more, c, read_markers'[c])
        <3>1. Caught(c) /\ c \in Conversations
            BY <1>1, <1>2, <2>2 DEF MarkerInv
        <3>2. Caught(c)'
            BY <1>3, <1>4, <1>5, <2>2, <3>1 DEF Caught
        <3>3. Passed(c)'
            BY <1>4, <2>2 DEF Passed
        <3>4. QED
            BY <3>2, <3>3
    <2>3. CASE /\ c \in Conversations /\ c \notin open /\ read_markers'[c] = read_markers[c]
               /\ Asked(more, c) \/ (lines # <<>> /\ lines' = Tail(lines) /\ Head(lines).what = "JOIN" /\ Head(lines).to = c)
        <3>1. read_markers'[c] = 0
            BY <1>1, <2>3 DEF Owes
        <3>2. Passed(c)'
            BY <1>5, <2>3, <3>1 DEF Passed
        <3>3. Caught(c)'
            <4>1. CASE Asked(more, c)
                BY <1>4, <4>1 DEF Caught
            <4>2. CASE lines' = Tail(lines) /\ Head(lines).what = "JOIN" /\ Head(lines).to = c /\ lines' # lines
                BY <1>3, <4>2 DEF Caught
            <4>3. lines # <<>> => Tail(lines) # lines
                BY <1>2, HeadTailProperties, LenProperties, EmptySeq
            <4>4. QED
                BY <2>3, <4>1, <4>2, <4>3
        <3>4. QED
            BY <3>2, <3>3
    <2>4. QED
        BY <2>1, <2>2, <2>3
<1>7. QED
    BY <1>1, <1>3, <1>6 DEF MarkerInv

LEMMA MarkerHeard ==
    ASSUME ReadMarkersAssumption, BothInv, Hear, Head(lines).what # "MARKREAD"
    PROVE  MarkerInv'
<1>1. MarksType /\ \A d \in Conversations : Owes(d)
    BY DEF BothInv, BadgeInv
<1>2. PICK line : line = Head(lines)
    OBVIOUS
<1> DEFINE c == line.to
<1>3. /\ up /\ lines # <<>> /\ lines' = Tail(lines) /\ UNCHANGED <<said, marked, up, drops>>
      /\ line.what = "PRIVMSG" => append(line)
      /\ line.what = "BATCH" => close_batch(line)
      /\ line.what = "JOIN" => handle_join(c)
      /\ line.what = "TARGETS" => handle_chathistory(c, line.at)
    BY <1>2 DEF Hear, network, bounds
<1>4. line \in Line /\ c \in Conversations
    <2>1. line \in Line
        BY <1>1, <1>2, <1>3, LineOff
    <2>2. QED
        BY <2>1 DEF Line
<1>5. /\ sent \in Seq(Request) /\ <<>> \in Seq(Request) /\ sent \o <<>> = sent
      /\ backfill(c) \in Request /\ Get(c) \in Request
    BY <1>1, <1>4, CountsAre, ConcatEmptySeq, EmptySeq DEF MarksType, backfill, Get, Request
<1>6. \A more \in Seq(Request) : Asked(<<Get(c)>> \o more, c)
    <2>1. ASSUME NEW more \in Seq(Request) PROVE Asked(<<Get(c)>> \o more, c)
        <3>1. <<Get(c)>> \in Seq(Request) /\ DOMAIN <<Get(c)>> = {1} /\ <<Get(c)>>[1] = Get(c)
            BY <1>5
        <3>2. Asked(<<Get(c)>>, c)
            BY <3>1 DEF Asked, Get
        <3>3. QED
            BY <3>1, <3>2, RequestPut
    <2>2. QED
        BY <2>1
<1>7. read_markers' = read_markers /\ \E more \in Seq(Request) :
        /\ sent' = sent \o more
        /\ open' = open \/ (open' = open \cup {c} /\ (c \in open \/ Asked(more, c) \/ line.what = "JOIN"))
    <2>1. CASE line.what = "PRIVMSG"
        <3>1. CASE c \in Queries \ open
            <4>1. open' = open \cup {c} /\ sent' = Append(sent, Get(c)) /\ read_markers' = read_markers
                BY <1>3, <2>1, <3>1 DEF append
            <4>2. sent' = sent \o <<Get(c)>> /\ <<Get(c)>> \in Seq(Request) /\ <<Get(c)>> \o <<>> = <<Get(c)>>
                BY <1>5, <4>1, PutOne, ConcatEmptySeq
            <4>3. QED
                BY <1>5, <1>6, <4>1, <4>2
        <3>2. CASE c \notin Queries \ open
            <4>1. open' = open /\ sent' = sent /\ count_towards_unread(c, {line.at})
                BY <1>3, <2>1, <3>2 DEF append
            <4>2. read_markers' = read_markers
                BY <4>1 DEF count_towards_unread, counts
            <4>3. QED
                BY <1>5, <4>1, <4>2
        <3>3. QED
            BY <3>1, <3>2
    <2>2. CASE line.what = "BATCH"
        <3>1. open' = open /\ sent' = sent /\ read_markers' = read_markers
            BY <1>3, <2>2 DEF close_batch, count_towards_unread, counts
        <3>2. QED
            BY <1>5, <3>1
    <2>3. CASE line.what = "JOIN"
        <3>1. open' = open \cup {c} /\ sent' = Append(sent, backfill(c)) /\ read_markers' = read_markers
            BY <1>3, <2>3 DEF handle_join, counts
        <3>2. sent' = sent \o <<backfill(c)>> /\ <<backfill(c)>> \in Seq(Request)
            BY <1>5, <3>1, PutOne
        <3>3. QED
            BY <2>3, <3>1, <3>2
    <2>4. CASE line.what = "TARGETS"
        <3>1. CASE archived[c] >= line.at
            <4>1. open' = open /\ sent' = sent /\ read_markers' = read_markers
                BY <1>3, <2>4, <3>1 DEF handle_chathistory, client, counts
            <4>2. QED
                BY <1>5, <4>1
        <3>2. CASE ~(archived[c] >= line.at)
            <4>1. /\ read_markers' = read_markers /\ open' = open \cup {c}
                  /\ sent' = sent \o (IF c \in open THEN <<>> ELSE <<Get(c)>>) \o <<backfill(c)>>
                BY <1>3, <2>4, <3>2 DEF handle_chathistory, counts
            <4>2. <<Get(c)>> \in Seq(Request) /\ <<backfill(c)>> \in Seq(Request)
                BY <1>5
            <4>3. CASE c \in open
                <5>1. sent' = sent \o <<backfill(c)>>
                    BY <1>5, <4>1, <4>3
                <5>2. QED
                    BY <4>1, <4>2, <4>3, <5>1
            <4>4. CASE c \notin open
                <5>1. sent' = (sent \o <<Get(c)>>) \o <<backfill(c)>>
                    BY <4>1, <4>4
                <5>2. sent' = sent \o (<<Get(c)>> \o <<backfill(c)>>) /\ <<Get(c)>> \o <<backfill(c)>> \in Seq(Request)
                    BY <1>5, <4>2, <5>1, ConcatAssociative, ConcatProperties
                <5>3. QED
                    BY <1>6, <4>1, <4>2, <5>2
            <4>5. QED
                BY <4>3, <4>4
        <3>3. QED
            BY <3>1, <3>2
    <2>5. QED
        BY <1>2, <1>4, <2>1, <2>2, <2>3, <2>4 DEF Line
<1>8. PICK more \in Seq(Request) :
        /\ sent' = sent \o more
        /\ open' = open \/ (open' = open \cup {c} /\ (c \in open \/ Asked(more, c) \/ line.what = "JOIN"))
    BY <1>7
<1>9. QED
    BY <1>2, <1>3, <1>4, <1>7, <1>8, MarkerElse

\* What another client read is read here.
LEMMA MarkerSet ==
    ASSUME ReadMarkersAssumption, BothInv, Hear, Head(lines).what = "MARKREAD"
    PROVE  MarkerInv'
<1>1. MarksType /\ MarkerInv
    BY DEF BothInv, BadgeInv
<1>2. PICK line : line = Head(lines)
    OBVIOUS
<1> DEFINE c == line.to
<1>3. /\ up /\ lines # <<>> /\ lines' = Tail(lines) /\ handle_markread(line) /\ sent' = sent
      /\ UNCHANGED <<said, marked, up, drops>>
    BY <1>2 DEF Hear, network, bounds
<1>4. line \in Line /\ line.at \in Nat /\ c \in Conversations
    <2>1. line \in Line
        BY <1>1, <1>2, <1>3, LineOff
    <2>2. QED
        BY <1>2, <2>1 DEF Line
<1>5. lines \in Seq(Line) /\ open \subseteq Conversations /\ read_markers \in [Conversations -> Nat]
    BY <1>1 DEF MarksType
<1>6. /\ Followed(lines', marked) /\ line.at <= marked[c]
      /\ \A d : \A at : Told(lines, d, at) => Told(lines', d, at) \/ (c = d /\ line.at >= at)
    BY <1>1, <1>2, <1>3, <1>5, FollowedTail DEF MarkerInv
<1>7. \A d \in Conversations : read_markers[d] \in Nat /\ marked[d] \in Nat
    BY <1>1, CountsAre
<1>8. /\ open' = open
      /\ \/ read_markers' = read_markers /\ (c \notin open \/ line.at <= read_markers[c])
         \/ read_markers' = [read_markers EXCEPT ![c] = line.at] /\ line.at > read_markers[c]
    <2>1. line.at <= read_markers[c] \/ line.at > read_markers[c]
        BY <1>4, <1>7
    <2>2. QED
        BY <1>3, <2>1 DEF handle_markread, client, counts
<1>9. ASSUME NEW d \in open PROVE Caught(d)' /\ (drops = 0 => Passed(d)')
    <2>1. Caught(d) /\ (drops = 0 => Passed(d)) /\ d \in Conversations
        BY <1>1, <1>3, <1>5 DEF MarkerInv
    <2>2. read_markers'[d] \in Nat /\ read_markers'[d] >= read_markers[d] /\ (d = c => read_markers'[d] >= line.at)
          /\ (read_markers'[d] = read_markers[d] \/ (d = c /\ read_markers'[d] = line.at))
        BY <1>4, <1>5, <1>7, <1>8, <2>1
    <2>3. Caught(d)'
        BY <1>3, <1>4, <1>6, <1>7, <2>1, <2>2 DEF Caught
    <2>4. drops = 0 => Passed(d)'
        BY <1>3, <1>6, <2>1, <2>2 DEF Passed
    <2>5. QED
        BY <2>3, <2>4
<1>10. QED
    BY <1>1, <1>3, <1>6, <1>8, <1>9 DEF MarkerInv

LEMMA MarkerRead ==
    ASSUME ReadMarkersAssumption, BothInv, NEW c \in Conversations, mark_read(c)
    PROVE  MarkerInv'
<1>1. MarksType /\ MarkerInv
    BY DEF BothInv, BadgeInv
<1>2. /\ UNCHANGED <<marked, up, lines, open, drops>> /\ c \in open
      /\ \/ read_markers' = read_markers /\ sent' = sent
         \/ /\ up /\ read_markers[c] < archived[c]
            /\ read_markers' = [read_markers EXCEPT ![c] = archived[c]]
            /\ sent' = Append(sent, Set(c, archived[c]))
    BY DEF mark_read, network, bounds
<1>3. read_markers \in [Conversations -> Nat] /\ archived[c] \in Nat /\ sent \in Seq(Request)
    BY <1>1, CountsAre DEF MarksType
<1>4. CASE read_markers' = read_markers /\ sent' = sent
    BY <1>1, <1>2, <1>4 DEF MarkerInv, Caught, Passed
<1>5. CASE /\ up /\ read_markers[c] < archived[c]
           /\ read_markers' = [read_markers EXCEPT ![c] = archived[c]]
           /\ sent' = Append(sent, Set(c, archived[c]))
    <2>1. Set(c, archived[c]) \in Request
        BY <1>3 DEF Set, Request
    <2>2. PICK more : more = <<Set(c, archived[c])>>
        OBVIOUS
    <2>3. more \in Seq(Request) /\ sent' = sent \o more /\ Telling(more, c, archived[c])
        <3>1. sent' = sent \o more /\ more \in Seq(Request) /\ DOMAIN more = {1} /\ more[1] = Set(c, archived[c])
            BY <1>3, <1>5, <2>1, <2>2, PutOne
        <3>2. QED
            BY <1>3, <3>1 DEF Telling, Set
    <2>4. \A d \in open' : \/ d \in open /\ read_markers'[d] = read_markers[d]
                           \/ d \in open /\ read_markers'[d] \in Nat /\ read_markers'[d] >= read_markers[d]
                              /\ Telling(more, d, read_markers'[d])
        <3>1. /\ read_markers'[c] = archived[c] /\ archived[c] >= read_markers[c]
              /\ \A d \in Conversations : d = c \/ read_markers'[d] = read_markers[d]
            BY <1>3, <1>5
        <3>2. open' = open /\ open \subseteq Conversations
            BY <1>1, <1>2 DEF MarksType
        <3>3. QED
            BY <1>3, <2>3, <3>1, <3>2
    <2>5. QED
        BY <1>2, <1>5, <2>3, <2>4, MarkerElse
<1>6. QED
    BY <1>2, <1>4, <1>5

LEMMA MarkerClosed ==
    ASSUME ReadMarkersAssumption, BothInv, NEW c \in Conversations, cmd_close(c)
    PROVE  MarkerInv'
<1>1. MarksType /\ MarkerInv
    BY DEF BothInv, BadgeInv
<1>2. /\ UNCHANGED <<marked, up, lines, drops>> /\ open' = open \ {c}
      /\ read_markers' = [read_markers EXCEPT ![c] = 0]
      /\ sent' = sent \/ sent' = Append(sent, [what |-> "PART", to |-> c])
    BY DEF cmd_close, Emptied, network
<1>3. /\ sent \in Seq(Request) /\ [what |-> "PART", to |-> c] \in Request /\ open \subseteq Conversations
      /\ read_markers \in [Conversations -> Nat]
    BY <1>1 DEF MarksType, Request
<1>4. \A d : /\ Asked(sent, d) => Asked(sent', d)
             /\ \A at : Telling(sent, d, at) => Telling(sent', d, at)
    <2>1. CASE sent' = sent
        BY <2>1
    <2>2. CASE sent' = Append(sent, [what |-> "PART", to |-> c])
        <3>1. sent' = sent \o <<[what |-> "PART", to |-> c]>> /\ <<[what |-> "PART", to |-> c]>> \in Seq(Request)
            BY <1>3, <2>2, PutOne
        <3>2. QED
            BY <1>3, <3>1, RequestPut
    <2>3. QED
        BY <1>2, <2>1, <2>2
<1>5. ASSUME NEW d \in open' PROVE (up => Caught(d)') /\ (drops = 0 => Passed(d)')
    BY <1>1, <1>2, <1>3, <1>4 DEF MarkerInv, Caught, Passed
<1>6. QED
    BY <1>1, <1>2, <1>5 DEF MarkerInv

LEMMA MarkerOpened ==
    ASSUME ReadMarkersAssumption, BothInv, NEW c \in Conversations, open_target(c)
    PROVE  MarkerInv'
<1>1. MarksType
    BY DEF BothInv, BadgeInv
<1>2. /\ up /\ c \notin open
      /\ \/ sent' = Append(sent, Join(c)) /\ open' = open
         \/ sent' = Append(sent, Get(c)) /\ open' = open \cup {c}
      /\ UNCHANGED <<marked, up, lines, read_markers, drops>>
    BY DEF open_target, network, counts, bounds
<1>3. Join(c) \in Request /\ Get(c) \in Request /\ sent \in Seq(Request)
    BY <1>1 DEF Join, Get, Request, MarksType
<1>4. PICK more \in Seq(Request) :
        /\ sent' = sent \o more
        /\ open' = open \/ (open' = open \cup {c} /\ Asked(more, c))
    <2>1. CASE sent' = Append(sent, Join(c)) /\ open' = open
        BY <1>3, <2>1, PutOne
    <2>2. CASE sent' = Append(sent, Get(c)) /\ open' = open \cup {c}
        <3>1. /\ <<Get(c)>> \in Seq(Request) /\ sent' = sent \o <<Get(c)>>
              /\ DOMAIN <<Get(c)>> = {1} /\ <<Get(c)>>[1] = Get(c)
            BY <1>3, <2>2, PutOne
        <3>2. Asked(<<Get(c)>>, c)
            BY <3>1 DEF Asked, Get
        <3>3. QED
            BY <2>2, <3>1, <3>2
    <2>3. QED
        BY <1>2, <2>1, <2>2
<1>5. QED
    BY <1>2, <1>4, MarkerElse

LEMMA MarkerSaid ==
    ASSUME ReadMarkersAssumption, BothInv, NEW c \in Conversations, NEW loud \in BOOLEAN, Says(c, loud)
    PROVE  MarkerInv'
<1> DEFINE new == [what |-> "PRIVMSG", to |-> c, at |-> Len(said) + 1]
<1>1. MarksType /\ MarkerInv
    BY DEF BothInv, BadgeInv
<1>2. /\ lines' = lines \/ lines' = Append(lines, new)
      /\ UNCHANGED <<marked, up, sent, read_markers, open, drops>>
    BY DEF Says, Hears, client, counts, bounds
<1>3. Len(said) \in Nat /\ new \in Line /\ lines \in Seq(Line) /\ marked \in [Conversations -> Nat]
    <2>1. Len(said) \in Nat
        BY <1>1, SaidIs
    <2>2. QED
        BY <1>1, <2>1 DEF MarksType, Line
<1>4. Followed(lines', marked') /\ \A d \in Conversations : Told(lines, d, marked[d]) => Told(lines', d, marked'[d])
    <2>1. CASE lines' = lines
        BY <1>1, <1>2, <2>1 DEF MarkerInv
    <2>2. CASE lines' = Append(lines, new)
        <3>1. /\ lines' = lines \o <<new>> /\ <<new>> \in Seq(Line) /\ DOMAIN <<new>> = {1} /\ <<new>>[1] = new
            BY <1>3, <2>2, PutOne
        <3>2. Followed(<<new>>, marked)
            BY <3>1 DEF Followed
        <3> HIDE DEF new
        <3>3. PICK mk : mk = marked
            OBVIOUS
        <3>4. Tells(<<new>>, mk)
            BY <1>3, <3>1, <3>2, <3>3 DEF Tells
        <3>5. QED
            BY <1>1, <1>2, <3>1, <3>3, <3>4, MarkersTold DEF MarkerInv
    <2>3. QED
        BY <1>2, <2>1, <2>2
<1>5. open' = open /\ open \subseteq Conversations
    BY <1>1, <1>2 DEF MarksType
<1>6. QED
    BY <1>1, <1>2, <1>4, <1>5 DEF MarkerInv, Caught, Passed

LEMMA MarkerDropped ==
    ASSUME ReadMarkersAssumption, BothInv, Drop
    PROVE  MarkerInv'
<1>1. up' = FALSE /\ lines' = <<>> /\ drops' = drops + 1 /\ drops \in Nat
    BY DEF Drop, BothInv, BadgeInv, MarksType
<1>2. Followed(lines', marked')
    BY <1>1, EmptySeq DEF Followed
<1>3. QED
    BY <1>1, <1>2 DEF MarkerInv

LEMMA MarkerConnected ==
    ASSUME ReadMarkersAssumption, BothInv, Connect
    PROVE  MarkerInv'
<1>1. MarksType /\ MarkerInv
    BY DEF BothInv, BadgeInv
<1>2. /\ ~up /\ UNCHANGED <<marked, lines, read_markers, open, drops>>
      /\ \A c \in open : \E k \in DOMAIN sent' : sent'[k].what \in {"GET", "JOIN"} /\ sent'[k].to = c
    BY <1>1, Connected
<1>3. \A c \in open' : Caught(c)'
    BY <1>2 DEF Caught, Asked
<1>4. QED
    BY <1>1, <1>2, <1>3 DEF MarkerInv

LEMMA MarkerRaised ==
    ASSUME BothInv, NEW m, raise(m)
    PROVE  MarkerInv'
<1>1. UNCHANGED <<marked, up, lines, sent, read_markers, open, drops>>
    BY DEF raise, network, bounds
<1>2. QED
    BY <1>1 DEF BothInv, MarkerInv, Caught, Passed

LEMMA MarkerInit == ASSUME ReadMarkersAssumption, Init PROVE MarkerInv
<1>1. Followed(lines, marked)
    BY EmptySeq DEF Init, Followed
<1>2. \A c \in open : read_markers[c] = 0 /\ marked[c] = 0
    BY DEF Init, Each, Conversations
<1>3. QED
    BY <1>1, <1>2 DEF Init, MarkerInv, Caught, Passed

LEMMA MarkerStep == ASSUME ReadMarkersAssumption, BothInv, [Next]_vars PROVE MarkerInv'
<1>1. CASE UNCHANGED vars
    <2>1. UNCHANGED <<marked, up, lines, sent, read_markers, open, drops>>
        BY <1>1 DEF vars, network, client, counts, bounds
    <2>2. QED
        BY <2>1 DEF BothInv, MarkerInv, Caught, Passed
<1>2. QED
    BY <1>1, MarkerHeard, MarkerSet, MarkerAnswered, MarkerOther, MarkerRead, MarkerClosed, MarkerOpened, MarkerSaid,
       MarkerDropped, MarkerConnected, MarkerRaised
    DEF Next

\* Where nothing is on its way the session has the network's marker, or a later one, in every
\* conversation it has, and that very one where no connection was lost: what is read on one
\* of the reader's clients is read on the others (session.rs, handle_markread, mark_read,
\* on_welcome).
THEOREM MarkerCorrect == ASSUME ReadMarkersAssumption PROVE Spec => []MarkerIsFollowed
<1>1. Init => BothInv
    BY BadgeInit, MarkerInit DEF BothInv
<1>2. BothInv /\ [Next]_vars => BothInv'
    BY BadgeStep, MarkerStep DEF BothInv
<1>3. BothInv => MarkerIsFollowed
    <2>1. SUFFICES ASSUME BothInv, up, lines = <<>>, sent = <<>>, NEW c \in open
                   PROVE  /\ read_markers[c] >= marked[c]
                          /\ drops = 0 => read_markers[c] = marked[c]
        BY DEF MarkerIsFollowed
    <2>2. DOMAIN lines = {} /\ DOMAIN sent = {}
        BY <2>1, EmptySeq
    <2>3. read_markers[c] >= marked[c] /\ (drops = 0 => read_markers[c] <= marked[c])
        BY <2>1, <2>2 DEF BothInv, MarkerInv, Caught, Passed, Told, Asked, Telling
    <2>4. read_markers[c] \in Nat /\ marked[c] \in Nat
        BY <2>1, CountsAre DEF BothInv, BadgeInv, MarksType
    <2>5. QED
        BY <2>3, <2>4
<1>4. QED
    BY <1>1, <1>2, <1>3, PTL DEF Spec

-----------------------------------------------------------------------------
(* The task and its queues, which share no state with the markers.         *)

CONSTANTS
    KEEPALIVE, OUTBOUND_QUEUE, COMMAND_QUEUE, SocketBuffer, Retransmits, MaxPaste, MaxCommands,
    MaxRenames, MaxDue
VARIABLES
    loopInbox, outbound, incoming, buffer, todo, ping, until, due, silent, quiet, ended, waited,
    quitted, loopCommands, renames

Lo == INSTANCE SessionLoop WITH inbox <- loopInbox, commands <- loopCommands

Outgoing == {"said", "PING", "QUIT"}
Task == Outgoing \cup {"QueryRenamed", "Close"}
Order == [what : {"Submit"}, lines : Nat] \cup [what : {"Disconnect", "MutedChanged"}]

LoopType ==
    /\ loopInbox \in Seq(Order) /\ todo \in Seq(Task)
    /\ outbound \in Seq(Outgoing) /\ incoming \in Seq({"NICK", "PONG"})
    /\ ping \in {"none", "out", "heard"} /\ silent \in BOOLEAN /\ waited \in BOOLEAN
    /\ until \in 1..KEEPALIVE /\ due \in Nat /\ quiet \in Nat /\ buffer \in Nat
    /\ ended \in {None, "stalled", "error", "asked"}

\* The tick that came was taken before time went on.
TickInv == ~waited => due = 0 \/ (due = 1 /\ until = KEEPALIVE)

\* To the first tick, and with a PING out to the second.
SilenceInv ==
    /\ ~silent => quiet = 0
    /\ Lo!Up /\ silent /\ ~waited /\ quiet > 0 =>
          /\ incoming = <<>>
          /\ LET units == IF ping = "out" THEN 2 * KEEPALIVE ELSE KEEPALIVE
             IN  quiet + (IF due = 0 THEN until ELSE 0) <= units

\* Where the PING is that the server of an open socket has not answered.
PingInv ==
    Lo!Up /\ ping = "out" /\ ~silent /\ ~waited =>
        \/ incoming # <<>>
        \/ \E k \in DOMAIN todo : todo[k] = "PING"
        \/ \E k \in DOMAIN outbound : outbound[k] = "PING"

LoopInv == LoopType /\ TickInv /\ SilenceInv /\ PingInv /\ Lo!NoticedUnlessWaiting /\ Lo!StalledIsUnanswered

-----------------------------------------------------------------------------
(* Queues.                                                                 *)

LEMMA PutLast ==
    ASSUME NEW S, NEW s \in Seq(S), NEW e \in S
    PROVE  /\ Append(s, e) \in Seq(S) /\ Append(s, e) # <<>>
           /\ \A k \in DOMAIN s : k \in DOMAIN Append(s, e) /\ Append(s, e)[k] = s[k]
           /\ \E k \in DOMAIN Append(s, e) : Append(s, e)[k] = e
<1>1. /\ Append(s, e) \in Seq(S) /\ Len(Append(s, e)) = Len(s) + 1
      /\ \A k \in 1..Len(s) : Append(s, e)[k] = s[k]
      /\ Append(s, e)[Len(s) + 1] = e
    BY AppendProperties
<1>2. DOMAIN s = 1..Len(s) /\ Len(s) \in Nat /\ DOMAIN Append(s, e) = 1..Len(s) + 1
    BY <1>1, LenProperties
<1>3. Append(s, e) # <<>>
    BY <1>1, <1>2, EmptySeq
<1>4. Len(s) + 1 \in DOMAIN Append(s, e) /\ \A k \in 1..Len(s) : k \in 1..Len(s) + 1
    BY <1>2
<1>5. QED
    BY <1>1, <1>2, <1>3, <1>4

-----------------------------------------------------------------------------
(* The steps.                                                              *)

LEMMA LoopInit == ASSUME Lo!SessionLoopAssumption, Lo!Init PROVE LoopInv
<1>1. \A S : <<>> \in Seq(S)
    BY EmptySeq
<1>2. KEEPALIVE \in 1..KEEPALIVE
    BY DEF Lo!SessionLoopAssumption
<1>3. LoopType
    BY <1>1, <1>2 DEF Lo!Init, LoopType
<1>4. TickInv /\ SilenceInv /\ PingInv /\ Lo!NoticedUnlessWaiting /\ Lo!StalledIsUnanswered
    BY DEF Lo!SessionLoopAssumption, Lo!Init, TickInv, SilenceInv, PingInv, Lo!NoticedUnlessWaiting, Lo!StalledIsUnanswered, Lo!Up
<1>5. QED
    BY <1>3, <1>4 DEF LoopInv

LEMMA LineTaken ==
    ASSUME Lo!SessionLoopAssumption, LoopInv, Lo!on_line
    PROVE  LoopInv'
<1> USE DEF LoopInv
<1>1. /\ Lo!Up /\ todo = <<>> /\ incoming # <<>> /\ incoming' = Tail(incoming)
      /\ ping' = IF ping = "none" THEN ping ELSE "heard"
      /\ todo' = IF Head(incoming) = "NICK" THEN <<"QueryRenamed">> ELSE <<>>
      /\ UNCHANGED <<loopInbox, outbound, buffer, until, due, quiet, silent, ended, waited>>
    BY DEF Lo!on_line, Lo!Free, Lo!clock
<1>2. incoming' \in Seq({"NICK", "PONG"})
    BY <1>1, HeadOff DEF LoopType
<1>3. LoopType'
    <2>1. todo' \in Seq(Task)
        <3>1. <<"QueryRenamed">> \in Seq(Task) /\ <<>> \in Seq(Task)
            BY EmptySeq DEF Task
        <3>2. QED
            BY <1>1, <3>1
    <2>2. ping' \in {"none", "out", "heard"}
        BY <1>1 DEF LoopType
    <2>3. QED
        BY <1>1, <1>2, <2>1, <2>2 DEF LoopType
<1>4. ping' # "out"
    BY <1>1 DEF LoopType
<1>5. TickInv' /\ Lo!NoticedUnlessWaiting'
    BY <1>1 DEF TickInv, Lo!NoticedUnlessWaiting, Lo!Up
<1>6. SilenceInv'
    BY <1>1 DEF SilenceInv, Lo!Up
<1>7. PingInv'
    BY <1>4 DEF PingInv
<1>8. Lo!StalledIsUnanswered'
    BY <1>1 DEF Lo!StalledIsUnanswered, Lo!Up, Lo!SessionLoopAssumption
<1>9. QED
    BY <1>3, <1>5, <1>6, <1>7, <1>8

LEMMA OrderTaken ==
    ASSUME Lo!SessionLoopAssumption, LoopInv, Lo!apply
    PROVE  LoopInv'
<1> USE DEF LoopInv
<1>1. /\ Lo!Up /\ todo = <<>> /\ loopInbox # <<>> /\ loopInbox' = Tail(loopInbox)
      /\ todo' = CASE Head(loopInbox).what = "Submit" -> [k \in 1..Head(loopInbox).lines |-> "said"]
                   [] Head(loopInbox).what = "Disconnect" -> <<"QUIT", "Close">>
                   [] Head(loopInbox).what = "MutedChanged" -> <<>>
      /\ UNCHANGED <<outbound, incoming, buffer, ping, until, due, quiet, silent, ended, waited>>
    BY DEF Lo!apply, Lo!Free, Lo!clock
<1>2. Head(loopInbox) \in Order /\ loopInbox' \in Seq(Order)
    BY <1>1, HeadOff DEF LoopType
<1>3. todo' \in Seq(Task)
    <2>1. CASE Head(loopInbox).what = "Submit"
        <3>1. Head(loopInbox).lines \in Nat /\ todo' = [k \in 1..Head(loopInbox).lines |-> "said"]
            BY <1>1, <1>2, <2>1 DEF Order
        <3>2. QED
            BY <3>1, IsASeq DEF Task, Outgoing
    <2>2. CASE Head(loopInbox).what = "Disconnect"
        <3>1. <<"QUIT", "Close">> \in Seq(Task)
            BY DEF Task, Outgoing
        <3>2. todo' = <<"QUIT", "Close">>
            BY <1>1, <2>2
        <3>3. QED
            BY <3>1, <3>2
    <2>3. CASE Head(loopInbox).what = "MutedChanged"
        BY <1>1, <2>3, EmptySeq
    <2>4. QED
        BY <1>2, <2>1, <2>2, <2>3 DEF Order
<1>4. LoopType'
    BY <1>1, <1>2, <1>3 DEF LoopType
<1>5. TickInv' /\ SilenceInv' /\ Lo!NoticedUnlessWaiting' /\ Lo!StalledIsUnanswered'
    BY <1>1 DEF TickInv, SilenceInv, Lo!NoticedUnlessWaiting, Lo!StalledIsUnanswered, Lo!Up
<1>6. PingInv'
    BY <1>1 DEF PingInv, Lo!Up
<1>7. QED
    BY <1>4, <1>5, <1>6

LEMMA TickTaken ==
    ASSUME Lo!SessionLoopAssumption, LoopInv, Lo!keepalive
    PROVE  LoopInv'
<1> USE DEF LoopInv
<1>1. /\ Lo!Up /\ todo = <<>> /\ due > 0 /\ due' = due - 1 /\ due \in Nat
      /\ UNCHANGED <<loopInbox, outbound, incoming, buffer, until, quiet, silent, waited>>
    BY DEF Lo!keepalive, Lo!Free, Lo!queues, LoopType
<1>2. TickInv' /\ Lo!NoticedUnlessWaiting'
    <2>1. TickInv'
        BY <1>1 DEF TickInv
    <2>2. Lo!NoticedUnlessWaiting'
        <3>1. Lo!Up' => Lo!Up
            BY <1>1
        <3>2. QED
            BY <1>1, <3>1 DEF Lo!NoticedUnlessWaiting
    <2>3. QED
        BY <2>1, <2>2
<1>3. CASE ping = "out"
    <2>1. ended' = "stalled" /\ todo' = <<>> /\ ping' = ping /\ ~Lo!Up'
        BY <1>3 DEF Lo!keepalive, Lo!Ends, Lo!Up, Lo!SessionLoopAssumption
    <2>2. LoopType'
        BY <1>1, <2>1, EmptySeq DEF LoopType
    <2>3. SilenceInv' /\ PingInv'
        BY <1>1, <2>1 DEF SilenceInv, PingInv
    <2>4. Lo!StalledIsUnanswered'
        BY <1>1, <1>3 DEF Lo!StalledIsUnanswered, PingInv
    <2>5. QED
        BY <1>2, <2>2, <2>3, <2>4
<1>4. CASE ping # "out"
    <2>1. ended' = ended /\ todo' = <<"PING">> /\ ping' = "out"
        BY <1>4 DEF Lo!keepalive
    <2>2. LoopType'
        BY <1>1, <2>1 DEF LoopType, Task, Outgoing
    \* The first tick leaves a whole interval to the second.
    <2>3. SilenceInv'
        BY <1>1, <1>4, <2>1 DEF SilenceInv, TickInv, LoopType, Lo!Up, Lo!SessionLoopAssumption
    <2>4. PingInv'
        BY <2>1 DEF PingInv
    <2>5. Lo!StalledIsUnanswered'
        BY <1>1, <2>1 DEF Lo!StalledIsUnanswered, Lo!Up, Lo!SessionLoopAssumption
    <2>6. QED
        BY <1>2, <2>2, <2>3, <2>4, <2>5
<1>5. QED
    BY <1>3, <1>4

LEMMA ActionDelivered ==
    ASSUME Lo!SessionLoopAssumption, LoopInv, Lo!deliver
    PROVE  LoopInv'
<1> USE DEF LoopInv
<1>1. /\ Lo!Up /\ todo # <<>> /\ todo \in Seq(Task)
      /\ UNCHANGED <<incoming, buffer, ping, until, due, quiet, silent, waited>>
    BY DEF Lo!deliver, Lo!clock, LoopType
<1>2. /\ Tail(todo) \in Seq(Task) /\ Head(todo) \in Task /\ Head(todo) = todo[1]
      /\ \A k \in DOMAIN todo : k = 1 \/ (k - 1 \in DOMAIN Tail(todo) /\ Tail(todo)[k - 1] = todo[k])
    BY <1>1, HeadOff
<1>3. TickInv'
    BY <1>1 DEF TickInv
<1>4. CASE Head(todo) = "Close"
    <2>1. ended' = "asked" /\ todo' = <<>> /\ UNCHANGED <<loopInbox, outbound>> /\ ~Lo!Up'
        BY <1>4 DEF Lo!deliver, Lo!Ends, Lo!Up, Lo!SessionLoopAssumption
    <2>2. LoopType'
        BY <1>1, <2>1, EmptySeq DEF LoopType
    <2>3. SilenceInv' /\ PingInv' /\ Lo!NoticedUnlessWaiting' /\ Lo!StalledIsUnanswered'
        BY <1>1, <2>1 DEF SilenceInv, PingInv, Lo!NoticedUnlessWaiting, Lo!StalledIsUnanswered
    <2>4. QED
        BY <1>3, <2>2, <2>3
<1>5. CASE Head(todo) # "Close"
    <2>1. todo' = Tail(todo) /\ ended' = ended
        BY <1>2, <1>5 DEF Lo!deliver, Task, Outgoing
    <2>2. SilenceInv' /\ Lo!NoticedUnlessWaiting' /\ Lo!StalledIsUnanswered'
        BY <1>1, <2>1 DEF SilenceInv, Lo!NoticedUnlessWaiting, Lo!StalledIsUnanswered, Lo!Up, Lo!SessionLoopAssumption
    <2>3. CASE Head(todo) \in Outgoing
        <3>1. outbound' = Append(outbound, Head(todo)) /\ loopInbox' = loopInbox /\ outbound \in Seq(Outgoing)
            BY <2>3 DEF Lo!deliver, Outgoing, LoopType
        <3>2. /\ outbound' \in Seq(Outgoing)
              /\ \A k \in DOMAIN outbound : k \in DOMAIN outbound' /\ outbound'[k] = outbound[k]
              /\ \E k \in DOMAIN outbound' : outbound'[k] = Head(todo)
            BY <2>3, <3>1, PutLast
        <3>3. LoopType'
            BY <1>1, <1>2, <2>1, <3>1, <3>2 DEF LoopType
        <3>4. PingInv'
            BY <1>1, <1>2, <2>1, <3>2 DEF PingInv, Lo!Up
        <3>5. QED
            BY <1>3, <2>2, <3>3, <3>4
    <2>4. CASE Head(todo) = "QueryRenamed"
        <3>1. /\ loopInbox' = Append(loopInbox, [what |-> "MutedChanged"]) /\ outbound' = outbound
              /\ loopInbox \in Seq(Order) /\ [what |-> "MutedChanged"] \in Order
            BY <2>4 DEF Lo!deliver, LoopType, Order
        <3>2. loopInbox' \in Seq(Order)
            BY <3>1, PutLast
        <3>3. LoopType'
            BY <1>1, <1>2, <2>1, <3>1, <3>2 DEF LoopType
        <3>4. PingInv'
            BY <1>1, <1>2, <2>1, <2>4, <3>1 DEF PingInv, Lo!Up
        <3>5. QED
            BY <1>3, <2>2, <3>3, <3>4
    <2>5. QED
        BY <1>2, <1>5, <2>3, <2>4 DEF Task
<1>6. QED
    BY <1>4, <1>5

LEMMA OtherSteps ==
    ASSUME Lo!SessionLoopAssumption, LoopInv,
           \/ Lo!Rename \/ Lo!Forget \/ Lo!GiveUp \/ Lo!Quit
           \/ \E n \in {1, MaxPaste} : Lo!Submit(n)
    PROVE  LoopInv'
<1> USE DEF LoopInv
<1>1. ASSUME NEW c \in Order, Lo!Command(c) PROVE LoopInv'
    <2>1. /\ loopInbox' = Append(loopInbox, c) /\ loopInbox \in Seq(Order)
          /\ UNCHANGED <<outbound, incoming, buffer, todo, ping, until, due, quiet, silent, ended, waited>>
        BY <1>1 DEF Lo!Command, Lo!clock, LoopType
    <2>2. LoopType'
        BY <2>1, PutLast DEF LoopType
    <2>3. TickInv' /\ SilenceInv' /\ PingInv' /\ Lo!NoticedUnlessWaiting' /\ Lo!StalledIsUnanswered'
        BY <2>1 DEF TickInv, SilenceInv, PingInv, Lo!NoticedUnlessWaiting, Lo!StalledIsUnanswered, Lo!Up
    <2>4. QED
        BY <2>2, <2>3
<1>2. CASE Lo!Rename
    <2>1. /\ Lo!Up /\ ~silent /\ incoming' = Append(incoming, "NICK") /\ incoming \in Seq({"NICK", "PONG"})
          /\ UNCHANGED <<loopInbox, outbound, buffer, todo, ping, until, due, quiet, silent, ended, waited>>
        BY <1>2 DEF Lo!Rename, Lo!clock, LoopType
    <2>2. incoming' \in Seq({"NICK", "PONG"}) /\ incoming' # <<>>
        BY <2>1, PutLast
    <2>3. LoopType'
        BY <2>1, <2>2 DEF LoopType
    <2>4. TickInv' /\ SilenceInv' /\ PingInv' /\ Lo!NoticedUnlessWaiting' /\ Lo!StalledIsUnanswered'
        BY <2>1, <2>2 DEF TickInv, SilenceInv, PingInv, Lo!NoticedUnlessWaiting, Lo!StalledIsUnanswered, Lo!Up,
                          Lo!SessionLoopAssumption
    <2>5. QED
        BY <2>3, <2>4
<1>3. CASE Lo!Forget
    <2>1. /\ Lo!Up /\ ~silent /\ silent' = TRUE
          /\ UNCHANGED <<loopInbox, outbound, incoming, buffer, todo, ping, until, due, quiet, ended, waited>>
        BY <1>3 DEF Lo!Forget, Lo!clock, Lo!queues
    <2>2. LoopType'
        BY <2>1 DEF LoopType
    <2>3. TickInv' /\ PingInv' /\ Lo!NoticedUnlessWaiting' /\ Lo!StalledIsUnanswered'
        BY <2>1 DEF TickInv, PingInv, Lo!NoticedUnlessWaiting, Lo!StalledIsUnanswered, Lo!Up
    <2>4. SilenceInv'
        BY <2>1 DEF SilenceInv
    <2>5. QED
        BY <2>2, <2>3, <2>4
<1>4. CASE Lo!GiveUp
    <2>1. /\ ended' = "error" /\ todo' = <<>> /\ ~Lo!Up'
          /\ UNCHANGED <<loopInbox, outbound, incoming, buffer, ping, until, due, quiet, silent, waited>>
        BY <1>4 DEF Lo!GiveUp, Lo!Ends, Lo!clock, Lo!queues, Lo!Up, Lo!SessionLoopAssumption
    <2>2. LoopType'
        BY <2>1, EmptySeq DEF LoopType
    <2>3. TickInv' /\ SilenceInv' /\ PingInv' /\ Lo!NoticedUnlessWaiting' /\ Lo!StalledIsUnanswered'
        BY <2>1 DEF TickInv, SilenceInv, PingInv, Lo!NoticedUnlessWaiting, Lo!StalledIsUnanswered
    <2>4. QED
        BY <2>2, <2>3
<1>5. CASE Lo!Quit
    <2>1. [what |-> "Disconnect"] \in Order
        BY DEF Order
    <2>2. QED
        BY <1>1, <1>5, <2>1 DEF Lo!Quit
<1>6. ASSUME NEW n \in {1, MaxPaste}, Lo!Submit(n) PROVE LoopInv'
    <2>1. [what |-> "Submit", lines |-> n] \in Order
        BY DEF Order, Lo!SessionLoopAssumption
    <2>2. QED
        BY <1>1, <1>6, <2>1 DEF Lo!Submit
<1>7. QED
    BY <1>2, <1>3, <1>4, <1>5, <1>6

-----------------------------------------------------------------------------
(* Time passes.                                                            *)

LEMMA WithinMost ==
    ASSUME NEW q \in Nat, NEW l \in Nat, NEW m \in Nat, NEW k \in Nat, q + l <= m, m <= 2 * k
    PROVE  q <= 2 * k
    OBVIOUS

LEMMA TimePasses ==
    ASSUME Lo!SessionLoopAssumption, LoopInv, Lo!Pass
    PROVE  LoopInv'
<1> USE DEF LoopInv
<1>1. /\ Lo!Up /\ ~Lo!Urgent
      /\ until' = IF until = 1 THEN KEEPALIVE ELSE until - 1
      /\ due' = IF until = 1 /\ due < MaxDue THEN due + 1 ELSE due
      /\ quiet' = IF silent THEN quiet + 1 ELSE 0
      /\ waited' = (waited \/ todo # <<>>)
      /\ UNCHANGED <<loopInbox, todo, ping, silent, ended>>
    BY DEF Lo!Pass
<1>2. KEEPALIVE \in Nat \ {0} /\ MaxDue \in Nat \ {0}
    BY DEF Lo!SessionLoopAssumption
<1>3. /\ outbound' \in Seq(Outgoing) /\ incoming' \in Seq({"NICK", "PONG"}) /\ buffer' \in Nat
      /\ silent => incoming' = incoming
      /\ incoming # <<>> => incoming' # <<>>
      /\ ~silent => \/ incoming' # <<>>
                    \/ \A k \in DOMAIN outbound : outbound[k] = "PING" =>
                           \E l \in DOMAIN outbound' : outbound'[l] = "PING"
    <2>1. CASE UNCHANGED <<outbound, incoming, buffer>>
        BY <2>1 DEF LoopType
    <2>2. CASE /\ outbound # <<>> /\ outbound' = Tail(outbound)
               /\ buffer' = IF silent THEN buffer + 1 ELSE buffer
               /\ incoming' = IF Head(outbound) = "PING" /\ ~silent THEN Append(incoming, "PONG") ELSE incoming
        <3>1. /\ outbound' \in Seq(Outgoing) /\ Head(outbound) = outbound[1]
              /\ \A k \in DOMAIN outbound : k = 1 \/ (k - 1 \in DOMAIN outbound' /\ outbound'[k - 1] = outbound[k])
            BY <2>2, HeadOff DEF LoopType
        <3>2. /\ Append(incoming, "PONG") \in Seq({"NICK", "PONG"})
              /\ Append(incoming, "PONG") # <<>>
            <4>1. incoming \in Seq({"NICK", "PONG"})
                BY DEF LoopType
            <4>2. QED
                BY <4>1, PutLast
        <3>3. buffer' \in Nat
            BY <2>2 DEF LoopType
        <3>4. CASE Head(outbound) = "PING" /\ ~silent
            <4>1. incoming' = Append(incoming, "PONG")
                BY <2>2, <3>4
            <4>2. QED
                BY <3>1, <3>2, <3>3, <3>4, <4>1
        <3>5. CASE ~(Head(outbound) = "PING" /\ ~silent)
            <4>1. incoming' = incoming /\ incoming \in Seq({"NICK", "PONG"})
                BY <2>2, <3>5 DEF LoopType
            <4>2. QED
                BY <3>1, <3>3, <3>5, <4>1
        <3>6. QED
            BY <3>4, <3>5
    <2>3. QED
        BY <2>1, <2>2 DEF Lo!Pass
<1>4. LoopType'
    BY <1>1, <1>2, <1>3 DEF LoopType
<1>5. ~waited' => todo = <<>> /\ incoming = <<>> /\ due = 0 /\ ~waited
    <2>1. ~waited' => ~waited /\ todo = <<>>
        BY <1>1
    <2>2. todo = <<>> => incoming = <<>> /\ ~(due > 0)
        BY <1>1 DEF Lo!Urgent
    <2>3. due \in Nat
        BY DEF LoopType
    <2>4. QED
        BY <2>1, <2>2, <2>3
<1>6. TickInv'
    BY <1>1, <1>2, <1>5 DEF TickInv, LoopType
\* The first unit of silence finds nothing left to take and at most an interval
\* to the tick; every other one brings the tick nearer.
<1>7. SilenceInv'
    <2>1. ~silent' => quiet' = 0
        BY <1>1
    <2>2. ASSUME silent, ~waited'
          PROVE  /\ incoming' = <<>>
                 /\ LET units == IF ping = "out" THEN 2 * KEEPALIVE ELSE KEEPALIVE
                    IN  quiet' + (IF due' = 0 THEN until' ELSE 0) <= units
        <3>1. incoming' = <<>>
            BY <1>3, <1>5, <2>2
        <3> DEFINE units == IF ping = "out" THEN 2 * KEEPALIVE ELSE KEEPALIVE
        <3>2. quiet + until <= units
            <4>1. CASE quiet = 0
                BY <1>2, <4>1 DEF LoopType
            <4>2. CASE quiet > 0
                BY <1>1, <1>5, <2>2, <4>2 DEF SilenceInv
            <4>3. QED
                BY <4>1, <4>2 DEF LoopType
        <3>3. quiet' + (IF due' = 0 THEN until' ELSE 0) <= units
            BY <1>1, <1>2, <1>5, <2>2, <3>2 DEF LoopType
        <3>4. QED
            BY <3>1, <3>3
    <2>3. QED
        BY <1>1, <2>1, <2>2 DEF SilenceInv
<1>8. PingInv'
    BY <1>1, <1>3, <1>5 DEF PingInv, Lo!Up
<1>9. Lo!NoticedUnlessWaiting'
    <2>1. SUFFICES ASSUME Lo!Up', quiet' > 2 * KEEPALIVE, ~waited' PROVE FALSE
        BY DEF Lo!NoticedUnlessWaiting
    <2>2. silent' /\ quiet' > 0
        BY <1>2, <1>4, <1>7, <2>1 DEF SilenceInv, LoopType
    <2>3. quiet' <= 2 * KEEPALIVE
        <3>1. quiet' + (IF due' = 0 THEN until' ELSE 0)
                  <= (IF ping' = "out" THEN 2 * KEEPALIVE ELSE KEEPALIVE)
            BY <1>7, <2>1, <2>2 DEF SilenceInv
        <3>2. until' \in Nat /\ quiet' \in Nat
            BY <1>2, <1>4 DEF LoopType
        <3>3. KEEPALIVE \in Nat
            BY <1>2
        <3> DEFINE left == IF due' = 0 THEN until' ELSE 0
                   most == IF ping' = "out" THEN 2 * KEEPALIVE ELSE KEEPALIVE
        <3>4. left \in Nat /\ most \in Nat /\ most <= 2 * KEEPALIVE
            BY <3>2, <3>3
        <3>5. quiet' + left <= most
            BY <3>1
        <3> HIDE DEF left, most
        <3>6. QED
            BY <3>2, <3>3, <3>4, <3>5, WithinMost
    <2>4. QED
        BY <1>2, <1>4, <2>1, <2>3 DEF LoopType
<1>10. Lo!StalledIsUnanswered'
    BY <1>1 DEF Lo!StalledIsUnanswered, Lo!Up, Lo!SessionLoopAssumption
<1>11. QED
    BY <1>4, <1>6, <1>7, <1>8, <1>9, <1>10

-----------------------------------------------------------------------------
(* The invariant, and what it gives.                                       *)

LEMMA LoopInductive == ASSUME Lo!SessionLoopAssumption PROVE Lo!Spec => []LoopInv
<1>1. Lo!Init => LoopInv
    BY LoopInit
<1>2. LoopInv /\ [Lo!Next]_(Lo!vars) => LoopInv'
    <2>1. CASE UNCHANGED Lo!vars
        BY <2>1 DEF Lo!vars, Lo!queues, Lo!clock, LoopInv, LoopType, TickInv, SilenceInv, PingInv,
                    Lo!NoticedUnlessWaiting, Lo!StalledIsUnanswered, Lo!Up
    <2>2. CASE Lo!Next
        BY <2>2, LineTaken, OrderTaken, TickTaken, ActionDelivered, OtherSteps, TimePasses DEF Lo!Next
    <2>3. QED
        BY <2>1, <2>2
<1>3. QED
    BY <1>1, <1>2, PTL DEF Lo!Spec

\* A server that forgot the socket is given up within two intervals, unless the task had
\* to wait for room, whatever is sent, pasted and renamed meanwhile (session.rs, keepalive).
THEOREM SilenceCorrect == ASSUME Lo!SessionLoopAssumption PROVE Lo!Spec => []Lo!NoticedUnlessWaiting
<1>1. LoopInv => Lo!NoticedUnlessWaiting
    BY DEF LoopInv
<1>2. QED
    BY <1>1, LoopInductive, PTL

\* A server that is there is given up only with its answer still to be taken, its PING
\* still to be written, or after the task had to wait (session.rs, keepalive).
THEOREM StalledCorrect == ASSUME Lo!SessionLoopAssumption PROVE Lo!Spec => []Lo!StalledIsUnanswered
<1>1. LoopInv => Lo!StalledIsUnanswered
    BY DEF LoopInv
<1>2. QED
    BY <1>1, LoopInductive, PTL

-----------------------------------------------------------------------------
(* The rules of plugins, which every conversation's arrivals queue for.    *)

CONSTANTS Plugins, HOOK_WAITING, HOOK_STRIKES, MaxArrivals, MaxChanges
VARIABLES
    arrivals, draining, missed, workers, strikes, hooksInbox, taken, raised, told, arrived,
    changes, revived

Ho == INSTANCE PluginHooks WITH inbox <- hooksInbox

\* The library's operators, read there, are the ones read here.
LEMMA SameSets ==
    /\ \A s : Ho!ToSet(s) = ToSet(s)
    /\ \A S : Ho!Cardinality(S) = Cardinality(S)
<1>1. \A s : Ho!ToSet(s) = ToSet(s)
    BY DEF ToSet, Ho!ToSet
<1>2. \A S : Ho!Cardinality(S) = Cardinality(S)
    BY DEF Cardinality, Ho!Cardinality
<1>3. QED
    BY <1>1, <1>2

Sorted(s) == \A k, l \in 1..Len(s) : k < l => s[k] < s[l]
Belongs(m, c) == m \in ToSet(taken[c]) \/ m \in ToSet(arrivals[c])

Arrival == 1..arrived
Command == [what : {"Raised"}, message : Nat] \cup [what : {"PluginStopped"}, plugin : Plugins]
Worker == [target : Conversations, batch : Arrival \cup {None}, left : SUBSET Plugins,
           asking : Plugins \cup {None}, already : SUBSET Arrival]

HooksType ==
    /\ arrived \in Nat /\ draining \subseteq Conversations /\ missed \subseteq Arrival
    /\ arrivals \in [Conversations -> Seq(Nat)]
    /\ \A c \in Conversations : Len(arrivals[c]) <= HOOK_WAITING
    /\ taken \in [Conversations -> Seq(Nat)]
    /\ workers \subseteq Worker
    /\ \A w \in workers : w.asking # None => w.batch # None
    /\ strikes \in [Plugins -> Nat] /\ told \in [Plugins -> Nat]
    /\ hooksInbox \in Seq(Command) /\ raised \in Seq(Nat)
PlaceInv ==
    /\ \A w \in workers : w.target \in draining
    /\ \A c \in draining : \E w \in workers : w.target = c
    /\ \A v, w \in workers : v.target = w.target => v = w
    /\ \A c \in Conversations : arrivals[c] # <<>> => c \in draining
OrderInv ==
    \A c \in Conversations :
        /\ Sorted(taken[c]) /\ Sorted(arrivals[c])
        /\ \A m \in ToSet(taken[c]), n \in ToSet(arrivals[c]) : m < n
OnceInv ==
    /\ \A c \in Conversations : \A m : Belongs(m, c) => m \in Arrival /\ m \notin missed
    /\ \A c, d \in Conversations : \A m : Belongs(m, c) /\ Belongs(m, d) => c = d
    /\ \A m \in Arrival \ missed : \E c \in Conversations : Belongs(m, c)

\* A message that was raised was taken, and the worker that has it knows.
Old(m) ==
    /\ \E c \in Conversations : m \in ToSet(taken[c])
    /\ \A w \in workers : w.batch # None /\ w.batch = m => m \in w.already
IsRaise(k) == k \in 1..Len(hooksInbox) /\ hooksInbox[k].what = "Raised"
RaiseInv ==
    /\ \A w \in workers : w.batch # None => w.batch \in ToSet(taken[w.target])
    /\ \A k \in 1..Len(raised) : Old(raised[k])
    /\ \A k : IsRaise(k) => Old(hooksInbox[k].message)
    /\ \A k, l \in 1..Len(raised) : raised[k] = raised[l] => k = l
    /\ \A k, l : IsRaise(k) /\ IsRaise(l) /\ hooksInbox[k].message = hooksInbox[l].message => k = l
    /\ \A k \in 1..Len(raised) : \A l : IsRaise(l) => raised[k] # hooksInbox[l].message
HooksInv == HooksType /\ PlaceInv /\ OrderInv /\ OnceInv /\ RaiseInv /\ Ho!DroppedIsSaid

-----------------------------------------------------------------------------
(* Sequences in order. *)

LEMMA TailSorted ==
    ASSUME NEW s \in Seq(Nat), s # <<>>, Sorted(s)
    PROVE  /\ Tail(s) \in Seq(Nat) /\ Len(Tail(s)) = Len(s) - 1 /\ Sorted(Tail(s))
           /\ Head(s) \in ToSet(s) /\ Head(s) \in Nat
           /\ ToSet(Tail(s)) = ToSet(s) \ {Head(s)}
           /\ \A m \in ToSet(Tail(s)) : Head(s) < m
<1>1. /\ Tail(s) \in Seq(Nat) /\ Len(Tail(s)) = Len(s) - 1 /\ Head(s) = s[1] /\ Len(s) > 0
      /\ \A k \in 1..Len(s) - 1 : Tail(s)[k] = s[k + 1]
    BY HeadTailProperties, LenProperties, EmptySeq
<1>2. /\ DOMAIN s = 1..Len(s) /\ DOMAIN Tail(s) = 1..Len(s) - 1 /\ Len(s) \in Nat
      /\ \A k \in 1..Len(s) : s[k] \in Nat
    BY <1>1, LenProperties, ElementOfSeq
<1>3. Sorted(Tail(s))
    BY <1>1, <1>2 DEF Sorted
<1>4. \A m \in ToSet(Tail(s)) : m \in ToSet(s) /\ Head(s) < m
    <2>1. TAKE m \in ToSet(Tail(s))
    <2>2. PICK k \in 1..Len(s) - 1 : m = Tail(s)[k]
        BY <2>1, <1>2 DEF ToSet
    <2>3. m = s[k + 1] /\ k + 1 \in 1..Len(s) /\ 1 < k + 1 /\ 1 \in 1..Len(s)
        BY <2>2, <1>1, <1>2
    <2>4. QED
        BY <2>3, <1>1, <1>2 DEF Sorted, ToSet
<1>5. \A m \in ToSet(s) : m = Head(s) \/ m \in ToSet(Tail(s))
    <2>1. TAKE m \in ToSet(s)
    <2>2. PICK k \in 1..Len(s) : m = s[k]
        BY <2>1, <1>2 DEF ToSet
    <2>3. CASE k = 1
        BY <2>2, <2>3, <1>1
    <2>4. CASE k # 1
        <3>1. k - 1 \in 1..Len(s) - 1 /\ Tail(s)[k - 1] = s[k]
            BY <2>4, <1>1, <1>2
        <3>2. QED
            BY <3>1, <2>2, <1>2 DEF ToSet
    <2>5. QED
        BY <2>3, <2>4
<1>6. Head(s) \in ToSet(s) /\ Head(s) \in Nat
    BY <1>1, <1>2 DEF ToSet
<1>7. QED
    BY <1>1, <1>3, <1>4, <1>5, <1>6

LEMMA AppendSorted ==
    ASSUME NEW s \in Seq(Nat), Sorted(s), NEW m \in Nat, \A n \in ToSet(s) : n < m
    PROVE  /\ Append(s, m) \in Seq(Nat) /\ Len(Append(s, m)) = Len(s) + 1 /\ Sorted(Append(s, m))
           /\ ToSet(Append(s, m)) = ToSet(s) \cup {m}
<1>1. /\ Append(s, m) \in Seq(Nat) /\ Len(Append(s, m)) = Len(s) + 1
      /\ \A k \in 1..Len(s) : Append(s, m)[k] = s[k]
      /\ Append(s, m)[Len(s) + 1] = m
    BY AppendProperties
<1>2. /\ DOMAIN s = 1..Len(s) /\ DOMAIN Append(s, m) = 1..Len(s) + 1 /\ Len(s) \in Nat
      /\ \A k \in 1..Len(s) : s[k] \in ToSet(s) /\ s[k] \in Nat
    BY <1>1, LenProperties, ElementOfSeq DEF ToSet
<1>3. \A k \in 1..Len(s) + 1 : k \in 1..Len(s) \/ k = Len(s) + 1
    BY <1>2
<1>4. Sorted(Append(s, m))
    <2>1. SUFFICES ASSUME NEW k \in 1..Len(s) + 1, NEW l \in 1..Len(s) + 1, k < l
                   PROVE  Append(s, m)[k] < Append(s, m)[l]
        BY <1>1 DEF Sorted
    <2>2. k \in 1..Len(s)
        BY <2>1, <1>2
    <2>3. CASE l \in 1..Len(s)
        BY <2>1, <2>2, <2>3, <1>1 DEF Sorted
    <2>4. CASE l = Len(s) + 1
        BY <2>2, <2>4, <1>1, <1>2
    <2>5. QED
        BY <2>3, <2>4, <1>3
<1>5. ToSet(Append(s, m)) = ToSet(s) \cup {m}
    BY <1>1, <1>2, <1>3 DEF ToSet
<1>6. QED
    BY <1>1, <1>4, <1>5

LEMMA ConcatSorted ==
    ASSUME NEW s \in Seq(Nat), NEW t \in Seq(Nat), Sorted(s), Sorted(t),
           \A m \in ToSet(s), n \in ToSet(t) : m < n
    PROVE  Sorted(s \o t) /\ s \o t \in Seq(Nat)
<1>1. /\ s \o t \in Seq(Nat) /\ Len(s \o t) = Len(s) + Len(t)
      /\ \A k \in 1..Len(s) + Len(t) : (s \o t)[k] = IF k <= Len(s) THEN s[k] ELSE t[k - Len(s)]
    BY ConcatProperties
<1>2. /\ Len(s) \in Nat /\ Len(t) \in Nat
      /\ \A k \in 1..Len(s) : s[k] \in ToSet(s)
      /\ \A k \in 1..Len(t) : t[k] \in ToSet(t)
    BY LenProperties DEF ToSet
<1>3. SUFFICES ASSUME NEW k \in 1..Len(s) + Len(t), NEW l \in 1..Len(s) + Len(t), k < l
               PROVE  (s \o t)[k] < (s \o t)[l]
    BY <1>1 DEF Sorted
<1>4. CASE l <= Len(s)
    <2>1. k \in 1..Len(s) /\ l \in 1..Len(s)
        BY <1>2, <1>3, <1>4
    <2>2. QED
        BY <2>1, <1>1, <1>3 DEF Sorted
<1>5. CASE k > Len(s)
    <2>1. k - Len(s) \in 1..Len(t) /\ l - Len(s) \in 1..Len(t) /\ k - Len(s) < l - Len(s)
        BY <1>2, <1>3, <1>5
    <2>2. (s \o t)[k] = t[k - Len(s)] /\ (s \o t)[l] = t[l - Len(s)]
        <3>1. ~(k <= Len(s)) /\ ~(l <= Len(s))
            BY <1>2, <1>3, <1>5
        <3>2. QED
            BY <3>1, <1>1
    <2>3. QED
        BY <2>1, <2>2 DEF Sorted
<1>6. CASE k <= Len(s) /\ l > Len(s)
    <2>1. k \in 1..Len(s) /\ l - Len(s) \in 1..Len(t)
        BY <1>2, <1>3, <1>6
    <2>2. (s \o t)[k] = s[k] /\ (s \o t)[l] = t[l - Len(s)]
        BY <1>1, <1>2, <1>3, <1>6
    <2>3. QED
        BY <2>1, <2>2, <1>2
<1>7. QED
    BY <1>2, <1>3, <1>4, <1>5, <1>6

-----------------------------------------------------------------------------
(* The start.                                                              *)

LEMMA HooksInit ==
    ASSUME Ho!HooksAssumption, Ho!Init
    PROVE  HooksInv
<1>1. \A S : <<>> \in Seq(S) /\ Len(<<>>) = 0
    BY EmptySeq
<1>2. ToSet(<<>>) = {}
    BY DEF ToSet
<1>3. HooksType
    BY <1>1 DEF Ho!HooksAssumption, Ho!Init, HooksType
<1>4. PlaceInv
    BY DEF Ho!Init, PlaceInv
<1>5. OrderInv
    BY <1>1, <1>2 DEF Ho!Init, OrderInv, Sorted
<1>6. OnceInv
    BY <1>1, <1>2 DEF Ho!Init, OnceInv, Belongs, Arrival
<1>7. RaiseInv
    BY <1>1 DEF Ho!Init, RaiseInv, IsRaise
<1>8. Ho!DroppedIsSaid
    BY DEF Ho!HooksAssumption, Ho!Init, Ho!DroppedIsSaid, Ho!out
<1>9. QED
    BY <1>3, <1>4, <1>5, <1>6, <1>7, <1>8 DEF HooksInv

-----------------------------------------------------------------------------
(* What the session and the reader do leaves the queues alone.             *)

LEMMA StrikesAlone ==
    ASSUME Ho!HooksAssumption, HooksInv, NEW p \in Plugins, Ho!PluginChanged(p)
    PROVE  HooksInv'
<1> USE DEF HooksInv, Ho!PluginChanged, Ho!waiting
<1>1. HooksType'
    BY DEF HooksType, Arrival, Worker
<1>2. PlaceInv' /\ OrderInv' /\ OnceInv' /\ RaiseInv'
    BY DEF PlaceInv, OrderInv, OnceInv, Belongs, Arrival, RaiseInv, Old, IsRaise
<1>3. Ho!DroppedIsSaid'
    <2>1. ASSUME NEW q \in Plugins, Ho!out(q)' PROVE Ho!out(q)
        BY <2>1 DEF Ho!out, HooksType, Ho!HooksAssumption
    <2>2. QED
        BY <2>1 DEF Ho!DroppedIsSaid, Ho!out
<1>4. QED
    BY <1>1, <1>2, <1>3

LEMMA SessionTakes ==
    ASSUME HooksInv, Ho!apply
    PROVE  HooksInv'
<1> USE DEF HooksInv
<1>1. /\ hooksInbox # <<>> /\ hooksInbox' = Tail(hooksInbox) /\ hooksInbox \in Seq(Command) /\ raised \in Seq(Nat)
      /\ UNCHANGED <<arrivals, draining, missed, workers, strikes, taken, arrived>>
    BY DEF Ho!apply, Ho!waiting, HooksType
<1>2. /\ hooksInbox' \in Seq(Command) /\ Len(hooksInbox') = Len(hooksInbox) - 1 /\ Head(hooksInbox) = hooksInbox[1]
      /\ Len(hooksInbox) \in Nat /\ Len(hooksInbox) > 0
      /\ \A k \in 1..Len(hooksInbox) - 1 : hooksInbox'[k] = hooksInbox[k + 1]
      /\ hooksInbox[1] \in Command
    BY <1>1, HeadTailProperties, LenProperties, EmptySeq, ElementOfSeq
<1>3. \A k : IsRaise(k)' => /\ k \in Nat /\ k + 1 > 1 /\ IsRaise(k + 1)
                            /\ hooksInbox'[k].message = hooksInbox[k + 1].message
    BY <1>1, <1>2 DEF IsRaise
<1>4. PlaceInv' /\ OrderInv' /\ OnceInv'
    BY <1>1 DEF PlaceInv, OrderInv, OnceInv, Belongs, Arrival
<1>5. \A m : Old(m) => Old(m)'
    BY <1>1 DEF Old
<1>6. CASE hooksInbox[1].what = "Raised" /\ raised' = Append(raised, hooksInbox[1].message) /\ UNCHANGED told
    <2>1. hooksInbox[1].message \in Nat /\ IsRaise(1)
        BY <1>2, <1>6 DEF Command, IsRaise
    <2>2. /\ raised' \in Seq(Nat) /\ Len(raised') = Len(raised) + 1 /\ Len(raised) \in Nat
          /\ \A k \in 1..Len(raised) : raised'[k] = raised[k]
          /\ raised'[Len(raised) + 1] = hooksInbox[1].message
        BY <1>1, <1>6, <2>1, AppendProperties, LenProperties
    <2>3. HooksType'
        BY <1>1, <1>2, <1>6, <2>2 DEF HooksType, Arrival, Worker, Command
    <2>4. \A k \in 1..Len(raised') : k \in 1..Len(raised) \/ k = Len(raised) + 1
        BY <2>2
    <2>5. RaiseInv'
        <3>1. (\A w \in workers : w.batch # None => w.batch \in ToSet(taken[w.target]))'
            BY <1>1 DEF RaiseInv
        <3>2. (\A k \in 1..Len(raised) : Old(raised[k]))'
            BY <1>5, <2>1, <2>2, <2>4 DEF RaiseInv
        <3>3. (\A k : IsRaise(k) => Old(hooksInbox[k].message))'
            BY <1>3, <1>5 DEF RaiseInv
        <3>4. (\A k, l \in 1..Len(raised) : raised[k] = raised[l] => k = l)'
            BY <2>1, <2>2, <2>4 DEF RaiseInv
        <3>5. (\A k, l : IsRaise(k) /\ IsRaise(l) /\ hooksInbox[k].message = hooksInbox[l].message => k = l)'
            BY <1>3 DEF RaiseInv
        <3>6. (\A k \in 1..Len(raised) : \A l : IsRaise(l) => raised[k] # hooksInbox[l].message)'
            <4>1. SUFFICES ASSUME NEW k \in 1..Len(raised'), NEW l, IsRaise(l)'
                           PROVE  raised'[k] # hooksInbox'[l].message
                OBVIOUS
            <4>2. /\ l + 1 # 1 /\ IsRaise(l + 1) /\ hooksInbox'[l].message = hooksInbox[l + 1].message
                BY <1>3, <4>1
            <4>3. hooksInbox[l + 1].message # hooksInbox[1].message
                BY <2>1, <4>2 DEF RaiseInv
            <4>4. CASE k \in 1..Len(raised)
                BY <2>2, <4>2, <4>4 DEF RaiseInv
            <4>5. CASE k = Len(raised) + 1
                BY <2>2, <4>2, <4>3, <4>5
            <4>6. QED
                BY <2>4, <4>4, <4>5
        <3>7. QED
            BY <3>1, <3>2, <3>3, <3>4, <3>5, <3>6 DEF RaiseInv
    <2>6. Ho!DroppedIsSaid'
        <3>1. SUFFICES ASSUME NEW p \in Plugins, Ho!out(p), ~(told[p] > 0)
                       PROVE  \E k \in DOMAIN hooksInbox' : hooksInbox'[k].what = "PluginStopped" /\ hooksInbox'[k].plugin = p
            BY <1>1, <1>6 DEF Ho!DroppedIsSaid, Ho!out
        <3>2. PICK k \in DOMAIN hooksInbox : hooksInbox[k].what = "PluginStopped" /\ hooksInbox[k].plugin = p
            BY <3>1 DEF Ho!DroppedIsSaid
        <3>3. k \in 1..Len(hooksInbox) /\ k # 1
            BY <1>1, <1>6, <3>2, LenProperties
        <3>4. k - 1 \in DOMAIN hooksInbox' /\ hooksInbox'[k - 1] = hooksInbox[k]
            BY <1>2, <3>3, LenProperties
        <3>5. QED
            BY <3>2, <3>4
    <2>7. QED
        BY <1>4, <2>3, <2>5, <2>6
<1>7. CASE hooksInbox[1].what = "PluginStopped" /\ told' = [told EXCEPT ![hooksInbox[1].plugin] = @ + 1] /\ UNCHANGED raised
    <2>1. HooksType'
        BY <1>1, <1>2, <1>7 DEF HooksType, Arrival, Worker, Command
    <2>2. RaiseInv'
        <3>1. (\A w \in workers : w.batch # None => w.batch \in ToSet(taken[w.target]))'
            BY <1>1 DEF RaiseInv
        <3>2. (\A k \in 1..Len(raised) : Old(raised[k]))'
            BY <1>5, <1>7 DEF RaiseInv
        <3>3. (\A k : IsRaise(k) => Old(hooksInbox[k].message))'
            BY <1>3, <1>5 DEF RaiseInv
        <3>4. (\A k, l \in 1..Len(raised) : raised[k] = raised[l] => k = l)'
            BY <1>7 DEF RaiseInv
        <3>5. (\A k, l : IsRaise(k) /\ IsRaise(l) /\ hooksInbox[k].message = hooksInbox[l].message => k = l)'
            BY <1>3 DEF RaiseInv
        <3>6. (\A k \in 1..Len(raised) : \A l : IsRaise(l) => raised[k] # hooksInbox[l].message)'
            BY <1>3, <1>7 DEF RaiseInv
        <3>7. QED
            BY <3>1, <3>2, <3>3, <3>4, <3>5, <3>6 DEF RaiseInv
    <2>3. Ho!DroppedIsSaid'
        <3>1. SUFFICES ASSUME NEW p \in Plugins, Ho!out(p), ~(told'[p] > 0)
                       PROVE  \E k \in DOMAIN hooksInbox' : hooksInbox'[k].what = "PluginStopped" /\ hooksInbox'[k].plugin = p
            BY <1>1 DEF Ho!DroppedIsSaid, Ho!out
        <3>2. hooksInbox[1].plugin # p /\ ~(told[p] > 0)
            BY <1>7, <3>1 DEF HooksType
        <3>3. PICK k \in DOMAIN hooksInbox : hooksInbox[k].what = "PluginStopped" /\ hooksInbox[k].plugin = p
            BY <3>1, <3>2 DEF Ho!DroppedIsSaid
        <3>4. k \in 1..Len(hooksInbox) /\ k # 1
            BY <1>1, <3>2, <3>3, LenProperties
        <3>5. k - 1 \in DOMAIN hooksInbox' /\ hooksInbox'[k - 1] = hooksInbox[k]
            BY <1>2, <3>4, LenProperties
        <3>6. QED
            BY <3>3, <3>5
    <2>4. QED
        BY <1>4, <2>1, <2>2, <2>3
<1>8. QED
    BY <1>2, <1>6, <1>7 DEF Ho!apply

-----------------------------------------------------------------------------
(* An arrival is queued.                                                   *)

LEMMA ArrivalQueues ==
    ASSUME Ho!HooksAssumption, HooksInv, NEW c \in Conversations, Ho!notify(c)
    PROVE  HooksInv'
<1> USE DEF HooksInv
<1> DEFINE m == arrived + 1
           queue == Append(arrivals[c], m)
           over == Len(queue) > HOOK_WAITING
<1>1. /\ arrived' = m /\ arrived \in Nat
      /\ arrivals' = [arrivals EXCEPT ![c] = IF over THEN Tail(queue) ELSE queue]
      /\ missed' = IF over THEN missed \cup {Head(queue)} ELSE missed
      /\ draining' = draining \cup {c}
      /\ workers' = IF c \in draining THEN workers ELSE workers \cup {Ho!Idle(c)}
      /\ UNCHANGED <<strikes, hooksInbox, taken, raised, told>>
      /\ m \in Nat /\ m = arrived + 1 /\ queue = Append(arrivals[c], m)
    BY DEF Ho!notify, HooksType
<1> HIDE DEF m, queue
<1>2. /\ arrivals[c] \in Seq(Nat) /\ Sorted(arrivals[c]) /\ Len(arrivals[c]) <= HOOK_WAITING
      /\ Len(arrivals[c]) \in Nat /\ HOOK_WAITING \in Nat
      /\ \A n \in ToSet(arrivals[c]) : n \in Arrival /\ n < m
      /\ \A n \in ToSet(taken[c]) : n \in Arrival /\ n < m
    BY <1>1, LenProperties DEF HooksType, OrderInv, OnceInv, Belongs, Arrival, Ho!HooksAssumption
<1>3. /\ queue \in Seq(Nat) /\ Len(queue) = Len(arrivals[c]) + 1 /\ Sorted(queue)
      /\ ToSet(queue) = ToSet(arrivals[c]) \cup {m} /\ queue # <<>>
    <2>1. /\ m \in Nat /\ arrivals[c] \in Seq(Nat) /\ Sorted(arrivals[c])
          /\ \A n \in ToSet(arrivals[c]) : n < m
        BY <1>1, <1>2
    <2>2. /\ queue \in Seq(Nat) /\ Len(queue) = Len(arrivals[c]) + 1 /\ Sorted(queue)
          /\ ToSet(queue) = ToSet(arrivals[c]) \cup {m}
        BY <1>1, <2>1, AppendSorted
    <2>3. queue # <<>>
        BY <1>2, <2>2, EmptySeq
    <2>4. QED
        BY <2>2, <2>3
<1>4. /\ Tail(queue) \in Seq(Nat) /\ Len(Tail(queue)) = Len(arrivals[c]) /\ Sorted(Tail(queue))
      /\ Head(queue) \in ToSet(queue) /\ ToSet(Tail(queue)) = ToSet(queue) \ {Head(queue)}
    BY <1>2, <1>3, TailSorted
<1> DEFINE gone == IF over THEN {Head(queue)} ELSE {}
<1>5. /\ arrivals'[c] \in Seq(Nat) /\ Sorted(arrivals'[c]) /\ Len(arrivals'[c]) <= HOOK_WAITING
      /\ ToSet(arrivals'[c]) = (ToSet(arrivals[c]) \cup {m}) \ gone
      /\ missed' = missed \cup gone
      /\ gone \subseteq ToSet(arrivals[c]) \cup {m}
    <2>1. arrivals'[c] = IF over THEN Tail(queue) ELSE queue
        BY <1>1 DEF HooksType
    <2>2. QED
        BY <1>1, <1>2, <1>3, <1>4, <2>1
<1>6. \A d \in Conversations \ {c} : arrivals'[d] = arrivals[d]
    BY <1>1 DEF HooksType
<1> HIDE DEF gone
<1>7. HooksType'
    <2>1. arrivals' \in [Conversations -> Seq(Nat)]
        BY <1>1, <1>3, <1>4 DEF HooksType
    <2>2. arrived' \in Nat /\ Arrival' = Arrival \cup {m} /\ missed' \subseteq Arrival'
        <3>1. Arrival' = Arrival \cup {m}
            BY <1>1 DEF Arrival
        <3>2. gone \subseteq Arrival \cup {m}
            BY <1>2, <1>5
        <3>3. QED
            BY <1>1, <1>5, <3>1, <3>2 DEF HooksType
    <2>3. Ho!Idle(c) \in Worker'
        BY DEF Ho!Idle, Worker
    <2>4. workers' \subseteq Worker' /\ \A w \in workers' : w.asking # None => w.batch # None
        BY <1>1, <2>2, <2>3 DEF HooksType, Worker, Ho!Idle
    <2>5. QED
        BY <1>1, <1>5, <1>6, <2>1, <2>2, <2>4 DEF HooksType, Command
<1>8. PlaceInv'
    <2>1. Ho!Idle(c).target = c
        BY DEF Ho!Idle
    <2>2. QED
        BY <1>1, <1>6, <2>1 DEF PlaceInv
<1>9. OrderInv'
    <2>1. ASSUME NEW d \in Conversations
          PROVE  /\ Sorted(taken[d]) /\ Sorted(arrivals'[d])
                 /\ \A n \in ToSet(taken[d]), o \in ToSet(arrivals'[d]) : n < o
        <3>1. CASE d = c
            BY <1>2, <1>5, <3>1 DEF OrderInv
        <3>2. CASE d # c
            BY <1>6, <3>2 DEF OrderInv
        <3>3. QED
            BY <3>1, <3>2
    <2>2. QED
        BY <1>1, <2>1 DEF OrderInv
<1>10. OnceInv'
    <2>1. Arrival' = Arrival \cup {m} /\ m \notin Arrival
        BY <1>1 DEF Arrival
    <2>2. \A n \in gone : \A d \in Conversations \ {c} : ~Belongs(n, d)
        <3>1. SUFFICES ASSUME NEW n \in gone, NEW d \in Conversations \ {c}, Belongs(n, d) PROVE FALSE
            OBVIOUS
        <3>2. n \in Arrival
            BY <3>1 DEF OnceInv
        <3>3. Belongs(n, c)
            BY <1>5, <2>1, <3>1, <3>2 DEF Belongs
        <3>4. QED
            BY <3>1, <3>3 DEF OnceInv
    <2>3. \A n \in gone : n \notin ToSet(taken[c])
        <3>1. ASSUME NEW n \in gone, n \in ToSet(taken[c]) PROVE FALSE
            <4>1. n < m /\ n \in Arrival
                BY <1>2, <3>1
            <4>2. n \in ToSet(arrivals[c])
                BY <1>5, <2>1, <3>1, <4>1
            <4>3. n < n
                BY <3>1, <4>2 DEF OrderInv
            <4>4. QED
                BY <4>1, <4>3 DEF Arrival
        <3>2. QED
            BY <3>1
    <2>4. ASSUME NEW d \in Conversations, NEW n
          PROVE  Belongs(n, d)' <=> (Belongs(n, d) \/ (d = c /\ n = m)) /\ n \notin gone
        BY <1>1, <1>5, <1>6, <2>2, <2>3, <2>1 DEF Belongs, OnceInv
    <2>5. (\A d \in Conversations : \A n : Belongs(n, d) => n \in Arrival /\ n \notin missed)'
        <3>1. SUFFICES ASSUME NEW d \in Conversations, NEW n, Belongs(n, d)'
                       PROVE  n \in Arrival' /\ n \notin missed'
            OBVIOUS
        <3>2. (Belongs(n, d) \/ n = m) /\ n \notin gone
            BY <2>4, <3>1
        <3>3. n \in Arrival' /\ n \notin missed
            BY <2>1, <3>2 DEF OnceInv, HooksType
        <3>4. QED
            BY <1>5, <3>2, <3>3
    <2>6. (\A d, e \in Conversations : \A n : Belongs(n, d) /\ Belongs(n, e) => d = e)'
        <3>1. SUFFICES ASSUME NEW d \in Conversations, NEW e \in Conversations, NEW n,
                              Belongs(n, d)', Belongs(n, e)'
                       PROVE  d = e
            OBVIOUS
        <3>2. (Belongs(n, d) \/ (d = c /\ n = m)) /\ (Belongs(n, e) \/ (e = c /\ n = m))
            BY <2>4, <3>1
        <3>3. QED
            BY <2>1, <3>2 DEF OnceInv
    <2>7. (\A n \in Arrival \ missed : \E d \in Conversations : Belongs(n, d))'
        <3>1. SUFFICES ASSUME NEW n \in Arrival' \ missed'
                       PROVE  \E d \in Conversations : Belongs(n, d)'
            OBVIOUS
        <3>2. (n = m \/ n \in Arrival \ missed) /\ n \notin gone
            BY <1>5, <2>1, <3>1
        <3>3. QED
            BY <2>4, <3>2 DEF OnceInv
    <2>8. QED
        BY <2>5, <2>6, <2>7 DEF OnceInv
<1>11. RaiseInv'
    <2>1. \A n : Old(n) => Old(n)'
        BY <1>1 DEF Old, Ho!Idle
    <2>2. (\A w \in workers : w.batch # None => w.batch \in ToSet(taken[w.target]))'
        BY <1>1 DEF RaiseInv, Ho!Idle
    <2>3. QED
        BY <1>1, <2>1, <2>2 DEF RaiseInv, IsRaise
<1>12. Ho!DroppedIsSaid'
    BY <1>1 DEF Ho!DroppedIsSaid, Ho!out
<1>13. QED
    BY <1>7, <1>8, <1>9, <1>10, <1>11, <1>12

-----------------------------------------------------------------------------
(* A worker takes its next arrival, or stands down.                        *)

\* A worker that goes on keeps its place.
LEMMA WorkerMoves ==
    ASSUME PlaceInv, NEW w \in workers, NEW x, x.target = w.target, Ho!Becomes(w, x),
           UNCHANGED draining,
           \A c \in Conversations : arrivals'[c] # <<>> => arrivals[c] # <<>>
    PROVE  PlaceInv'
<1>1. \A v \in workers' : v = x \/ (v \in workers /\ v # w)
    BY DEF Ho!Becomes
<1>2. x \in workers' /\ \A v \in workers \ {w} : v \in workers'
    BY DEF Ho!Becomes
<1>3. (\A v \in workers : v.target \in draining)'
    BY <1>1 DEF PlaceInv
<1>4. (\A c \in draining : \E v \in workers : v.target = c)'
    BY <1>2 DEF PlaceInv
<1>5. (\A v, u \in workers : v.target = u.target => v = u)'
    BY <1>1 DEF PlaceInv
<1>6. QED
    BY <1>3, <1>4, <1>5 DEF PlaceInv

LEMMA ArrivalTaken ==
    ASSUME Ho!HooksAssumption, HooksInv, NEW w \in workers, Ho!NextArrival(w)
    PROVE  HooksInv'
<1> USE DEF HooksInv
<1> DEFINE c == w.target
           m == Head(arrivals[c])
           x == [w EXCEPT !.batch = m, !.left = Ho!Rules, !.already = {}]
<1>1. /\ c \in Conversations /\ arrivals[c] # <<>> /\ Ho!Free(w) /\ w \in Worker
      /\ arrivals' = [arrivals EXCEPT ![c] = Tail(arrivals[c])]
      /\ UNCHANGED <<draining, strikes, hooksInbox, raised, told, arrived>>
    BY DEF Ho!NextArrival, HooksType, Worker
<1>2. arrivals[c] \in Seq(Nat) /\ Sorted(arrivals[c]) /\ Len(arrivals[c]) <= HOOK_WAITING
    BY <1>1 DEF HooksType, OrderInv
<1>3. /\ Tail(arrivals[c]) \in Seq(Nat) /\ Len(Tail(arrivals[c])) <= HOOK_WAITING
      /\ Sorted(Tail(arrivals[c])) /\ m \in ToSet(arrivals[c]) /\ m \in Nat
      /\ ToSet(Tail(arrivals[c])) = ToSet(arrivals[c]) \ {m}
      /\ \A n \in ToSet(Tail(arrivals[c])) : m < n
    <2>1. Len(Tail(arrivals[c])) = Len(arrivals[c]) - 1 /\ Len(arrivals[c]) \in Nat /\ HOOK_WAITING \in Nat
        BY <1>1, <1>2, TailSorted, LenProperties DEF Ho!HooksAssumption
    <2>2. QED
        BY <1>1, <1>2, <2>1, TailSorted
<1>4. /\ arrivals' \in [Conversations -> Seq(Nat)] /\ arrivals'[c] = Tail(arrivals[c])
      /\ \A d \in Conversations \ {c} : arrivals'[d] = arrivals[d]
    BY <1>1, <1>3 DEF HooksType
<1>5. /\ m \in Arrival /\ m \notin missed
      /\ \A d \in Conversations : m \notin ToSet(taken[d])
      /\ \A d \in Conversations \ {c} : m \notin ToSet(arrivals[d])
    <2>1. Belongs(m, c)
        BY <1>3 DEF Belongs
    <2>2. m \in Arrival /\ m \notin missed /\ \A d \in Conversations \ {c} : ~Belongs(m, d)
        BY <1>1, <2>1 DEF OnceInv
    <2>3. m \notin ToSet(taken[c])
        <3>1. m \in ToSet(taken[c]) => m < m
            BY <1>1, <1>3 DEF OrderInv
        <3>2. ~(m < m)
            BY <1>3
        <3>3. QED
            BY <3>1, <3>2
    <2>4. QED
        BY <2>2, <2>3 DEF Belongs
<1> HIDE DEF m
<1>6. \A d \in Conversations : Len(arrivals'[d]) <= HOOK_WAITING
    BY <1>3, <1>4 DEF HooksType
<1>7. \A d \in Conversations : arrivals'[d] # <<>> => arrivals[d] # <<>>
    BY <1>1, <1>4
<1>8. \A d \in Conversations : /\ Sorted(arrivals'[d])
                               /\ ToSet(arrivals'[d]) = ToSet(arrivals[d]) \ {m}
    BY <1>3, <1>4, <1>5 DEF OrderInv
<1>9. Ho!DroppedIsSaid'
    BY <1>1 DEF Ho!DroppedIsSaid, Ho!out
<1>10. CASE missed' = missed \cup {m} /\ UNCHANGED <<workers, taken>>
    <2>1. HooksType'
        BY <1>1, <1>4, <1>5, <1>6, <1>10 DEF HooksType, Arrival, Worker, Command
    <2>2. PlaceInv'
        BY <1>1, <1>7, <1>10 DEF PlaceInv
    <2>3. OrderInv'
        BY <1>8, <1>10 DEF OrderInv
    <2>4. \A d \in Conversations : \A n : Belongs(n, d)' <=> Belongs(n, d) /\ n # m
        BY <1>5, <1>8, <1>10 DEF Belongs
    <2>5. OnceInv'
        BY <1>1, <1>10, <2>4 DEF OnceInv, Arrival
    <2>6. RaiseInv'
        BY <1>1, <1>10 DEF RaiseInv, Old, IsRaise
    <2>7. QED
        BY <1>9, <2>1, <2>2, <2>3, <2>5, <2>6
<1>11. CASE /\ Ho!Becomes(w, x) /\ UNCHANGED missed
            /\ taken' = [taken EXCEPT ![c] = Append(@, m)]
    <2>1. x \in Worker /\ x.target = c /\ x.batch = m /\ x.already = {} /\ x.asking = w.asking
        BY <1>1, <1>5 DEF Worker, Ho!Rules
    <2>2. taken[c] \in Seq(Nat) /\ Sorted(taken[c]) /\ \A n \in ToSet(taken[c]) : n < m
        BY <1>1, <1>3 DEF HooksType, OrderInv
    <2>3. /\ taken' \in [Conversations -> Seq(Nat)] /\ taken'[c] = Append(taken[c], m)
          /\ Sorted(taken'[c]) /\ ToSet(taken'[c]) = ToSet(taken[c]) \cup {m}
          /\ \A d \in Conversations \ {c} : taken'[d] = taken[d]
        <3>1. Append(taken[c], m) \in Seq(Nat) /\ Sorted(Append(taken[c], m))
              /\ ToSet(Append(taken[c], m)) = ToSet(taken[c]) \cup {m}
            BY <1>3, <2>2, AppendSorted
        <3>2. QED
            BY <1>1, <1>11, <3>1 DEF HooksType
    <2>4. \A v \in workers' : v = x \/ (v \in workers /\ v # w)
        BY <1>11 DEF Ho!Becomes
    <2>5. w.asking # None => w.batch # None
        BY DEF HooksType
    <2>6. HooksType'
        <3>1. workers' \subseteq Worker'
            BY <1>1, <2>1, <2>4 DEF HooksType, Worker, Arrival
        <3>2. \A v \in workers' : v.asking # None => v.batch # None
            BY <1>1, <2>1, <2>4, <2>5 DEF HooksType, Ho!Free
        <3>3. QED
            BY <1>1, <1>4, <1>6, <1>11, <2>3, <3>1, <3>2 DEF HooksType, Arrival, Command
    <2>7. PlaceInv'
        BY <1>1, <1>7, <1>11, <2>1, WorkerMoves
    <2>8. OrderInv'
        <3>1. ASSUME NEW d \in Conversations
              PROVE  /\ Sorted(taken'[d])
                     /\ \A n \in ToSet(taken'[d]), o \in ToSet(arrivals'[d]) : n < o
            <4>1. CASE d = c
                BY <1>3, <1>4, <2>3, <4>1, <1>1 DEF OrderInv
            <4>2. CASE d # c
                BY <1>4, <2>3, <4>2 DEF OrderInv
            <4>3. QED
                BY <4>1, <4>2
        <3>2. QED
            BY <1>8, <3>1 DEF OrderInv
    <2>9. \A d \in Conversations : \A n : Belongs(n, d)' <=> Belongs(n, d)
        BY <1>3, <1>4, <1>5, <1>8, <2>3 DEF Belongs
    <2>10. OnceInv'
        BY <1>1, <1>11, <2>9 DEF OnceInv, Arrival
    <2>11. \A n : Old(n) => Old(n)'
        <3>1. SUFFICES ASSUME NEW n, Old(n) PROVE Old(n)'
            OBVIOUS
        <3>2. n # m /\ \E d \in Conversations : n \in ToSet(taken'[d])
            BY <1>5, <2>3, <3>1 DEF Old
        <3>3. \A v \in workers' : v.batch # None /\ v.batch = n => n \in v.already
            BY <2>1, <2>4, <3>1, <3>2 DEF Old
        <3>4. QED
            BY <3>2, <3>3 DEF Old
    <2>12. RaiseInv'
        <3>1. \A v \in workers' : v.batch # None => v.batch \in ToSet(taken'[v.target])
            <4>1. TAKE v \in workers'
            <4>2. CASE v = x
                BY <2>1, <2>3, <4>2
            <4>3. CASE v \in workers
                BY <2>3, <4>3 DEF RaiseInv, HooksType, Worker
            <4>4. QED
                BY <2>4, <4>2, <4>3
        <3>2. QED
            BY <1>1, <2>11, <3>1 DEF RaiseInv, IsRaise
    <2>13. QED
        BY <1>9, <2>6, <2>7, <2>8, <2>10, <2>12
<1>12. QED
    BY <1>10, <1>11 DEF Ho!NextArrival, m

LEMMA WorkerStandsDown ==
    ASSUME HooksInv, NEW w \in workers, Ho!StandDown(w)
    PROVE  HooksInv'
<1> USE DEF HooksInv
<1>1. /\ w \in Worker /\ arrivals[w.target] = <<>>
      /\ workers' = workers \ {w} /\ draining' = draining \ {w.target}
      /\ UNCHANGED <<arrivals, missed, strikes, hooksInbox, taken, raised, told, arrived>>
    BY DEF Ho!StandDown, HooksType
<1>2. HooksType'
    BY <1>1 DEF HooksType, Arrival, Worker, Command
<1>3. PlaceInv'
    BY <1>1 DEF PlaceInv
<1>4. OrderInv' /\ OnceInv' /\ Ho!DroppedIsSaid'
    BY <1>1 DEF OrderInv, OnceInv, Belongs, Arrival, Ho!DroppedIsSaid, Ho!out
<1>5. RaiseInv'
    BY <1>1 DEF RaiseInv, Old, IsRaise
<1>6. QED
    BY <1>2, <1>3, <1>4, <1>5

-----------------------------------------------------------------------------
(* A worker asks the rules.                                                *)

LEMMA RuleAsked ==
    ASSUME HooksInv, NEW w \in workers, Ho!Ask(w)
    PROVE  HooksInv'
<1> USE DEF HooksInv
<1>1. /\ w \in Worker /\ ~Ho!Free(w) /\ w.asking = None
      /\ UNCHANGED <<arrivals, draining, missed, strikes, hooksInbox, taken, raised, told, arrived>>
    BY DEF Ho!Ask, Ho!waiting, HooksType
<1>2. PICK x : /\ Ho!Becomes(w, x) /\ x \in Worker /\ x.target = w.target
               /\ x.asking # None => x.batch # None
               /\ x.batch # None => x.batch = w.batch /\ x.already = w.already
    <2>1. CASE w.left = {} /\ Ho!Becomes(w, Ho!Idle(w.target))
        BY <1>1, <2>1 DEF Ho!Idle, Worker
    <2>2. ASSUME NEW p \in w.left, Ho!Becomes(w, [w EXCEPT !.asking = p, !.left = @ \ {p}])
          PROVE  \E x : /\ Ho!Becomes(w, x) /\ x \in Worker /\ x.target = w.target
                        /\ x.asking # None => x.batch # None
                        /\ x.batch # None => x.batch = w.batch /\ x.already = w.already
        <3> DEFINE x == [w EXCEPT !.asking = p, !.left = @ \ {p}]
        <3>1. p \in Plugins /\ w.batch # None
            BY <1>1, <2>2 DEF Worker, Ho!Free
        <3>2. /\ x \in Worker /\ x.target = w.target /\ x.batch = w.batch
              /\ x.already = w.already
            BY <1>1, <3>1 DEF Worker
        <3> HIDE DEF x
        <3>3. Ho!Becomes(w, x)
            BY <2>2 DEF x
        <3>4. QED
            BY <3>1, <3>2, <3>3
    <2>3. QED
        BY <2>1, <2>2 DEF Ho!Ask
<1>3. \A v \in workers' : v = x \/ v \in workers
    BY <1>2 DEF Ho!Becomes
<1>4. HooksType'
    <2>1. workers' \subseteq Worker' /\ \A v \in workers' : v.asking # None => v.batch # None
        BY <1>1, <1>2, <1>3 DEF HooksType, Worker, Arrival
    <2>2. QED
        BY <1>1, <2>1 DEF HooksType, Arrival, Command
<1>5. PlaceInv'
    BY <1>1, <1>2, WorkerMoves
<1>6. OrderInv' /\ OnceInv' /\ Ho!DroppedIsSaid'
    BY <1>1 DEF OrderInv, OnceInv, Belongs, Arrival, Ho!DroppedIsSaid, Ho!out
<1>7. RaiseInv'
    <2>1. \A n : Old(n) => Old(n)'
        BY <1>1, <1>2, <1>3 DEF Old
    <2>2. \A v \in workers' : v.batch # None => v.batch \in ToSet(taken[v.target])
        BY <1>2, <1>3 DEF RaiseInv
    <2>3. QED
        BY <1>1, <2>1, <2>2 DEF RaiseInv, IsRaise
<1>8. QED
    BY <1>4, <1>5, <1>6, <1>7

\* What is put behind the commands that wait.
LEMMA CommandSent ==
    ASSUME hooksInbox \in Seq(Command), NEW c \in Command, hooksInbox' = Append(hooksInbox, c)
    PROVE  /\ hooksInbox' \in Seq(Command) /\ Len(hooksInbox) \in Nat
           /\ DOMAIN hooksInbox = 1..Len(hooksInbox) /\ DOMAIN hooksInbox' = 1..Len(hooksInbox) + 1
           /\ \A k \in 1..Len(hooksInbox) : hooksInbox'[k] = hooksInbox[k]
           /\ hooksInbox'[Len(hooksInbox) + 1] = c
           /\ \A k : IsRaise(k)' => IsRaise(k) \/ (k = Len(hooksInbox) + 1 /\ c.what = "Raised")
           /\ \A k : IsRaise(k) => hooksInbox'[k] = hooksInbox[k]
<1>1. /\ hooksInbox' \in Seq(Command) /\ Len(hooksInbox') = Len(hooksInbox) + 1 /\ Len(hooksInbox) \in Nat
      /\ \A k \in 1..Len(hooksInbox) : hooksInbox'[k] = hooksInbox[k]
      /\ hooksInbox'[Len(hooksInbox) + 1] = c
    BY AppendProperties, LenProperties
<1>2. DOMAIN hooksInbox = 1..Len(hooksInbox) /\ DOMAIN hooksInbox' = 1..Len(hooksInbox) + 1
    BY <1>1, LenProperties
<1>3. \A k \in 1..Len(hooksInbox') : k \in 1..Len(hooksInbox) \/ k = Len(hooksInbox) + 1
    BY <1>1
<1>4. QED
    BY <1>1, <1>2, <1>3 DEF IsRaise

LEMMA RuleFailed ==
    ASSUME Ho!HooksAssumption, HooksInv, NEW w \in workers, Ho!RuleFails(w)
    PROVE  HooksInv'
<1> USE DEF HooksInv
<1> DEFINE p == w.asking
           x == [w EXCEPT !.asking = None]
           stopped == [what |-> "PluginStopped", plugin |-> p]
<1>1. /\ w \in Worker /\ p \in Plugins /\ Ho!Becomes(w, x)
      /\ strikes' = [strikes EXCEPT ![p] = @ + 1]
      /\ hooksInbox' = IF strikes[p] + 1 = HOOK_STRIKES THEN Append(hooksInbox, stopped) ELSE hooksInbox
      /\ UNCHANGED <<arrivals, draining, missed, taken, raised, told, arrived>>
    BY DEF Ho!RuleFails, Ho!waiting, Ho!strike, HooksType, Worker
<1>2. x \in Worker /\ x.target = w.target /\ x.batch = w.batch /\ x.already = w.already /\ x.asking = None
    BY <1>1 DEF Worker
<1>3. \A v \in workers' : v = x \/ v \in workers
    BY <1>1 DEF Ho!Becomes
<1>4. stopped \in Command /\ hooksInbox \in Seq(Command)
    BY <1>1 DEF Command, HooksType
<1> HIDE DEF x
<1>5. /\ hooksInbox' \in Seq(Command)
      /\ \A k : IsRaise(k)' => IsRaise(k) /\ hooksInbox'[k] = hooksInbox[k]
      /\ \A k \in DOMAIN hooksInbox : k \in DOMAIN hooksInbox' /\ hooksInbox'[k] = hooksInbox[k]
    <2>1. CASE strikes[p] + 1 = HOOK_STRIKES
        <3>1. hooksInbox' = Append(hooksInbox, stopped) /\ stopped.what # "Raised"
            BY <1>1, <2>1
        <3> HIDE DEF stopped
        <3>2. /\ hooksInbox' \in Seq(Command) /\ Len(hooksInbox) \in Nat
              /\ DOMAIN hooksInbox = 1..Len(hooksInbox) /\ DOMAIN hooksInbox' = 1..Len(hooksInbox) + 1
              /\ \A k \in 1..Len(hooksInbox) : hooksInbox'[k] = hooksInbox[k]
              /\ \A k : IsRaise(k)' => IsRaise(k)
              /\ \A k : IsRaise(k) => hooksInbox'[k] = hooksInbox[k]
            BY <1>4, <3>1, CommandSent
        <3>3. QED
            BY <3>2
    <2>2. CASE strikes[p] + 1 # HOOK_STRIKES
        BY <1>1, <1>4, <2>2 DEF IsRaise
    <2>3. QED
        BY <2>1, <2>2
<1>6. HooksType'
    <2>1. workers' \subseteq Worker' /\ \A v \in workers' : v.asking # None => v.batch # None
        BY <1>1, <1>2, <1>3 DEF HooksType, Worker, Arrival
    <2>2. strikes' \in [Plugins -> Nat]
        BY <1>1 DEF HooksType
    <2>3. QED
        BY <1>1, <1>5, <2>1, <2>2 DEF HooksType, Arrival, Command
<1>7. PlaceInv'
    BY <1>1, <1>2, WorkerMoves
<1>8. OrderInv' /\ OnceInv'
    BY <1>1 DEF OrderInv, OnceInv, Belongs, Arrival
<1>9. RaiseInv'
    <2>1. \A n : Old(n) => Old(n)'
        BY <1>1, <1>2, <1>3 DEF Old
    <2>2. \A v \in workers' : v.batch # None => v.batch \in ToSet(taken[v.target])
        BY <1>2, <1>3 DEF RaiseInv
    <2>3. (\A k : IsRaise(k) => Old(hooksInbox[k].message))'
        BY <1>5, <2>1 DEF RaiseInv
    <2>4. (\A k, l : IsRaise(k) /\ IsRaise(l) /\ hooksInbox[k].message = hooksInbox[l].message => k = l)'
        BY <1>5 DEF RaiseInv
    <2>5. (\A k \in 1..Len(raised) : \A l : IsRaise(l) => raised[k] # hooksInbox[l].message)'
        <3>1. SUFFICES ASSUME NEW k \in 1..Len(raised), NEW l, IsRaise(l)'
                       PROVE  raised[k] # hooksInbox'[l].message
            BY <1>1
        <3>2. IsRaise(l) /\ hooksInbox'[l] = hooksInbox[l]
            BY <1>5, <3>1
        <3>3. QED
            BY <3>1, <3>2 DEF RaiseInv
    <2>6. (\A k \in 1..Len(raised) : Old(raised[k]))'
        BY <1>1, <2>1 DEF RaiseInv
    <2>7. (\A k, l \in 1..Len(raised) : raised[k] = raised[l] => k = l)'
        BY <1>1 DEF RaiseInv
    <2>8. (\A v \in workers : v.batch # None => v.batch \in ToSet(taken[v.target]))'
        BY <1>1, <2>2
    <2>9. QED
        BY <2>3, <2>4, <2>5, <2>6, <2>7, <2>8 DEF RaiseInv
<1>10. Ho!DroppedIsSaid'
    <2>1. SUFFICES ASSUME NEW q \in Plugins, Ho!out(q)', ~(told[q] > 0)
                   PROVE  \E k \in DOMAIN hooksInbox' : hooksInbox'[k].what = "PluginStopped" /\ hooksInbox'[k].plugin = q
        BY <1>1 DEF Ho!DroppedIsSaid
    <2>2. CASE Ho!out(q)
        <3>1. PICK k \in DOMAIN hooksInbox : hooksInbox[k].what = "PluginStopped" /\ hooksInbox[k].plugin = q
            BY <2>1, <2>2 DEF Ho!DroppedIsSaid
        <3>2. QED
            BY <1>5, <3>1
    <2>3. CASE ~Ho!out(q)
        <3>1. q = p /\ strikes[p] + 1 = HOOK_STRIKES
            BY <1>1, <2>1, <2>3 DEF Ho!out, HooksType, Ho!HooksAssumption
        <3>2. QED
            BY <1>1, <1>4, <3>1, CommandSent
    <2>4. QED
        BY <2>2, <2>3
<1>11. QED
    BY <1>6, <1>7, <1>8, <1>9, <1>10

LEMMA RuleAnswered ==
    ASSUME Ho!HooksAssumption, HooksInv, NEW w \in workers, NEW loud \in BOOLEAN, Ho!RuleAnswers(w, loud)
    PROVE  HooksInv'
<1> USE DEF HooksInv
<1> DEFINE p == w.asking
           m == w.batch
           x == [w EXCEPT !.asking = None, !.already = IF loud THEN @ \cup {m} ELSE @]
           order == [what |-> "Raised", message |-> m]
           goes == loud /\ m \notin w.already
<1>1. /\ w \in Worker /\ p \in Plugins /\ Ho!Becomes(w, x)
      /\ strikes' = [strikes EXCEPT ![p] = 0]
      /\ hooksInbox' = IF goes THEN Append(hooksInbox, order) ELSE hooksInbox
      /\ UNCHANGED <<arrivals, draining, missed, taken, raised, told, arrived>>
    BY DEF Ho!RuleAnswers, Ho!waiting, HooksType, Worker
<1>2. m # None /\ m \in Arrival /\ m \in Nat /\ m \in ToSet(taken[w.target]) /\ w.target \in Conversations
    <2>1. m # None
        BY DEF Ho!RuleAnswers, HooksType
    <2>2. m \in Arrival /\ w.target \in Conversations
        BY <1>1, <2>1 DEF Worker
    <2>3. m \in Nat
        BY <2>2 DEF Arrival
    <2>4. m \in ToSet(taken[w.target])
        BY <2>1 DEF RaiseInv
    <2>5. QED
        BY <2>1, <2>2, <2>3, <2>4
<1>3. /\ x \in Worker /\ x.target = w.target /\ x.batch = m /\ x.asking = None
      /\ x.already = IF loud THEN w.already \cup {m} ELSE w.already
    BY <1>1, <1>2 DEF Worker
<1>4. \A v \in workers' : v = x \/ (v \in workers /\ v # w)
    BY <1>1 DEF Ho!Becomes
<1>5. order \in Command /\ order.what = "Raised" /\ order.message = m /\ hooksInbox \in Seq(Command)
    BY <1>2 DEF Command, HooksType
<1> HIDE DEF x, order
<1>6. /\ hooksInbox' \in Seq(Command) /\ Len(hooksInbox) \in Nat
      /\ \A k : IsRaise(k)' => \/ IsRaise(k) /\ hooksInbox'[k] = hooksInbox[k]
                               \/ goes /\ k = Len(hooksInbox) + 1 /\ hooksInbox'[k].message = m
      /\ \A k \in DOMAIN hooksInbox : k \in DOMAIN hooksInbox' /\ hooksInbox'[k] = hooksInbox[k]
    <2>1. CASE goes
        <3>1. hooksInbox' = Append(hooksInbox, order)
            BY <1>1, <2>1
        <3>2. QED
            <4>1. /\ hooksInbox' \in Seq(Command) /\ Len(hooksInbox) \in Nat
                  /\ DOMAIN hooksInbox = 1..Len(hooksInbox) /\ DOMAIN hooksInbox' = 1..Len(hooksInbox) + 1
                  /\ \A k \in 1..Len(hooksInbox) : hooksInbox'[k] = hooksInbox[k]
                  /\ hooksInbox'[Len(hooksInbox) + 1] = order
                  /\ \A k : IsRaise(k)' => IsRaise(k) \/ k = Len(hooksInbox) + 1
                  /\ \A k : IsRaise(k) => hooksInbox'[k] = hooksInbox[k]
                BY <1>5, <3>1, CommandSent
            <4>2. QED
                BY <1>5, <2>1, <4>1
    <2>2. CASE ~goes
        BY <1>1, <1>5, <2>2, LenProperties DEF IsRaise
    <2>3. QED
        BY <2>1, <2>2
<1>7. HooksType'
    <2>1. workers' \subseteq Worker' /\ \A v \in workers' : v.asking # None => v.batch # None
        BY <1>1, <1>3, <1>4 DEF HooksType, Worker, Arrival
    <2>2. strikes' \in [Plugins -> Nat]
        BY <1>1 DEF HooksType
    <2>3. QED
        BY <1>1, <1>6, <2>1, <2>2 DEF HooksType, Arrival, Command
<1>8. PlaceInv'
    BY <1>1, <1>3, WorkerMoves
<1>9. OrderInv' /\ OnceInv'
    BY <1>1 DEF OrderInv, OnceInv, Belongs, Arrival
<1>10. RaiseInv'
    <2>1. \A n : Old(n) => Old(n)'
        BY <1>1, <1>3, <1>4 DEF Old
    <2>2. \A v \in workers' : v.batch # None => v.batch \in ToSet(taken[v.target])
        BY <1>2, <1>3, <1>4 DEF RaiseInv
    \* No other worker has the message.
    <2>3. goes => Old(m)'
        <3>1. ASSUME goes, NEW v \in workers', v.batch = m PROVE m \in v.already
            <4>1. CASE v = x
                BY <1>3, <3>1, <4>1
            <4>2. CASE v \in workers /\ v # w
                <5>1. v.batch \in ToSet(taken[v.target]) /\ v.target \in Conversations
                    BY <1>2, <3>1, <4>2 DEF RaiseInv, HooksType, Worker
                <5>2. v.target = w.target
                    BY <1>2, <3>1, <5>1 DEF OnceInv, Belongs
                <5>3. QED
                    BY <4>2, <5>2 DEF PlaceInv
            <4>3. QED
                BY <1>4, <3>1, <4>1, <4>2
        <3>2. QED
            BY <1>1, <1>2, <3>1 DEF Old
    <2>4. goes => ~Old(m)
        BY <1>2 DEF Old
    <2>5. (\A k : IsRaise(k) => Old(hooksInbox[k].message))'
        BY <1>6, <2>1, <2>3 DEF RaiseInv
    <2>6. (\A k, l : IsRaise(k) /\ IsRaise(l) /\ hooksInbox[k].message = hooksInbox[l].message => k = l)'
        <3>1. SUFFICES ASSUME NEW k, NEW l, IsRaise(k)', IsRaise(l)', hooksInbox'[k].message = hooksInbox'[l].message
                       PROVE  k = l
            OBVIOUS
        <3>2. CASE IsRaise(k) /\ hooksInbox'[k] = hooksInbox[k] /\ IsRaise(l) /\ hooksInbox'[l] = hooksInbox[l]
            BY <3>1, <3>2 DEF RaiseInv
        <3>3. CASE IsRaise(k) /\ hooksInbox'[k] = hooksInbox[k] /\ goes /\ hooksInbox'[l].message = m
            BY <2>4, <3>1, <3>3 DEF RaiseInv
        <3>4. CASE IsRaise(l) /\ hooksInbox'[l] = hooksInbox[l] /\ goes /\ hooksInbox'[k].message = m
            BY <2>4, <3>1, <3>4 DEF RaiseInv
        <3>5. QED
            BY <1>6, <3>1, <3>2, <3>3, <3>4
    <2>7. (\A k \in 1..Len(raised) : \A l : IsRaise(l) => raised[k] # hooksInbox[l].message)'
        <3>1. SUFFICES ASSUME NEW k \in 1..Len(raised), NEW l, IsRaise(l)'
                       PROVE  raised[k] # hooksInbox'[l].message
            BY <1>1
        <3>2. Old(raised[k])
            BY <3>1 DEF RaiseInv
        <3>3. CASE IsRaise(l) /\ hooksInbox'[l] = hooksInbox[l]
            BY <3>1, <3>3 DEF RaiseInv
        <3>4. CASE goes /\ hooksInbox'[l].message = m
            BY <2>4, <3>2, <3>4
        <3>5. QED
            BY <1>6, <3>1, <3>3, <3>4
    <2>8. (\A k \in 1..Len(raised) : Old(raised[k]))'
        BY <1>1, <2>1 DEF RaiseInv
    <2>9. (\A k, l \in 1..Len(raised) : raised[k] = raised[l] => k = l)'
        BY <1>1 DEF RaiseInv
    <2>10. (\A v \in workers : v.batch # None => v.batch \in ToSet(taken[v.target]))'
        BY <1>1, <2>2
    <2>11. QED
        BY <2>5, <2>6, <2>7, <2>8, <2>9, <2>10 DEF RaiseInv
<1>11. Ho!DroppedIsSaid'
    <2>1. SUFFICES ASSUME NEW q \in Plugins, Ho!out(q)', ~(told[q] > 0)
                   PROVE  \E k \in DOMAIN hooksInbox' : hooksInbox'[k].what = "PluginStopped" /\ hooksInbox'[k].plugin = q
        BY <1>1 DEF Ho!DroppedIsSaid
    <2>2. Ho!out(q)
        BY <1>1, <2>1 DEF Ho!out, HooksType, Ho!HooksAssumption
    <2>3. PICK k \in DOMAIN hooksInbox : hooksInbox[k].what = "PluginStopped" /\ hooksInbox[k].plugin = q
        BY <2>1, <2>2 DEF Ho!DroppedIsSaid
    <2>4. QED
        BY <1>6, <2>3
<1>12. QED
    BY <1>7, <1>8, <1>9, <1>10, <1>11

-----------------------------------------------------------------------------
(* The invariant, and what it gives.                                       *)

LEMMA HooksNext ==
    ASSUME Ho!HooksAssumption, HooksInv, [Ho!Next]_(Ho!vars)
    PROVE  HooksInv'
<1>1. CASE UNCHANGED Ho!vars
    BY <1>1 DEF Ho!vars, Ho!waiting, HooksInv, HooksType, PlaceInv, OrderInv, OnceInv, RaiseInv, Ho!DroppedIsSaid,
                Belongs, Arrival, Command, Worker, Old, IsRaise, Ho!out
<1>2. CASE Ho!apply
    BY <1>2, SessionTakes
<1>3. ASSUME NEW c \in Conversations, Ho!notify(c) PROVE HooksInv'
    BY <1>3, ArrivalQueues
<1>4. ASSUME NEW p \in Plugins, Ho!PluginChanged(p) PROVE HooksInv'
    BY <1>4, StrikesAlone
<1>5. ASSUME NEW w \in workers,
             \/ Ho!NextArrival(w) \/ Ho!StandDown(w) \/ Ho!Ask(w) \/ Ho!RuleFails(w)
             \/ \E loud \in BOOLEAN : Ho!RuleAnswers(w, loud)
      PROVE  HooksInv'
    BY <1>5, ArrivalTaken, WorkerStandsDown, RuleAsked, RuleFailed, RuleAnswered
<1>6. QED
    BY <1>1, <1>2, <1>3, <1>4, <1>5 DEF Ho!Next

LEMMA HooksInductive == ASSUME Ho!HooksAssumption PROVE Ho!Spec => []HooksInv
<1>1. Ho!Init => HooksInv
    BY HooksInit
<1>2. HooksInv /\ [Ho!Next]_(Ho!vars) => HooksInv'
    BY HooksNext
<1>3. QED
    BY <1>1, <1>2, PTL DEF Ho!Spec

\* What waits for the rules is bounded and a worker asks only what there is, for
\* any conversations, rules and bounds (task.rs, queue, drain_notifications).
THEOREM HooksTypeCorrect == ASSUME Ho!HooksAssumption PROVE Ho!Spec => []Ho!TypeOK
<1>1. HooksInv => Ho!TypeOK
    BY DEF HooksInv, HooksType, Ho!TypeOK, Worker, Arrival
<1>2. QED
    BY <1>1, HooksInductive, PTL

\* Every conversation with something waiting has exactly one worker, however arriving
\* and standing down cross (task.rs, queue, next_arrival).
THEOREM WorkersCorrect == ASSUME Ho!HooksAssumption PROVE Ho!Spec => []Ho!OneWorkerEach
<1>1. ASSUME HooksInv PROVE Ho!OneWorkerEach
    <2>1. SUFFICES ASSUME NEW c \in Conversations
                   PROVE  LET its == {w \in workers : w.target = c}
                          IN  /\ Cardinality(its) = (IF c \in draining THEN 1 ELSE 0)
                              /\ arrivals[c] # <<>> => its # {}
        BY SameSets DEF Ho!OneWorkerEach
    <2> DEFINE its == {w \in workers : w.target = c}
    <2>2. CASE c \in draining
        <3>1. PICK w \in workers : w.target = c
            BY <1>1, <2>2 DEF HooksInv, PlaceInv
        <3>2. its = {w}
            BY <1>1, <3>1 DEF HooksInv, PlaceInv
        <3>3. Cardinality(its) = 1
            BY <3>2, FS_Singleton
        <3>4. QED
            BY <2>2, <3>2, <3>3
    <2>3. CASE c \notin draining
        <3>1. its = {} /\ arrivals[c] = <<>>
            BY <1>1, <2>3 DEF HooksInv, PlaceInv
        <3>2. Cardinality(its) = 0
            BY <3>1, FS_EmptySet
        <3>3. QED
            BY <2>3, <3>1, <3>2
    <2>4. QED
        BY <2>2, <2>3
<1>2. QED
    BY <1>1, HooksInductive, PTL

\* An arrival is taken once and in its turn, or passed over, and a message is raised
\* once however many rules ask for it (task.rs, next_arrival, drain_notifications).
THEOREM TakenCorrect == ASSUME Ho!HooksAssumption PROVE Ho!Spec => []Ho!TakenOnce
<1>1. ASSUME HooksInv PROVE Ho!TakenOnce
    <2> USE <1>1 DEF HooksInv
    <2>1. ASSUME NEW c \in Conversations
          PROVE  \A k \in 1..(Len(taken[c] \o arrivals[c]) - 1) :
                     (taken[c] \o arrivals[c])[k] < (taken[c] \o arrivals[c])[k + 1]
        <3>1. taken[c] \in Seq(Nat) /\ arrivals[c] \in Seq(Nat)
            BY DEF HooksType
        <3> DEFINE s == taken[c] \o arrivals[c]
        <3>2. Sorted(s) /\ s \in Seq(Nat)
            BY <3>1, ConcatSorted DEF OrderInv
        <3>3. Len(s) \in Nat
            BY <3>2, LenProperties
        <3> HIDE DEF s
        <3>4. \A k \in 1..(Len(s) - 1) : s[k] < s[k + 1]
            BY <3>2, <3>3 DEF Sorted
        <3>5. QED
            BY <3>4 DEF s
    <2>2. ASSUME NEW m \in 1..arrived
          PROVE  Cardinality({c \in Conversations : m \in ToSet(taken[c]) \cup ToSet(arrivals[c])})
                     = (IF m \in missed THEN 0 ELSE 1)
        <3> DEFINE its == {c \in Conversations : m \in ToSet(taken[c]) \cup ToSet(arrivals[c])}
        <3>1. \A c \in Conversations : c \in its <=> Belongs(m, c)
            BY DEF Belongs
        <3>2. CASE m \in missed
            <4>1. its = {}
                BY <3>1, <3>2 DEF OnceInv
            <4>2. QED
                BY <3>2, <4>1, FS_EmptySet
        <3>3. CASE m \notin missed
            <4>1. PICK c \in Conversations : Belongs(m, c)
                BY <2>2, <3>3 DEF OnceInv, Arrival
            <4>2. its = {c}
                BY <3>1, <4>1 DEF OnceInv
            <4>3. QED
                BY <3>3, <4>2, FS_Singleton
        <3>4. QED
            BY <3>2, <3>3
    <2>3. LET asks == raised \o [k \in DOMAIN hooksInbox |-> IF hooksInbox[k].what = "Raised" THEN hooksInbox[k].message ELSE None]
          IN  \A k, l \in DOMAIN asks : k # l /\ asks[k] = asks[l] => asks[k] = None
        <3> DEFINE orders == [k \in DOMAIN hooksInbox |-> IF hooksInbox[k].what = "Raised" THEN hooksInbox[k].message ELSE None]
                   asks == raised \o orders
        <3>1. /\ DOMAIN hooksInbox = 1..Len(hooksInbox) /\ Len(hooksInbox) \in Nat
              /\ DOMAIN raised = 1..Len(raised) /\ Len(raised) \in Nat
              /\ \A k \in 1..Len(hooksInbox) : hooksInbox[k] \in Command
            BY LenProperties, ElementOfSeq DEF HooksType
        <3>2. orders \in Seq(Nat \cup {None}) /\ Len(orders) = Len(hooksInbox)
            <4>1. orders \in [1..Len(hooksInbox) -> Nat \cup {None}]
                BY <3>1 DEF Command
            <4>2. QED
                BY <3>1, <4>1, IsASeq, LenProperties
        <3>3. raised \in Seq(Nat \cup {None})
            BY SeqMonotonic DEF HooksType
        <3>4. /\ DOMAIN asks = 1..Len(raised) + Len(hooksInbox)
              /\ \A k \in 1..Len(raised) + Len(hooksInbox) :
                     asks[k] = IF k <= Len(raised) THEN raised[k] ELSE orders[k - Len(raised)]
            BY <3>1, <3>2, <3>3, ConcatProperties, LenProperties
        <3>5. \A k \in 1..Len(hooksInbox) : /\ orders[k] # None => IsRaise(k) /\ orders[k] = hooksInbox[k].message
            BY <3>1 DEF IsRaise
        <3> HIDE DEF orders, asks
        <3>6. SUFFICES ASSUME NEW k \in DOMAIN asks, NEW l \in DOMAIN asks, k # l, asks[k] = asks[l], asks[k] # None
                       PROVE  FALSE
            BY DEF asks, orders
        <3>7. k \in 1..Len(raised) + Len(hooksInbox) /\ l \in 1..Len(raised) + Len(hooksInbox)
            BY <3>4, <3>6
        <3> DEFINE Back(i) == i - Len(raised)
        <3>8. \A i \in 1..Len(raised) + Len(hooksInbox) :
                  \/ i \in 1..Len(raised) /\ asks[i] = raised[i]
                  \/ /\ Back(i) \in 1..Len(hooksInbox) /\ asks[i] = orders[Back(i)]
                     /\ i = Back(i) + Len(raised)
            BY <3>1, <3>4
        <3>9. \A i \in 1..Len(raised) + Len(hooksInbox) :
                  asks[i] # None =>
                      \/ i \in 1..Len(raised) /\ asks[i] = raised[i]
                      \/ IsRaise(Back(i)) /\ asks[i] = hooksInbox[Back(i)].message /\ i = Back(i) + Len(raised)
            BY <3>5, <3>8
        <3> HIDE DEF Back
        <3>10. CASE k \in 1..Len(raised) /\ asks[k] = raised[k]
            <4>1. CASE l \in 1..Len(raised) /\ asks[l] = raised[l]
                <5>1. raised[k] = raised[l]
                    BY <3>6, <3>10, <4>1
                <5>2. QED
                    BY <3>6, <3>10, <4>1, <5>1 DEF RaiseInv
            <4>2. CASE IsRaise(Back(l)) /\ asks[l] = hooksInbox[Back(l)].message
                <5>1. raised[k] = hooksInbox[Back(l)].message
                    BY <3>6, <3>10, <4>2
                <5>2. QED
                    BY <3>10, <4>2, <5>1 DEF RaiseInv
            <4>3. QED
                BY <3>6, <3>7, <3>9, <4>1, <4>2
        <3>11. CASE IsRaise(Back(k)) /\ asks[k] = hooksInbox[Back(k)].message /\ k = Back(k) + Len(raised)
            BY <3>6, <3>7, <3>9, <3>11 DEF RaiseInv
        <3>12. QED
            BY <3>6, <3>7, <3>9, <3>10, <3>11
    <2>4. QED
        BY <2>1, <2>2, <2>3, SameSets DEF Ho!TakenOnce
<1>2. QED
    BY <1>1, HooksInductive, PTL

\* A rule that failed too often is not dropped in silence, whatever fails, answers and
\* changes across the conversations (task.rs, strike, report_stopped).
THEOREM DroppedCorrect == ASSUME Ho!HooksAssumption PROVE Ho!Spec => []Ho!DroppedIsSaid
<1>1. HooksInv => Ho!DroppedIsSaid
    BY DEF HooksInv
<1>2. QED
    BY <1>1, HooksInductive, PTL
=============================================================================
