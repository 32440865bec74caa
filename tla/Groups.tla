------------------------------- MODULE Groups -------------------------------
(***************************************************************************)
(* Which lines of a conversation belong together, on the evidence of what  *)
(* people typed: assignGroups in src/src/components/timeline/groups.ts.    *)
(* A line is reduced to what that function reads of it: who said it, when, *)
(* the topic it names in brackets and the nick it is addressed to.         *)
(***************************************************************************)
EXTENDS Integers, Sequences, FiniteSetsExt, SequencesExt

CONSTANTS
  People,           \* the nicks of the conversation, folded
  ADDRESS_REACH,    \* how much other talk an answer may reach over
  DECLARED_GAP,     \* the silence that ends a declared group
  None              \* no topic, nobody, no group

GroupsAssumption ==
  /\ ADDRESS_REACH \in Nat
  /\ DECLARED_GAP \in Nat
  /\ None \notin People

\* The one element of a set; binding a value in a set has TLC compute it once.
The(S) == CHOOSE x \in S : TRUE

IsSpeech(message) == message.kind \in {"privmsg", "action"}

\* The latest line up to i that names a topic, 0 when there is none.
LastNamed(speech, i) ==
  Max({0} \cup {j \in 1 .. i : speech[j].topic # None})

\* Naming a topic opens a group that runs until a silence, and the same name
\* rejoins the group it opened first.
Declared(speech, i) ==
  LET named  == LastNamed(speech, i)
      opener == CHOOSE j \in 1 .. i :
                  /\ speech[j].topic = speech[named].topic
                  /\ \A k \in 1 .. j - 1 : speech[k].topic # speech[j].topic
  IN  IF \/ named = 0
         \/ \E k \in named + 1 .. i : speech[k].at - speech[k - 1].at > DECLARED_GAP
      THEN None
      ELSE [id |-> speech[opener].id, grade |-> "declared",
            name |-> speech[named].topic, opener |-> speech[opener].nick,
            between |-> People]

\* The latest line before i by the person line i is addressed to, 0 when none.
Answered(speech, i) ==
  Max({0} \cup {j \in 1 .. i - 1 : speech[j].nick = speech[i].to})

\* The group an answer joins or opens: that of the line it answers. A group
\* opened here is between the two of them and admits nobody else.
GroupOf(held, speech, i) ==
  LET answering == Answered(speech, i)
  IN  IF held[answering] # None THEN held[answering]
      ELSE [id |-> speech[answering].id, grade |-> "addressed", name |-> None,
            opener |-> speech[answering].nick,
            between |-> {speech[answering].nick, speech[i].nick}]

\* Whether a group other than the one line i would join already holds a line
\* between the one it answers and itself.
Crossed(held, speech, i) ==
  \E k \in Answered(speech, i) .. i : held[k] \notin {None, GroupOf(held, speech, i)}

\* A plausible slip in IsAnswer: an answer reaches however far back.
IsAnswerFromAfar(held, speech, present, i) ==
  /\ speech[i].to \in present
  /\ Answered(speech, i) # 0
  /\ held[i] = None
  /\ speech[i].to # speech[i].nick
  /\ {speech[i].nick, speech[i].to} \subseteq GroupOf(held, speech, i).between
  /\ ~Crossed(held, speech, i)

\* Whether line i answers a line near enough, of somebody here, in a group
\* that admits the two of them and that can be drawn unbroken.
IsAnswer(held, speech, present, i) ==
  /\ speech[i].to \in present
  /\ Answered(speech, i) # 0
  /\ held[i] = None
  /\ i - Answered(speech, i) - 1 <= ADDRESS_REACH
  /\ speech[i].to # speech[i].nick
  /\ {speech[i].nick, speech[i].to} \subseteq GroupOf(held, speech, i).between
  /\ ~Crossed(held, speech, i)

\* An answer takes in every line without a group from the one it answers to
\* itself.
Extended(held, speech, present, i) ==
  IF ~IsAnswer(held, speech, present, i) THEN held
  ELSE [k \in DOMAIN held |->
          IF k \in Answered(speech, i) .. i /\ held[k] = None
          THEN GroupOf(held, speech, i) ELSE held[k]]

Addressed(speech, present) ==
  LET held[i \in 0 .. Len(speech)] ==
        IF i = 0 THEN [k \in DOMAIN speech |-> Declared(speech, k)]
        ELSE The({Extended(before, speech, present, i) : before \in {held[i - 1]}})
  IN  held[Len(speech)]

\* Every line mapped to its group, None for the lines that have none.
AssignGroups(messages, present) ==
  LET speech == SelectSeq(messages, IsSpeech)
      held   == The({Addressed(speech, present)})
      at(id) == {k \in DOMAIN speech : speech[k].id = id}
  IN  [id \in {messages[k].id : k \in DOMAIN messages} |->
         IF at(id) = {} THEN None ELSE held[The(at(id))]]
=============================================================================
