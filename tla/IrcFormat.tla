------------------------------ MODULE IrcFormat ------------------------------
(***************************************************************************)
(* The formatting codes in a line: bold, colours and the rest, drawn as    *)
(* runs (src/src/lib/ircFormat.ts).  The line was parsed as Markdown       *)
(* first, so a message is the text of its spans in document order and the  *)
(* codes are read across them with one cursor; where codes are not drawn   *)
(* the same line has them taken out by a pattern of its own.               *)
(***************************************************************************)
EXTENDS Naturals, Sequences, FiniteSets, SequencesExt

CONSTANTS
  Messages,         \* sequences of spans: a kind and the characters in it
  Digits, Worth,    \* the digits, and what each counts for
  HexDigits,        \* the digits of a colour in hex
  TRIPLE,           \* how many of those a colour has, six
  Nearest(_),       \* the code nearest to a colour in hex
  None

COLOUR == "\\x03"
HEX == "\\x04"
RESET == "\\x0f"
TOGGLES == {"\\x02", "\\x11", "\\x16", "\\x1d", "\\x1e", "\\x1f"}
Codes == {COLOUR, HEX, RESET} \cup TOGGLES

IrcFormatAssumption == Digits \subseteq HexDigits /\ HexDigits \cap Codes = {}

VARIABLES
  message,
  span, char,       \* the cursor
  style,            \* what the codes so far leave in force
  plain,            \* the characters since the last code
  drawn             \* the runs so far

vars == <<message, span, char, style, plain, drawn>>

PLAIN == [on |-> {}, fg |-> None, bg |-> None]

-----------------------------------------------------------------------------
(* The arguments of a colour. *)

\* How many of the characters from a place on are such digits, up to a limit.
Claimed(text, at, digits, limit) ==
  CHOOSE n \in 0..limit :
    /\ at + n <= Len(text) + 1
    /\ \A i \in at..(at + n - 1) : text[i] \in digits
    /\ n = limit \/ at + n > Len(text) \/ text[at + n] \notin digits

\* A code past the palette is the colour the theme would have used.
paletteCode(value) == IF value <= 98 THEN value ELSE None

Value(digits) ==
  IF Len(digits) = 1 THEN Worth[digits[1]] ELSE 10 * Worth[digits[1]] + Worth[digits[2]]

\* Where the digits that start at a place end, or None when there are none.
readDigits(text, at) ==
  LET n == Claimed(text, at, Digits, 2)
  IN  IF n = 0 THEN None
      ELSE [code |-> paletteCode(Value(SubSeq(text, at, at + n - 1))), end |-> at + n]

readHexTriple(text, at) ==
  IF Claimed(text, at, HexDigits, TRIPLE) < TRIPLE THEN None
  ELSE [code |-> Nearest(SubSeq(text, at, at + TRIPLE - 1)), end |-> at + TRIPLE]

\* A colour, and a second after a comma; without the first the comma belongs
\* to the sentence, and without the second too.
readColour(read(_, _), text, at) ==
  LET fg == read(text, at)
      second == IF fg # None /\ fg.end <= Len(text) /\ text[fg.end] = "," THEN read(text, fg.end + 1)
                ELSE None
  IN  IF fg = None THEN [fg |-> None, bg |-> None, end |-> at]
      ELSE IF second = None THEN [fg |-> fg.code, bg |-> None, end |-> fg.end]
      ELSE [fg |-> fg.code, bg |-> second.code, end |-> second.end]

Colours(text, at) ==
  IF text[at] = COLOUR THEN readColour(readDigits, text, at + 1)
  ELSE readColour(readHexTriple, text, at + 1)

-----------------------------------------------------------------------------
(* The walk over the spans. *)

Init ==
  /\ message \in Messages
  /\ span = 1 /\ char = 1
  /\ style = PLAIN /\ plain = <<>> /\ drawn = <<>>

Kind == message[span].kind
Text == message[span].text
Reading == span <= Len(message) /\ Kind # "link" /\ char <= Len(Text)
Ch == Text[char]

\* What is held is drawn as it was when it started. Code keeps its text, and
\* is drawn as code whatever is in force.
flush ==
  /\ plain' = <<>>
  /\ drawn' = IF plain = <<>> THEN drawn
              ELSE Append(drawn, [span |-> span, from |-> char - Len(plain), text |-> plain,
                                  style |-> IF Kind = "code" THEN None ELSE style])

Colour ==
  /\ Reading /\ Ch \in {COLOUR, HEX}
  /\ flush
  /\ LET colour == Colours(Text, char)
     IN  /\ style' = [style EXCEPT !.fg = colour.fg, !.bg = colour.bg]
         /\ char' = colour.end
  /\ UNCHANGED <<message, span>>

Toggle ==
  /\ Reading /\ Ch \in TOGGLES
  /\ flush
  /\ style' = [style EXCEPT !.on = IF Ch \in @ THEN @ \ {Ch} ELSE @ \cup {Ch}]
  /\ char' = char + 1
  /\ UNCHANGED <<message, span>>

Reset ==
  /\ Reading /\ Ch = RESET
  /\ flush
  /\ style' = PLAIN
  /\ char' = char + 1
  /\ UNCHANGED <<message, span>>

Plain ==
  /\ Reading /\ Ch \notin Codes
  /\ plain' = Append(plain, Ch)
  /\ char' = char + 1
  /\ UNCHANGED <<message, span, style, drawn>>

\* What is in force goes on into the next span.
SpanEnds ==
  /\ span <= Len(message) /\ Kind # "link" /\ char > Len(Text)
  /\ flush
  /\ span' = span + 1 /\ char' = 1
  /\ UNCHANGED <<message, style>>

\* An address is drawn as it stands, and nothing in it is read.
Link ==
  /\ span <= Len(message) /\ Kind = "link"
  /\ drawn' = Append(drawn, [span |-> span, from |-> 1, text |-> Text, style |-> None])
  /\ span' = span + 1
  /\ UNCHANGED <<message, char, style, plain>>

Next == Colour \/ Toggle \/ Reset \/ Plain \/ SpanEnds \/ Link

Spec == Init /\ [][Next]_vars

-----------------------------------------------------------------------------
(* The pattern. *)

\* How many characters the pattern takes from a code on: each argument is
\* optional, and the second hangs on the first.
Matched(text, at) ==
  LET second(n, digits, limit, least) ==
        IF at + n + 1 <= Len(text) /\ text[at + n + 1] = "," THEN
          LET m == Claimed(text, at + n + 2, digits, limit) IN IF m >= least THEN m + 1 ELSE 0
        ELSE 0
      whole(digits, limit, least) ==
        LET n == Claimed(text, at + 1, digits, limit)
        IN  IF n < least THEN 1 ELSE 1 + n + second(n, digits, limit, least)
  IN  CASE text[at] = COLOUR -> whole(Digits, 2, 1)
        [] text[at] = HEX -> whole(HexDigits, TRIPLE, TRIPLE)
        [] OTHER -> 1

FORMATTING(text, at) == Matched(text, at)

\* The line with every code taken out.
stripIrcFormatting(text) ==
  LET coded == UNION {at..(at + FORMATTING(text, at) - 1) : at \in {at \in DOMAIN text : text[at] \in Codes}}
      said == SelectSeq([i \in DOMAIN text |-> i], LAMBDA i : i \notin coded)
  IN  [i \in DOMAIN said |-> text[said[i]]]

-----------------------------------------------------------------------------
\* The two readings of a code agree: what a line says with its codes drawn is
\* what it says with its codes taken out, so the notification, the excerpt and
\* the row say the same words (ircFormat.ts 90-102 against 139-246).
DrawnIsStripped ==
  span > Len(message) =>
    \A s \in DOMAIN message :
      FlattenSeq([i \in DOMAIN SelectSeq(drawn, LAMBDA run : run.span = s) |->
                    SelectSeq(drawn, LAMBDA run : run.span = s)[i].text])
        = IF message[s].kind = "link" THEN message[s].text
          ELSE stripIrcFormatting(message[s].text)

\* The codes in front of a place that still bear on it: those in any span but
\* an address, after the last reset.
Places == {<<s, k>> \in (1..Len(message)) \X (1..8) :
             message[s].kind # "link" /\ k <= Len(message[s].text) /\ message[s].text[k] \in Codes}
At(p) == message[p[1]].text[p[2]]
Before(p, q) == p[1] < q[1] \/ (p[1] = q[1] /\ p[2] < q[2])
InForce(q) ==
  {p \in Places : /\ Before(p, q) /\ At(p) # RESET
                  /\ \A r \in Places : (At(r) = RESET /\ Before(r, q)) => Before(r, p)}

\* A run looks as every code of the message before it says, whatever Markdown
\* it lies in: a toggle by how often it was written since the last reset, the
\* colours by the last that was. A colour opened before a **bold** is open
\* after it (ircFormat.ts 394-397).
StyleIsOfTheLine ==
  \A i \in DOMAIN drawn : drawn[i].style # None =>
    LET force == InForce(<<drawn[i].span, drawn[i].from>>)
        coloured == {p \in force : At(p) \in {COLOUR, HEX}}
        last == CHOOSE p \in coloured : \A q \in coloured : q = p \/ Before(q, p)
        colour == Colours(message[last[1]].text, last[2])
    IN  /\ drawn[i].style.on = {t \in TOGGLES : Cardinality({p \in force : At(p) = t}) % 2 = 1}
        /\ IF coloured = {} THEN drawn[i].style.fg = None /\ drawn[i].style.bg = None
           ELSE drawn[i].style.fg = colour.fg /\ drawn[i].style.bg = colour.bg

\* Digits alone set the foreground and leave the background (ircFormat.ts
\* 185-191).
\* The code does not keep it (README, section 7).
ForegroundAloneLeavesTheRest ==
  [][(Reading /\ Ch = COLOUR /\ readDigits(Text, char + 1) # None
      /\ readColour(readDigits, Text, char + 1).end = readDigits(Text, char + 1).end)
       => style'.bg = style.bg]_vars
=============================================================================
