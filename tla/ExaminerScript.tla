--------------------------- MODULE ExaminerScript ---------------------------
(***************************************************************************)
(* The examiner's script of a test, which the page plays line by line, and *)
(* the composition of a custom test out of official and own parts.         *)
(***************************************************************************)
EXTENDS SpeakingContent

CONSTANTS
    Bank          \* official speaking tests: their content, normalised

Rude(text) == "rude" \in ToSet(text)

\* Official tests are validated and normalised, and none is in bad taste:
\* they are not moderated.
ASSUME BankAssumption ==
    \A b \in DOMAIN Bank : /\ Bank[b] \in Contents
                           /\ Valid(Bank[b]) /\ Bank[b] = Normalize(Bank[b])
                           /\ \A text \in AllTexts(Bank[b]) : ~Rude(text)

-----------------------------------------------------------------------------
(* Wording *)

Lower(word) == IF word = "A" THEN "a" ELSE word

LowerFirst(s) == IF s = Empty THEN s ELSE <<Lower(Head(s))>> \o Tail(s)

TrimDot(s) == IF s # Empty /\ Last(s) = "." THEN Front(s) ELSE s

Leads == {<<"Describe", Space>>, <<"Talk", Space, "about", Space>>, <<"Tell", Space, "me", Space, "about", Space>>}

\* "Describe a book." is about "a book", and "Describe ." about nothing.
Part2Subject(topic) ==
    LET t == TrimDot(TrimSpace(topic))
        cut == {SubSeq(t, Len(lead) + 1, Len(t)) : lead \in {l \in Leads : IsPrefix(l, t)}}
    IN IF cut = {} THEN LowerFirst(t) ELSE CHOOSE rest \in cut : TRUE

-----------------------------------------------------------------------------
(* The script.  The text of a line is what it takes from the content. *)

Say(part, text) == [kind |-> "say", part |-> part, text |-> text, id |-> None, seconds |-> 0]

Ask(part, seconds, qs) ==
    [i \in DOMAIN qs |->
        [kind |-> "ask", part |-> part, text |-> qs[i].text, id |-> qs[i].id, seconds |-> seconds]]

Interview(p) ==
    <<Say(1, Empty)>> \o
    FlattenSeq([t \in DOMAIN p.topics |->
        <<Say(1, LowerFirst(TrimDot(p.topics[t].topic)))>> \o Ask(1, 30, p.topics[t].questions)])

LongTurn(p) ==
    <<Say(2, Empty),
      [kind |-> "cue_card", part |-> 2, text |-> CueCardText(p), id |-> None, seconds |-> 60],
      [kind |-> "long_turn", part |-> 2, text |-> Empty, id |-> p.id, seconds |-> 120],
      Say(2, Empty)>> \o Ask(2, 30, p.followUps)

Discussion(c) ==
    <<Say(3, IF Has(c.part2) THEN Part2Subject(c.part2.topic) ELSE LowerFirst(TrimDot(c.part3.theme)))>>
    \o Ask(3, 60, c.part3.questions)

FirstPart(c) == IF Has(c.part1) THEN 1 ELSE IF Has(c.part2) THEN 2 ELSE 3

Build(c) ==
    LET lines == <<Say(FirstPart(c), Empty)>>
                 \o (IF Has(c.part1) THEN Interview(c.part1) ELSE <<>>)
                 \o (IF Has(c.part2) THEN LongTurn(c.part2) ELSE <<>>)
                 \o (IF Has(c.part3) THEN Discussion(c) ELSE <<>>)
    IN Append(lines, Say(Last(lines).part, Empty))

\* The lines with a question among the first n.
Asked(script, n) ==
    LET asked[i \in 0..Len(script)] ==
          IF i = 0 THEN <<>>
          ELSE IF script[i].id # None THEN Append(asked[i - 1], script[i]) ELSE asked[i - 1]
    IN asked[n]

Answerable(script) == Asked(script, Len(script))

-----------------------------------------------------------------------------
(* Composing.  A part comes from the bank, or is the user's own. *)

SourceOK(source) ==
    Has(source) => \/ source.bank # None /\ source.custom = None /\ source.bank \in DOMAIN Bank
                   \/ source.bank = None /\ source.custom # None

FromBank(source) == Has(source) /\ source.bank # None

\* A Part 3 of the bank keeps the topic it followed on from.
BankPart3(b) ==
    IF Has(b.part3) /\ b.part3.theme = Empty /\ Has(b.part2)
    THEN [b.part3 EXCEPT !.theme = Part2Subject(b.part2.topic)] ELSE b.part3

Picked(source, part) ==
    IF ~Has(source) THEN None
    ELSE IF ~FromBank(source) THEN source.custom
    ELSE CASE part = 1 -> Bank[source.bank].part1
           [] part = 2 -> Bank[source.bank].part2
           [] part = 3 -> BankPart3(Bank[source.bank])

\* A source names a part that is there.
SourcesOK(req) ==
    \A part \in 1..3 : /\ SourceOK(req.parts[part])
                       /\ Has(req.parts[part]) => Has(Picked(req.parts[part], part))

Composed(req) ==
    Normalize([title |-> req.title, part1 |-> Picked(req.parts[1], 1),
               part2 |-> Picked(req.parts[2], 2), part3 |-> Picked(req.parts[3], 3)])

\* The parts the user wrote.
Own(req) ==
    LET mine(part) == IF FromBank(req.parts[part]) THEN None ELSE Picked(req.parts[part], part)
    IN Normalize([title |-> Empty, part1 |-> mine(1), part2 |-> mine(2), part3 |-> mine(3)])

Moderated(req) == AllTexts(Own(req)) \cup ({Composed(req).title} \ {Empty})

Flagged(req) == \E text \in Moderated(req) : Rude(text)

=============================================================================
