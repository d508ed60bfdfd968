-------------------------- MODULE SpeakingContent --------------------------
(***************************************************************************)
(* The content of a speaking test: what an author may write, how it is     *)
(* normalised, which questions it asks, and which of its texts a moderator *)
(* sees.  A text is a sequence of words, a space being one.                *)
(***************************************************************************)
EXTENDS Integers, Sequences, FiniteSets, SequencesExt, FiniteSetsExt

CONSTANTS
    MaxTextLen, MaxTitleLen,
    MaxTopics,
    MinPart1Questions, MaxPart1Questions,
    MinPart2Bullets, MaxPart2Bullets, MaxPart2FollowUps,
    MinPart3Questions, MaxPart3Questions,
    None             \* a part that is not there

Space == " "

\* What is spelled in the wording of the examiner is a word, too.
Words == STRING \cup {"a"}

\* What an author writes: any texts, and any ids.
Text == Seq(Words)
QuestionIds == Seq(Nat)
Prompt == [id : QuestionIds \cup {None}, text : Text]
SpeakingPart1 == [topics : Seq([topic : Text, questions : Seq(Prompt)])]
SpeakingPart2 == [id : QuestionIds \cup {None}, topic : Text, explain : Text, bullets : Seq(Text), followUps : Seq(Prompt)]
SpeakingPart3 == [theme : Text, questions : Seq(Prompt)]
Contents == [title : Text, part1 : SpeakingPart1 \cup {None}, part2 : SpeakingPart2 \cup {None},
             part3 : SpeakingPart3 \cup {None}]

ASSUME ContentAssumption ==
    /\ {MaxTextLen, MaxTitleLen, MaxTopics, MaxPart2FollowUps} \subseteq Nat
    /\ MinPart1Questions \in 1..MaxPart1Questions /\ MaxPart1Questions \in Nat
    /\ MinPart2Bullets \in 1..MaxPart2Bullets /\ MaxPart2Bullets \in Nat
    /\ MinPart3Questions \in 1..MaxPart3Questions /\ MaxPart3Questions \in Nat
    /\ None \notin QuestionIds

Empty == <<>>

TrimSpace(s) ==
    LET words == {i \in DOMAIN s : s[i] # Space}
    IN IF words = {} THEN Empty ELSE SubSeq(s, Min(words), Max(words))

Has(part) == part # None

Mode(c) ==
    CASE Has(c.part1) /\ Has(c.part2) /\ Has(c.part3) -> "full"
      [] Has(c.part1) /\ ~Has(c.part2) /\ ~Has(c.part3) -> "part1"
      [] Has(c.part2) /\ ~Has(c.part1) /\ ~Has(c.part3) -> "part2"
      [] Has(c.part3) /\ ~Has(c.part1) /\ ~Has(c.part2) -> "part3"
      [] OTHER -> ""

-----------------------------------------------------------------------------
(* Normalising *)

\* Question ids are positions, whatever ids came with the content.
Numbered(qs, prefix) ==
    [i \in DOMAIN qs |-> [id |-> Append(prefix, i), text |-> TrimSpace(qs[i].text)]]

NormalPart1(p) ==
    [topics |-> [t \in DOMAIN p.topics |->
        [topic |-> TrimSpace(p.topics[t].topic), questions |-> Numbered(p.topics[t].questions, <<1, t>>)]]]

NormalPart2(p) ==
    [id |-> <<2>>, topic |-> TrimSpace(p.topic), explain |-> TrimSpace(p.explain),
     bullets |-> [i \in DOMAIN p.bullets |-> TrimSpace(p.bullets[i])],
     followUps |-> Numbered(p.followUps, <<2>>)]

NormalPart3(p) ==
    [theme |-> TrimSpace(p.theme), questions |-> Numbered(p.questions, <<3>>)]

Normalize(c) ==
    [title |-> TrimSpace(c.title),
     part1 |-> IF Has(c.part1) THEN NormalPart1(c.part1) ELSE None,
     part2 |-> IF Has(c.part2) THEN NormalPart2(c.part2) ELSE None,
     part3 |-> IF Has(c.part3) THEN NormalPart3(c.part3) ELSE None]

-----------------------------------------------------------------------------
(* The questions *)

Part1Questions(p) == FlattenSeq([t \in DOMAIN p.topics |-> p.topics[t].questions])

CueCardText(p) == p.topic \o FlattenSeq(p.bullets) \o p.explain

InPart(n, qs) == [i \in DOMAIN qs |-> [id |-> qs[i].id, part |-> n, text |-> qs[i].text]]

\* Every prompt that is answered, in the order of the exam; the long turn is
\* one, with the whole card for its text.
Questions(c) ==
    (IF Has(c.part1) THEN InPart(1, Part1Questions(c.part1)) ELSE <<>>)
    \o (IF Has(c.part2)
        THEN <<[id |-> c.part2.id, part |-> 2, text |-> CueCardText(c.part2)]>> \o InPart(2, c.part2.followUps)
        ELSE <<>>)
    \o (IF Has(c.part3) THEN InPart(3, c.part3.questions) ELSE <<>>)

-----------------------------------------------------------------------------
(* Validating *)

TextOK(s) == s # Empty /\ Len(s) <= MaxTextLen

AllAsk(qs) == \A i \in DOMAIN qs : TextOK(qs[i].text)

Part1OK(p) ==
    /\ Len(p.topics) \in 1..MaxTopics
    /\ \A t \in DOMAIN p.topics : /\ TextOK(p.topics[t].topic)
                                  /\ p.topics[t].questions # <<>> /\ AllAsk(p.topics[t].questions)
    /\ Len(Part1Questions(p)) \in MinPart1Questions..MaxPart1Questions

Part2OK(p) ==
    /\ TextOK(p.topic) /\ TextOK(p.explain)
    /\ Len(p.bullets) \in MinPart2Bullets..MaxPart2Bullets
    /\ \A i \in DOMAIN p.bullets : TextOK(p.bullets[i])
    /\ Len(p.followUps) <= MaxPart2FollowUps /\ AllAsk(p.followUps)

\* A Part 3 on its own needs a theme to lead in with.
Part3OK(p, alone) ==
    /\ Len(p.questions) \in MinPart3Questions..MaxPart3Questions
    /\ alone => TextOK(p.theme)
    /\ AllAsk(p.questions)

Valid(c) ==
    /\ Mode(c) # ""
    /\ Len(c.title) <= MaxTitleLen
    /\ Has(c.part1) => Part1OK(c.part1)
    /\ Has(c.part2) => Part2OK(c.part2)
    /\ Has(c.part3) => Part3OK(c.part3, ~Has(c.part2))

-----------------------------------------------------------------------------
(* The texts of the author *)

Topics(p) == {p.topics[t].topic : t \in DOMAIN p.topics}

Prompts(c) == {q.text : q \in {q \in ToSet(Questions(c)) : q.id # <<2>>}}

\* Mutant: the bullets of the card are left out.
TextsWithoutBullets(c) ==
    (UNION {{c.title}, Prompts(c),
            IF Has(c.part1) THEN Topics(c.part1) ELSE {},
            IF Has(c.part2) THEN {c.part2.topic, c.part2.explain} ELSE {},
            IF Has(c.part3) THEN {c.part3.theme} ELSE {}}) \ {Empty}

\* Every string of the author.
AllTexts(c) ==
    (UNION {{c.title}, Prompts(c),
            IF Has(c.part1) THEN Topics(c.part1) ELSE {},
            IF Has(c.part2) THEN {c.part2.topic, c.part2.explain} \cup ToSet(c.part2.bullets) ELSE {},
            IF Has(c.part3) THEN {c.part3.theme} ELSE {}}) \ {Empty}

=============================================================================
