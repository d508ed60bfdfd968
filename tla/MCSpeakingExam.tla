--------------------------- MODULE MCSpeakingExam ---------------------------
(***************************************************************************)
(* Small instances of SpeakingExam: three official tests, and requests     *)
(* that put parts of them together with parts of the author's own, good    *)
(* and bad.                                                                *)
(***************************************************************************)
EXTENDS SpeakingExam

CONSTANTS whole, second, third, missing, author, other

Word == <<"word">>
Padded == <<" ", "A", " ", "word", " ">>
Blank == <<" ", " ">>
RudeText == <<"rude", "word">>
Endless == <<"a", "b", "c", "d", "e", "f", "g">>

\* Ids that came with a content say nothing.
Question(text) == [id |-> <<2>>, text |-> text]
Qs(n) == [i \in 1..n |-> Question(Word)]

Topic(text, qs) == [topic |-> text, questions |-> qs]
Part1(topics) == [topics |-> topics]
Part2(topic, bullets, followUps) ==
    [id |-> None, topic |-> topic, explain |-> Word, bullets |-> bullets, followUps |-> followUps]
Part3(theme, qs) == [theme |-> theme, questions |-> qs]

Book == <<"Describe", " ", "word", ".">>
Trip == <<"Talk", " ", "about", " ", "word", ".">>
Nothing == <<"Describe", " ", ".">>

Tests == (whole :> Normalize([title |-> Empty, part1 |-> Part1(<<Topic(Word, Qs(1))>>),
                              part2 |-> Part2(Book, <<Word>>, <<>>), part3 |-> Part3(Empty, Qs(1))]))
         @@ (second :> Normalize([title |-> Empty, part1 |-> None, part2 |-> Part2(Word, <<Word, Word>>, Qs(1)),
                                  part3 |-> None]))
         @@ (third :> Normalize([title |-> Empty, part1 |-> None, part2 |-> None,
                                 part3 |-> Part3(Padded, Qs(1))]))

From(b) == [bank |-> b, custom |-> None]
OwnPart(p) == [bank |-> None, custom |-> p]

FirstParts == {None, From(whole), From(second),
    OwnPart(Part1(<<Topic(Padded, Qs(1)), Topic(Word, Qs(1))>>)),
    OwnPart(Part1(<<Topic(Word, Qs(1)), Topic(Word, Qs(2))>>)),
    OwnPart(Part1(<<Topic(Word, <<>>), Topic(Word, Qs(1))>>)),
    OwnPart(Part1(<<Topic(RudeText, Qs(1))>>)),
    OwnPart(Part1(<<Topic(Word, <<Question(Blank)>>)>>))}
SecondParts == {None, From(whole), From(second), From(missing),
    OwnPart(Part2(Trip, <<Word, Padded>>, <<>>)),
    OwnPart(Part2(Nothing, <<Word>>, <<>>)),
    OwnPart(Part2(Word, <<RudeText>>, <<>>)),
    OwnPart(Part2(RudeText, <<Word>>, <<>>)),
    OwnPart(Part2(Word, <<>>, Qs(1))),
    OwnPart(Part2(Word, <<Word>>, Qs(2))),
    OwnPart(Part2(Endless, <<Word>>, <<>>))}
ThirdParts == {None, From(whole), From(third), [bank |-> whole, custom |-> Part3(Word, Qs(1))],
    OwnPart(Part3(Empty, Qs(1))),
    OwnPart(Part3(Padded, Qs(2))),
    OwnPart(Part3(RudeText, Qs(1))),
    OwnPart(Part3(Word, <<Question(RudeText)>>)),
    OwnPart(Part3(Word, Qs(3)))}

AllRequests == {[title |-> Empty, parts |-> <<p1, p2, p3>>] :
                  p1 \in FirstParts, p2 \in SecondParts, p3 \in ThirdParts}
               \cup {[title |-> t, parts |-> <<From(whole), From(second), From(third)>>] :
                       t \in {Blank, RudeText, Endless}}

=============================================================================
