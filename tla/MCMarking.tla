----------------------------- MODULE MCMarking -----------------------------
(***************************************************************************)
(* Small instances of Marking: tests of every question type, and bodies    *)
(* with one thing wrong or odd.                                            *)
(***************************************************************************)
EXTENDS Marking, FiniteSetsExt

CONSTANTS amy, ben

Sames == Permutations(Learners)

W(word) == <<word, "plain">>
Quote(i, text) == <<[paragraph |-> i, quote |-> text]>>

Q(order, answer, accepted) ==
    [order |-> order, answer |-> answer, accepted |-> accepted, explained |-> TRUE,
     evidence |-> Quote(0, <<"excerpt", "spaced">>), options |-> FALSE]

Bare(type, questions) ==
    [type |-> type, instructed |-> TRUE, questions |-> questions, shared |-> FALSE, select |-> 0,
     hasBank |-> FALSE, bank |-> FALSE, gaps |-> NoStructure, image |-> FALSE, located |-> FALSE]

\* A group with all that some type asks for.
Full(type, questions) ==
    [Bare(type, questions) EXCEPT !.shared = TRUE, !.select = 2, !.gaps = Len(questions),
                                  !.image = TRUE, !.located = TRUE]

Part(groups) ==
    [paragraphs |-> <<{W("excerpt"), W("body")}>>, groups |-> groups,
     audio |-> TRUE, start |-> 0, end |-> 9]
Body(skill, groups) ==
    [skill |-> skill, titled |-> TRUE, audio |-> FALSE, sections |-> <<Part(groups)>>]

\* The question that suits a type.
Asked(type, order) ==
    CASE type = Multi -> Q(order, AllOf(<<W("a"), W("b")>>), <<>>)
      [] type \in FillBlankQuestionTypes ->
           Q(order, OneOf(<<"a", "loud">>), <<W("a"), <<"b", "spaced">>>>)
      [] OTHER -> Q(order, OneOf(W("a")), <<>>)

\* One group for each type, the choice of several last, as it takes two
\* numbers.
EveryType(skill, types) ==
    LET ordered == FoldSet(LAMBDA type, rest : <<type>> \o rest, <<Multi>>, types \ {Multi})
    IN Body(skill, [i \in DOMAIN ordered |-> Full(ordered[i], <<Asked(ordered[i], i)>>)])

Single == Full("true-false-not-given", <<Asked("true-false-not-given", 1)>>)
Several(keys) == Full(Multi, <<Q(2, AllOf(keys), <<>>)>>)
Banked == [Full(Summary, <<Q(4, OneOf(W("b")), <<>>)>>) EXCEPT !.hasBank = TRUE, !.bank = TRUE, !.gaps = 9]
Small(last) == Body("reading", <<Single, Several(<<W("a"), W("b")>>), last>>)

Good ==
    {EveryType("reading", ReadingQuestionTypes), EveryType("listening", ListeningQuestionTypes),
     Small(Banked),
     Body("listening", <<Full("matching", <<Asked("matching", 1), Q(2, OneOf(W("b")), <<>>)>>)>>)}

\* Keys that are odd: an empty text, which only an empty answer matches; one
\* letter twice, and JSON of another shape, which no answer matches in full.
OddKeys ==
    {Body("reading", <<Full("yes-no-not-given", <<Q(1, OneOf(Blank), <<>>)>>),
                       Several(<<W("a"), W("a")>>),
                       Full("multiple-choice", <<Q(4, Other, <<>>)>>)>>)}

Numbered(order) == Small(Full("short-answer", <<Asked("short-answer", order)>>))
Keyed(q) == Small(Full("short-answer", <<q>>))
Cited(evidence) == Keyed([Asked("short-answer", 4) EXCEPT !.evidence = evidence])

Bad ==
    {Body("reading", <<[Full("table-completion", <<Asked("table-completion", 1)>>) EXCEPT !.gaps = 2]>>),
     Body("reading", <<Several(<<W("a"), W("b"), W("c")>>)>>),
     Body("reading", <<[Several(<<W("a"), W("b")>>) EXCEPT !.select = 1]>>),
     Body("reading", <<Single, Several(<<W("a")>>)>>),
     Numbered(1), Numbered(3), Numbered(5), Numbered(0),
     Keyed(Q(4, OneOf(W("c")), <<W("a")>>)), Keyed(Q(4, OneOf(W("c")), <<>>)),
     Small(Full("multiple-choice", <<Q(4, NoAnswer, <<W("a")>>)>>)),
     Cited(Quote(1, W("body"))), Cited(Quote(0, <<"", "spaced">>)), Cited(Quote(0, <<"body", "loud">>)),
     Body("reading", <<>>), [Body("reading", <<Single>>) EXCEPT !.sections = <<>>],
     [Body("listening", <<Full("matching", <<Asked("matching", 1)>>)>>) EXCEPT !.sections[1].end = 0]}
    \cup {Body("reading", <<Bare(type, <<Asked(type, 1)>>)>>) :
              type \in OptionTypes \cup SharedOptionTypes \cup GapTypes \cup {Summary, "form-completion"}}

\* The small test again, with other numbers and keys.
Renumbered == Body("reading", <<[Several(<<W("b"), W("c")>>) EXCEPT !.questions[1].order = 1],
                                Full("short-answer", <<Asked("short-answer", 3)>>)>>)
RewritesOf == {Renumbered}

DraftsOf == Good \cup RewritesOf \cup OddKeys \cup Bad

\* Right is right, loudly; Mixed is half wrong, and takes every box of a
\* choice.
Right == [n \in 1..4 |-> CASE n = 2 -> AllOf(<<W("b"), <<"a", "loud">>>>)
                           [] n = 4 -> OneOf(<<"b", "spaced">>)
                           [] OTHER -> OneOf(<<"a", "loud">>)]
Mixed == [n \in {1, 2, 10, 15} |->
             IF n = 1 THEN OneOf(W("b")) ELSE AllOf(<<W("a"), W("b"), W("c"), W("")>>)]

PayloadsOf == {Right, Mixed, Garbled}

=============================================================================
