----------------------------- MODULE Autograde -----------------------------
(***************************************************************************)
(* Reading and listening tests: what their content may be, how answers are *)
(* marked against its key, the band the marks give, and what of it a       *)
(* learner may see before.                                                 *)
(*                                                                         *)
(* A text is a word and the way it is typed ("plain", "spaced", "loud"),   *)
(* since the code compares texts trimmed and in lower case.  Assets of a   *)
(* question group are there or not; of its shared structure only the       *)
(* number of gaps matters.                                                 *)
(***************************************************************************)
EXTENDS Integers, Sequences, FiniteSets, Functions, SequencesExt

-----------------------------------------------------------------------------
(* Texts and answers *)

Nothing == ""
Blank == <<Nothing, "plain">>    \* the empty string; <<"", "spaced">> is only spaces

NormalizeAnswer(text) == text[1]

\* An excerpt is compared with its spaces evened out, but letter by letter.
NormalizeQuote(text) == IF text[2] = "spaced" THEN <<text[1], "plain">> ELSE text

Normalized(texts) == {NormalizeAnswer(t) : t \in ToSet(texts)}

\* An AnswerValue: no answer, a JSON string, an array of them, or JSON of
\* some other shape.
NoAnswer == [kind |-> "none", texts |-> <<>>]
OneOf(text) == [kind |-> "one", texts |-> <<text>>]
AllOf(texts) == [kind |-> "many", texts |-> texts]
Other == [kind |-> "other", texts |-> <<>>]

IsEmpty(answer) == answer.kind = "none"

Strings(answer) == IF answer.kind \in {"one", "many"} THEN answer.texts ELSE <<>>

DecodeAnswerStrings(raw) == IF raw = OneOf(Blank) THEN <<>> ELSE Strings(raw)

-----------------------------------------------------------------------------
(* The types of question groups *)

Multi == "multiple-choice-multi"
Summary == "summary-completion"

ReadingQuestionTypes ==
    {"true-false-not-given", "yes-no-not-given", "multiple-choice", Multi, "matching-headings",
     "matching-information", "matching-features", "matching-sentence-endings",
     "sentence-completion", Summary, "table-completion", "short-answer",
     "diagram-label-completion", "flow-chart-completion", "note-completion"}

ListeningQuestionTypes ==
    {"form-completion", "note-completion", "table-completion", "flow-chart-completion", Summary,
     "sentence-completion", "multiple-choice", Multi, "matching", "map-plan-labelling"}

FillBlankQuestionTypes ==
    {"sentence-completion", Summary, "table-completion", "note-completion",
     "flow-chart-completion", "form-completion", "short-answer", "diagram-label-completion"}

GapTypes == {"table-completion", "note-completion", "flow-chart-completion", "form-completion"}
OptionTypes == {"multiple-choice", Multi, "matching-sentence-endings"}
SharedOptionTypes == {"matching-headings", "matching-information", "matching-features", "matching"}

NoStructure == -1

\* A summary with a word bank is answered by picking from the bank.
FillsBlank(g) == g.type \in FillBlankQuestionTypes /\ ~(g.type = Summary /\ g.hasBank)

QuestionSpan(g) == IF g.type = Multi /\ g.select > 1 THEN g.select ELSE 1

-----------------------------------------------------------------------------
(* The content of a test *)

Texts == STRING \X {"plain", "spaced", "loud"}
Answers ==
    {NoAnswer, Other} \cup [kind: {"one"}, texts: [1..1 -> Texts]] \cup [kind: {"many"}, texts: Seq(Texts)]
Questions ==
    [order: Int, answer: Answers, accepted: Seq(Texts), explained: BOOLEAN,
     evidence: Seq([paragraph: Int, quote: Texts]), options: BOOLEAN]
Groups ==
    [type: STRING, instructed: BOOLEAN, questions: Seq(Questions), shared: BOOLEAN, select: Int,
     hasBank: BOOLEAN, bank: BOOLEAN, gaps: Int, image: BOOLEAN, located: BOOLEAN]
Sections ==
    [paragraphs: Seq(SUBSET Texts), groups: Seq(Groups), audio: BOOLEAN, start: Int, end: Int]
Bodies == [skill: {"reading", "listening"}, titled: BOOLEAN, audio: BOOLEAN, sections: Seq(Sections)]

-----------------------------------------------------------------------------
(* Validation, when a test is created *)

RequireGapCount(g) == g.gaps = Len(g.questions)

HasOptions(g) == g.shared \/ \A q \in ToSet(g.questions) : q.options

ValidateGroupShape(g) ==
    /\ g.type \in OptionTypes => HasOptions(g)
    /\ g.type = Multi =>
         /\ g.select >= 2
         /\ \A q \in ToSet(g.questions) : Len(Strings(q.answer)) = g.select
    /\ g.type \in SharedOptionTypes => g.shared
    /\ g.type = "map-plan-labelling" => g.image /\ g.located
    /\ g.type = Summary =>
         /\ g.gaps # NoStructure
         /\ IF g.hasBank THEN g.bank ELSE RequireGapCount(g)
    /\ g.type \in GapTypes => g.gaps # NoStructure /\ RequireGapCount(g)
    /\ g.type = "diagram-label-completion" => g.image

\* EqualFold, taken to be the comparison of lowered texts: they differ only
\* in letters whose lower case is not their fold.
ContainsFold(accepted, texts) == Normalized(accepted) \intersect Normalized(texts) # {}

\* Mutant: accepted answers need not include the key.
AcceptsSomething(g, q) == IF FillsBlank(g) THEN q.accepted # <<>> ELSE ~IsEmpty(q.answer)

HasKey(g, q) ==
    IF FillsBlank(g) THEN ContainsFold(q.accepted, Strings(q.answer)) ELSE ~IsEmpty(q.answer)

ValidateQuestionGroups(groups, allowed) ==
    /\ groups # <<>>
    /\ \A g \in ToSet(groups) :
         /\ g.type \in allowed
         /\ g.instructed
         /\ g.questions # <<>>
         /\ ValidateGroupShape(g)
         /\ \A q \in ToSet(g.questions) : HasKey(g, q)

\* A paragraph is the set of excerpts that it contains.
ValidateEvidence(paragraphs, groups) ==
    \A g \in ToSet(groups) : \A q \in ToSet(g.questions) : \A e \in ToSet(q.evidence) :
        /\ e.paragraph \in 0..Len(paragraphs) - 1
        /\ NormalizeQuote(e.quote) # Blank
        /\ NormalizeQuote(e.quote) \in paragraphs[e.paragraph + 1]

\* The questions of a test, each at its place: section, group and position.
Places(test) ==
    UNION {UNION {{<<s, g, q>> : q \in DOMAIN test.sections[s].groups[g].questions}
                    : g \in DOMAIN test.sections[s].groups}
             : s \in DOMAIN test.sections}
GroupAt(test, p) == test.sections[p[1]].groups[p[2]]
QuestionAt(test, p) == GroupAt(test, p).questions[p[3]]

\* Every number a question occupies, at the place of the question.
Numbers(test) ==
    UNION {{<<p, QuestionAt(test, p).order + i>> : i \in 0..QuestionSpan(GroupAt(test, p)) - 1}
             : p \in Places(test)}

\* Mutant: a choice of several takes one number.
ContinuityOfOrders(test) ==
    LET orders == {QuestionAt(test, p).order : p \in Places(test)} IN
      /\ \A p, q \in Places(test) : QuestionAt(test, p).order = QuestionAt(test, q).order => p = q
      /\ orders = 1..Cardinality(orders)

ValidateQuestionOrderContinuity(test) ==
    LET taken == {n[2] : n \in Numbers(test)} IN
      /\ \A m, n \in Numbers(test) : m[2] = n[2] => m = n
      /\ taken = 1..Cardinality(taken)

ValidateSection(test, section) ==
    CASE test.skill = "reading" ->
           section.paragraphs # <<>> /\ ValidateQuestionGroups(section.groups, ReadingQuestionTypes)
      [] test.skill = "listening" ->
           /\ test.audio \/ section.audio
           /\ section.start < section.end
           /\ ValidateQuestionGroups(section.groups, ListeningQuestionTypes)

ValidateContentData(test) ==
    /\ test.sections # <<>>
    /\ \A section \in ToSet(test.sections) :
         ValidateSection(test, section) /\ ValidateEvidence(section.paragraphs, section.groups)
    /\ ValidateQuestionOrderContinuity(test)

\* CreateTestRequest.Validate; "titled" stands for the fields beside the
\* content: a task type, a place in a series that has one, no negative XP.
Validate(test) == test.titled /\ ValidateContentData(test)

-----------------------------------------------------------------------------
(* Marking *)

AnswersMatch(g, q, submitted) ==
    /\ submitted # <<>>
    /\ LET got == NormalizeAnswer(submitted[1]) IN
         IF FillsBlank(g)
         THEN got \in Normalized(q.accepted)
         ELSE Strings(q.answer) # <<>> /\ got = NormalizeAnswer(Strings(q.answer)[1])

AnswerPoints(g, q, submitted) ==
    IF g.type = Multi
    THEN Cardinality((Normalized(submitted) \ {Nothing}) \intersect Normalized(Strings(q.answer)))
    ELSE IF AnswersMatch(g, q, submitted) THEN 1 ELSE 0

\* Answers are a function from question_order; a question left out has none.
Submitted(answers, q) ==
    IF q.order \in DOMAIN answers THEN DecodeAnswerStrings(answers[q.order]) ELSE <<>>

\* The minimum of marks out of 40 for a band, in half bands, highest first.
AcademicBandTable ==
    <<<<39, 18>>, <<37, 17>>, <<35, 16>>, <<33, 15>>, <<30, 14>>, <<27, 13>>, <<23, 12>>,
      <<20, 11>>, <<16, 10>>, <<13, 9>>, <<10, 8>>, <<7, 7>>, <<5, 6>>, <<3, 5>>>>
Lowest == 4

\* math.Round(correct * 40 / total)
OutOf40(correct, total) == (80 * correct + total) \div (2 * total)

\* Mutant: the last row that the marks reach.
LastRowReached(marks) ==
    LET rows == {i \in DOMAIN AcademicBandTable : marks >= AcademicBandTable[i][1]} IN
      IF rows = {} THEN Lowest
      ELSE AcademicBandTable[CHOOSE i \in rows : \A j \in rows : i >= j][2]

BandOutOf40(marks) ==
    LET rows == {i \in DOMAIN AcademicBandTable : marks >= AcademicBandTable[i][1]} IN
      IF rows = {} THEN Lowest
      ELSE AcademicBandTable[CHOOSE i \in rows : \A j \in rows : i <= j][2]

BandFromRawScore(correct, total) == IF total = 0 THEN 0 ELSE BandOutOf40(OutOf40(correct, total))

PointsAt(test, answers) ==
    [p \in Places(test) |->
        AnswerPoints(GroupAt(test, p), QuestionAt(test, p), Submitted(answers, QuestionAt(test, p)))]
Spans(test) == [p \in Places(test) |-> QuestionSpan(GroupAt(test, p))]

AutoGrade(test, answers) ==
    LET points == PointsAt(test, answers)
        correct == SumFunction(points)
        total == SumFunction(Spans(test))
    IN [points |-> points,
        right |-> {p \in Places(test) : points[p] = Spans(test)[p]},
        correct |-> correct, total |-> total,
        band |-> BandFromRawScore(correct, total)]

-----------------------------------------------------------------------------
(* What a learner is shown *)

RedactQuestion(q) ==
    [q EXCEPT !.answer = NoAnswer, !.accepted = <<>>, !.explained = FALSE, !.evidence = <<>>]

RedactGroup(g) == [g EXCEPT !.questions = [q \in DOMAIN @ |-> RedactQuestion(@[q])]]
RedactSection(section) == [section EXCEPT !.groups = [g \in DOMAIN @ |-> RedactGroup(@[g])]]

\* The script of a listening test is its key as well.
PublicSection(skill, section) ==
    [RedactSection(section) EXCEPT !.paragraphs = IF skill = "listening" THEN <<>> ELSE @]

PublicContentData(test) ==
    [test EXCEPT !.sections = [s \in DOMAIN @ |-> PublicSection(test.skill, @[s])]]

=============================================================================
