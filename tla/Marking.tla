------------------------------ MODULE Marking ------------------------------
(***************************************************************************)
(* Reading and listening tests over time: created and replaced, shown,     *)
(* answered, marked by the grading workers, and their answer keys read.    *)
(* A job marks against the content it loaded when it claimed a submission, *)
(* which the import command may replace before the score is written.       *)
(***************************************************************************)
EXTENDS Autograde

CONSTANTS Tests, Subs, Learners, Admins,
          Drafts,      \* test bodies somebody writes
          Rewrites,    \* those of them that replace one
          Payloads,    \* answers by question number, or Garbled
          Garbled,
          None,
          MaxVersions, \* bound: contents one test has
          MaxJobs      \* bound: jobs of one submission at a time

ASSUME MarkingAssumption ==
    /\ MaxVersions \in Nat \ {0} /\ MaxJobs \in Nat /\ Learners \cap Admins = {}
    /\ Drafts \subseteq Bodies /\ Rewrites \subseteq Drafts
    /\ None \notin Drafts /\ Garbled \in Payloads

VARIABLES
    versions,   \* the contents a test has had, the current one last
    subs,       \* the submissions
    jobs,       \* by submission: the contents loaded by its jobs, in their order
    seen,       \* contents shown without asking for a graded attempt
    told        \* by user: tests whose right answers were shown

vars == <<versions, subs, jobs, seen, told>>

Users == Learners \cup Admins
Current(t) == Last(versions[t])
Exists(t) == versions[t] # <<>>

Unused == [status |-> "unused"]
Used == {s \in Subs : subs[s] # Unused}

Init ==
    /\ versions = [t \in Tests |-> <<>>]
    /\ subs = [s \in Subs |-> Unused]
    /\ jobs = [s \in Subs |-> <<>>]
    /\ seen = {}
    /\ told = [u \in Users |-> IF u \in Admins THEN Tests ELSE {}]    \* who write them

-----------------------------------------------------------------------------
(* Tests *)

Upload(t, content) ==
    /\ Validate(content)
    /\ versions' = [versions EXCEPT ![t] = Append(@, content)]
    /\ UNCHANGED <<subs, jobs, told>>

\* POST /tests answers with the new test, redacted.
PostTest(t, content) ==
    /\ ~Exists(t)
    /\ Upload(t, content)
    /\ seen' = seen \cup {PublicContentData(content)}

\* import-test --replace
ReplaceTest(t, content) ==
    /\ Exists(t) /\ Len(versions[t]) < MaxVersions
    /\ content.skill = Current(t).skill /\ content # Current(t)
    /\ Upload(t, content)
    /\ UNCHANGED seen

GetTest(t) ==
    /\ Exists(t)
    /\ seen' = seen \cup {PublicContentData(Current(t))}
    /\ UNCHANGED <<versions, subs, jobs, told>>

\* Mutant: anybody's graded submission will do.
SomebodyGraded(u, t) == \E s \in Used : subs[s].test = t /\ subs[s].status = "graded"

HasGradedSubmission(u, t) ==
    \E s \in Used : subs[s].user = u /\ subs[s].test = t /\ subs[s].status = "graded"

Tell(u, t) == told' = [told EXCEPT ![u] = @ \cup {t}]

GetAnswerKey(u, t) ==
    /\ Exists(t)
    /\ u \in Admins \/ HasGradedSubmission(u, t)
    /\ Tell(u, t)
    /\ UNCHANGED <<versions, subs, jobs, seen>>

-----------------------------------------------------------------------------
(* Submissions *)

\* Submissions are taken in order, so that two histories that differ only
\* in names are one.  since: the versions of the test that there were.
SubmitAnswer(s, u, t, payload) ==
    /\ Exists(t)
    /\ s \notin Used /\ \A r \in Subs : r < s => r \in Used
    /\ subs' = [subs EXCEPT ![s] = [status |-> "pending", user |-> u, test |-> t,
                                    payload |-> payload, score |-> None, since |-> Len(versions[t])]]
    /\ UNCHANGED <<versions, jobs, seen, told>>

\* A worker claims a submission that waits, or one whose lease ran out.  A
\* job whose process dies takes no further step.
ClaimNextForGrading(s) ==
    /\ subs[s].status \in {"pending", "grading"} /\ Len(jobs[s]) < MaxJobs
    /\ subs' = [subs EXCEPT ![s].status = "grading"]
    /\ jobs' = [jobs EXCEPT ![s] = Append(@, Current(subs[s].test))]
    /\ UNCHANGED <<versions, seen, told>>

\* Mutant: the test is read again for the number of marks.
RecordReloaded(s, j) ==
    /\ subs[s].payload # Garbled
    /\ LET score == AutoGrade(jobs[s][j], subs[s].payload)
           total == SumFunction(Spans(Current(subs[s].test)))
       IN subs' = [subs EXCEPT ![s].score =
              IF @ = None
              THEN [score EXCEPT !.total = total, !.band = BandFromRawScore(score.correct, total)]
              ELSE @]
    /\ UNCHANGED <<versions, jobs, seen, told>>

\* recordScore, of the j-th job: the score that is already there is kept.
RecordScore(s, j) ==
    /\ subs[s].payload # Garbled
    /\ subs' = [subs EXCEPT ![s].score = IF @ = None THEN AutoGrade(jobs[s][j], subs[s].payload) ELSE @]
    /\ UNCHANGED <<versions, jobs, seen, told>>

Ended(s, j) == jobs' = [jobs EXCEPT ![s] = RemoveAt(@, j)]

SettleGraded(s, j) ==
    /\ subs[s].score # None
    /\ subs' = [subs EXCEPT ![s].status = "graded"]
    /\ Ended(s, j)
    /\ UNCHANGED <<versions, seen, told>>

\* Mutant: a failed attempt goes back as submitted, where nobody looks.
RetryAsSubmitted(s, j, permanent) ==
    /\ subs' = [subs EXCEPT ![s].status = IF permanent THEN "failed" ELSE "submitted"]
    /\ Ended(s, j)
    /\ UNCHANGED <<versions, seen, told>>

\* A job fails: ungradable or out of attempts for good, otherwise it is
\* put back.  Only a submission still being graded changes.
SettleFailure(s, j, permanent) ==
    /\ subs[s].payload = Garbled => permanent
    /\ subs' = [subs EXCEPT ![s].status =
                   IF @ # "grading" THEN @ ELSE IF permanent THEN "failed" ELSE "pending"]
    /\ Ended(s, j)
    /\ UNCHANGED <<versions, seen, told>>

\* The score's details list the right answers.
GetScore(u, s) ==
    /\ s \in Used /\ subs[s].user = u /\ subs[s].score # None
    /\ Tell(u, subs[s].test)
    /\ UNCHANGED <<versions, subs, jobs, seen>>

Next ==
    \/ \E t \in Tests : GetTest(t)
    \/ \E t \in Tests, d \in Drafts : PostTest(t, d)
    \/ \E t \in Tests, d \in Rewrites : ReplaceTest(t, d)
    \/ \E u \in Users, t \in Tests : GetAnswerKey(u, t)
    \/ \E s \in Subs, u \in Learners, t \in Tests, p \in Payloads : SubmitAnswer(s, u, t, p)
    \/ \E s \in Used : ClaimNextForGrading(s)
    \/ \E s \in Used : \E j \in DOMAIN jobs[s] :
          \/ RecordScore(s, j) \/ SettleGraded(s, j)
          \/ \E permanent \in BOOLEAN : SettleFailure(s, j, permanent)
    \/ \E u \in Users, s \in Subs : GetScore(u, s)

Spec == Init /\ [][Next]_vars

-----------------------------------------------------------------------------
(* Properties *)

Stored(t) == ToSet(versions[t])

\* What can be a test, and what can be shown of one.
Acceptable == {d \in Drafts : Validate(d)}
Showable == {PublicContentData(d) : d \in Acceptable}

\* Tests only ever have contents that were accepted, and submissions, jobs
\* and readings are of such.
TypeOK ==
    /\ versions \in [Tests -> Seq(Acceptable)]
    /\ \A t \in Tests : Len(versions[t]) <= MaxVersions
    /\ \A s \in Used :
         /\ subs[s].status \in {"pending", "grading", "graded", "failed"}
         /\ subs[s].user \in Users /\ subs[s].test \in Tests /\ subs[s].payload \in Payloads
         /\ subs[s].since \in 1..Len(versions[subs[s].test])
         /\ subs[s].score # None => subs[s].score.band \in 0..18
    /\ jobs \in [Subs -> Seq(Acceptable)]
    /\ seen \subseteq Showable
    /\ told \in [Users -> SUBSET Tests]

Secret(content) ==
    \/ \E p \in Places(content) :
         LET q == QuestionAt(content, p) IN
           ~IsEmpty(q.answer) \/ q.accepted # <<>> \/ q.explained \/ q.evidence # <<>>
    \/ content.skill = "listening" /\ \E section \in ToSet(content.sections) : section.paragraphs # <<>>

Earned(u, t) == \E s \in Used : subs[s].user = u /\ subs[s].test = t /\ subs[s].score # None

\* A learner is told a test's right answers, by the key or by a score, only
\* with marks of an attempt of their own; what is shown to everybody gives
\* none away, nor what a listening test says.
AnswersAreEarned ==
    /\ \A content \in seen : ~Secret(content)
    /\ \A u \in Learners : \A t \in told[u] : Earned(u, t)

Proper(texts) == Nothing \notin Normalized(texts) /\ Cardinality(Normalized(texts)) = Len(texts)

\* The key of a question, when it is one text, or different ones for a
\* choice of several.
WellKeyed(g, q) ==
    /\ q.answer.kind = (IF g.type = Multi THEN "many" ELSE "one")
    /\ Proper(Strings(q.answer))

\* The key of a test, handed in as the answers.
KeyAnswers(content) ==
    [n \in {QuestionAt(content, p).order : p \in Places(content)} |->
        QuestionAt(content, CHOOSE p \in Places(content) : QuestionAt(content, p).order = n).answer]

\* Every question that is well keyed gets all its marks for its key, and if
\* all are, the whole key gets every mark and band 9.
KeyEarns(content) ==
    LET Keyed(p) == WellKeyed(GroupAt(content, p), QuestionAt(content, p))
        marks == AutoGrade(content, KeyAnswers(content))
    IN /\ \A p \in Places(content) : Keyed(p) =>
            LET q == QuestionAt(content, p) IN
              AnswerPoints(GroupAt(content, p), q, DecodeAnswerStrings(q.answer)) =
                  QuestionSpan(GroupAt(content, p))
       /\ (\A p \in Places(content) : Keyed(p)) =>
            marks.right = Places(content) /\ marks.correct = marks.total /\ marks.band = 18

\* Numbers from 1 on, as many as there are marks, each of one question.
OwnNumbers(content) ==
    /\ {n[2] : n \in Numbers(content)} = 1..SumFunction(Spans(content))
    /\ Cardinality({QuestionAt(content, p).order : p \in Places(content)}) = Cardinality(Places(content))

WhereKeyEarns == {content \in Drafts : KeyEarns(content)}
WithOwnNumbers == {content \in Drafts : OwnNumbers(content)}

\* What is accepted when a test is created is what its marking needs: each
\* question answered with its own key gets all its marks, and the key of a
\* whole test, handed in as the answers, gets every mark and band 9.
KeyEarnsAllMarks == \A t \in Tests : Stored(t) \subseteq WhereKeyEarns

\* Questions have numbers of their own from 1 on, as many as there are
\* marks, so that answers and results kept by number never meet.
NumbersAreTheirOwn == \A t \in Tests : Stored(t) \subseteq WithOwnNumbers

\* A score is the marks for the answers against one content that the test
\* had between the submission and now, however often it was replaced
\* while jobs were marking it.
MarkedAgainstOneVersion ==
    \A s \in Used : subs[s].score # None =>
        \E v \in subs[s].since..Len(versions[subs[s].test]) :
            subs[s].score = AutoGrade(versions[subs[s].test][v], subs[s].payload)

\* Marks stay within the test's, all of them give band 9, and of two
\* attempts at tests of the same length the one with more marks never has
\* the lower band.
MoreMarksNoLowerBand ==
    \A r, s \in Used : subs[r].score # None /\ subs[s].score # None =>
        LET a == subs[r].score
            b == subs[s].score
        IN /\ a.correct \in 0..a.total
           /\ a.correct = a.total => a.band = 18
           /\ a.total = b.total /\ a.correct <= b.correct => a.band <= b.band

\* Bad content is refused when a test is created instead of surfacing when
\* a submission is marked (autograde.go:14-16): some answer earns all the
\* marks of each question.  Only texts of the key, texts that are accepted
\* and the empty text can match, so answers are lists of those.
AcceptedTestsCanBeAced ==
    \A t \in Tests : \A content \in Stored(t) : \A p \in Places(content) :
        LET g == GroupAt(content, p)
            q == QuestionAt(content, p)
            texts == ToSet(Strings(q.answer)) \cup ToSet(q.accepted) \cup {Blank}
        IN \E n \in 1..QuestionSpan(g) : \E list \in [1..n -> texts] :
             AnswerPoints(g, q, DecodeAnswerStrings(AllOf(list))) = QuestionSpan(g)

-----------------------------------------------------------------------------
=============================================================================
