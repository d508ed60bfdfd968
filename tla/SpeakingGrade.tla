--------------------------- MODULE SpeakingGrade ---------------------------
(***************************************************************************)
(* Grading one speaking submission: Grader.Grade and the goroutines it     *)
(* starts, over the attempts the grading queue gives it.                   *)
(*                                                                         *)
(* An attempt transcribes every answer a few at a time, has a sample of    *)
(* them assessed by the pronunciation service, asks a judge per criterion  *)
(* while a goroutine of its own collects the teachers' reviews, lowers the *)
(* bands to what the measurements allow, and averages them.  Any call may  *)
(* fail, and the job's deadline may pass at any point, after which every   *)
(* call fails.  A failed attempt leaves its review goroutine behind.       *)
(***************************************************************************)
EXTENDS Integers, FiniteSets, Bands

CONSTANTS
    Answers,      \* the recorded answers of the payload
    PartOf,       \* the part of the test an answer belongs to
    Talk,         \* the answer to the cue card (question p2)
    Mode,         \* SpeakingContent.Mode: full, or a part practised alone
    Reviewed,     \* the parts with a teacher's review prompt
    Slots,        \* capacity of the transcription semaphore, 4 in the code
    MaxAttempts,  \* maxGradingAttempts
    Bands,        \* the bands judges answer with, valid or not
    Measures      \* what the recordings may measure

Parts == 1..3
Criteria == {"FC", "LR", "GRA", "P"}

\* words: WordCount; talk: LongTurnSeconds, and rate: SpeechRateWPM, in tenths;
\* pauses: LongPausesPerMin, and clear: Intelligibility, in hundredths; pitch:
\* PitchStdST in tenths of a semitone.
Measure == [words: Nat, talk: Nat, pauses: Nat, rate: Nat, clear: Nat, pitch: Nat]

ASSUME GradeAssumption ==
    /\ PartOf \in [Answers -> Parts]
    /\ Talk \in Answers => PartOf[Talk] = 2
    /\ Mode \in {"full", "part1", "part2", "part3"}
    /\ Reviewed \subseteq Parts
    /\ Slots \in Nat \ {0}
    /\ MaxAttempts \in Nat \ {0}
    /\ Bands \subseteq Int
    /\ Measures \subseteq Measure

VARIABLES
    config,   \* pronunciation: not scored, scored without a service, or with it
    attempt,  \* attempts made, the current one included
    stage,    \* where the current attempt is in Grade
    expired,  \* the stage in which the job's deadline passed, or "no"
    clip,     \* per answer: its transcription goroutine, then what was heard
    sample,   \* the answers the pronunciation service has yet to assess
    pron,     \* the pronunciation summary the judges are given
    verdict,  \* per criterion: Asked, Broken, or the judge's band
    review,   \* per attempt: its review goroutine and the channel it sends on
    grade     \* what GradeSpeaking returned, or NoGrade

vars == <<config, attempt, stage, expired, clip, sample, pron, verdict, review, grade>>

-----------------------------------------------------------------------------
(* Data *)

Stages == {"waiting", "transcribing", "assessing", "judging", "combining",
           "graded", "failed"}
Over == {"waiting", "graded", "failed"}

Heard == {"silent", "short", "spoken"}   \* no words, fewer than 5, 5 or more
Clips == Heard \union {"queued", "running", "lost"}

Asked == 0
Broken == -1

NoReview == [at |-> "none", left |-> {}, done |-> {}]
Review == [at: {"none", "writing", "queued", "taken"},
           left: SUBSET Parts, done: SUBSET Parts]

NoGrade == [attempt |-> 0]
Grades == [attempt: 1..MaxAttempts, pron: {"none", "measured", "estimated"},
           judged: [Criteria -> -1..9], measured: Measure,
           band: [Criteria -> -1..9], overall: 0..18, parts: SUBSET Parts]

\* g.criteria.
Rated == IF config = "off" THEN Criteria \ {"P"} ELSE Criteria

Running == {a \in Answers : clip[a] = "running"}

\* The answers with enough words to be assessed.
Assessable == {a \in Answers : clip[a] = "spoken"}

\* The job context of attempt k is neither past its deadline nor cancelled
\* by the end of gradeClaimed.
Live(k) == k = attempt /\ stage \notin Over /\ expired = "no"

LastAttempt == attempt >= MaxAttempts

-----------------------------------------------------------------------------
(* The guardrails and the overall band *)

Capped(condition, band) == IF condition THEN {band} ELSE {}

FewWords(c, m) == Capped(c \in Criteria /\ m.words < 40, 3)

FluencyCaps(m) ==
    UNION {Capped(Mode \in {"full", "part2"} /\ m.talk < 450, 5),
           Capped(Mode \in {"full", "part2"} /\ m.talk \in 450..599, 6),
           Capped(Mode = "part1", 7),
           Capped(m.pauses > 1000, 4),
           Capped(m.pauses \in 601..1000, 5),
           Capped(m.words >= 40 /\ m.rate < 500, 4),
           Capped(m.words >= 40 /\ m.rate \in 500..699, 5)}

PronunciationCaps(m, p) ==
    IF p = "measured"
    THEN UNION {Capped(m.clear < 60, 4), Capped(m.clear \in 60..74, 5),
                Capped(m.clear \in 75..84, 6), Capped(m.pitch \in 1..14, 6)}
    ELSE {7}

CapsFor(c, m, p) ==
    UNION {FewWords(c, m),
           IF c = "FC" THEN FluencyCaps(m) ELSE {},
           IF c = "P" THEN PronunciationCaps(m, p) ELSE {}}

Lowest(S) == CHOOSE x \in S : \A y \in S : x <= y

\* A band, lowered to the tightest of its caps.
ApplyCaps(band, caps) == Lowest(caps \union {band})

SumOf(band) == band["FC"] + band["LR"] + band["GRA"]
               + (IF config = "off" THEN 0 ELSE band["P"])

Count == IF config = "off" THEN 3 ELSE 4

-----------------------------------------------------------------------------
(* Starting and ending an attempt *)

Init ==
    /\ config \in {"off", "none", "service"}
    /\ attempt = 0
    /\ stage = "waiting"
    /\ expired = "no"
    /\ clip = [a \in Answers |-> "queued"]
    /\ sample = {}
    /\ pron = "none"
    /\ verdict = [c \in Criteria |-> Asked]
    /\ review = [k \in 1..MaxAttempts |-> NoReview]
    /\ grade = NoGrade

\* The queue gives the submission its next attempt.
Start ==
    /\ stage = "waiting"
    /\ attempt < MaxAttempts
    /\ attempt' = attempt + 1
    /\ stage' = "transcribing"
    /\ UNCHANGED <<config, expired, clip, sample, pron, verdict, review, grade>>

\* The attempt ends in an error: its locals are gone, the submission waits
\* for its next attempt or, after the last one, has failed.
EndAttempt ==
    /\ stage' = IF LastAttempt THEN "failed" ELSE "waiting"
    /\ expired' = IF LastAttempt THEN expired ELSE "no"
    /\ clip' = [a \in Answers |-> "queued"]
    /\ sample' = {}
    /\ pron' = "none"
    /\ verdict' = [c \in Criteria |-> Asked]
    /\ UNCHANGED <<config, attempt, review, grade>>

\* The job's deadline passes.  (A shutdown, which cancels the same context, is in
\* GradingQueue.)
Expire ==
    /\ stage \notin Over /\ expired = "no"
    /\ expired' = stage
    /\ UNCHANGED <<config, attempt, stage, clip, sample, pron, verdict, review, grade>>

-----------------------------------------------------------------------------
(* Transcription *)

\* An answer's goroutine gets a slot of the semaphore.
Acquire(a) ==
    /\ stage = "transcribing"
    /\ clip[a] = "queued"
    /\ Cardinality(Running) < Slots
    /\ clip' = [clip EXCEPT ![a] = "running"]
    /\ UNCHANGED <<config, attempt, stage, expired, sample, pron, verdict, review, grade>>

\* Mutant: a goroutine that fails keeps its slot.
TranscribeOrHang(a) ==
    /\ clip[a] = "running"
    /\ Live(attempt)
    /\ \E heard \in Heard : clip' = [clip EXCEPT ![a] = heard]
    /\ UNCHANGED <<config, attempt, stage, expired, sample, pron, verdict, review, grade>>

\* It has loaded and transcribed the recording, or failed to, and frees its slot.
Transcribe(a) ==
    /\ clip[a] = "running"
    /\ \E heard \in (IF Live(attempt) THEN Heard ELSE {}) \union {"lost"} :
           clip' = [clip EXCEPT ![a] = heard]
    /\ UNCHANGED <<config, attempt, stage, expired, sample, pron, verdict, review, grade>>

\* Has rewriteAll something to give the review of this part?  Part 2's review
\* is of the talk alone.
HasInput(part) ==
    \E a \in Answers : /\ PartOf[a] = part
                       /\ clip[a] \in {"short", "spoken"}
                       /\ part = 2 => a = Talk

\* Starts the judges, and the reviews on a goroutine of their own.
StartJudging(p) ==
    /\ stage' = "judging"
    /\ pron' = p
    /\ sample' = {}
    /\ review' = [review EXCEPT ![attempt] =
                     [at |-> "writing", left |-> {r \in Reviewed : HasInput(r)}, done |-> {}]]
    /\ UNCHANGED <<config, attempt, expired, clip, verdict, grade>>

\* Pronunciation could not be assessed: worth another attempt as long as
\* there is a service and an attempt left.
Unavailable ==
    IF ~LastAttempt /\ config = "service" THEN EndAttempt ELSE StartJudging("estimated")

\* Every transcription goroutine is done.  The sample is what fits the
\* configured seconds of speech, always something if anything can be assessed.
Transcribed ==
    /\ stage = "transcribing"
    /\ \A a \in Answers : clip[a] \in Heard \union {"lost"}
    /\ \/ (\E a \in Answers : clip[a] = "lost") /\ EndAttempt
       \/ /\ \A a \in Answers : clip[a] # "lost"
          /\ \/ config = "off" /\ StartJudging("none")
             \/ config # "off" /\ (config = "none" \/ Assessable = {}) /\ Unavailable
             \/ /\ config = "service"
                /\ \E picked \in SUBSET Assessable \ {{}} : sample' = picked
                /\ stage' = "assessing"
                /\ UNCHANGED <<config, attempt, expired, clip, pron, verdict, review, grade>>

-----------------------------------------------------------------------------
(* Pronunciation *)

\* The service assesses one answer of the sample; the last one completes the
\* summary, of which nothing is left if none of the clips has a duration.
Assess(a) ==
    /\ stage = "assessing"
    /\ a \in sample
    /\ Live(attempt)
    /\ IF sample = {a}
       THEN StartJudging("measured") \/ Unavailable
       ELSE /\ sample' = sample \ {a}
            /\ UNCHANGED <<config, attempt, stage, expired, clip, pron, verdict, review, grade>>

AssessFails == stage = "assessing" /\ Unavailable

-----------------------------------------------------------------------------
(* Judges and reviews *)

\* Mutant: the judge's band is taken as it is.
JudgeUnchecked(c) ==
    /\ stage = "judging"
    /\ c \in Rated /\ verdict[c] = Asked
    /\ \E band \in (IF Live(attempt) THEN Bands ELSE {}) \union {Broken} :
           verdict' = [verdict EXCEPT ![c] = band]
    /\ UNCHANGED <<config, attempt, stage, expired, clip, sample, pron, review, grade>>

\* A judge answers with a band, which is checked; its call, or the parsing of
\* its answer, may fail instead.
Judge(c) ==
    /\ stage = "judging"
    /\ c \in Rated /\ verdict[c] = Asked
    /\ \E band \in (IF Live(attempt) THEN Bands ELSE {}) \union {Broken} :
           verdict' = [verdict EXCEPT ![c] = IF band \in 1..9 THEN band ELSE Broken]
    /\ UNCHANGED <<config, attempt, stage, expired, clip, sample, pron, review, grade>>

\* Every judge is done.
Judged ==
    /\ stage = "judging"
    /\ \A c \in Rated : verdict[c] # Asked
    /\ \/ (\E c \in Rated : verdict[c] = Broken) /\ EndAttempt
       \/ /\ \A c \in Rated : verdict[c] # Broken
          /\ stage' = "combining"
          /\ UNCHANGED <<config, attempt, expired, clip, sample, pron, verdict, review, grade>>

\* One part's review of attempt k is written, or its call fails and it is
\* left out.
WriteReview(k, part) ==
    /\ part \in review[k].left
    /\ \E written \in (IF Live(k) THEN {{part}, {}} ELSE {{}}) :
           review' = [review EXCEPT ![k].left = @ \ {part}, ![k].done = @ \union written]
    /\ UNCHANGED <<config, attempt, stage, expired, clip, sample, pron, verdict, grade>>

\* Mutant: an unbuffered channel, on which a send waits for its receiver.
SendToReceiver(k) ==
    /\ review[k].at = "writing" /\ review[k].left = {}
    /\ k = attempt /\ stage = "combining"
    /\ review' = [review EXCEPT ![k].at = "queued"]
    /\ UNCHANGED <<config, attempt, stage, expired, clip, sample, pron, verdict, grade>>

\* The review goroutine of attempt k sends what it has; the buffer takes it,
\* even if nobody receives any more.
SendReviews(k) ==
    /\ review[k].at = "writing" /\ review[k].left = {}
    /\ review' = [review EXCEPT ![k].at = "queued"]
    /\ UNCHANGED <<config, attempt, stage, expired, clip, sample, pron, verdict, grade>>

\* What the recordings can measure, given what was heard on them.  Fillers are
\* no words here, but count for the length of a clip.
Measured ==
    {m \in Measures : /\ (\A a \in Answers : clip[a] = "silent") => m.words = 0
                      /\ (Talk \in Answers => clip[Talk] = "silent") => m.talk = 0}

GradeOf(m, parts) ==
    LET band == [c \in Criteria |-> IF c \in Rated
                                    THEN ApplyCaps(verdict[c], CapsFor(c, m, pron)) ELSE Asked]
    IN  [attempt |-> attempt, pron |-> pron, judged |-> verdict, measured |-> m,
         band |-> band, overall |-> IELTSOverall(SumOf(band), Count), parts |-> parts]

\* Mutant: one channel for all attempts, which an earlier one may have sent on.
CombineAny ==
    /\ stage = "combining"
    /\ \E k \in 1..MaxAttempts :
        /\ review[k].at = "queued"
        /\ review' = [review EXCEPT ![k].at = "taken"]
        /\ \E m \in Measured : grade' = GradeOf(m, review[k].done)
    /\ stage' = "graded"
    /\ UNCHANGED <<config, attempt, expired, clip, sample, pron, verdict>>

\* The bands are capped, the reviews received, and the grade returned.
Combine ==
    /\ stage = "combining"
    /\ review[attempt].at = "queued"
    /\ review' = [review EXCEPT ![attempt].at = "taken"]
    /\ \E m \in Measured : grade' = GradeOf(m, review[attempt].done)
    /\ stage' = "graded"
    /\ UNCHANGED <<config, attempt, expired, clip, sample, pron, verdict>>

Next ==
    \/ Start \/ Expire \/ Transcribed \/ AssessFails \/ Judged \/ Combine
    \/ \E a \in Answers : Acquire(a) \/ Transcribe(a) \/ Assess(a)
    \/ \E c \in Criteria : Judge(c)
    \/ \E k \in 1..MaxAttempts : SendReviews(k) \/ \E part \in Parts : WriteReview(k, part)

Spec == Init /\ [][Next]_vars

\* Goroutines keep running, a freed slot is taken, and every call returns, as
\* the job's deadline ends it at the latest.  The deadline need not pass.
Fairness ==
    /\ WF_vars(Start) /\ WF_vars(Transcribed) /\ WF_vars(Judged) /\ WF_vars(Combine)
    /\ \A a \in Answers : WF_vars(Acquire(a)) /\ WF_vars(Transcribe(a))
    /\ WF_vars(AssessFails \/ \E a \in Answers : Assess(a))
    /\ \A c \in Criteria : WF_vars(Judge(c))
    /\ \A k \in 1..MaxAttempts :
          WF_vars(SendReviews(k)) /\ \A part \in Parts : WF_vars(WriteReview(k, part))

FairSpec == Spec /\ Fairness

-----------------------------------------------------------------------------
(* Properties *)

\* Everything stays in its set.
TypeOK ==
    /\ config \in {"off", "none", "service"}
    /\ attempt \in 0..MaxAttempts
    /\ stage \in Stages
    /\ expired \in {"no"} \union (Stages \ Over)
    /\ clip \in [Answers -> Clips]
    /\ sample \subseteq Answers
    /\ pron \in {"none", "measured", "estimated"}
    /\ verdict \in [Criteria -> -1..9]
    /\ review \in [1..MaxAttempts -> Review]
    /\ grade \in Grades \union {NoGrade}

IsGraded == grade # NoGrade

\* A submission is only graded from complete material, all of it from one
\* attempt: every answer transcribed, a valid verdict on every criterion that
\* is rated, and reviews of nothing but the parts that attempt heard.  No
\* transcription or verdict that failed, and nothing a failed attempt left
\* running, gets into the grade (Grade, transcribeAll, judgeAll, rewriteAll).
GradeIsWhole ==
    IsGraded =>
        /\ \A a \in Answers : clip[a] \in Heard
        /\ \A c \in Rated : grade.judged[c] \in 1..9
        /\ \A part \in grade.parts : part \in Reviewed /\ HasInput(part)
        /\ grade.attempt = attempt

\* Pronunciation is estimated only when no further attempt could measure it:
\* on the last attempt, or with no service configured.  An estimate never
\* earns more than a 7, a pronunciation that is not scored no band at all
\* (Grade, capsFor).
EstimateIsLastResort ==
    IsGraded =>
        /\ grade.pron = "estimated" => /\ LastAttempt \/ config = "none"
                                       /\ grade.band["P"] <= 7
        /\ grade.pron = "none" <=> config = "off"

\* Under 40 words cap everything at 3, the overall band included, whatever
\* the judges say (capsFor; docs/speaking.md, guardrails).
FewWordsFewBands == IsGraded /\ grade.measured.words < 40 => grade.overall <= 2 * 3

\* May criterion c have band x, for what was measured?
Allowed(c, x, m, p) ==
    /\ m.words < 40 => x <= 3
    /\ c = "FC" =>
         /\ Mode \in {"full", "part2"} => (m.talk < 450 => x <= 5) /\ (m.talk < 600 => x <= 6)
         /\ Mode = "part1" => x <= 7
         /\ (m.pauses > 600 => x <= 5) /\ (m.pauses > 1000 => x <= 4)
         /\ m.words >= 40 => (m.rate < 700 => x <= 5) /\ (m.rate < 500 => x <= 4)
    /\ c = "P" =>
         IF p = "measured"
         THEN /\ (m.clear < 85 => x <= 6) /\ (m.clear < 75 => x <= 5) /\ (m.clear < 60 => x <= 4)
              /\ m.pitch > 0 /\ m.pitch < 15 => x <= 6
         ELSE x <= 7

\* A band is the highest, up to what the judge said, that the measurements
\* allow: on either side of each threshold, and where several meet
\* (capsFor, applyCaps; docs/speaking.md, guardrails).
GuardrailsHold ==
    IsGraded =>
        \A c \in Rated :
            LET May(x) == Allowed(c, x, grade.measured, grade.pron)
            IN  /\ grade.band[c] <= grade.judged[c] /\ May(grade.band[c])
                /\ \A x \in grade.band[c] + 1..grade.judged[c] : ~May(x)

\* The overall band is the half band nearest to the mean of the criteria, the
\* higher one of two that are equally near (IELTSOverall).
OverallIsNearest ==
    IsGraded => LET twice == 2 * SumOf(grade.band) - Count * grade.overall
                IN  -Count <= 2 * twice /\ 2 * twice < Count

\* What may be said of a grade when it is given.
GradeIsSound == GradeIsWhole /\ EstimateIsLastResort /\ FewWordsFewBands /\ GuardrailsHold
                /\ OverallIsNearest

\* Every submission is graded or has failed in the end: no attempt waits for
\* a slot, a judge or a review that never comes.
EventuallyAnswered == <>(stage \in {"graded", "failed"})

\* The review goroutine of an attempt ends, even when the attempt failed
\* while it was running and nobody will receive what it sends.
ReviewersEnd ==
    \A k \in 1..MaxAttempts : review[k].at = "writing" ~> review[k].at # "writing"

\* What the comment in gradeSpeaking says of the last attempt: pronunciation
\* is estimated rather than fail the test.  A submission has then never
\* failed because of the time the pronunciation service took.
PronunciationNeverFailsTheTest == stage = "failed" => expired # "assessing"

=============================================================================
