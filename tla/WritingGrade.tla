---------------------------- MODULE WritingGrade ----------------------------
(***************************************************************************)
(* Grading writing answers.  An attempt asks the language model in         *)
(* parallel for a verdict on each criterion, for corrections and, where    *)
(* the test has no sample, for a model answer; the first of these calls to *)
(* fail cancels the others.  Several jobs run side by side, and a failed   *)
(* one is tried again.                                                     *)
(***************************************************************************)
EXTENDS Integers, Sequences, FiniteSets, SequencesExt, FiniteSetsExt, Bands

CONSTANTS
    Jobs,             \* submissions, one grading job each
    Written,          \* those of writing tests
    Illustrated,      \* those whose task has a picture
    Sampled,          \* those whose test has a sample answer
    Criteria,         \* what writingCriteria lists for the task
    Bands,            \* what a judge may answer
    CorrectionLists,  \* what the correction pass may answer
    MaxCorrections,
    MaxAttempts,
    None

ASSUME WritingAssumption ==
    /\ Written \subseteq Jobs /\ Illustrated \subseteq Written /\ Sampled \subseteq Written
    /\ IsFiniteSet(Criteria) /\ Criteria # {}
    /\ Criteria \cap {"corrections", "modelAnswer"} = {}
    /\ None \notin {"own", "expired", "cancelled", "ungradable"}
    /\ Bands \subseteq Int /\ MaxAttempts \in Nat \ {0} /\ MaxCorrections \in Nat
    /\ CorrectionLists \subseteq Seq([quoted : BOOLEAN, issue : STRING])

VARIABLES
    attempt,  \* of each job
    stage,    \* where it is
    ctx,      \* its context: live, expired, or cancelled by a call that failed
    call,     \* the calls of the attempt
    cause,    \* the error the attempt reports: what the first call to fail met
    result,   \* what the calls have answered
    score     \* the score that is stored

gradeVars == <<attempt, stage, ctx, call, cause, result, score>>

Calls == Criteria \cup {"corrections", "modelAnswer"}
Asked(j) ==
    CASE j \notin Written -> {}
      [] j \in Sampled -> Calls \ {"modelAnswer"}
      [] OTHER -> Calls

Idle == [c \in Calls |-> "idle"]
Started(j) == [c \in Calls |-> IF c \in Asked(j) THEN "running" ELSE "idle"]
Empty == [criteria |-> [c \in Criteria |-> None], corrections |-> None, model |-> None]

InitGrade ==
    /\ attempt = [j \in Jobs |-> 0]
    /\ stage = [j \in Jobs |-> "pending"]
    /\ ctx = [j \in Jobs |-> "live"]
    /\ call = [j \in Jobs |-> Idle]
    /\ cause = [j \in Jobs |-> None]
    /\ result = [j \in Jobs |-> Empty]
    /\ score = [j \in Jobs |-> None]

-----------------------------------------------------------------------------
(* Attempts *)

\* ClaimNextForGrading; every claim is an attempt.
Begin(j) ==
    /\ stage[j] = "pending"
    /\ attempt' = [attempt EXCEPT ![j] = @ + 1]
    /\ stage' = [stage EXCEPT ![j] = "loading"]
    /\ cause' = [cause EXCEPT ![j] = None]
    /\ UNCHANGED <<ctx, call, result, score>>

\* The test and the submission are read; a score that an earlier attempt
\* saved only needs its status.
Load(j) ==
    /\ stage[j] = "loading"
    /\ stage' = [stage EXCEPT ![j] = IF score[j] # None THEN "scored"
                                     ELSE IF j \in Illustrated THEN "resolving" ELSE "grading"]
    /\ call' = [call EXCEPT ![j] = IF stage'[j] = "grading" THEN Started(j) ELSE @]
    /\ UNCHANGED <<attempt, ctx, cause, result, score>>

\* The picture of the task is made into something the model can fetch.
Resolve(j) ==
    /\ stage[j] = "resolving"
    /\ stage' = [stage EXCEPT ![j] = "grading"]
    /\ call' = [call EXCEPT ![j] = Started(j)]
    /\ UNCHANGED <<attempt, ctx, cause, result, score>>

\* The context and the result of an attempt end with it.
EndCalls(j) ==
    /\ ctx' = [ctx EXCEPT ![j] = "live"]
    /\ call' = [call EXCEPT ![j] = Idle]
    /\ result' = [result EXCEPT ![j] = Empty]

\* Mutant: the attempt after the last one is still made.
RetryOnceMore(j, error) ==
    /\ stage' = [stage EXCEPT ![j] = IF error = "ungradable" \/ attempt[j] > MaxAttempts
                                     THEN "failed" ELSE "pending"]
    /\ cause' = [cause EXCEPT ![j] = error]
    /\ EndCalls(j)
    /\ UNCHANGED <<attempt, score>>

\* settleFailure: failed if no retry could help or this was the last attempt,
\* else back on the queue.
SettleFailure(j, error) ==
    /\ stage' = [stage EXCEPT ![j] = IF error = "ungradable" \/ attempt[j] >= MaxAttempts
                                     THEN "failed" ELSE "pending"]
    /\ cause' = [cause EXCEPT ![j] = error]
    /\ EndCalls(j)
    /\ UNCHANGED <<attempt, score>>

\* The test could not be read, or it, or the answer, not be parsed.
LoadFails(j) == stage[j] = "loading" /\ SettleFailure(j, "ungradable")

ResolveFails(j) == stage[j] = "resolving" /\ SettleFailure(j, "own")

\* The job's timeout, or the shutdown of the worker.
Expire(j) ==
    /\ stage[j] = "grading" /\ ctx[j] = "live"
    /\ ctx' = [ctx EXCEPT ![j] = "expired"]
    /\ UNCHANGED <<attempt, stage, call, cause, result, score>>

-----------------------------------------------------------------------------
(* The calls of an attempt *)

Answer(j, c) ==
    /\ stage[j] = "grading" /\ call[j][c] = "running"
    /\ call' = [call EXCEPT ![j][c] = "answered"]
    /\ UNCHANGED <<attempt, stage, ctx, cause, score>>

Judge(j, c, band) ==
    /\ c \in Criteria /\ band \in 0..9
    /\ Answer(j, c)
    /\ result' = [result EXCEPT ![j].criteria[c] = band]

Correct(j, list) ==
    /\ Answer(j, "corrections")
    /\ result' = [result EXCEPT ![j].corrections = list]

WriteModelAnswer(j) ==
    /\ Answer(j, "modelAnswer")
    /\ result' = [result EXCEPT ![j].model = "llm"]

\* Mutant: the last failure is kept.
KeepLastError(j, c, error) ==
    /\ stage[j] = "grading" /\ call[j][c] = "running"
    /\ error \in {"own", ctx[j]} \ {"live"}
    /\ call' = [call EXCEPT ![j][c] = "failed"]
    /\ cause' = [cause EXCEPT ![j] = error]
    /\ ctx' = [ctx EXCEPT ![j] = IF @ = "live" THEN "cancelled" ELSE @]
    /\ UNCHANGED <<attempt, stage, result, score>>

\* A call fails: its own error, be it no usable answer or a band that is
\* none, or else the end of the context.  The first failure is kept.
Fail(j, c, error) ==
    /\ stage[j] = "grading" /\ call[j][c] = "running"
    /\ error \in {"own", ctx[j]} \ {"live"}
    /\ call' = [call EXCEPT ![j][c] = "failed"]
    /\ cause' = [cause EXCEPT ![j] = IF @ = None THEN error ELSE @]
    /\ ctx' = [ctx EXCEPT ![j] = IF @ = "live" THEN "cancelled" ELSE @]
    /\ UNCHANGED <<attempt, stage, result, score>>

-----------------------------------------------------------------------------
(* The grade *)

CorrectionIssues == {"grammar", "vocabulary", "spelling", "punctuation", "cohesion", "task"}

Filed(c) == IF c.issue \in CorrectionIssues THEN c ELSE [c EXCEPT !.issue = "other"]

\* Corrections that quote the answer, the first MaxCorrections of them.
Kept(list) ==
    LET kept[i \in 0..Len(list)] ==
          IF i = 0 THEN <<>>
          ELSE IF list[i].quoted /\ Len(kept[i - 1]) < MaxCorrections
               THEN Append(kept[i - 1], Filed(list[i])) ELSE kept[i - 1]
    IN kept[Len(list)]

\* normalizeResult.  Judges answer whole bands, so there is nothing to round
\* but the overall band, which is counted in half bands.
Normalized(j) ==
    [criteria |-> result[j].criteria,
     overall |-> IELTSOverall(SumFunction(result[j].criteria), Cardinality(Criteria)),
     corrections |-> Kept(result[j].corrections),
     model |-> IF j \in Sampled THEN "sample" ELSE result[j].model]

\* Mutant: the model answer is not waited for.
WaitedForVerdicts(j) == stage[j] = "grading" /\ \A c \in Calls \ {"modelAnswer"} : call[j][c] # "running"

Waited(j) == stage[j] = "grading" /\ \A c \in Calls : call[j][c] # "running"

\* All calls have ended; the score is saved.
RecordScore(j) ==
    /\ j \in Written /\ Waited(j) /\ cause[j] = None
    /\ score' = [score EXCEPT ![j] = Normalized(j)]
    /\ stage' = [stage EXCEPT ![j] = "scored"]
    /\ EndCalls(j)
    /\ UNCHANGED <<attempt, cause>>

\* A call failed, or else the score could not be saved.
AttemptFails(j) ==
    Waited(j) /\ SettleFailure(j, IF cause[j] = None THEN "own" ELSE cause[j])

\* Reading and listening: marked without calls.
AutoGrade(j) ==
    /\ j \notin Written /\ stage[j] = "grading"
    /\ stage' = [stage EXCEPT ![j] = "scored"]
    /\ score' = [score EXCEPT ![j] = "auto"]
    /\ EndCalls(j)
    /\ UNCHANGED <<attempt, cause>>

SettleGraded(j) ==
    /\ stage[j] = "scored"
    /\ stage' = [stage EXCEPT ![j] = "graded"]
    /\ UNCHANGED <<attempt, ctx, call, cause, result, score>>

\* The status could not be written; the score stays.
SettleFails(j) == stage[j] = "scored" /\ SettleFailure(j, "own")

GradeStep(j) ==
    \/ Begin(j) \/ Load(j) \/ LoadFails(j) \/ Resolve(j) \/ ResolveFails(j) \/ Expire(j)
    \/ \E c \in Calls :
         \/ \E band \in Bands : Judge(j, c, band)
         \/ \E error \in {"own", "expired", "cancelled"} : Fail(j, c, error)
    \/ \E list \in CorrectionLists : Correct(j, list)
    \/ WriteModelAnswer(j)
    \/ RecordScore(j) \/ AttemptFails(j) \/ AutoGrade(j) \/ SettleFails(j)

=============================================================================
