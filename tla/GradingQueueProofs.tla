------------------------- MODULE GradingQueueProofs -------------------------
(***************************************************************************)
(* Theorems about GradingQueue, for any number of submissions, workers,    *)
(* processes and faults, and for any timeouts.                             *)
(*                                                                         *)
(* The type invariant is strengthened with what every step relies on: a    *)
(* busy worker has a job, a counted attempt once it has claimed, and a job *)
(* no older than its phase allows.                                         *)
(***************************************************************************)
EXTENDS GradingQueue, TLAPS

JobOK(j) ==
    /\ j \in Job
    /\ j.pc # "idle" => j.job \in Submissions /\ j.age <= AgeLimit(j)
    /\ j.pc \notin {"idle", "picked"} => j.attempt >= 1

TypeInv == TypeOK /\ \A w \in Workers : JobOK(worker[w])

\* The backoff before any retry is a whole number of ticks.
LEMMA DelayIsInt == ASSUME NEW a \in Nat \ {0} PROVE DelayAfter(a) \in Int
  BY QueueAssumption DEF DelayAfter

\* Timeouts, the lease and the saturation bound are natural numbers, and no
\* job within its limit reaches the bound before its claim is made.
LEMMA TimesAreNat ==
    /\ \A s \in Submissions : JobTimeout(s) \in Nat
    /\ Lease \in Nat /\ AgeCap \in Nat /\ Setup < AgeCap
  BY QueueAssumption DEF JobTimeout, Lease, AgeCap

\* An idle worker satisfies the invariant.
LEMMA IdleOK == JobOK(IdleWorker)
  BY DEF JobOK, IdleWorker, JobAt, Job, Phases, Causes, NoJob

\* A worker past its claim may move to any later phase, with any cause.
LEMMA MoveOK ==
    ASSUME NEW j, JobOK(j), j.pc \notin {"idle", "picked"},
           NEW pc \in Phases \ {"idle", "picked", "claimed"}, NEW c \in Causes
    PROVE  JobOK([j EXCEPT !.pc = pc]) /\ JobOK([j EXCEPT !.pc = pc, !.cause = c])
<1> DEFINE k == [j EXCEPT !.pc = pc]
           l == [j EXCEPT !.pc = pc, !.cause = c]
<1>1. j \in Job /\ j.job \in Submissions /\ j.attempt >= 1
  BY DEF JobOK
<1>2. j.age <= Setup + JobTimeout(j.job) + Overrun
  <2>1. JobTimeout(j.job) \in Nat /\ Setup \in Nat /\ Overrun \in Nat /\ j.age \in Nat
    BY <1>1, QueueAssumption, TimesAreNat DEF Job
  <2>2. j.age <= AgeLimit(j)
    BY DEF JobOK
  <2>. QED
    BY <2>1, <2>2 DEF AgeLimit
<1>3. k \in Job /\ k.pc = pc /\ k.job = j.job /\ k.age = j.age /\ k.attempt = j.attempt
  BY <1>1 DEF Job
<1>4. l \in Job /\ l.pc = pc /\ l.job = j.job /\ l.age = j.age /\ l.attempt = j.attempt
  BY <1>1 DEF Job
<1>. HIDE DEF k, l
<1>5. JobOK(k) /\ JobOK(l)
  BY <1>1, <1>2, <1>3, <1>4 DEF JobOK, AgeLimit
<1>. QED
  BY <1>5 DEF k, l

\* Replacing one worker's job by a good one keeps every worker good.
LEMMA WorkerUpdate ==
    ASSUME TypeInv, NEW w \in Workers, NEW j, JobOK(j), worker' = [worker EXCEPT ![w] = j]
    PROVE  (worker \in [Workers -> Job])' /\ (\A v \in Workers : JobOK(worker[v]))'
  BY DEF TypeInv, TypeOK, JobOK, Job, AgeLimit

\* The three ways a worker past its claim changes its control state.
LEMMA ControlOK ==
    ASSUME TypeInv, NEW w \in Workers, worker[w].pc \notin {"idle", "picked"},
           \/ \E pc \in Phases \ {"idle", "picked", "claimed"} : Goto(w, pc)
           \/ \E c \in Causes : Blame(w, c)
           \/ Idle(w)
    PROVE  (worker \in [Workers -> Job])' /\ (\A v \in Workers : JobOK(worker[v]))'
<1>1. JobOK(worker[w])
  BY DEF TypeInv
<1>2. CASE \E pc \in Phases \ {"idle", "picked", "claimed"} : Goto(w, pc)
  <2>1. PICK pc \in Phases \ {"idle", "picked", "claimed"} : Goto(w, pc)
    BY <1>2
  <2>2. worker' = [worker EXCEPT ![w] = [worker[w] EXCEPT !.pc = pc]]
    BY <2>1 DEF Goto
  <2>3. JobOK([worker[w] EXCEPT !.pc = pc])
    BY <1>1, MoveOK DEF Causes
  <2>. QED
    BY <2>2, <2>3, WorkerUpdate
<1>3. CASE \E c \in Causes : Blame(w, c)
  <2>1. PICK c \in Causes : Blame(w, c)
    BY <1>3
  <2>2. worker' = [worker EXCEPT ![w] = [worker[w] EXCEPT !.pc = "settling", !.cause = c]]
    BY <2>1 DEF Blame
  <2>3. JobOK([worker[w] EXCEPT !.pc = "settling", !.cause = c])
    BY <1>1, MoveOK DEF Phases
  <2>. QED
    BY <2>2, <2>3, WorkerUpdate
<1>4. CASE Idle(w)
  BY <1>4, IdleOK, WorkerUpdate DEF Idle
<1>. QED
  BY <1>2, <1>3, <1>4

-----------------------------------------------------------------------------
(* Type correctness *)

LEMMA InitType == Init => TypeInv
  BY QueueAssumption, TimesAreNat, IdleOK
  DEF Init, TypeInv, TypeOK, Row, JobOK, NoClaim, NoWait, Statuses

\* A claim's write keeps the row well typed.
LEMMA ClaimRowType ==
    ASSUME TypeInv, NEW w \in Workers, worker[w].pc = "picked", MarkClaimed(w, worker[w].job)
    PROVE  row' \in [Submissions -> Row]
<1>1. worker[w].job \in Submissions /\ worker[w].age \in 0..AgeCap
  BY QueueAssumption, TimesAreNat DEF TypeInv, JobOK, Job, AgeLimit
<1>. QED
  BY <1>1, TimesAreNat DEF MarkClaimed, TypeInv, TypeOK, Row, Statuses, NoClaim

LEMMA NextType == TypeInv /\ [Next]_vars => TypeInv'
<1> SUFFICES ASSUME TypeInv, [Next]_vars PROVE TypeInv'
  OBVIOUS
<1> USE QueueAssumption, TimesAreNat
<1>1. ASSUME NEW s \in Submissions, SubmitAnswer(s) PROVE TypeInv'
  <2>1. row' \in [Submissions -> Row]
    BY <1>1 DEF SubmitAnswer, TypeInv, TypeOK, Row, Statuses
  <2>. QED
    BY <1>1, <2>1 DEF SubmitAnswer, TypeInv, TypeOK
<1>2. ASSUME NEW w \in Workers, ClaimSelect(w) PROVE TypeInv'
  <2>1. PICK s \in Submissions : worker' = [worker EXCEPT ![w] = JobAt("picked", s)]
    BY <1>2 DEF ClaimSelect
  <2>2. JobOK(JobAt("picked", s))
    BY DEF JobOK, JobAt, Job, Phases, Causes, AgeLimit
  <2>. QED
    BY <1>2, <2>1, <2>2, WorkerUpdate DEF ClaimSelect, TypeInv, TypeOK
<1>3. ASSUME NEW w \in Workers, ClaimCommit(w) PROVE TypeInv'
  <2> DEFINE n == row[worker[w].job].attempts + 1
             j == [worker[w] EXCEPT !.pc = "claimed", !.attempt = n]
  <2>1. worker[w] \in Job /\ worker[w].job \in Submissions /\ worker[w].age <= Setup
    BY <1>3 DEF ClaimCommit, TypeInv, JobOK, AgeLimit
  <2>2. n \in Nat /\ n >= 1
    <3>1. row[worker[w].job].attempts \in Nat
      BY <2>1 DEF TypeInv, TypeOK, Row
    <3>. QED
      BY <3>1
  <2>3. JobOK(j)
    <3>. HIDE DEF n
    <3>1. "claimed" \in Phases
      BY DEF Phases
    <3>2. /\ j \in Job /\ j.pc = "claimed" /\ j.job = worker[w].job
          /\ j.age = worker[w].age /\ j.attempt >= 1
      BY <2>1, <2>2, <3>1 DEF Job
    <3>. HIDE DEF j
    <3>. QED
      BY <2>1, <3>2 DEF JobOK, AgeLimit
  <2>4. worker' = [worker EXCEPT ![w] = j]
    BY <1>3 DEF ClaimCommit
  <2>5. row' \in [Submissions -> Row]
    BY <1>3, ClaimRowType DEF ClaimCommit
  <2>. HIDE DEF j
  <2>. QED
    BY <1>3, <2>3, <2>4, <2>5, WorkerUpdate DEF ClaimCommit, TypeInv, TypeOK
<1>4. ASSUME NEW w \in Workers, ClaimMiss(w) PROVE TypeInv'
  BY <1>4, IdleOK, WorkerUpdate DEF ClaimMiss, Idle, TypeInv, TypeOK
<1>5. ASSUME NEW w \in Workers, ClaimError(w) PROVE TypeInv'
  <2>1. row' \in [Submissions -> Row]
    BY <1>5, ClaimRowType DEF ClaimError, TypeInv, TypeOK
  <2>2. faults' \in 0..MaxFaults
    BY <1>5 DEF ClaimError, CallFails, Fault, TypeInv, TypeOK
  <2>. QED
    BY <1>5, <2>1, <2>2, IdleOK, WorkerUpdate DEF ClaimError, Idle, TypeInv, TypeOK
<1>6. ASSUME NEW w \in Workers, LoadTest(w) PROVE TypeInv'
  <2>1. faults' \in 0..MaxFaults
    BY <1>6 DEF LoadTest, CallFails, Fault, TypeInv, TypeOK
  <2>2. (worker \in [Workers -> Job])' /\ (\A v \in Workers : JobOK(worker[v]))'
    BY <1>6, ControlOK DEF LoadTest, Phases, Causes
  <2>. QED
    BY <1>6, <2>1, <2>2 DEF LoadTest, TypeInv, TypeOK
<1>7. ASSUME NEW w \in Workers, GetScoreBySubmissionID(w) PROVE TypeInv'
  <2>1. faults' \in 0..MaxFaults
    BY <1>7 DEF GetScoreBySubmissionID, CallFails, Fault, TypeInv, TypeOK
  <2>2. (worker \in [Workers -> Job])' /\ (\A v \in Workers : JobOK(worker[v]))'
    BY <1>7, ControlOK DEF GetScoreBySubmissionID, Phases
  <2>. QED
    BY <1>7, <2>1, <2>2 DEF GetScoreBySubmissionID, TypeInv, TypeOK
<1>8. ASSUME NEW w \in Workers, GradeBySkill(w) PROVE TypeInv'
  <2>1. (worker \in [Workers -> Job])' /\ (\A v \in Workers : JobOK(worker[v]))'
    BY <1>8, ControlOK DEF GradeBySkill, Phases, Causes
  <2>. QED
    BY <1>8, <2>1 DEF GradeBySkill, TypeInv, TypeOK
<1>9. ASSUME NEW w \in Workers, CreateScore(w) PROVE TypeInv'
  <2>1. faults' \in 0..MaxFaults
    BY <1>9 DEF CreateScore, CallFails, Fault, TypeInv, TypeOK
  <2>2. (worker \in [Workers -> Job])' /\ (\A v \in Workers : JobOK(worker[v]))'
    BY <1>9, ControlOK DEF CreateScore, BlameCall, Phases, Causes
  <2>3. scores' \subseteq Submissions
    <3>1. worker[w].job \in Submissions
      BY <1>9 DEF CreateScore, TypeInv, JobOK
    <3>. QED
      BY <1>9, <3>1 DEF CreateScore, TypeInv, TypeOK
  <2>. QED
    BY <1>9, <2>1, <2>2, <2>3 DEF CreateScore, TypeInv, TypeOK
<1>10. ASSUME NEW w \in Workers, UpdateSubmissionStatus(w) PROVE TypeInv'
  <2>1. faults' \in 0..MaxFaults
    BY <1>10 DEF UpdateSubmissionStatus, CallFails, Fault, TypeInv, TypeOK
  <2>2. (worker \in [Workers -> Job])' /\ (\A v \in Workers : JobOK(worker[v]))'
    BY <1>10, ControlOK DEF UpdateSubmissionStatus, BlameCall, Phases, Causes
  <2>3. row' \in [Submissions -> Row]
    BY <1>10 DEF UpdateSubmissionStatus, TypeInv, TypeOK, Row, Statuses
  <2>. QED
    BY <1>10, <2>1, <2>2, <2>3 DEF UpdateSubmissionStatus, TypeInv, TypeOK
<1>11. ASSUME NEW w \in Workers, GrantIfFirstAttempt(w) PROVE TypeInv'
  <2>1. faults' \in 0..MaxFaults
    BY <1>11 DEF GrantIfFirstAttempt, CallFails, Fault, TypeInv, TypeOK
  <2>2. grants' \subseteq Pairs
    BY <1>11 DEF GrantIfFirstAttempt, TypeInv, TypeOK
  <2>. QED
    BY <1>11, <2>1, <2>2, IdleOK, WorkerUpdate DEF GrantIfFirstAttempt, Idle, TypeInv, TypeOK
<1>12. ASSUME NEW w \in Workers, SettleFailure(w) PROVE TypeInv'
  <2>1. faults' \in 0..MaxFaults
    BY <1>12 DEF SettleFailure, Fault, TypeInv, TypeOK
  <2>2. worker[w].job \in Submissions /\ worker[w].attempt \in Nat \ {0}
    BY <1>12 DEF SettleFailure, TypeInv, JobOK, Job
  <2>3. ASSUME NEW old \in Row PROVE Settled(w, old) \in Row
    <3>1. DelayAfter(worker[w].attempt) \in Int /\ NoWait \in Int /\ NoClaim \in NoClaim..AgeCap
      BY <2>2, DelayIsInt DEF NoWait, NoClaim
    <3>2. {"pending", "failed"} \subseteq Statuses
      BY DEF Statuses
    <3>. QED
      BY <2>3, <3>1, <3>2 DEF Settled, Row
  <2>4. row' \in [Submissions -> Row]
    BY <1>12, <2>2, <2>3 DEF SettleFailure, TypeInv, TypeOK
  <2>. QED
    <3>1. (worker \in [Workers -> Job])' /\ (\A v \in Workers : JobOK(worker[v]))'
      BY <1>12, IdleOK, WorkerUpdate DEF SettleFailure, Idle
    <3>. QED
      BY <1>12, <2>1, <2>4, <3>1 DEF SettleFailure, TypeInv, TypeOK
<1>13. ASSUME NEW p \in Processes, Shutdown(p) \/ Exit(p) \/ Restart(p) PROVE TypeInv'
  <2>1. life' \in [Processes -> {"up", "stopping", "down"}] /\ faults' \in 0..MaxFaults
    BY <1>13 DEF Shutdown, Exit, Restart, Fault, TypeInv, TypeOK
  <2>2. UNCHANGED <<row, scores, grants, worker>>
    BY <1>13 DEF Shutdown, Exit, Restart
  <2>. QED
    BY <2>1, <2>2 DEF TypeInv, TypeOK
<1>14. ASSUME NEW p \in Processes, Crash(p) PROVE TypeInv'
  <2>1. (worker \in [Workers -> Job])' /\ (\A v \in Workers : JobOK(worker[v]))'
    BY <1>14, IdleOK DEF Crash, TypeInv, TypeOK, JobOK
  <2>. QED
    BY <1>14, <2>1 DEF Crash, Fault, TypeInv, TypeOK
<1>15. CASE Tick
  <2>1. ASSUME NEW s \in Submissions PROVE Aged(row[s]) \in Row
    <3>1. row[s] \in Row
      BY DEF TypeInv, TypeOK
    <3>2. NoWait \in Int
      BY DEF NoWait
    <3>3. row[s].claimAge \in NoClaim..AgeCap /\ row[s].wait \in Int
      BY <3>1 DEF Row
    <3>. DEFINE c == IF row[s].claimAge = NoClaim \/ row[s].claimAge >= AgeCap
                     THEN row[s].claimAge ELSE row[s].claimAge + 1
                 d == IF row[s].wait <= NoWait THEN row[s].wait ELSE row[s].wait - 1
    <3>4. c \in NoClaim..AgeCap /\ d \in Int
      BY <3>2, <3>3 DEF NoClaim
    <3>5. Aged(row[s]) = [row[s] EXCEPT !.claimAge = c, !.wait = d]
      BY DEF Aged
    <3>. HIDE DEF c, d
    <3>. QED
      BY <3>1, <3>4, <3>5 DEF Row
  <2>2. ASSUME NEW w \in Workers PROVE JobOK(worker'[w])
    <3>1. CASE worker[w].pc = "idle"
      BY <1>15, <3>1 DEF Tick, TypeInv
    <3>2. CASE worker[w].pc # "idle"
      <4> DEFINE j == [worker[w] EXCEPT !.age = @ + 1]
      <4>1. worker[w] \in Job /\ JobOK(worker[w]) /\ worker[w].age < AgeLimit(worker[w])
        BY <1>15, <3>2 DEF Tick, TypeInv, JobOK
      <4>2. JobTimeout(worker[w].job) \in Nat
        BY <3>2, <4>1 DEF JobOK
      <4>3. /\ j \in Job /\ j.pc = worker[w].pc /\ j.job = worker[w].job
            /\ j.attempt = worker[w].attempt /\ j.age = worker[w].age + 1
        BY <4>1 DEF Job
      <4>. HIDE DEF j
      <4>4. JobOK(j)
        BY <4>1, <4>2, <4>3 DEF JobOK, Job, AgeLimit
      <4>. QED
        BY <1>15, <3>2, <4>4 DEF Tick, j
    <3>. QED
      BY <3>1, <3>2
  <2>3. worker' \in [Workers -> Job]
    BY <1>15, <2>2 DEF Tick, JobOK
  <2>. QED
    BY <1>15, <2>1, <2>2, <2>3 DEF Tick, TypeInv, TypeOK
<1>16. CASE UNCHANGED vars
  BY <1>16 DEF vars, TypeInv, TypeOK
<1>. QED
  BY <1>1, <1>2, <1>3, <1>4, <1>5, <1>6, <1>7, <1>8, <1>9, <1>10, <1>11, <1>12, <1>13, <1>14,
     <1>15, <1>16 DEF Next, WorkerStep

\* The strengthened type invariant, which the other proofs rest on.
LEMMA TypeInvariant == Spec => []TypeInv
  BY InitType, NextType, PTL DEF Spec

\* Every reachable state is well typed: see TypeOK.
THEOREM TypeCorrect == Spec => []TypeOK
<1>1. TypeInv => TypeOK
  BY DEF TypeInv
<1>. QED
  BY <1>1, TypeInvariant, PTL

-----------------------------------------------------------------------------
(* How a step may change the tables *)

\* The only ways a submission's status changes: it is submitted, claimed,
\* settled out of "grading", or marked graded by a worker that saved or found
\* its score.
StatusStep(s) ==
    \/ row'[s].status = row[s].status
    \/ row[s].status = "absent" /\ row'[s].status = "pending"
    \/ row[s].status \in {"pending", "grading"} /\ row'[s].status = "grading"
    \/ row[s].status = "grading" /\ row'[s].status \in {"pending", "failed"}
    \/ /\ row'[s].status = "graded"
       /\ \E w \in Workers : worker[w].pc \in {"marking", "remarking"} /\ worker[w].job = s

LEMMA StatusChanges ==
    ASSUME TypeInv, [Next]_vars, NEW s \in Submissions
    PROVE  StatusStep(s)
<1>0. row \in [Submissions -> Row] /\ \A w \in Workers : worker[w].pc # "idle" => worker[w].job \in Submissions
  BY DEF TypeInv, TypeOK, JobOK
<1>1. ASSUME NEW t \in Submissions, SubmitAnswer(t) PROVE StatusStep(s)
  BY <1>0, <1>1 DEF SubmitAnswer, StatusStep, Row
<1>2. ASSUME NEW w \in Workers, worker[w].pc = "picked",
             Eligible(worker[w].job, worker[w].age), MarkClaimed(w, worker[w].job)
      PROVE  StatusStep(s)
  BY <1>0, <1>2 DEF MarkClaimed, Eligible, StatusStep, Row
<1>3. ASSUME NEW w \in Workers, ClaimCommit(w) \/ ClaimError(w) PROVE StatusStep(s)
  BY <1>2, <1>3 DEF ClaimCommit, ClaimError, StatusStep
<1>4. ASSUME NEW w \in Workers, UpdateSubmissionStatus(w) PROVE StatusStep(s)
  BY <1>0, <1>4 DEF UpdateSubmissionStatus, StatusStep, Row
<1>5. ASSUME NEW w \in Workers, SettleFailure(w) PROVE StatusStep(s)
  <2>1. worker[w].job \in Submissions
    BY <1>0, <1>5 DEF SettleFailure
  <2>2. ASSUME NEW old \in Row PROVE Settled(w, old).status \in {"pending", "failed"}
    BY <2>2 DEF Settled, Row
  <2>3. CASE UNCHANGED row
    BY <2>3 DEF StatusStep
  <2>4. CASE row[worker[w].job].status = "grading" /\ row' = [row EXCEPT ![worker[w].job] = Settled(w, @)]
    BY <1>0, <2>1, <2>2, <2>4 DEF StatusStep
  <2>. QED
    BY <1>5, <2>3, <2>4 DEF SettleFailure
<1>6. CASE Tick
  <2>1. row'[s] = Aged(row[s])
    BY <1>6 DEF Tick
  <2>2. Aged(row[s]).status = row[s].status
    BY <1>0 DEF Aged, Row
  <2>. QED
    BY <2>1, <2>2 DEF StatusStep
<1>7. CASE UNCHANGED row
  BY <1>7 DEF StatusStep
<1>. QED
  BY <1>1, <1>3, <1>4, <1>5, <1>6, <1>7
  DEF Next, WorkerStep, ClaimSelect, ClaimMiss, LoadTest, GetScoreBySubmissionID, GradeBySkill,
      CreateScore, GrantIfFirstAttempt, Shutdown, Exit, Crash, Restart, vars

\* No late, duplicate, interrupted or failing run of a grade ever takes a
\* submission out of "graded".
THEOREM GradedStaysGraded == Spec => GradedIsFinal
<1>1. TypeInv /\ [Next]_vars =>
        [\A s \in Submissions : row[s].status = "graded" => row'[s].status = "graded"]_vars
  BY StatusChanges DEF StatusStep
<1>. QED
  BY <1>1, TypeInvariant, PTL DEF Spec, GradedIsFinal

-----------------------------------------------------------------------------
(* Claims *)

\* No two workers can turn one due row into two claims, and none can claim a
\* row that was rescheduled, settled or claimed between its selection and
\* its claim: see ClaimsOnlyDueWork.
THEOREM ClaimsAreDue == Spec => ClaimsOnlyDueWork
<1> DEFINE Due == \A s \in Submissions : row'[s].attempts > row[s].attempts =>
                    \/ row[s].status = "pending" /\ row[s].wait <= 0
                    \/ row[s].status = "grading" /\ row[s].claimAge > Lease
<1>1. TypeInv /\ [Next]_vars => [Due]_vars
  <2> SUFFICES ASSUME TypeInv, [Next]_vars PROVE Due
    OBVIOUS
  <2>0. row \in [Submissions -> Row]
    BY DEF TypeInv, TypeOK
  <2>1. ASSUME NEW w \in Workers, worker[w].pc = "picked",
               Eligible(worker[w].job, worker[w].age), MarkClaimed(w, worker[w].job)
        PROVE  Due
    <3>1. worker[w].age \in Nat /\ worker[w].job \in Submissions /\ Lease \in Nat
      BY <2>1, TimesAreNat DEF TypeInv, JobOK, Job
    <3>2. row[worker[w].job].wait \in Int /\ row[worker[w].job].claimAge \in Int
      BY <2>0, <3>1, TimesAreNat DEF Row, NoClaim
    <3>3. \/ row[worker[w].job].status = "pending" /\ row[worker[w].job].wait <= 0
          \/ row[worker[w].job].status = "grading" /\ row[worker[w].job].claimAge > Lease
      BY <2>1, <3>1, <3>2 DEF Eligible
    <3>4. ASSUME NEW s \in Submissions, s # worker[w].job PROVE row'[s] = row[s]
      BY <2>0, <2>1, <3>4 DEF MarkClaimed
    <3>5. ASSUME NEW s \in Submissions, row'[s] = row[s] PROVE ~(row'[s].attempts > row[s].attempts)
      BY <2>0, <3>5 DEF Row
    <3>. QED
      BY <3>3, <3>4, <3>5
  <2>2. ASSUME NEW s \in Submissions, row'[s].attempts = row[s].attempts
        PROVE  ~(row'[s].attempts > row[s].attempts)
    BY <2>0, <2>2 DEF Row
  <2>3. CASE UNCHANGED row
    BY <2>2, <2>3
  <2>4. ASSUME NEW s \in Submissions, SubmitAnswer(s) PROVE Due
    BY <2>0, <2>2, <2>4 DEF SubmitAnswer, Row
  <2>5. ASSUME NEW w \in Workers, ClaimCommit(w) \/ ClaimError(w) PROVE Due
    BY <2>1, <2>3, <2>5 DEF ClaimCommit, ClaimError
  <2>6. ASSUME NEW w \in Workers, UpdateSubmissionStatus(w) PROVE Due
    BY <2>0, <2>2, <2>6 DEF UpdateSubmissionStatus, Row
  <2>7. ASSUME NEW w \in Workers, SettleFailure(w) PROVE Due
    <3>1. ASSUME NEW old \in Row PROVE Settled(w, old).attempts = old.attempts
      BY <3>1 DEF Settled, Row
    <3>2. ASSUME NEW s \in Submissions PROVE row'[s].attempts = row[s].attempts
      BY <2>0, <2>7, <3>1 DEF SettleFailure
    <3>. QED
      BY <2>2, <3>2
  <2>8. CASE Tick
    <3>1. ASSUME NEW s \in Submissions PROVE row'[s].attempts = row[s].attempts
      BY <2>0, <2>8 DEF Tick, Aged, Row
    <3>. QED
      BY <2>2, <3>1
  <2>. QED
    BY <2>3, <2>4, <2>5, <2>6, <2>7, <2>8
    DEF Next, WorkerStep, ClaimSelect, ClaimMiss, LoadTest, GetScoreBySubmissionID, GradeBySkill,
        CreateScore, GrantIfFirstAttempt, Shutdown, Exit, Crash, Restart, vars
<1>. QED
  BY <1>1, TypeInvariant, PTL DEF Spec, ClaimsOnlyDueWork

-----------------------------------------------------------------------------
(* Scores and XP *)

\* Why the order of the writes is right: a worker marks only what has a
\* score, and grants XP only for what is marked.
GradeInv ==
    /\ \A w \in Workers : worker[w].pc \in {"marking", "remarking"} => worker[w].job \in scores
    /\ \A w \in Workers : worker[w].pc = "granting" => row[worker[w].job].status = "graded"
    /\ GradedHasScore
    /\ XpOnlyForGraded

LEMMA InitGrade == Init => GradeInv
  BY DEF Init, GradeInv, GradedHasScore, XpOnlyForGraded, IdleWorker, JobAt

\* A saved score is never removed.
LEMMA ScoresGrow == ASSUME [Next]_vars PROVE scores \subseteq scores'
  BY DEF Next, WorkerStep, SubmitAnswer, ClaimSelect, ClaimCommit, ClaimMiss, ClaimError, LoadTest,
         GetScoreBySubmissionID, GradeBySkill, CreateScore, UpdateSubmissionStatus,
         GrantIfFirstAttempt, SettleFailure, Shutdown, Exit, Crash, Restart, Tick, vars

\* A worker comes to mark a submission only with its score saved, and to
\* grant XP only by marking the submission graded.
Advance(w) ==
    \/ worker'[w].pc \notin {"marking", "remarking", "granting"}
    \/ worker'[w].pc = worker[w].pc /\ worker'[w].job = worker[w].job
    \/ worker'[w].pc \in {"marking", "remarking"} /\ worker'[w].job \in scores'
    \/ /\ worker'[w].pc = "granting" /\ worker'[w].job \in Submissions
       /\ row'[worker'[w].job].status = "graded"

LEMMA WorkersAdvance ==
    ASSUME TypeInv, [Next]_vars, NEW v \in Workers
    PROVE  Advance(v)
<1>0. /\ worker \in [Workers -> Job] /\ row \in [Submissions -> Row]
      /\ \A w \in Workers : worker[w].pc # "idle" => worker[w].job \in Submissions
  BY DEF TypeInv, TypeOK, JobOK
<1>1. ASSUME NEW w \in Workers, Idle(w) PROVE Advance(v)
  BY <1>0, <1>1 DEF Idle, Advance, IdleWorker, JobAt
<1>2. ASSUME NEW w \in Workers, NEW c, Blame(w, c) PROVE Advance(v)
  BY <1>0, <1>2 DEF Blame, Advance, Job
<1>3. ASSUME NEW w \in Workers, NEW pc \in {"loaded", "grading", "saving"}, Goto(w, pc)
      PROVE  Advance(v)
  BY <1>0, <1>3 DEF Goto, Advance, Job
<1>4. ASSUME NEW w \in Workers, NEW pc \in {"marking", "remarking"}, Goto(w, pc),
             worker[w].job \in scores'
      PROVE  Advance(v)
  BY <1>0, <1>4 DEF Goto, Advance, Job
<1>5. ASSUME NEW w \in Workers, ClaimSelect(w) \/ ClaimCommit(w) PROVE Advance(v)
  BY <1>0, <1>5 DEF ClaimSelect, ClaimCommit, JobAt, Advance, Job
<1>6. ASSUME NEW w \in Workers, GetScoreBySubmissionID(w) PROVE Advance(v)
  BY <1>3, <1>4, <1>6 DEF GetScoreBySubmissionID
<1>7. ASSUME NEW w \in Workers, CreateScore(w) PROVE Advance(v)
  BY <1>2, <1>4, <1>7 DEF CreateScore, BlameCall
<1>8. ASSUME NEW w \in Workers, UpdateSubmissionStatus(w) PROVE Advance(v)
  <2>1. CASE Goto(w, "granting") /\ row' = [row EXCEPT ![worker[w].job].status = "graded"]
    <3>1. worker[w].job \in Submissions
      BY <1>0, <1>8 DEF UpdateSubmissionStatus
    <3>2. row'[worker[w].job].status = "graded"
      BY <1>0, <2>1, <3>1 DEF Row
    <3>. QED
      BY <1>0, <2>1, <3>1, <3>2 DEF Goto, Advance, Job
  <2>. QED
    BY <1>2, <1>8, <2>1 DEF UpdateSubmissionStatus, BlameCall
<1>9. ASSUME NEW w \in Workers, LoadTest(w) \/ GradeBySkill(w) PROVE Advance(v)
  BY <1>2, <1>3, <1>9 DEF LoadTest, GradeBySkill
<1>10. CASE (\E p \in Processes : Crash(p)) \/ Tick
  BY <1>0, <1>10 DEF Crash, Tick, Advance, IdleWorker, JobAt, Job
<1>11. CASE UNCHANGED worker
  BY <1>11 DEF Advance
<1>. QED
  BY <1>1, <1>5, <1>6, <1>7, <1>8, <1>9, <1>10, <1>11
  DEF Next, WorkerStep, SubmitAnswer, ClaimMiss, ClaimError, GrantIfFirstAttempt, SettleFailure,
      Shutdown, Exit, Restart, vars

LEMMA NextGrade == TypeInv /\ GradeInv /\ [Next]_vars => GradeInv'
<1> SUFFICES ASSUME TypeInv, GradeInv, [Next]_vars PROVE GradeInv'
  OBVIOUS
<1>1. scores \subseteq scores'
  BY ScoresGrow
<1>2. \A s \in Submissions : row[s].status = "graded" => row'[s].status = "graded"
  BY StatusChanges DEF StatusStep
<1>3. \A w \in Workers : worker[w].pc # "idle" => worker[w].job \in Submissions
  BY DEF TypeInv, JobOK
<1>4. ASSUME NEW w \in Workers
      PROVE  /\ worker'[w].pc \in {"marking", "remarking"} => worker'[w].job \in scores'
             /\ worker'[w].pc = "granting" => row'[worker'[w].job].status = "graded"
  BY <1>1, <1>2, <1>3, WorkersAdvance DEF Advance, GradeInv
<1>5. GradedHasScore'
  BY <1>1, StatusChanges DEF StatusStep, GradeInv, GradedHasScore
<1>6. XpOnlyForGraded'
  <2>1. ASSUME NEW w \in Workers, GrantIfFirstAttempt(w) PROVE XpOnlyForGraded'
    <3>1. worker[w].job \in Submissions /\ row'[worker[w].job].status = "graded"
      BY <1>2, <1>3, <2>1 DEF GrantIfFirstAttempt, GradeInv
    <3>2. grants' \subseteq grants \union {PairOf[worker[w].job]}
      BY <2>1 DEF GrantIfFirstAttempt
    <3>. QED
      BY <1>2, <3>1, <3>2 DEF GradeInv, XpOnlyForGraded
  <2>2. CASE UNCHANGED grants
    BY <1>2, <2>2 DEF GradeInv, XpOnlyForGraded
  <2>. QED
    BY <2>1, <2>2
    DEF Next, WorkerStep, SubmitAnswer, ClaimSelect, ClaimCommit, ClaimMiss, ClaimError, LoadTest,
        GetScoreBySubmissionID, GradeBySkill, CreateScore, UpdateSubmissionStatus, SettleFailure,
        Shutdown, Exit, Crash, Restart, Tick, vars
<1>. QED
  BY <1>4, <1>5, <1>6 DEF GradeInv

LEMMA GradeInvariant == Spec => []GradeInv
  BY InitGrade, NextGrade, TypeInvariant, PTL DEF Spec

\* A graded submission always has a score to show: see GradedHasScore.
THEOREM GradedIsScored == Spec => []GradedHasScore
<1>1. GradeInv => GradedHasScore
  BY DEF GradeInv
<1>. QED
  BY <1>1, GradeInvariant, PTL

\* XP is never credited without a graded submission: see XpOnlyForGraded.
THEOREM XpIsEarned == Spec => []XpOnlyForGraded
<1>1. GradeInv => XpOnlyForGraded
  BY DEF GradeInv
<1>. QED
  BY <1>1, GradeInvariant, PTL

-----------------------------------------------------------------------------
(***************************************************************************)
(* What the grading lease buys, when the slack covers the time a job takes *)
(* to get under its deadline and the time it may overrun it: a claim that  *)
(* a worker still holds never looks abandoned, so no submission is graded  *)
(* by two workers, and the queue implements GradingLifecycle.              *)
(***************************************************************************)

\* The configurations under which the lease outlasts every running job.
SlackCovers == Setup + Overrun <= Slack

\* A submission a worker holds is claimed, and its claim is as old as the
\* worker's job.  Only a worker whose marking was reported as failed but took
\* effect holds a graded one, and it has nothing left to do but to settle.
HeldRow(w) ==
    LET r == row[worker[w].job] IN
    \/ r.status = "grading" /\ r.claimAge = worker[w].age
    \/ r.status = "graded" /\ worker[w].pc = "settling"

LeaseInv ==
    /\ ExclusiveGrading
    /\ \A w \in Workers : Holds(w, worker[w].job) => HeldRow(w)

Held(w) == Holds(w, worker[w].job)

\* A job within its limit is within the lease.
LEMMA JobWithinLease ==
    ASSUME SlackCovers, NEW j, JobOK(j), j.pc # "idle"
    PROVE  j.age <= Lease /\ AgeLimit(j) <= Lease /\ j.age \in Nat
<1>1. j.job \in Submissions /\ j.age <= AgeLimit(j) /\ j.age \in Nat
  BY DEF JobOK, Job
<1>2. AgeLimit(j) <= Lease
  BY <1>1, QueueAssumption DEF AgeLimit, Lease, JobTimeout, SlackCovers
<1>3. AgeLimit(j) \in Nat /\ Lease \in Nat
  <2>1. JobTimeout(j.job) \in Nat
    BY <1>1, TimesAreNat
  <2>. QED
    BY <2>1, QueueAssumption, TimesAreNat DEF AgeLimit
<1>. QED
  BY <1>1, <1>2, <1>3

\* A row that is due for a claim is held by nobody.
LEMMA DueIsFree ==
    ASSUME SlackCovers, TypeInv, LeaseInv, NEW s \in Submissions, NEW a \in Nat, Eligible(s, a),
           NEW w \in Workers
    PROVE  ~Holds(w, s)
<1> SUFFICES ASSUME Holds(w, s) PROVE FALSE
  OBVIOUS
<1>1. worker[w].job = s /\ worker[w].pc # "idle" /\ HeldRow(w)
  BY DEF Holds, LeaseInv
<1>2. worker[w].age <= Lease /\ worker[w].age \in Nat /\ Lease \in Nat
  BY <1>1, JobWithinLease, TimesAreNat DEF TypeInv
<1>3. row[s].claimAge = worker[w].age /\ row[s].claimAge - a > Lease
  BY <1>1 DEF HeldRow, Eligible
<1>. QED
  BY <1>2, <1>3

LEMMA InitLease == Init => LeaseInv
  BY DEF Init, LeaseInv, ExclusiveGrading, Holds, IdleWorker, JobAt

\* A step that leaves alone every row somebody holds, and lets no worker
\* acquire one, keeps the invariant.
LEMMA HoldersOnlyLeave ==
    ASSUME LeaseInv,
           \A v \in Workers : Held(v)' =>
              /\ Held(v) /\ worker'[v].job = worker[v].job /\ worker'[v].age = worker[v].age
              /\ worker'[v].pc = worker[v].pc \/ worker[v].pc # "settling"
              /\ row'[worker[v].job] = row[worker[v].job]
    PROVE  LeaseInv'
<1>1. ASSUME NEW v \in Workers, Held(v)' PROVE HeldRow(v)'
  <2>1. HeldRow(v)
    BY <1>1 DEF LeaseInv, Held
  <2>. QED
    BY <1>1, <2>1 DEF HeldRow, Held, Holds
<1>2. ExclusiveGrading'
  <2> SUFFICES ASSUME NEW s \in Submissions, NEW v \in Workers, NEW w \in Workers,
                      Holds(v, s)', Holds(w, s)'
               PROVE  v = w
    BY DEF ExclusiveGrading
  <2>1. Held(v)' /\ Held(w)'
    BY DEF Held, Holds
  <2>2. Holds(v, s) /\ Holds(w, s)
    BY <2>1 DEF Held, Holds
  <2>. QED
    BY <2>2 DEF LeaseInv, ExclusiveGrading
<1>. QED
  BY <1>1, <1>2 DEF LeaseInv, Held

\* A worker that frees, or is about to settle, the job it holds disturbs no
\* other holder, whatever it writes to that job's row.
LEMMA HolderWrites ==
    ASSUME TypeInv, LeaseInv, NEW w \in Workers, Held(w),
           NEW j \in Job, worker' = [worker EXCEPT ![w] = j],
           \A s \in Submissions \ {worker[w].job} : row'[s] = row[s],
           j.pc \in {"idle", "granting", "settling"},
           j.pc = "settling" => /\ j.job = worker[w].job /\ j.age = worker[w].age
                                /\ HeldRow(w)'
    PROVE  LeaseInv'
<1>1. worker'[w] = j /\ \A v \in Workers \ {w} : worker'[v] = worker[v]
  BY DEF TypeInv, TypeOK
<1>2. ASSUME NEW v \in Workers, Held(v)' PROVE Holds(v, worker'[v].job) /\ HeldRow(v)'
  <2>1. CASE v = w
    BY <1>1, <1>2, <2>1 DEF Held, Holds
  <2>2. CASE v # w
    <3>1. Held(v) /\ worker[v].job \in Submissions
      BY <1>1, <1>2, <2>2 DEF Held, Holds, TypeInv, JobOK
    <3>2. worker[v].job # worker[w].job
      BY <2>2, <3>1 DEF LeaseInv, ExclusiveGrading, Held, Holds
    <3>3. row'[worker[v].job] = row[worker[v].job] /\ worker'[v] = worker[v]
      BY <1>1, <2>2, <3>1, <3>2
    <3>. QED
      BY <3>1, <3>3 DEF LeaseInv, HeldRow, Held, Holds
  <2>. QED
    BY <2>1, <2>2
<1>3. ExclusiveGrading'
  <2> SUFFICES ASSUME NEW s \in Submissions, NEW v \in Workers, NEW u \in Workers,
                      Holds(v, s)', Holds(u, s)'
               PROVE  v = u
    BY DEF ExclusiveGrading
  <2>1. Held(v)' /\ Held(u)' /\ worker'[v].job = s /\ worker'[u].job = s
    BY DEF Held, Holds
  <2>2. Holds(v, s) /\ Holds(u, s)
    BY <1>2, <2>1
  <2>. QED
    BY <2>2 DEF LeaseInv, ExclusiveGrading
<1>. QED
  BY <1>2, <1>3 DEF LeaseInv, Held

\* A worker that moves on with its job, or gives it up, without a write to
\* the submissions table.
LEMMA HolderMoves ==
    ASSUME TypeInv, LeaseInv, NEW w \in Workers, worker[w].pc \notin {"idle", "picked", "granting"},
           UNCHANGED row, worker[w].pc # "settling",
           (\E pc \in Phases : Goto(w, pc)) \/ (\E c \in Causes : Blame(w, c))
    PROVE  LeaseInv'
<1>1. worker \in [Workers -> Job] /\ Held(w)
  BY DEF TypeInv, TypeOK, JobOK, Job, Phases, Held, Holds
<1>2. ASSUME NEW v \in Workers
      PROVE  /\ worker'[v].job = worker[v].job /\ worker'[v].age = worker[v].age
             /\ v = w \/ worker'[v] = worker[v]
  BY <1>1 DEF Goto, Blame, Job
<1>3. ASSUME NEW v \in Workers, Held(v)'
      PROVE  /\ Held(v)
             /\ worker'[v].pc = worker[v].pc \/ worker[v].pc # "settling"
  BY <1>1, <1>2, <1>3 DEF Held, Holds
<1>. QED
  BY <1>2, <1>3, HoldersOnlyLeave

LEMMA NextLease ==
    ASSUME SlackCovers, TypeInv, LeaseInv, [Next]_vars
    PROVE  LeaseInv'
<1>0. /\ worker \in [Workers -> Job] /\ row \in [Submissions -> Row]
      /\ \A w \in Workers : worker[w].pc # "idle" => worker[w].job \in Submissions
  BY DEF TypeInv, TypeOK, JobOK
<1>1. ASSUME NEW s \in Submissions, SubmitAnswer(s) PROVE LeaseInv'
  <2>1. ASSUME NEW v \in Workers, Held(v)' PROVE Held(v) /\ worker[v].job # s
    BY <1>1, <2>1 DEF SubmitAnswer, LeaseInv, HeldRow, Held, Holds
  <2>2. \A t \in Submissions \ {s} : row'[t] = row[t]
    BY <1>0, <1>1 DEF SubmitAnswer
  <2>3. \A v \in Workers : Held(v) => worker[v].job \in Submissions
    BY <1>0 DEF Held, Holds
  <2>. QED
    BY <1>1, <2>1, <2>2, <2>3, HoldersOnlyLeave DEF SubmitAnswer
<1>2. ASSUME UNCHANGED row,
             \/ \E w \in Workers : ClaimSelect(w) \/ Idle(w)
             \/ \E p \in Processes : Crash(p)
      PROVE  LeaseInv'
  <2>1. ASSUME NEW v \in Workers, Held(v)' PROVE worker'[v] = worker[v]
    BY <1>0, <1>2, <2>1 DEF ClaimSelect, Idle, Crash, IdleWorker, JobAt, Held, Holds
  <2>2. ASSUME NEW v \in Workers, Held(v)' PROVE Held(v)
    BY <2>1, <2>2 DEF Held, Holds
  <2>. QED
    BY <1>2, <2>1, <2>2, HoldersOnlyLeave
<1>3. ASSUME NEW w \in Workers, ClaimCommit(w) PROVE LeaseInv'
  <2> DEFINE s == worker[w].job
  <2>1. s \in Submissions /\ worker[w].age \in Nat /\ worker[w].pc = "picked" /\ Eligible(s, worker[w].age)
    BY <1>0, <1>3 DEF ClaimCommit, Job
  <2>2. \A v \in Workers : ~Holds(v, s)
    BY <2>1, DueIsFree
  <2>3. row'[s].status = "grading" /\ row'[s].claimAge = worker[w].age
    BY <1>0, <1>3, <2>1 DEF ClaimCommit, MarkClaimed, Row
  <2>4. worker'[w].pc = "claimed" /\ worker'[w].job = s /\ worker'[w].age = worker[w].age
    BY <1>0, <1>3 DEF ClaimCommit, Job
  <2>5. \A t \in Submissions \ {s} : row'[t] = row[t]
    BY <1>0, <1>3 DEF ClaimCommit, MarkClaimed
  <2>6. \A v \in Workers \ {w} : worker'[v] = worker[v]
    BY <1>0, <1>3 DEF ClaimCommit
  <2>. HIDE DEF s
  <2>7. ASSUME NEW v \in Workers, v # w, Holds(v, worker[v].job)'
        PROVE  worker[v].job \in Submissions \ {s} /\ Held(v) /\ HeldRow(v)'
    <3>1. Held(v) /\ worker'[v] = worker[v]
      BY <2>6, <2>7 DEF Held, Holds
    <3>2. worker[v].job \in Submissions \ {s}
      BY <1>0, <2>2, <3>1 DEF Held, Holds
    <3>3. HeldRow(v) /\ row'[worker[v].job] = row[worker[v].job]
      BY <2>5, <3>1, <3>2 DEF LeaseInv, Held
    <3>. QED
      BY <3>1, <3>2, <3>3 DEF HeldRow
  <2>8. ASSUME NEW v \in Workers, Holds(v, worker[v].job)' PROVE HeldRow(v)'
    BY <2>3, <2>4, <2>7, <2>8 DEF HeldRow
  <2>9. ExclusiveGrading'
    <3> SUFFICES ASSUME NEW t \in Submissions, NEW u \in Workers, NEW v \in Workers,
                        Holds(u, t)', Holds(v, t)', u # v
                 PROVE  FALSE
      BY DEF ExclusiveGrading
    <3>1. Held(u)' /\ Held(v)' /\ worker'[u].job = t /\ worker'[v].job = t
      BY DEF Held, Holds
    <3>2. CASE u # w /\ v # w
      BY <2>6, <2>7, <3>1, <3>2 DEF LeaseInv, ExclusiveGrading, Held, Holds
    <3>3. CASE u = w \/ v = w
      BY <2>4, <2>6, <2>7, <3>1, <3>3 DEF Held
    <3>. QED
      BY <3>2, <3>3
  <2>. QED
    BY <2>8, <2>9 DEF LeaseInv
<1>4. ASSUME NEW w \in Workers, ClaimError(w), ~UNCHANGED row PROVE LeaseInv'
  <2>1. worker[w].job \in Submissions /\ worker[w].age \in Nat
    BY <1>0, <1>4 DEF ClaimError, Job
  <2>2. \A v \in Workers : ~Holds(v, worker[w].job)
    BY <1>4, <2>1, DueIsFree DEF ClaimError
  <2>3. \A t \in Submissions \ {worker[w].job} : row'[t] = row[t]
    BY <1>0, <1>4 DEF ClaimError, MarkClaimed
  <2>4. ASSUME NEW v \in Workers, Held(v)' PROVE Held(v) /\ worker'[v] = worker[v]
    BY <1>0, <1>4, <2>4 DEF ClaimError, Idle, IdleWorker, JobAt, Held, Holds
  <2>5. ASSUME NEW v \in Workers, Held(v) PROVE row'[worker[v].job] = row[worker[v].job]
    <3>1. worker[v].job \in Submissions \ {worker[w].job}
      BY <1>0, <2>2, <2>5 DEF Held, Holds
    <3>. QED
      BY <2>3, <3>1
  <2>. QED
    BY <2>4, <2>5, HoldersOnlyLeave
<1>5. ASSUME NEW w \in Workers,
             LoadTest(w) \/ GetScoreBySubmissionID(w) \/ GradeBySkill(w) \/ CreateScore(w)
      PROVE  LeaseInv'
  BY <1>5, HolderMoves
  DEF LoadTest, GetScoreBySubmissionID, GradeBySkill, CreateScore, BlameCall, Phases, Causes
<1>6. ASSUME NEW w \in Workers, UpdateSubmissionStatus(w) PROVE LeaseInv'
  <2> DEFINE s == worker[w].job
  <2>1. Held(w) /\ s \in Submissions /\ worker[w].pc # "settling"
    BY <1>0, <1>6 DEF UpdateSubmissionStatus, Held, Holds
  <2>2. row[s].status = "grading" /\ row[s].claimAge = worker[w].age
    BY <2>1 DEF LeaseInv, HeldRow, Held
  <2>3. row' = row \/ row' = [row EXCEPT ![s].status = "graded"]
    BY <1>6 DEF UpdateSubmissionStatus
  <2>4. row'[s].status \in {"grading", "graded"} /\ row'[s].claimAge = worker[w].age
    BY <1>0, <2>1, <2>2, <2>3 DEF Row
  <2>5. \A t \in Submissions \ {s} : row'[t] = row[t]
    BY <1>0, <2>3
  <2>6. PICK pc \in {"granting", "settling"}, c \in Causes :
           worker' = [worker EXCEPT ![w] = [worker[w] EXCEPT !.pc = pc, !.cause = c]]
    <3>1. [worker[w] EXCEPT !.pc = "granting"]
            = [worker[w] EXCEPT !.pc = "granting", !.cause = worker[w].cause]
      BY <1>0 DEF Job
    <3>2. worker[w].cause \in Causes
      BY <1>0 DEF Job
    <3>3. CASE Goto(w, "granting")
      BY <3>1, <3>2, <3>3 DEF Goto
    <3>4. CASE \E c \in Causes : Blame(w, c)
      BY <3>4 DEF Blame
    <3>. QED
      BY <1>6, <3>3, <3>4 DEF UpdateSubmissionStatus, BlameCall, Causes
  <2> DEFINE j == [worker[w] EXCEPT !.pc = pc, !.cause = c]
  <2>7. j \in Job /\ j.pc = pc /\ j.job = s /\ j.age = worker[w].age
    BY <1>0, <2>6 DEF Job, Phases
  <2>8. worker' = [worker EXCEPT ![w] = j] /\ worker'[w] = j
    BY <1>0, <2>6
  <2>. HIDE DEF j
  <2>9. pc = "settling" => HeldRow(w)'
    BY <2>4, <2>7, <2>8 DEF HeldRow
  <2>. QED
    BY <2>1, <2>5, <2>7, <2>8, <2>9, HolderWrites
<1>7. ASSUME NEW w \in Workers, SettleFailure(w) PROVE LeaseInv'
  <2>1. Held(w) /\ worker[w].job \in Submissions
    BY <1>0, <1>7 DEF SettleFailure, Held, Holds
  <2>2. \A t \in Submissions \ {worker[w].job} : row'[t] = row[t]
    BY <1>0, <1>7 DEF SettleFailure
  <2>3. IdleWorker \in Job /\ IdleWorker.pc = "idle"
    BY IdleOK DEF JobOK, IdleWorker, JobAt
  <2>4. worker' = [worker EXCEPT ![w] = IdleWorker]
    BY <1>7 DEF SettleFailure, Idle
  <2>. QED
    BY <2>1, <2>2, <2>3, <2>4, HolderWrites
<1>8. CASE UNCHANGED <<row, worker>>
  BY <1>8 DEF LeaseInv, ExclusiveGrading, Holds, HeldRow
<1>9. CASE Tick
  <2>1. ASSUME NEW v \in Workers
        PROVE  /\ worker'[v].pc = worker[v].pc /\ worker'[v].job = worker[v].job
               /\ worker[v].pc # "idle" => worker'[v].age = worker[v].age + 1
    BY <1>0, <1>9 DEF Tick, Job
  <2>2. ExclusiveGrading'
    BY <2>1 DEF LeaseInv, ExclusiveGrading, Holds
  <2>3. ASSUME NEW w \in Workers, Holds(w, worker[w].job)' PROVE HeldRow(w)'
    <3> DEFINE s == worker[w].job
    <3>1. worker[w].pc # "idle" /\ s \in Submissions /\ HeldRow(w)
      BY <1>0, <2>1, <2>3 DEF LeaseInv, Holds
    <3>2. row'[s].status = row[s].status
      BY <1>0, <1>9, <3>1 DEF Tick, Aged, Row
    <3>3. CASE row[s].status = "graded"
      BY <2>1, <3>1, <3>2, <3>3 DEF HeldRow
    <3>4. CASE row[s].status = "grading" /\ row[s].claimAge = worker[w].age
      <4>1. worker[w].age \in Nat /\ worker[w].age <= Lease /\ Lease \in Nat
        BY <3>1, JobWithinLease, TimesAreNat DEF TypeInv
      <4>2. row[s].claimAge # NoClaim /\ ~(row[s].claimAge >= AgeCap)
        BY <3>4, <4>1, QueueAssumption DEF NoClaim, AgeCap
      <4>3. row'[s].claimAge = row[s].claimAge + 1
        BY <1>0, <1>9, <3>1, <4>2 DEF Tick, Aged, Row
      <4>. QED
        BY <2>1, <3>1, <3>2, <3>4, <4>3 DEF HeldRow
    <3>. QED
      BY <3>1, <3>3, <3>4 DEF HeldRow
  <2>. QED
    BY <2>2, <2>3 DEF LeaseInv
<1>10. ASSUME NEW w \in Workers, WorkerStep(w) PROVE LeaseInv'
  <2>1. CASE ClaimSelect(w) \/ ClaimMiss(w) \/ ClaimError(w) \/ GrantIfFirstAttempt(w)
    BY <1>2, <1>4, <2>1 DEF ClaimSelect, ClaimMiss, ClaimError, GrantIfFirstAttempt
  <2>. QED
    BY <1>3, <1>5, <1>6, <1>7, <1>10, <2>1 DEF WorkerStep
<1>11. ASSUME NEW p \in Processes, Shutdown(p) \/ Exit(p) \/ Crash(p) \/ Restart(p) PROVE LeaseInv'
  BY <1>2, <1>8, <1>11 DEF Shutdown, Exit, Crash, Restart
<1>. QED
  BY <1>1, <1>8, <1>9, <1>10, <1>11 DEF Next, vars

LEMMA LeaseInvariant == ASSUME SlackCovers PROVE Spec => []LeaseInv
<1>1. Init => LeaseInv
  BY InitLease
<1>2. TypeInv /\ LeaseInv /\ [Next]_vars => LeaseInv'
  BY NextLease
<1>. QED
  BY <1>1, <1>2, TypeInvariant, PTL DEF Spec

\* While a job's setup and overrun fit in the slack, no submission is ever
\* graded by two workers at once: see ExclusiveGrading.
THEOREM LeaseExcludes == ASSUME SlackCovers PROVE Spec => []ExclusiveGrading
<1>1. LeaseInv => ExclusiveGrading
  BY DEF LeaseInv
<1>. QED
  BY <1>1, LeaseInvariant, PTL

-----------------------------------------------------------------------------
(* The queue implements GradingLifecycle *)

StageOf(status) == IF status \in {"pending", "grading"} THEN "open" ELSE status
Stage == [s \in Submissions |-> StageOf(row[s].status)]
StageVars == <<Stage, scores, grants>>

\* A step that keeps every submission's stage is a stutter of the lifecycle.
LEMMA SameStage ==
    ASSUME \A s \in Submissions : StageOf(row'[s].status) = StageOf(row[s].status)
    PROVE  UNCHANGED Stage
  BY DEF Stage

\* A step that gives one submission a new stage updates the lifecycle there.
LEMMA OneStage ==
    ASSUME NEW s \in Submissions, NEW stage, StageOf(row'[s].status) = stage,
           \A t \in Submissions \ {s} : row'[t] = row[t]
    PROVE  Stage' = [Stage EXCEPT ![s] = stage]
  BY DEF Stage

LifecycleStep ==
    \/ \E s \in Submissions :
          \/ Stage[s] = "absent" /\ Stage' = [Stage EXCEPT ![s] = "open"] /\ UNCHANGED <<scores, grants>>
          \/ Stage[s] = "open" /\ scores' = scores \union {s} /\ UNCHANGED <<Stage, grants>>
          \/ /\ Stage[s] = "open" /\ s \in scores
             /\ Stage' = [Stage EXCEPT ![s] = "graded"] /\ UNCHANGED <<scores, grants>>
          \/ Stage[s] = "open" /\ Stage' = [Stage EXCEPT ![s] = "failed"] /\ UNCHANGED <<scores, grants>>
    \/ \E p \in Pairs :
          /\ p \notin grants
          /\ \E s \in Submissions : PairOf[s] = p /\ Stage[s] = "graded"
          /\ grants' = grants \union {p}
          /\ UNCHANGED <<Stage, scores>>
    \/ UNCHANGED StageVars

LEMMA StepRefines ==
    ASSUME TypeInv, GradeInv, LeaseInv, [Next]_vars
    PROVE  LifecycleStep
<1>0. /\ worker \in [Workers -> Job] /\ row \in [Submissions -> Row]
      /\ \A w \in Workers : worker[w].pc # "idle" => worker[w].job \in Submissions
  BY DEF TypeInv, TypeOK, JobOK
<1>1. ASSUME NEW s \in Submissions, SubmitAnswer(s) PROVE LifecycleStep
  <2>1. Stage[s] = "absent" /\ StageOf(row'[s].status) = "open"
    BY <1>0, <1>1 DEF SubmitAnswer, Stage, StageOf, Row
  <2>2. \A t \in Submissions \ {s} : row'[t] = row[t]
    BY <1>0, <1>1 DEF SubmitAnswer
  <2>. QED
    BY <1>1, <2>1, <2>2, OneStage DEF SubmitAnswer, LifecycleStep
<1>2. CASE UNCHANGED <<row, scores, grants>>
  <2>1. UNCHANGED Stage
    BY <1>2 DEF Stage
  <2>. QED
    BY <1>2, <2>1 DEF LifecycleStep, StageVars
<1>3. ASSUME NEW w \in Workers, ClaimCommit(w) \/ ClaimError(w) PROVE LifecycleStep
  <2>1. CASE Eligible(worker[w].job, worker[w].age) /\ MarkClaimed(w, worker[w].job)
    <3>1. worker[w].job \in Submissions
      BY <1>0, <1>3 DEF ClaimCommit, ClaimError
    <3>2. \A s \in Submissions : StageOf(row'[s].status) = StageOf(row[s].status)
      BY <1>0, <2>1, <3>1 DEF Eligible, MarkClaimed, StageOf, Row
    <3>. QED
      BY <1>3, <3>2, SameStage DEF ClaimCommit, ClaimError, LifecycleStep, StageVars
  <2>. QED
    BY <1>2, <1>3, <2>1 DEF ClaimCommit, ClaimError
<1>4. ASSUME NEW w \in Workers, CreateScore(w) PROVE LifecycleStep
  <2>1. Stage[worker[w].job] = "open" /\ worker[w].job \in Submissions
    BY <1>0, <1>4 DEF CreateScore, LeaseInv, HeldRow, Holds, Stage, StageOf
  <2>2. UNCHANGED Stage /\ UNCHANGED grants
    BY <1>4 DEF CreateScore, Stage
  <2>. QED
    BY <1>4, <2>1, <2>2 DEF CreateScore, LifecycleStep, StageVars
<1>5. ASSUME NEW w \in Workers, UpdateSubmissionStatus(w) PROVE LifecycleStep
  <2> DEFINE s == worker[w].job
  <2>1. s \in Submissions /\ Stage[s] = "open" /\ s \in scores
    BY <1>0, <1>5 DEF UpdateSubmissionStatus, LeaseInv, HeldRow, Holds, GradeInv, Stage, StageOf
  <2>2. CASE row' = [row EXCEPT ![s].status = "graded"]
    <3>1. StageOf(row'[s].status) = "graded" /\ \A t \in Submissions \ {s} : row'[t] = row[t]
      BY <1>0, <2>1, <2>2 DEF StageOf, Row
    <3>2. Stage' = [Stage EXCEPT ![s] = "graded"]
      BY <2>1, <3>1, OneStage
    <3>. QED
      BY <1>5, <2>1, <3>2 DEF UpdateSubmissionStatus, LifecycleStep
  <2>. QED
    BY <1>2, <1>5, <2>2 DEF UpdateSubmissionStatus
<1>6. ASSUME NEW w \in Workers, GrantIfFirstAttempt(w) PROVE LifecycleStep
  <2> DEFINE s == worker[w].job
  <2>1. s \in Submissions /\ PairOf[s] \in Pairs /\ Stage[s] = "graded"
    BY <1>0, <1>6, QueueAssumption DEF GrantIfFirstAttempt, GradeInv, Stage, StageOf
  <2>2. UNCHANGED Stage /\ UNCHANGED scores
    BY <1>6 DEF GrantIfFirstAttempt, Stage
  <2>3. grants' = grants \/ (PairOf[s] \notin grants /\ grants' = grants \union {PairOf[s]})
    BY <1>6 DEF GrantIfFirstAttempt
  <2>. QED
    BY <2>1, <2>2, <2>3 DEF LifecycleStep, StageVars
<1>7. ASSUME NEW w \in Workers, SettleFailure(w) PROVE LifecycleStep
  <2> DEFINE s == worker[w].job
  <2>1. s \in Submissions
    BY <1>0, <1>7 DEF SettleFailure
  <2>2. CASE row[s].status = "grading" /\ row' = [row EXCEPT ![s] = Settled(w, @)]
    <3>1. Settled(w, row[s]).status \in {"pending", "failed"}
      BY <1>0, <2>1 DEF Settled, Row
    <3>2. row'[s] = Settled(w, row[s]) /\ \A t \in Submissions \ {s} : row'[t] = row[t]
      BY <1>0, <2>1, <2>2
    <3>3. Stage[s] = "open" /\ Stage = [Stage EXCEPT ![s] = "open"]
      BY <2>1, <2>2 DEF Stage, StageOf
    <3>4. CASE Settled(w, row[s]).status = "pending"
      <4>1. UNCHANGED Stage
        <5>1. Stage' = [Stage EXCEPT ![s] = "open"]
          BY <2>1, <3>2, <3>4, OneStage DEF StageOf
        <5>. QED
          BY <3>3, <5>1
      <4>. QED
        BY <1>7, <4>1 DEF SettleFailure, LifecycleStep, StageVars
    <3>5. CASE Settled(w, row[s]).status = "failed"
      <4>1. Stage' = [Stage EXCEPT ![s] = "failed"]
        BY <2>1, <3>2, <3>5, OneStage DEF StageOf
      <4>. QED
        BY <1>7, <2>1, <3>3, <4>1 DEF SettleFailure, LifecycleStep
    <3>. QED
      BY <3>1, <3>4, <3>5
  <2>. QED
    BY <1>2, <1>7, <2>2 DEF SettleFailure
<1>8. CASE Tick
  <2>1. \A s \in Submissions : StageOf(row'[s].status) = StageOf(row[s].status)
    BY <1>0, <1>8 DEF Tick, Aged, Row
  <2>. QED
    BY <1>8, <2>1, SameStage DEF Tick, LifecycleStep, StageVars
<1>9. ASSUME NEW w \in Workers, WorkerStep(w) PROVE LifecycleStep
  BY <1>2, <1>3, <1>4, <1>5, <1>6, <1>7, <1>9
  DEF WorkerStep, ClaimSelect, ClaimMiss, LoadTest, GetScoreBySubmissionID, GradeBySkill
<1>10. ASSUME NEW p \in Processes, Shutdown(p) \/ Exit(p) \/ Crash(p) \/ Restart(p)
       PROVE  LifecycleStep
  BY <1>2, <1>10 DEF Shutdown, Exit, Crash, Restart
<1>. QED
  BY <1>1, <1>2, <1>8, <1>9, <1>10 DEF Next, vars

\* While a job's setup and overrun fit in the slack, a client can rely on
\* GradingLifecycle: see ImplementsLifecycle.
THEOREM QueueImplementsLifecycle == ASSUME SlackCovers PROVE Spec => ImplementsLifecycle
<1>1. Init => Lifecycle!LifecycleInit
  BY DEF Init, Lifecycle!LifecycleInit
<1>2. TypeInv /\ GradeInv /\ LeaseInv /\ [Next]_vars
        => [Lifecycle!LifecycleNext]_(Lifecycle!lifecycleVars)
  BY StepRefines
  DEF LifecycleStep, Stage, StageOf, StageVars, Lifecycle!lifecycleVars, Lifecycle!LifecycleNext,
      Lifecycle!Submit, Lifecycle!SaveScore, Lifecycle!Grade, Lifecycle!Fail, Lifecycle!Grant
<1>. QED
  BY <1>1, <1>2, TypeInvariant, GradeInvariant, LeaseInvariant, PTL
  DEF Spec, ImplementsLifecycle, Lifecycle!LifecycleSpec

-----------------------------------------------------------------------------
(* Attempts *)

\* A submission that counts on another claim: nobody has its grade in hand.
Open(s) ==
    \/ row[s].status \in {"absent", "pending"}
    \/ row[s].status = "grading" /\ \A w \in Workers : ~Holds(w, s)

\* A shutdown has met the claim of it: the commit may take effect unheard,
\* and a claim that is lost like this is charged to the shutdown.
Loose(s) ==
    \E w \in Workers : /\ worker[w].pc = "picked" /\ worker[w].job = s
                       /\ Stopping(w) /\ Eligible(s, worker[w].age)

\* Every attempt beyond the last one has a fault of its own.
Charged(s) ==
    /\ row[s].attempts <= MaxAttempts + faults
    /\ Open(s) => row[s].attempts <= MaxAttempts - 1 + faults
    /\ Loose(s) => row[s].attempts <= MaxAttempts - 2 + faults

\* The attempt a worker counts is the one its row counts.
CountOK(w) ==
    /\ worker[w].pc # "idle" => row[worker[w].job].status # "absent"
    /\ Held(w) /\ row[worker[w].job].status = "grading"
          => worker[w].attempt = row[worker[w].job].attempts

AttemptsInv ==
    /\ \A w \in Workers : CountOK(w)
    /\ \A s \in Submissions : Charged(s)
    /\ (\E p \in Processes : life[p] = "stopping") => faults >= 1

\* What is due for a claim is open.
LEMMA DueIsOpen ==
    ASSUME SlackCovers, TypeInv, LeaseInv, NEW s \in Submissions, NEW a \in Nat, Eligible(s, a)
    PROVE  Open(s)
BY DueIsFree DEF Open, Eligible

\* A step that writes no row: no grade gets out of hand without a fault, and
\* no worker that was not stopping begins to claim.
LEMMA QuietStep ==
    ASSUME TypeInv, AttemptsInv, row' = row, faults' \in {faults, faults + 1},
           \A v \in Workers :
              /\ worker'[v].pc # "idle" => row[worker'[v].job].status # "absent"
              /\ Held(v)' => Held(v) /\ worker'[v].job = worker[v].job
                                     /\ worker'[v].attempt = worker[v].attempt
              /\ worker'[v].pc = "picked" /\ Stopping(v)' => worker'[v] = worker[v] /\ Stopping(v),
           \/ faults' = faults + 1
           \/ \A v \in Workers, s \in Submissions :
                 Holds(v, s) /\ row[s].status = "grading" => Holds(v, s)',
           (\E p \in Processes : life'[p] = "stopping") => faults' >= 1
    PROVE  AttemptsInv'
<1>0. /\ \A s \in Submissions : row[s].attempts \in Nat
      /\ faults \in Nat /\ MaxAttempts \in Nat
  BY QueueAssumption DEF TypeInv, TypeOK, Row
<1>1. ASSUME NEW w \in Workers PROVE CountOK(w)'
  <2>1. CountOK(w)
    BY DEF AttemptsInv
  <2>. QED
    BY <2>1 DEF CountOK
<1>2. ASSUME NEW s \in Submissions PROVE Charged(s)'
  <2>1. Charged(s)
    BY DEF AttemptsInv
  <2>2. Loose(s)' => Loose(s)
    BY DEF Loose, Eligible
  <2>3. Open(s)' => Open(s) \/ faults' = faults + 1
    BY DEF Open
  <2>. QED
    BY <1>0, <2>1, <2>2, <2>3 DEF Charged
<1>. QED
  BY <1>1, <1>2 DEF AttemptsInv

\* A worker writes the row of its job, which nobody else holds.
LEMMA RowStep ==
    ASSUME TypeInv, AttemptsInv, NEW w \in Workers, NEW s \in Submissions, worker[w].job = s,
           \A t \in Submissions \ {s} : row'[t] = row[t],
           \A v \in Workers \ {w} : worker'[v] = worker[v] /\ ~Holds(v, s),
           worker'[w].job = s \/ worker'[w].pc = "idle", worker'[w].pc # "picked",
           UNCHANGED life, faults' \in {faults, faults + 1},
           row'[s].status # "absent", CountOK(w)', Charged(s)'
    PROVE  AttemptsInv'
<1>0. /\ \A t \in Submissions : row[t].attempts \in Nat
      /\ faults \in Nat /\ MaxAttempts \in Nat
      /\ \A v \in Workers : worker[v].pc # "idle" => worker[v].job \in Submissions
  BY QueueAssumption DEF TypeInv, TypeOK, Row, JobOK
<1>1. ASSUME NEW v \in Workers PROVE CountOK(v)'
  <2>1. CASE v = w
    BY <2>1
  <2>2. CASE v # w
    <3>1. CountOK(v) /\ worker'[v] = worker[v] /\ ~Holds(v, s)
      BY <2>2 DEF AttemptsInv
    <3>2. CASE worker[v].pc = "idle"
      BY <3>1, <3>2 DEF CountOK, Held, Holds
    <3>3. CASE worker[v].pc # "idle" /\ worker[v].job = s
      BY <3>1, <3>3 DEF CountOK, Held, Holds
    <3>4. CASE worker[v].pc # "idle" /\ worker[v].job # s
      <4>1. row'[worker[v].job] = row[worker[v].job]
        BY <1>0, <3>4
      <4>. QED
        BY <3>1, <3>4, <4>1 DEF CountOK, Held, Holds
    <3>. QED
      BY <3>2, <3>3, <3>4
  <2>. QED
    BY <2>1, <2>2
<1>2. ASSUME NEW t \in Submissions PROVE Charged(t)'
  <2>1. CASE t = s
    BY <2>1
  <2>2. CASE t # s
    <3>1. Charged(t) /\ row'[t] = row[t]
      BY <2>2 DEF AttemptsInv
    <3>2. \A v \in Workers : Holds(v, t)' <=> Holds(v, t)
      BY <2>2 DEF Holds
    <3>3. Loose(t)' => Loose(t)
      BY <3>1 DEF Loose, Eligible, Stopping
    <3>4. Open(t)' => Open(t)
      BY <3>1, <3>2 DEF Open
    <3>. QED
      BY <1>0, <3>1, <3>3, <3>4 DEF Charged
  <2>. QED
    BY <2>1, <2>2
<1>3. (\E p \in Processes : life'[p] = "stopping") => faults' >= 1
  BY <1>0 DEF AttemptsInv
<1>. QED
  BY <1>1, <1>2, <1>3 DEF AttemptsInv

\* A claim, seen or unseen by its worker, makes the row due for nobody.
LEMMA ClaimIsFresh ==
    ASSUME SlackCovers, TypeInv, LeaseInv, NEW w \in Workers, NEW s \in Submissions,
           worker[w].pc = "picked", Eligible(s, worker[w].age), MarkClaimed(w, s),
           \A v \in Workers : worker'[v].pc = "picked" => worker'[v] = worker[v]
    PROVE  /\ Open(s) /\ \A v \in Workers : ~Holds(v, s)
           /\ row'[s].status = "grading" /\ row'[s].attempts = row[s].attempts + 1
           /\ \A t \in Submissions \ {s} : row'[t] = row[t]
           /\ ~Loose(s)'
<1>1. worker[w].age \in Nat /\ worker[w].age <= Setup /\ row \in [Submissions -> Row]
  BY DEF TypeInv, TypeOK, JobOK, Job, AgeLimit
<1>2. Open(s) /\ \A v \in Workers : ~Holds(v, s)
  BY <1>1, DueIsOpen, DueIsFree
<1>3. /\ row'[s].status = "grading" /\ row'[s].attempts = row[s].attempts + 1
      /\ row'[s].claimAge = worker[w].age
      /\ \A t \in Submissions \ {s} : row'[t] = row[t]
  BY <1>1 DEF MarkClaimed, Row
<1>4. ~Loose(s)'
  <2> SUFFICES ASSUME NEW v \in Workers, worker'[v].pc = "picked", Eligible(s, worker[v].age)'
               PROVE  FALSE
    BY DEF Loose
  <2>1. worker'[v].age \in Nat
    BY DEF TypeInv, TypeOK, Job
  <2>2. row'[s].claimAge - worker'[v].age > Lease
    BY <1>3 DEF Eligible
  <2>3. Setup <= Lease /\ Lease \in Nat
    BY QueueAssumption, TimesAreNat DEF Lease, SlackCovers
  <2>. QED
    BY <1>1, <1>3, <2>1, <2>2, <2>3, QueueAssumption
<1>. QED
  BY <1>1, <1>2, <1>3, <1>4

LEMMA ClaimIsCharged ==
    ASSUME SlackCovers, TypeInv, LeaseInv, AttemptsInv, NEW w \in Workers,
           ClaimCommit(w) \/ (ClaimError(w) /\ row' # row)
    PROVE  AttemptsInv'
<1>. PICK s \in Submissions : worker[w].job = s
  BY DEF TypeInv, TypeOK, JobOK, ClaimCommit, ClaimError
<1>0. worker \in [Workers -> Job] /\ worker[w].pc = "picked" /\ worker[w] \in Job
      /\ faults \in Nat /\ MaxAttempts \in Nat
  BY QueueAssumption DEF TypeInv, TypeOK, ClaimCommit, ClaimError
<1>1. Eligible(s, worker[w].age) /\ MarkClaimed(w, s) /\ UNCHANGED life
  BY DEF ClaimCommit, ClaimError
<1>2. /\ worker'[w].pc # "picked"
      /\ \/ worker'[w].pc = "claimed" /\ worker'[w].job = s /\ worker'[w].attempt = row[s].attempts + 1
         \/ worker'[w].pc = "idle"
      /\ \A v \in Workers \ {w} : worker'[v] = worker[v]
  BY <1>0 DEF ClaimCommit, ClaimError, Idle, IdleWorker, JobAt, Job
<1>3. /\ Open(s) /\ \A v \in Workers : ~Holds(v, s)
      /\ row'[s].status = "grading" /\ row'[s].attempts = row[s].attempts + 1
      /\ \A t \in Submissions \ {s} : row'[t] = row[t]
      /\ ~Loose(s)'
  BY <1>0, <1>1, <1>2, ClaimIsFresh
<1>4. Charged(s) /\ row[s].attempts \in Nat
  BY <1>3 DEF AttemptsInv, TypeInv, TypeOK, Row
<1>5. faults' \in {faults, faults + 1}
  BY DEF ClaimCommit, ClaimError, CallFails, Fault
<1>6. CountOK(w)'
  BY <1>2, <1>3 DEF CountOK, Held, Holds
<1>7. Charged(s)'
  <2>1. CASE ClaimCommit(w)
    <3>1. Holds(w, s)'
      BY <1>0, <1>3, <2>1 DEF ClaimCommit, Holds, Job
    <3>2. ~Open(s)'
      BY <1>3, <3>1 DEF Open
    <3>. QED
      BY <1>0, <1>3, <1>4, <1>5, <3>2 DEF Charged
  <2>2. CASE ClaimError(w) /\ faults' = faults + 1
    BY <1>0, <1>3, <1>4, <2>2 DEF Charged
  <2>3. CASE ClaimError(w) /\ faults' = faults
    <3>1. Stopping(w)
      BY <1>0, <2>3 DEF ClaimError, CallFails, Cancelled, UnderDeadline, Fault
    <3>2. Loose(s)
      BY <1>0, <1>1, <3>1 DEF Loose
    <3>. QED
      BY <1>0, <1>3, <1>4, <2>3, <3>2 DEF Charged
  <2>. QED
    BY <1>5, <2>1, <2>2, <2>3
<1>. QED
  BY <1>1, <1>2, <1>3, <1>5, <1>6, <1>7, RowStep

\* A worker that marks or settles the row it holds.
LEMMA SettlingIsCharged ==
    ASSUME SlackCovers, TypeInv, LeaseInv, AttemptsInv, NEW w \in Workers,
           UpdateSubmissionStatus(w) \/ SettleFailure(w), row' # row
    PROVE  AttemptsInv'
<1>. PICK s \in Submissions : worker[w].job = s
  BY DEF TypeInv, TypeOK, JobOK, UpdateSubmissionStatus, SettleFailure
<1>0. /\ worker \in [Workers -> Job] /\ worker[w] \in Job /\ row \in [Submissions -> Row]
      /\ faults \in Nat /\ MaxAttempts \in Nat
      /\ Held(w) /\ worker[w].attempt \in Nat
  BY QueueAssumption
  DEF TypeInv, TypeOK, JobOK, Job, UpdateSubmissionStatus, SettleFailure, Held, Holds
<1>1. \A v \in Workers \ {w} : ~Holds(v, s)
  BY <1>0 DEF LeaseInv, ExclusiveGrading, Held
<1>2. /\ \A v \in Workers \ {w} : worker'[v] = worker[v]
      /\ worker'[w].pc # "picked"
      /\ worker'[w].job = s \/ worker'[w].pc = "idle"
      /\ UNCHANGED life /\ faults' \in {faults, faults + 1}
  BY <1>0 DEF UpdateSubmissionStatus, SettleFailure, Goto, BlameCall, Blame, Idle, IdleWorker, JobAt,
     CallFails, Fault, Job
<1>3. \A t \in Submissions \ {s} : row'[t] = row[t]
  BY <1>0 DEF UpdateSubmissionStatus, SettleFailure
<1>4. Charged(s) /\ row[s].attempts \in Nat /\ CountOK(w)
  BY <1>0 DEF AttemptsInv, Row
<1>5. /\ row'[s].attempts = row[s].attempts
      /\ \/ row'[s].status \in {"graded", "failed"}
         \/ SettleFailure(w) /\ ~Permanent(w) /\ row'[s].status = "pending" /\ UNCHANGED faults
      /\ SettleFailure(w) => row[s].status = "grading" /\ worker'[w].pc = "idle"
  <2>1. CASE UpdateSubmissionStatus(w)
    <3>1. row' = [row EXCEPT ![s].status = "graded"] /\ worker[w].pc \in {"marking", "remarking"}
      BY <2>1 DEF UpdateSubmissionStatus
    <3>. QED
      BY <1>0, <3>1 DEF Row, SettleFailure
  <2>2. CASE SettleFailure(w)
    <3>1. /\ row[s].status = "grading" /\ row' = [row EXCEPT ![s] = Settled(w, @)]
          /\ UNCHANGED faults /\ worker' = [worker EXCEPT ![w] = IdleWorker]
      BY <2>2 DEF SettleFailure, Idle
    <3>2. row'[s] = Settled(w, row[s]) /\ row[s] \in Row /\ worker'[w].pc = "idle"
      BY <1>0, <3>1 DEF IdleWorker, JobAt
    <3>3. /\ row'[s].attempts = row[s].attempts
          /\ Permanent(w) => row'[s].status = "failed"
          /\ ~Permanent(w) => row'[s].status = "pending"
      BY <3>2 DEF Settled, Row
    <3>. QED
      BY <2>2, <3>1, <3>2, <3>3
  <2>. QED
    BY <2>1, <2>2
<1>6. CountOK(w)'
  BY <1>2, <1>5 DEF CountOK, Held, Holds
<1>7. Charged(s)'
  <2>1. CASE row'[s].status \in {"graded", "failed"}
    <3>1. ~Open(s)' /\ ~Loose(s)'
      BY <2>1 DEF Open, Loose, Eligible
    <3>. QED
      BY <1>0, <1>2, <1>4, <1>5, <3>1 DEF Charged
  <2>2. CASE SettleFailure(w) /\ ~Permanent(w) /\ row'[s].status = "pending" /\ UNCHANGED faults
    <3>1. row[s].attempts = worker[w].attempt
      BY <1>0, <1>4, <1>5, <2>2 DEF CountOK
    <3>2. row'[s].attempts <= MaxAttempts - 1
      BY <1>0, <1>4, <1>5, <2>2, <3>1 DEF Permanent
    <3>3. Loose(s)' => faults >= 1
      <4>1. ASSUME NEW v \in Workers, Stopping(v)' PROVE faults >= 1
        <5>1. life[ProcessOf[v]] = "stopping" /\ ProcessOf[v] \in Processes
          BY <1>2, <4>1, QueueAssumption DEF Stopping
        <5>. QED
          BY <5>1 DEF AttemptsInv
      <4>. QED
        BY <4>1 DEF Loose
    <3>. QED
      BY <1>0, <1>4, <1>5, <2>2, <3>2, <3>3 DEF Charged
  <2>. QED
    BY <1>5, <2>1, <2>2
<1>. QED
  BY <1>1, <1>2, <1>3, <1>5, <1>6, <1>7, RowStep

LEMMA TickIsFree == ASSUME TypeInv, AttemptsInv, Tick PROVE AttemptsInv'
<1>0. /\ worker \in [Workers -> Job] /\ row \in [Submissions -> Row]
      /\ \A w \in Workers : worker[w].pc # "idle" => worker[w].job \in Submissions
  BY DEF TypeInv, TypeOK, JobOK
<1>1. ASSUME NEW w \in Workers
      PROVE  /\ worker'[w].pc = worker[w].pc /\ worker'[w].job = worker[w].job
             /\ worker'[w].attempt = worker[w].attempt
             /\ worker[w].pc # "idle" => worker'[w].age = worker[w].age + 1
  BY <1>0 DEF Tick, Job
<1>2. ASSUME NEW s \in Submissions
      PROVE  /\ row'[s].status = row[s].status /\ row'[s].attempts = row[s].attempts
             /\ row'[s].wait \in Int /\ row'[s].wait >= row[s].wait - 1
             /\ row'[s].claimAge \in Int /\ row'[s].claimAge <= row[s].claimAge + 1
             /\ row[s].claimAge = NoClaim => row'[s].claimAge = NoClaim
  <2>1. row'[s] = Aged(row[s]) /\ row[s] \in Row
    BY <1>0 DEF Tick
  <2>2. AgeCap \in Nat /\ NoClaim = -1
    BY QueueAssumption, TimesAreNat DEF AgeCap, NoClaim
  <2>3. Aged(row[s]) = [row[s] EXCEPT !.claimAge = IF row[s].claimAge = NoClaim \/ row[s].claimAge >= AgeCap
                                                    THEN row[s].claimAge ELSE row[s].claimAge + 1,
                                      !.wait = IF row[s].wait <= NoWait THEN row[s].wait ELSE row[s].wait - 1]
    BY DEF Aged
  <2>4. /\ row[s].wait \in Int /\ row[s].claimAge \in Int
        /\ row'[s].status = row[s].status /\ row'[s].attempts = row[s].attempts
        /\ row'[s].claimAge = IF row[s].claimAge = NoClaim \/ row[s].claimAge >= AgeCap
                              THEN row[s].claimAge ELSE row[s].claimAge + 1
        /\ row'[s].wait = IF row[s].wait <= NoWait THEN row[s].wait ELSE row[s].wait - 1
    BY <2>1, <2>2, <2>3 DEF Row
  <2>. QED
    BY <2>2, <2>4
<1>3. UNCHANGED <<life, faults>>
  BY DEF Tick
<1>4. ASSUME NEW w \in Workers PROVE CountOK(w)'
  <2>1. CountOK(w)
    BY DEF AttemptsInv
  <2>2. Held(w)' <=> Held(w)
    BY <1>1 DEF Held, Holds
  <2>3. Held(w) => worker[w].pc # "idle"
    BY DEF Held, Holds
  <2>. QED
    BY <1>0, <1>1, <1>2, <2>1, <2>2, <2>3 DEF CountOK
<1>5. ASSUME NEW s \in Submissions PROVE Charged(s)'
  <2>1. Open(s)' => Open(s)
    BY <1>1, <1>2 DEF Open, Holds
  <2>2. ASSUME NEW w \in Workers, worker[w].pc = "picked", Eligible(s, worker[w].age)'
        PROVE  Eligible(s, worker[w].age)
    <3>1. worker[w].age \in Nat /\ worker'[w].age = worker[w].age + 1
      BY <1>0, <1>1, <2>2 DEF Job
    <3>2. row[s].wait \in Int /\ row[s].claimAge \in Int /\ Lease \in Nat
      BY <1>0, TimesAreNat DEF Row, NoClaim
    <3>3. CASE row'[s].status = "pending" /\ row'[s].wait + worker'[w].age <= 0
      BY <1>2, <3>1, <3>2, <3>3 DEF Eligible
    <3>4. CASE row'[s].status = "grading" /\ row'[s].claimAge # NoClaim
               /\ row'[s].claimAge - worker'[w].age > Lease
      BY <1>2, <3>1, <3>2, <3>4 DEF Eligible
    <3>. QED
      BY <2>2, <3>3, <3>4 DEF Eligible
  <2>3. Loose(s)' => Loose(s)
    BY <1>1, <1>3, <2>2 DEF Loose, Stopping
  <2>. QED
    BY <1>2, <1>3, <2>1, <2>3 DEF Charged, AttemptsInv
<1>. QED
  BY <1>3, <1>4, <1>5 DEF AttemptsInv

LEMMA NextAttempts ==
    ASSUME SlackCovers, TypeInv, LeaseInv, AttemptsInv, [Next]_vars
    PROVE  AttemptsInv'
<1>0. /\ worker \in [Workers -> Job] /\ row \in [Submissions -> Row] /\ faults \in Nat
      /\ MaxAttempts \in Nat
      /\ \A w \in Workers : worker[w].pc # "idle" => worker[w].job \in Submissions
      /\ \A w \in Workers : CountOK(w)
      /\ \A s \in Submissions : Charged(s)
      /\ (\E p \in Processes : life[p] = "stopping") => faults >= 1
      /\ \A s \in Submissions : row[s].attempts \in Nat
  BY QueueAssumption DEF TypeInv, TypeOK, JobOK, AttemptsInv, Row
<1>1. ASSUME NEW s \in Submissions, SubmitAnswer(s) PROVE AttemptsInv'
  <2>1. /\ row'[s].attempts = row[s].attempts /\ row'[s].status = "pending" /\ row[s].status = "absent"
        /\ \A t \in Submissions \ {s} : row'[t] = row[t]
        /\ UNCHANGED <<worker, life, faults>>
    BY <1>0, <1>1 DEF SubmitAnswer, Row
  <2>2. \A w \in Workers : worker[w].pc # "idle" => worker[w].job \in Submissions \ {s}
    BY <1>0, <2>1 DEF CountOK
  <2>3. ASSUME NEW w \in Workers PROVE CountOK(w)'
    BY <1>0, <2>1, <2>2 DEF CountOK, Held, Holds
  <2>4. ASSUME NEW t \in Submissions PROVE Charged(t)'
    <3>1. CASE t = s
      <4>1. Open(t) /\ ~Loose(t)'
        BY <2>1, <2>2, <3>1 DEF Open, Loose
      <4>. QED
        BY <1>0, <2>1, <3>1, <4>1 DEF Charged
    <3>2. CASE t # s
      BY <1>0, <2>1, <3>2 DEF Charged, Open, Loose, Eligible, Holds, Stopping
    <3>. QED
      BY <3>1, <3>2
  <2>. QED
    BY <1>0, <2>1, <2>3, <2>4 DEF AttemptsInv
<1>2. ASSUME NEW w \in Workers, ClaimSelect(w) PROVE AttemptsInv'
  <2>1. PICK s \in Submissions : /\ worker' = [worker EXCEPT ![w] = JobAt("picked", s)]
                                 /\ Eligible(s, 0)
    BY <1>2 DEF ClaimSelect
  <2>2. /\ worker'[w].pc = "picked" /\ worker'[w].job = s /\ row[s].status # "absent"
        /\ \A v \in Workers \ {w} : worker'[v] = worker[v]
        /\ UNCHANGED <<row, life, faults>>
    BY <1>0, <1>2, <2>1 DEF ClaimSelect, JobAt, Eligible
  <2>3. ~Stopping(w)' /\ worker[w].pc = "idle"
    BY <1>2, <2>2 DEF ClaimSelect, Up, Stopping
  <2>. QED
    BY <1>0, <2>2, <2>3, QuietStep DEF CountOK, Held, Holds, Stopping
<1>3. ASSUME NEW w \in Workers, row' = row,
             \/ ClaimMiss(w) \/ ClaimError(w) \/ GrantIfFirstAttempt(w)
             \/ SettleFailure(w)
      PROVE  AttemptsInv'
  <2>1. /\ worker'[w].pc = "idle" /\ \A v \in Workers \ {w} : worker'[v] = worker[v]
        /\ UNCHANGED life /\ faults' \in {faults, faults + 1}
    BY <1>0, <1>3
    DEF ClaimMiss, ClaimError, GrantIfFirstAttempt, SettleFailure, CallFails, Fault, Idle, IdleWorker, JobAt
  <2>2. ASSUME faults' # faults + 1, NEW s \in Submissions, Holds(w, s) PROVE row[s].status # "grading"
    <3>1. worker[w].job = s /\ SettleFailure(w)
      BY <1>3, <2>2 DEF Holds, ClaimMiss, ClaimError, GrantIfFirstAttempt
    <3>2. SUFFICES ASSUME row[s].status = "grading" PROVE FALSE
      OBVIOUS
    <3>3. row' = [row EXCEPT ![s] = Settled(w, @)]
      BY <2>2, <3>1, <3>2 DEF SettleFailure, Fault
    <3>4. row'[s].status # "grading"
      BY <1>0, <3>3 DEF Settled, Row
    <3>. QED
      BY <1>3, <3>2, <3>4
  <2>3. \A v \in Workers \ {w} : \A s \in Submissions : Holds(v, s)' <=> Holds(v, s)
    BY <2>1 DEF Holds
  <2>4. \A v \in Workers : /\ worker'[v].pc # "idle" => worker'[v] = worker[v]
                           /\ Held(v)' => Held(v) /\ worker'[v] = worker[v]
                           /\ Stopping(v)' => Stopping(v)
    BY <2>1 DEF Held, Holds, Stopping
  <2>. QED
    BY <1>0, <1>3, <2>1, <2>2, <2>3, <2>4, QuietStep DEF CountOK
<1>4. ASSUME NEW w \in Workers, row' = row,
             \/ LoadTest(w) \/ GetScoreBySubmissionID(w) \/ GradeBySkill(w)
             \/ CreateScore(w) \/ UpdateSubmissionStatus(w)
      PROVE  AttemptsInv'
  <2>1. /\ worker'[w].pc \notin {"idle", "picked"} /\ worker[w].pc \notin {"idle", "picked", "granting"}
        /\ worker'[w].job = worker[w].job /\ worker'[w].attempt = worker[w].attempt
        /\ \A v \in Workers \ {w} : worker'[v] = worker[v]
        /\ UNCHANGED life /\ faults' \in {faults, faults + 1}
    BY <1>0, <1>4
    DEF LoadTest, GetScoreBySubmissionID, GradeBySkill, CreateScore, UpdateSubmissionStatus,
        CallFails, Fault, Goto, Blame, BlameCall, Job
  <2>2. Held(w)
    BY <1>0, <2>1 DEF Held, Holds, Job, Phases
  <2>3. worker'[w].pc # "granting" \/ row[worker[w].job].status # "grading"
    <3>1. SUFFICES ASSUME worker'[w].pc = "granting", row[worker[w].job].status = "grading" PROVE FALSE
      OBVIOUS
    <3>2. row' = [row EXCEPT ![worker[w].job].status = "graded"]
      BY <1>0, <1>4, <3>1
      DEF LoadTest, GetScoreBySubmissionID, GradeBySkill, CreateScore, UpdateSubmissionStatus,
          Goto, Blame, BlameCall, Job
    <3>3. row'[worker[w].job].status = "graded"
      BY <1>0, <2>1, <3>2 DEF Row
    <3>. QED
      BY <1>4, <3>1, <3>3
  <2>4. worker'[w].pc \in Phases
    BY <1>0, <1>4, NextType DEF TypeInv, TypeOK, Job
  <2>5. \A s \in Submissions : Holds(w, s) /\ row[s].status = "grading" => Holds(w, s)'
    BY <2>1, <2>3, <2>4 DEF Holds, Phases
  <2>. QED
    BY <1>0, <1>4, <2>1, <2>2, <2>5, QuietStep DEF CountOK, Held, Holds, Stopping
<1>5. ASSUME NEW w \in Workers, WorkerStep(w) PROVE AttemptsInv'
  <2>1. CASE row' = row
    <3>1. ~ClaimCommit(w) \/ AttemptsInv'
      BY ClaimIsCharged
    <3>. QED
      BY <1>2, <1>3, <1>4, <1>5, <2>1, <3>1 DEF WorkerStep
  <2>2. CASE row' # row
    BY <1>5, <2>2, ClaimIsCharged, SettlingIsCharged
    DEF WorkerStep, ClaimSelect, ClaimMiss, LoadTest, GetScoreBySubmissionID, GradeBySkill, CreateScore,
        GrantIfFirstAttempt
  <2>. QED
    BY <2>1, <2>2
<1>6. ASSUME NEW p \in Processes, Shutdown(p) PROVE AttemptsInv'
  <2>1. UNCHANGED <<row, worker>> /\ faults' = faults + 1
    BY <1>6 DEF Shutdown, Fault
  <2>2. ASSUME NEW s \in Submissions PROVE Charged(s)'
    <3>1. Loose(s)' => Open(s)
      <4>1. ASSUME NEW w \in Workers, Eligible(s, worker[w].age)' PROVE Open(s)
        <5>1. Eligible(s, worker[w].age) /\ worker[w].age \in Nat
          BY <1>0, <2>1, <4>1 DEF Eligible, Job
        <5>. QED
          BY <5>1, DueIsOpen
      <4>. QED
        BY <4>1 DEF Loose
    <3>2. Open(s)' => Open(s)
      BY <2>1 DEF Open, Holds
    <3>. QED
      BY <1>0, <2>1, <3>1, <3>2 DEF Charged
  <2>3. \A w \in Workers : CountOK(w)'
    BY <1>0, <2>1 DEF CountOK, Held, Holds
  <2>. QED
    BY <1>0, <2>1, <2>2, <2>3 DEF AttemptsInv
<1>7. ASSUME NEW p \in Processes, Exit(p) \/ Restart(p) \/ Crash(p) PROVE AttemptsInv'
  <2>1. /\ row' = row /\ faults' \in {faults, faults + 1}
        /\ \A q \in Processes : life'[q] = "stopping" => life[q] = "stopping"
        /\ \A v \in Workers : worker'[v] = worker[v] \/ worker'[v].pc = "idle"
        /\ faults' = faults + 1 \/ worker' = worker
    BY <1>0, <1>7 DEF Exit, Restart, Crash, Fault, IdleWorker, JobAt, TypeInv, TypeOK
  <2>2. \A v \in Workers : Stopping(v)' => Stopping(v)
    BY <2>1, QueueAssumption DEF Stopping
  <2>3. \A v \in Workers : /\ worker'[v].pc # "idle" => row[worker'[v].job].status # "absent"
                           /\ Held(v)' => Held(v) /\ worker'[v] = worker[v]
                           /\ worker'[v].pc = "picked" => worker'[v] = worker[v]
    BY <1>0, <2>1 DEF CountOK, Held, Holds
  <2>4. faults' = faults + 1 \/ \A v \in Workers, s \in Submissions : Holds(v, s) => Holds(v, s)'
    BY <2>1 DEF Holds
  <2>5. (\E q \in Processes : life'[q] = "stopping") => faults' >= 1
    BY <1>0, <2>1
  <2>. QED
    BY <2>1, <2>2, <2>3, <2>4, <2>5, QuietStep
<1>8. CASE UNCHANGED vars
  BY <1>8 DEF vars, AttemptsInv, CountOK, Charged, Open, Loose, Eligible, Stopping, Held, Holds
<1>. QED
  BY <1>1, <1>5, <1>6, <1>7, <1>8, TickIsFree DEF Next

\* What a submission costs is bounded by maxGradingAttempts and by the faults
\* that lost a claim, however many workers and processes there are: see
\* AttemptsBounded.
THEOREM CostOfGradingIsBounded == ASSUME SlackCovers PROVE Spec => []AttemptsBounded
<1>1. Init => AttemptsInv
  BY QueueAssumption
  DEF Init, AttemptsInv, CountOK, Charged, Open, Loose, Eligible, Stopping, Held, Holds, IdleWorker, JobAt
<1>2. TypeInv /\ LeaseInv /\ AttemptsInv /\ [Next]_vars => AttemptsInv'
  BY NextAttempts
<1>3. AttemptsInv => AttemptsBounded
  BY DEF AttemptsInv, Charged, AttemptsBounded
<1>. QED
  BY <1>1, <1>2, <1>3, TypeInvariant, LeaseInvariant, PTL DEF Spec

=============================================================================
