---------------------------- MODULE GradingQueue ----------------------------
(***************************************************************************)
(* The grading queue: the rows of the submissions, scores and              *)
(* submission_xp_grants tables, the grading workers of one or more API     *)
(* processes that claim, grade and settle them, and the crashes,           *)
(* shutdowns, database errors and late runs they live with.                *)
(*                                                                         *)
(* Time is relative.  A row holds the age of its claim (now - claimed_at)  *)
(* and the time left until next_attempt_at; a worker holds the age of its  *)
(* job, counted from the `now` that GradeNextPending reads.  Tick advances *)
(* all of them together, and both row clocks saturate where the code can   *)
(* no longer tell their values apart, so the state space needs no bound on *)
(* time.                                                                   *)
(***************************************************************************)
EXTENDS Integers

CONSTANTS
    Submissions,      \* ids, numbered in the order of submitted_at
    Workers,          \* grading worker goroutines
    Processes,        \* API processes
    ProcessOf,        \* the process a worker runs in
    Pairs,            \* (user, test) pairs
    PairOf,           \* the pair a submission belongs to
    Paying,           \* the pairs whose test has xp_gain > 0
    Speaking,         \* the submissions to speaking tests
    DefaultTimeout,   \* jobTimeouts[""]
    SpeakingTimeout,  \* jobTimeouts["speaking"], 0 when not set
    Slack,            \* gradingLeaseSlack
    Setup,            \* longest time from reading `now` to having loaded the test
    Overrun,          \* how far past its deadline a job may still be running
    BaseDelay,        \* retryBaseDelay
    MaxAttempts,      \* maxGradingAttempts
    SkipLocked,       \* TRUE: the database honours FOR UPDATE SKIP LOCKED
    MaxFaults         \* bound on crashes, shutdowns and database errors

ASSUME QueueAssumption ==
    /\ Submissions \subseteq Nat \ {0}
    /\ ProcessOf \in [Workers -> Processes]
    /\ PairOf \in [Submissions -> Pairs]
    /\ Paying \subseteq Pairs
    /\ Speaking \subseteq Submissions
    /\ DefaultTimeout \in Nat \ {0} /\ SpeakingTimeout \in Nat
    /\ Slack \in Nat /\ Setup \in Nat /\ Overrun \in Nat
    /\ BaseDelay \in Nat \ {0}
    /\ MaxAttempts \in Nat \ {0}
    /\ SkipLocked \in BOOLEAN
    /\ MaxFaults \in Nat

VARIABLES
    row,      \* submissions: status, attempts, claim age, time to next attempt
    scores,   \* the submissions that have a scores row
    grants,   \* the pairs that have a submission_xp_grants row
    worker,   \* per worker: where it is in GradeNextPending, and its job
    life,     \* per process: up, stopping (context cancelled) or down
    faults    \* faults injected so far

vars == <<row, scores, grants, worker, life, faults>>

-----------------------------------------------------------------------------
(* Data *)

Statuses == {"absent", "pending", "grading", "graded", "failed"}

\* What a failed attempt is blamed on.  "cancelled" and "cancelledLoad" are
\* failures the shutdown's cancelled context caused, while grading and while
\* loading the test.
Causes == {"none", "transient", "ungradable", "noTest", "cancelled", "cancelledLoad"}

Phases == {"idle", "picked", "claimed", "loaded", "grading", "saving",
           "marking", "remarking", "granting", "settling"}

NoJob == 0
NoClaim == -1       \* claimed_at IS NULL
NoWait == -Setup    \* next_attempt_at IS NULL, or past for every `now` still in use

JobAt(pc, job) == [pc |-> pc, job |-> job, attempt |-> 0, cause |-> "none", age |-> 0]
IdleWorker == JobAt("idle", NoJob)

JobTimeout(s) ==
    IF s \in Speaking /\ SpeakingTimeout > 0 THEN SpeakingTimeout ELSE DefaultTimeout

\* Mutant: the lease ignores the longer speaking timeout.
LeaseOfDefaultJob == DefaultTimeout + Slack

Lease ==
    (IF SpeakingTimeout > DefaultTimeout THEN SpeakingTimeout ELSE DefaultTimeout) + Slack

AgeCap == Lease + Setup + 1

\* A submissions row, and what a worker holds in GradeNextPending's locals.
Row == [status: Statuses, attempts: Nat, claimAge: NoClaim..AgeCap, wait: Int]
Job == [pc: Phases, job: Submissions \union {NoJob}, attempt: Nat, cause: Causes, age: Nat]

DelayAfter(attempt) == BaseDelay * 2^(attempt - 1)

\* The claim query's WHERE clause, for a `now` read `age` ticks ago.
\* Mutant: an abandoned claim is never taken over.
PendingOnly(s, age) == row[s].status = "pending" /\ row[s].wait + age <= 0

Eligible(s, age) ==
    \/ row[s].status = "pending" /\ row[s].wait + age <= 0
    \/ /\ row[s].status = "grading"
       /\ row[s].claimAge # NoClaim
       /\ row[s].claimAge - age > Lease

\* A claim transaction between its SELECT ... FOR UPDATE and its commit locks
\* the row against every other writer.
LockedByOther(w, s) ==
    SkipLocked /\ \E v \in Workers \ {w} : worker[v].pc = "picked" /\ worker[v].job = s

Up(w) == life[ProcessOf[w]] = "up"
Stopping(w) == life[ProcessOf[w]] = "stopping"

\* gradeBySkill and recordScore run under the job's deadline, the calls
\* around them only under the worker's context.
UnderDeadline(w) == worker[w].pc \in {"grading", "saving", "marking"}
Cancelled(w) ==
    \/ Stopping(w)
    \/ UnderDeadline(w) /\ worker[w].age >= JobTimeout(worker[w].job)

Fault == faults < MaxFaults /\ faults' = faults + 1
CallFails(w) == (Cancelled(w) /\ UNCHANGED faults) \/ Fault

-----------------------------------------------------------------------------
(* Steps of a worker's control state *)

Goto(w, pc) == worker' = [worker EXCEPT ![w].pc = pc]
Idle(w) == worker' = [worker EXCEPT ![w] = IdleWorker]
Blame(w, cause) == worker' = [worker EXCEPT ![w].pc = "settling", ![w].cause = cause]
BlameCall(w) == Blame(w, IF Stopping(w) THEN "cancelled" ELSE "transient")

MarkClaimed(w, s) ==
    row' = [row EXCEPT ![s].status = "grading",
                       ![s].attempts = @ + 1,
                       ![s].claimAge = worker[w].age]

-----------------------------------------------------------------------------
(* Actions *)

Init ==
    /\ row = [s \in Submissions |->
                [status |-> "absent", attempts |-> 0, claimAge |-> NoClaim, wait |-> NoWait]]
    /\ scores = {}
    /\ grants = {}
    /\ worker = [w \in Workers |-> IdleWorker]
    /\ life = [p \in Processes |-> "up"]
    /\ faults = 0

\* Mutant: the row is created with the status constant no query selects.
SubmitUnqueued(s) ==
    /\ row[s].status = "absent"
    /\ row' = [row EXCEPT ![s].status = "submitted"]
    /\ UNCHANGED <<scores, grants, worker, life, faults>>

SubmitAnswer(s) ==
    /\ row[s].status = "absent"
    /\ \A t \in Submissions : t < s => row[t].status # "absent"
    /\ row' = [row EXCEPT ![s].status = "pending"]
    /\ UNCHANGED <<scores, grants, worker, life, faults>>

\* GradeNextPending reads `now`, and the claim's SELECT returns the oldest
\* eligible row, skipping locked ones.
ClaimSelect(w) ==
    LET free == {s \in Submissions : Eligible(s, 0) /\ ~LockedByOther(w, s)} IN
    /\ worker[w].pc = "idle" /\ Up(w)
    /\ \E s \in free :
          /\ \A t \in free : s <= t
          /\ worker' = [worker EXCEPT ![w] = JobAt("picked", s)]
    /\ UNCHANGED <<row, scores, grants, life, faults>>

\* The guarded UPDATE changes the row and the transaction commits.
ClaimCommit(w) ==
    LET s == worker[w].job IN
    /\ worker[w].pc = "picked" /\ ~Stopping(w)
    /\ Eligible(s, worker[w].age)
    /\ MarkClaimed(w, s)
    /\ worker' = [worker EXCEPT ![w].pc = "claimed", ![w].attempt = row[s].attempts + 1]
    /\ UNCHANGED <<scores, grants, life, faults>>

\* The UPDATE affects no row: another worker got there first.
ClaimMiss(w) ==
    /\ worker[w].pc = "picked" /\ ~Stopping(w)
    /\ ~Eligible(worker[w].job, worker[w].age)
    /\ Idle(w)
    /\ UNCHANGED <<row, scores, grants, life, faults>>

\* The transaction fails.  A commit whose answer is lost may have taken
\* effect: the row is then claimed by nobody until its lease expires.
ClaimError(w) ==
    LET s == worker[w].job IN
    /\ worker[w].pc = "picked"
    /\ CallFails(w)
    /\ Idle(w)
    /\ \/ UNCHANGED row
       \/ Eligible(s, worker[w].age) /\ MarkClaimed(w, s)
    /\ UNCHANGED <<scores, grants, life>>

\* Any error of GetTestByID counts as "the test is gone".
LoadTest(w) ==
    /\ worker[w].pc = "claimed"
    /\ \/ ~Stopping(w) /\ Goto(w, "loaded") /\ UNCHANGED faults
       \/ CallFails(w) /\ Blame(w, IF Stopping(w) THEN "cancelledLoad" ELSE "noTest")
    /\ UNCHANGED <<row, scores, grants, life>>

\* Only a score that is found skips the grader: an error of the query does not.
GetScoreBySubmissionID(w) ==
    /\ worker[w].pc = "loaded"
    /\ \/ /\ ~Stopping(w)
          /\ Goto(w, IF worker[w].job \in scores THEN "remarking" ELSE "grading")
          /\ UNCHANGED faults
       \/ CallFails(w) /\ Goto(w, "grading")
    /\ UNCHANGED <<row, scores, grants, life>>

GradeBySkill(w) ==
    /\ worker[w].pc = "grading"
    /\ \/ Goto(w, "saving")
       \/ Blame(w, "transient")
       \/ Blame(w, "ungradable")
       \/ Stopping(w) /\ Blame(w, "cancelled")
    /\ UNCHANGED <<row, scores, grants, life, faults>>

\* Mutant: the status is written before the score.
MarkBeforeScore(w) ==
    /\ worker[w].pc = "saving" /\ ~LockedByOther(w, worker[w].job)
    /\ row' = [row EXCEPT ![worker[w].job].status = "graded"]
    /\ Goto(w, "marking")
    /\ UNCHANGED <<scores, grants, life, faults>>

\* recordScore's insert; ErrScoreExists counts as success.
CreateScore(w) ==
    LET s == worker[w].job IN
    /\ worker[w].pc = "saving"
    /\ \/ /\ ~Stopping(w)
          /\ scores' = scores \union {s} /\ Goto(w, "marking") /\ UNCHANGED faults
       \/ /\ CallFails(w) /\ BlameCall(w)
          /\ scores' \in {scores, scores \union {s}}
    /\ UNCHANGED <<row, grants, life>>

\* Marks the submission graded, whatever its status is.  Affected rows count
\* changed rows, so marking a graded one again is an error.
UpdateSubmissionStatus(w) ==
    LET s == worker[w].job
        marked == [row EXCEPT ![s].status = "graded"]
    IN
    /\ worker[w].pc \in {"marking", "remarking"} /\ ~LockedByOther(w, s)
    /\ \/ /\ ~Stopping(w) /\ row[s].status # "graded"
          /\ row' = marked /\ Goto(w, "granting") /\ UNCHANGED faults
       \/ /\ ~Stopping(w) /\ row[s].status = "graded"
          /\ Blame(w, "transient") /\ UNCHANGED <<row, faults>>
       \/ CallFails(w) /\ BlameCall(w) /\ row' \in {row, marked}
    /\ UNCHANGED <<scores, grants, life>>

\* The XP grant; a failure is logged and the job is done all the same.
GrantIfFirstAttempt(w) ==
    LET granted == grants \union ({PairOf[worker[w].job]} \intersect Paying) IN
    /\ worker[w].pc = "granting"
    /\ \/ /\ PairOf[worker[w].job] \in Paying => ~Stopping(w)
          /\ grants' = granted /\ UNCHANGED faults
       \/ /\ PairOf[worker[w].job] \in Paying /\ CallFails(w)
          /\ grants' \in {grants, granted}
    /\ Idle(w)
    /\ UNCHANGED <<row, scores, life>>

\* Mutant: one retry too many.
PermanentLate(w) ==
    \/ worker[w].cause \in {"ungradable", "noTest", "cancelledLoad"}
    \/ worker[w].attempt > MaxAttempts

\* An ungradable submission, or one out of attempts, fails for good.
Permanent(w) ==
    \/ worker[w].cause \in {"ungradable", "noTest", "cancelledLoad"}
    \/ worker[w].attempt >= MaxAttempts

Settled(w, old) ==
    IF Permanent(w)
    THEN [old EXCEPT !.status = "failed", !.claimAge = NoClaim, !.wait = NoWait]
    ELSE [old EXCEPT !.status = "pending", !.claimAge = NoClaim,
                     !.wait = DelayAfter(worker[w].attempt)]

\* Mutant: the settling UPDATE does not ask for status = 'grading'.
SettleAnyStatus(w) ==
    /\ worker[w].pc = "settling" /\ ~LockedByOther(w, worker[w].job)
    /\ row' = [row EXCEPT ![worker[w].job] = Settled(w, @)]
    /\ Idle(w)
    /\ UNCHANGED <<scores, grants, life, faults>>

\* FailGrading or RescheduleGrading, on a context nothing cancels: only a
\* database error makes the write fail, and the row then waits for its lease.
SettleFailure(w) ==
    LET s == worker[w].job IN
    /\ worker[w].pc = "settling" /\ ~LockedByOther(w, s)
    /\ \/ /\ row' = IF row[s].status = "grading"
                   THEN [row EXCEPT ![s] = Settled(w, @)] ELSE row
          /\ UNCHANGED faults
       \/ UNCHANGED row /\ Fault
    /\ Idle(w)
    /\ UNCHANGED <<scores, grants, life>>

WorkerStep(w) ==
    \/ ClaimSelect(w) \/ ClaimCommit(w) \/ ClaimMiss(w) \/ ClaimError(w)
    \/ LoadTest(w) \/ GetScoreBySubmissionID(w) \/ GradeBySkill(w)
    \/ CreateScore(w) \/ UpdateSubmissionStatus(w) \/ GrantIfFirstAttempt(w)
    \/ SettleFailure(w)

WorkersOf(p) == {w \in Workers : ProcessOf[w] = p}

\* SIGTERM, once the HTTP server is down: the workers' context is cancelled.
Shutdown(p) ==
    /\ life[p] = "up" /\ Fault
    /\ life' = [life EXCEPT ![p] = "stopping"]
    /\ UNCHANGED <<row, scores, grants, worker>>

\* workers.Wait returns: every worker has settled its job and stopped.
Exit(p) ==
    /\ life[p] = "stopping"
    /\ \A w \in WorkersOf(p) : worker[w].pc = "idle"
    /\ life' = [life EXCEPT ![p] = "down"]
    /\ UNCHANGED <<row, scores, grants, worker, faults>>

Crash(p) ==
    /\ life[p] # "down" /\ Fault
    /\ life' = [life EXCEPT ![p] = "down"]
    /\ worker' = [w \in Workers |-> IF w \in WorkersOf(p) THEN IdleWorker ELSE worker[w]]
    /\ UNCHANGED <<row, scores, grants>>

Restart(p) ==
    /\ life[p] = "down"
    /\ life' = [life EXCEPT ![p] = "up"]
    /\ UNCHANGED <<row, scores, grants, worker, faults>>

\* How old a job may get before its worker must have moved on.
AgeLimit(j) ==
    IF j.pc \in {"picked", "claimed"} THEN Setup
    ELSE Setup + JobTimeout(j.job) + Overrun

Aged(r) ==
    [r EXCEPT !.claimAge = IF @ = NoClaim \/ @ >= AgeCap THEN @ ELSE @ + 1,
              !.wait = IF @ <= NoWait THEN @ ELSE @ - 1]

Tick ==
    /\ \A w \in Workers : worker[w].pc # "idle" => worker[w].age < AgeLimit(worker[w])
    /\ row' = [s \in Submissions |-> Aged(row[s])]
    /\ worker' = [w \in Workers |->
                     IF worker[w].pc = "idle" THEN worker[w]
                     ELSE [worker[w] EXCEPT !.age = @ + 1]]
    /\ UNCHANGED <<scores, grants, life, faults>>

Next ==
    \/ \E s \in Submissions : SubmitAnswer(s)
    \/ \E w \in Workers : WorkerStep(w)
    \/ \E p \in Processes : Shutdown(p) \/ Exit(p) \/ Crash(p) \/ Restart(p)
    \/ Tick

Spec == Init /\ [][Next]_vars

\* Goroutines are scheduled, time passes, a stopping process exits once its
\* workers have, and a stopped one is booted again.
Fairness ==
    /\ WF_vars(Tick)
    /\ \A w \in Workers : WF_vars(WorkerStep(w))
    /\ \A p \in Processes : WF_vars(Exit(p)) /\ WF_vars(Restart(p))

FairSpec == Spec /\ Fairness

-----------------------------------------------------------------------------
(* Properties *)

\* Every row, worker and process is in a state the code gives it.
TypeOK ==
    /\ row \in [Submissions -> Row]
    /\ scores \subseteq Submissions
    /\ grants \subseteq Pairs
    /\ worker \in [Workers -> Job]
    /\ life \in [Processes -> {"up", "stopping", "down"}]
    /\ faults \in 0..MaxFaults

\* A worker answers for a submission from its claim until it has marked or
\* settled it.
Holds(w, s) ==
    /\ worker[w].job = s
    /\ worker[w].pc \in {"claimed", "loaded", "grading", "saving", "marking",
                         "remarking", "settling"}

\* The comment on gradingLeaseSlack: the lease outlasts any job still
\* legitimately running, so no slow grade is run twice.  It holds while a job
\* overruns its timeout by less than the slack.
ExclusiveGrading ==
    \A s \in Submissions : \A v, w \in Workers : Holds(v, s) /\ Holds(w, s) => v = w

\* maxGradingAttempts bounds what one submission costs: a claim beyond it
\* needs an earlier claim that a crash, a shutdown or a database error lost.
AttemptsBounded == \A s \in Submissions : row[s].attempts <= MaxAttempts + faults

\* A claim lands only on a row that is due when it lands: pending with its
\* backoff over, or abandoned past its lease.  Never on one that another
\* worker claimed, rescheduled or settled since it was selected.
ClaimsOnlyDueWork ==
    [][\A s \in Submissions : row'[s].attempts > row[s].attempts =>
          \/ row[s].status = "pending" /\ row[s].wait <= 0
          \/ row[s].status = "grading" /\ row[s].claimAge > Lease]_vars

\* The comment on RescheduleGrading and FailGrading: a late or duplicate run
\* can never turn a graded submission back.
GradedIsFinal ==
    [][\A s \in Submissions : row[s].status = "graded" => row'[s].status = "graded"]_vars

\* A submission that reads "graded" has a score to show, also when several
\* runs of the same grade interleave.
GradedHasScore == \A s \in Submissions : row[s].status = "graded" => s \in scores

\* XP is credited only for a (user, test) pair with a graded submission.
XpOnlyForGraded ==
    \A p \in grants : \E s \in Submissions : PairOf[s] = p /\ row[s].status = "graded"

\* What the queue promises its clients: see GradingLifecycle.
Lifecycle == INSTANCE GradingLifecycle WITH
    stage <- [s \in Submissions |->
                IF row[s].status \in {"pending", "grading"} THEN "open" ELSE row[s].status],
    scored <- scores,
    granted <- grants
ImplementsLifecycle == Lifecycle!LifecycleSpec

\* Every accepted submission is graded or failed in the end, whatever crashes
\* and failures happen on the way.
EventuallySettled ==
    \A s \in Submissions :
        row[s].status = "pending" ~> row[s].status \in {"graded", "failed"}

\* The comment on StartGradingWorkers: a grade cancelled by a shutdown
\* returns to the queue, so a shutdown never loses work.
ShutdownReturnsWork ==
    [][\A w \in Workers :
          /\ worker[w].pc = "settling"
          /\ worker[w].cause \in {"cancelled", "cancelledLoad"}
          /\ row[worker[w].job].status = "grading"
          => row'[worker[w].job].status # "failed"]_vars

=============================================================================
