# ielts-arena: a verification development

This directory holds TLA+ models of ielts-arena, the TLC configurations that
check them on small instances, and proofs, checked by TLAPS, that hold for every
value of the constants. Paths below are relative to the repository; a definition
named in `code font` is in the module the section is about. `PROJECT.json` maps
every definition that stands for code to the lines it stands for.

To check: `tlc -workers 2 -config queue_in_lease.cfg MCGradingQueue` (and so on,
one line per run of the table below), `tlapm GradingQueueProofs.tla` (and so on).

## 1. The system

A learner takes an IELTS test in the browser and hands in an answer. The API
stores it and answers 202; grading workers inside the API process pick it up,
call a language model, store a score, and credit experience points (XP). The
browser polls for the result. Speaking tests also have an examiner whose lines
are synthesised by a text-to-speech service, and may be composed by the learner.

| component | state | operations | talks to |
|---|---|---|---|
| grading queue (`feature/ielts_test/service.go`, `repository.go`, `worker.go`) | tables `submissions`, `scores`; the job each worker holds; the workers' context | submit, claim under a lease, load, grade, save score, mark graded, grant XP, retry with backoff, fail for good, shut down, restart | database, graders, progression |
| progression (`feature/progression`) | `submission_xp_grants`, `user_progression` | grant XP once per (user, test) | called by the queue |
| speaking grader (`speaking/grading`, `bands.go`) | goroutines of an attempt: transcriptions, judges, reviews | transcribe, measure, assess, judge, cap, average to bands | speech recognition, pronunciation service, language model, object store |
| writing grader (`grader.go`, `bands.go`) | goroutines of an attempt | judge, correct, average to bands | language model |
| reading and listening tests (`autograde.go`, `models.go`, `handler.go`) | rows of `tests`, which may be replaced while submissions are marked | validate, number, mark, map to a band, redact, show the key | called by the queue, the API and the import tool |
| examiner audio (`speaking/examiner/audio.go`) | per process: maps `known` and `pending`, a channel, one worker; shared: the object store | serve a script, enqueue, synthesise | text to speech, object store |
| custom speaking tests (`speaking/api/custom.go`) | rows of `tests` a user owns | create, edit, delete, take | moderation, database |
| uploads (`speaking/api/uploads.go`, `platform/storage`) | object store | presign, check | browser, graders |
| authentication (`platform/auth`) | `users`; tokens are stateless | register, log in, refresh | browser |
| browser session (`frontend/src/lib/api.js`) | tokens in localStorage, shared by tabs | request, refresh, log out | API |
| grading notifier, submissions page, result page | watch list in localStorage, shared by tabs; timers and requests per tab | watch, poll, announce, reload, wait | API |
| exam attempt pages | draft, recordings, timers | write or record, upload, hand in | API, object store |
| profile, listings, test import, configuration, migrations | none of their own | reads, boot | database |

What is hard here:

* **Several actors on one row.** The queue is a database table. Workers of several
  processes claim from it under a lease, and a job that outlives its lease runs
  next to the one that took over. No statement of a job is in a transaction with
  the next: score, status and XP are three writes.
* **Failure at any point.** A crash, a shutdown that cancels the context, a query
  that fails, and a write whose answer is lost although it took effect, each
  between any two steps.
* **Check, then act.** Editing a custom test asks for submissions, waits for a
  moderation service, and then writes; the limit on custom tests is counted
  before the insert; the store is asked for a recording before it is paid for.
* **Bounded, lossy queues.** The channel of the synthesiser drops lines when full,
  and only serving the script again brings them back.
* **Fan-out.** A speaking grade is put together from a dozen parallel calls, any of
  which may fail; the reviews outlive an attempt that failed.
* **Locks that wait for locks.** Two grants of one user, or of one test, meet in
  the database: one on a unique key, the other on the user's row.
* **Checked once, read for years.** The content of a test is validated when it is
  created and read by other code, under other rules, whenever it is shown, played
  or marked, and it may have been replaced by then.
* **A long exam in a browser.** Links, tokens and the microphone may go while
  recordings are being uploaded, and another tab may change who is logged in.
* **Answers out of order.** Pages reload every few seconds, cancel what is on its
  way, are left while they wait, and share a watch list with other tabs.

## 2. Modules

| module | what it is |
|---|---|
| `GradingLifecycle` | abstract: what the queue promises about a submission |
| `GradingQueue`, `MCGradingQueue` | the queue as the code runs it; refines `GradingLifecycle` |
| `GradingQueueProofs` | theorems without, and with, an assumption on overruns |
| `Autograde` | reading and listening content: validation, marking, bands, redaction, as operators |
| `Marking`, `MCMarking`, `MarkingProofs` | reading and listening tests over time: created, replaced, taken, marked, shown |
| `Bands` | the average of criteria as an IELTS band, shared by both graders |
| `WritingGrade` | how writing submissions are graded, over their attempts |
| `XpGrant` | the XP transactions, levels and the profile |
| `GradedRewards`, `MCGradedRewards`, `GradedRewardsProofs` | `WritingGrade` and `XpGrant` composed |
| `SpeakingGrade`, `MCSpeakingGrade` | how one speaking submission is graded, over its attempts |
| `ExaminerAudio`, `ExaminerAudioProofs` | the examiner's voice on several replicas |
| `CustomTests`, `MCCustomTests` | racing requests on custom tests, whose content is abstract |
| `SpeakingTestProofs` | theorems about `CustomTests` and about `SpeakingGrade` |
| `SpeakingContent`, `ExaminerScript` | that content: its normalisation, rules, texts, and the script made of it, as operators |
| `ClientSession` | tokens of a browser and the refresh around a request |
| `SpeakingExam`, `MCSpeakingExam`, `SpeakingExamProofs` | `ExaminerScript` and `ClientSession` composed: an exam from its composition to its hand-in |
| `ResultPages`, `MCResultPages`, `ResultPagesProofs` | the browser waiting for a grade; composed with `GradingLifecycle` as its server |
| `Sums` | lemmas about sums, numbers and finite sets that the proofs about marks, rewards and the exam share |

`ResultPages` never looks inside the queue: it instantiates `GradingLifecycle` on
its own variables and takes the server's steps from it. Since `GradingQueue` is
shown to implement `GradingLifecycle`, what holds of the pages holds of the pages
on top of the real queue, as far as their safety goes. (`GradingLifecycle` does
not promise that a submission settles; that is `EventuallySettled` of the queue,
and the liveness properties of the pages start from a settled submission.)

### GradingQueue

State: `row` is the `submissions` table (status, attempts, `claimed_at`,
`next_attempt_at`), `scores` and `grants` the ids of the two other tables'
rows, `worker` the locals of `GradeNextPending` in every worker goroutine, `life`
whether a process runs, is shutting down or is down.

Actions follow `GradeNextPending` statement by statement, cut where another actor
can interfere: `ClaimSelect` and `ClaimCommit`/`ClaimMiss`/`ClaimError` are the
claim transaction, `LoadTest`, `GetScoreBySubmissionID`, `GradeBySkill`,
`CreateScore`, `UpdateSubmissionStatus`, `GrantIfFirstAttempt` the body of
`gradeClaimed`, and `SettleFailure` its error path, with `Permanent` deciding
between retry and failure. `Shutdown`, `Exit`, `Crash`, `Restart` are `main` and
its environment. Three details of the code matter and are kept:

* An error of `GetTestByID`, of any kind, is wrapped as ungradable, so it is
  permanent (`service.go:278`).
* The DSN does not ask for found rows, so an UPDATE that changes nothing reports
  zero affected rows: marking a graded submission again is an error
  (`UpdateSubmissionStatus`), and so no XP is granted by it.
* The job's deadline covers the grading and the writes under `jobCtx`; settling
  runs on a context nothing cancels.

Time is relative: a row carries the age of its claim and the time to its next
attempt, a worker the age of its job, and `Tick` moves them together. Both row
clocks saturate where no comparison in the code can tell the difference, so time
is unbounded and the state space is not. `AgeLimit` is the one assumption about
duration: a job has loaded its test within `Setup` of reading `now`, and is over
within `Overrun` of its deadline.

The database is external: statements are atomic, a committed write stays.
`SkipLocked = FALSE` is a database without `SKIP LOCKED`, where only the repeated
condition of the UPDATE protects a claim. Which error of the driver counts as
what is abstracted to causes (`Causes`). A grader is one step with every outcome.

### ExaminerAudio

State: the object store (`stored`), per replica `known`, `pending`, `queue`, and
the worker (`synth`), the `Resolve` calls under way (`request`), and the number of
recordings paid for per line (`made`). A line is its hash. `Resolve` is cut in
two where it stops looking lines up and starts filling them in, and `enqueue` is
cut between `LoadOrStore` and the send, since the worker and other requests run in
between; `synthesise` is cut at every call to a service. `Put` may fail with the
write in effect. `Crash` empties everything in memory, and the line that was on
its way to the store may arrive.

### CustomTests

State: rows of one user's custom tests (`tests`, ids are never reused), the
submissions to them with the content answered and the content they are judged by
(`attempts`), and what each concurrent request has read (`request`). A request is
cut after its checks and before its write, around the call to the moderation
service. `Script` to `CreateSubmission` is an exam: the questions are fetched at
its start and the answers are checked and stored at its end. The foreign key from
submissions to tests is the external database's. The content of a test is one
abstract value; since question ids are positions, answers to one content may pass
the check against another, which `ValidateSubmission` leaves open.

### SpeakingGrade

What is one step (`GradeBySkill`) of the queue, opened up: `Grader.Grade` over the
attempts the queue gives a submission. State: `stage`, where the attempt is;
`clip`, a transcription goroutine per answer and then what was heard; `sample`, the
answers still to be assessed; `pron`, `verdict`, the pronunciation summary and the
judges' answers; `review`, the review goroutine of every attempt with its channel,
since it outlives the attempt; `grade`, what is returned; `expired`, the stage in
which the job's deadline passed, after which every call fails. `config` is how
`cmd/api` wired the grader: pronunciation not scored, without a service, or with it.

`Acquire` and `Transcribe` are `transcribeAll` around its semaphore, `Transcribed` the
code from there to the judges, `Assess` and `AssessFails` the loop of
`assessPronunciation`, `Unavailable` the choice between a retry and an estimate,
`Judge` and `Judged` are `judgeAll`, `WriteReview` and `SendReviews` `rewriteAll`
and its channel, `Combine` the rest of `Grade`. `CapsFor`, `ApplyCaps` and
`IELTSOverall` are the guardrails and the average, exactly, with scores counted in
half bands and measurements in tenths or hundredths, as the code rounds them.

Abstracted: the text of answers, prompts and feedback; what the recordings measure
(`Measures`), of which only what silence implies is kept; the order of the sample,
since an attempt only asks whether all of it was assessed; the load and the
transcription of a recording, which fail alike, are one step. Shutdowns and crashes
are the queue's: to this module they are an attempt without a result.

### Autograde, Marking

`Autograde` has no state. A test body is a record of sections, groups and
questions; a text is a word and how it is typed, since what the code asks of
texts is whether they are equal once trimmed and lowered (`NormalizeAnswer`), or
contained in a paragraph with its spaces evened out (`ValidateEvidence`). Assets
are there or not. `Validate` is `Validate` of `models.go` with all it calls in
`autograde.go`, `AutoGrade` is the marking with partial credit for a choice of
several, `BandFromRawScore` the table, `PublicContentData` what is left of a test
for a learner. `AnswersMatch` and `AnswerPoints` follow the code also where keys
repeat or are empty. Two ways of folding case, `EqualFold` in validation and
`ToLower` in marking, are one comparison here; they differ for a few letters
outside any English test.

`Marking` puts them in time. State: `versions`, the contents a test has had
(`PostTest`, and `ReplaceTest` of the import tool); `subs`, the submissions with
the answers, the score and the number of versions there were when they were made;
`jobs`, by submission the contents loaded by the jobs that mark it, in the order
of their claims, several when leases run out, be they the same content or not; `seen` and `told`, what has been shown, openly and as right
answers. `RecordScore`, `SettleGraded` and `SettleFailure` are the three writes
of a job, `GetTest`, `GetAnswerKey` and `GetScore` the handlers with their
permissions. `versions`, `seen` and `told` are histories: the code keeps the last
content only. The queue's clocks and attempts are left to `GradingQueue`: here
a submission may be claimed again at any time, by up to `MaxJobs` jobs at once, each
of which may fail, settle late, or never go on.

### WritingGrade, XpGrant, GradedRewards

`WritingGrade` is `GradeBySkill` for writing. State, per job: `attempt` and
`stage`; `ctx`, its context, which ends by the deadline or by the first call that
fails; `call`, the goroutines of the errgroup; `cause`, the error it returns;
`result`, what was answered; `score`, the row. `Begin` is the claim, `Load` reads the
test and the answer, and `LoadFails` is the end for good when they cannot be read or
parsed (`ErrUngradable`). `Load`, or `Resolve` for a task with a picture, starts the
calls; `Judge`,
`Correct` and `WriteModelAnswer` are answers, `Fail` a failure, which cancels the
others and is kept if it is the first; a cancelled call may still answer.
`Normalized` is what `normalizeResult` makes of a grade. Prompts, schemas and the
text of feedback are left out; of a correction it matters whether it quotes the
answer and whether its issue is a known one. Reading and listening jobs are the
other branch, one step here and `Autograde` in full.

`XpGrant` is `GrantIfFirstAttempt`. State: `account`, a user's `xp` and `level`;
`ledger`, the grants committed; `txn`, how far each transaction is and the XP it
read. `Insert` waits for a transaction that holds its unique key, `LockUser` for
one that holds the user's row; the writes appear at `Commit`. `Rollback` stands
for a failed statement, a deadlock or a dead process. InnoDB's locks are external
and modelled for what these statements ask. `LevelThresholds` computes the
thresholds in millionths, where the code uses floating point and rounds.

`GradedRewards` lets a job that has set `graded` call a grant (`Settle`). That
a process may die in between, and the grant be lost, is in `GradingQueue`.

### SpeakingContent, ExaminerScript, ClientSession, SpeakingExam

`SpeakingContent` and `ExaminerScript` have no state. A text is a short sequence
of words, with blanks and full stops among them, since trimming, the limits on
length and the rewording of topics are about those. `Normalize`, `Valid`,
`Questions` and `AllTexts` are the methods of `speaking_content.go`, `Build` the
examiner's script, `Composed` and `Moderated` the composition of a custom test
from official and own parts.

`ClientSession` is `api.js` for one request of a page at a time: `access` and
`refresh` are the tokens in localStorage, `request` the request with the token it
carries and whether it may still be retried. Other tabs log in and out
(`LogInElsewhere`, `LogOutElsewhere`); tokens expire. A token is the user it was
made out to: signatures are external.

`SpeakingExam` is one exam. State: the request that is composed (`draft`) and the
test it has become (`test`, `owner`, `checked`), or an official one; `phase` of
the page, `line` and `stage` of the script; `mic`, `slots`, `links`; `answers`,
with the key each recording goes to, and `upload`, the attempt under way for each
or how it ended; `store`, which answer's clip each key holds; `submissions`.
Actions are the page's code between awaits: `Spoken`, `SkipIntro`, `PrepOver`,
`AnswerOver` are the runner, `UploadArrives` and `UploadFails` attempts of
`uploadRecording`, `HandIn` and `LoseExam` what follows when all have settled,
`Submit` the server's checks. `UploadArrives` may go unheard, so that a clip is
sent twice. A recording runs for the shortest or the longest time allowed. `PageGone`
is a log-out by another part of the page, or a tab that is closed, also while the
exam is being handed in. Leaving for another page of the app ends an exam that is
running: at once when the examiner speaks, and otherwise since the microphone is
stopped, so that the next recording fails or the present one is waited for in vain
(`SpeakingAttemptPage.jsx:58-62`, `:135-137`); one that is being handed in goes on.

Two things are outside this model. The start button is not disabled while `begin`
waits (`SpeakingAttemptPage.jsx:90-115`, `:243`), so that a second click starts a
second run, and leaving in that moment does not stop the run that begins; here there
is one run of an exam. Each hand-in of two runs is made as the model's is. And the
test is constant here: that its author edits it in another tab during the exam
(`custom.go:78-99`) is in `CustomTests` only.

### ResultPages

State: `watch` and `past`, the watch list in localStorage and the entries past
`MAX_AGE_MS`; `notifier`, its timer and the checks under way with what each has
still to poll; `page`; `list`, the rows on screen, the request on its way and the
answers to superseded ones; `detail`, the result page, also while it still waits
after having been left; `sending`, a submission being handed in.

One tab is modelled in full, other tabs as an environment that adds to and takes
from the watch list without an event reaching this tab. A JavaScript turn is
atomic, so actions are the code between awaits; the read and the write of
localStorage in one turn are taken as one step, though two tabs in two processes
could interleave there. An update of state in a React component is taken to
reach the screen in the same step. Left out: paging of the list, what the toasts do,
going from one result page directly to another (bound: one at a time, those left
included), and storage that refuses writes.

## 3. Runs

| run | question | properties | instance |
|---|---|---|---|
| `queue_in_lease` | is work exclusive, bounded and always settled while overruns fit the slack? | `TypeOK`, `ExclusiveGrading`, `AttemptsBounded`, `ImplementsLifecycle`, `EventuallySettled` | 2 submissions of one pair, 2 workers in 2 processes, 2 attempts, 1 fault, no `SKIP LOCKED`, `Setup + Overrun = Slack = 2` |
| `queue_late` | what still holds when a job outlives its lease? | `GradedHasScore`, `GradedIsFinal` | the same with `Slack = 0`, `Overrun = 2` and `SKIP LOCKED` |
| `queue_shutdown` | does a shutdown return work to the queue? (violated) | `ShutdownReturnsWork` | 1 submission, 1 worker, 3 attempts, 1 fault |
| `marking` | is what validation accepts fit for marking, and is marking true to one content and fair? | `TypeOK`, `AnswersAreEarned`, `KeyEarnsAllMarks`, `NumbersAreTheirOwn`, `MarkedAgainstOneVersion`, `MoreMarksNoLowerBand` | 1 test of up to 2 versions out of every question type and some thirty bodies with one thing wrong, 2 submissions by 2 learners, 2 jobs each, answers right, mixed or garbled |
| `marking_key` | can every accepted test be answered in full? (violated) | `AcceptedTestsCanBeAced` | the same |
| `graded_rewards` | are written grades whole, errors told truly, and XP granted once and never lost? | `TypeOK`, `WrittenGradeIsWhole`, `CauseIsNotTheEcho`, `XpMatchesLedger`, `GrantsEnd` | an essay and two attempts at one reading test, all of one user; 2 attempts, 2 criteria, judges that say 5, 6 or no band |
| `speaking_grade` | is a grade whole and capped, and does every attempt and review end? | `TypeOK`, `GradeIsSound`, `EventuallyAnswered`, `ReviewersEnd` | the talk and an answer of Part 1, 1 slot, 2 attempts, judges that say 9 or something invalid, 13 recordings, on either side of every threshold |
| `speaking_last` | does the pronunciation service never fail a test? (violated) | `PronunciationNeverFailsTheTest` | the same |
| `audio` | are the maps truthful, links good, costs bounded, and is every line recorded? | `TypeOK`, `PendingIsInHand`, `KnownIsStored`, `CostBounded`, `EventuallyRecorded` | 2 replicas, 2 lines, 1 request at a time, queue of 1, 1 fault |
| `custom_tests` | what do racing requests do to tests and submissions? | `TypeOK`, `TestsBounded`, `ChangesMissOnlyLateAttempts`, `DeletionsHold` | 3 ids, 2 contents, 2 requests, limit 1, 2 submissions |
| `exam` | does every composition give a test that can be taken, and what becomes of an exam? | `TestIsExaminable`, `HandInIsWhole`, `ExamEnds` | 795 compositions of official and own parts; exams of up to 2 answers, 2 tries per upload, 6 links, 1 login or logout elsewhere |
| `result_pages` | is every result announced and shown, in order? | `TypeOK`, `PollingGoesOn`, `LeavesOnlyWhenTold`, `RowsNeverGoBack`, `EventuallyTold`, `EventuallyShown` | 2 submissions, one followed through every event, 2 checks at a time |

Why these bounds.

* *Queue.* Every hazard is about two runs of one job, so two workers in two
  processes suffice, and a second submission of the same pair brings in the choice
  of the oldest row and the grant two submissions share. The delays are the smallest
  that keep their order: speaking longer than the default timeout, the slack equal
  to what may pass before and after the deadline. One fault anywhere is enough for
  every mutant.
* *Marking.* Validation and marking are functions of one content, so every content
  is on its own; two versions are a replacement under a job, two submissions a pair
  to compare and an attempt that is graded beside one that is not. `EveryType` has a
  group for every question type, of which one takes two numbers, and the answers fit
  it as well as the small tests. Two jobs of a submission may hold the same content,
  or one from before and one from after the replacement.
* *Rewards.* The two attempts at one test contend for the key, and the essay with
  either for the row. Gains of 60 and 63 land on the threshold of level 2 and,
  together, just beyond that of level 3; `MaxLevel` 4 keeps the last level near.
  Judges say 5 or 6, so that means fall on bands and between them, or 10, which is no
  band and fails the call; other bands are covered by the proof (`GradesAreWhole`).
* *Speaking grade.* Two attempts are a last one and one before it, with a review left
  behind in between; one slot and two answers contend for it; judges that say 9 let
  every cap bite, and other bands are covered by the proofs. The recordings have a value on either side
  of each threshold of `capsFor`, so that one that is off by one shows in some grade.
  The run has one mode of the test, the full one; the caps of the other modes are
  covered by `GuardrailsAreExact` only.
* *Audio.* A queue of length one with two lines overflows. A request and the worker
  of a replica, and the workers of two, are the pairs that race. Two requests that
  race for a line (`LoadOrStore`) are covered by the proof only (`PendingIsTrue`).
* *Custom tests.* A limit of one with two requests is exceeded.
* *Exam.* The limits of content are set next to what the requests contain, so that
  each is reached and passed, and every composition of the parts is built into a
  script. What is sat has at most two answers, which is one that has been uploaded
  while another is given; the code's three tries per upload are two here, a first
  and a last.
* *Pages.* Checks overlap when a submission is handed in while another is watched and
  a check of it is running: two submissions and two checks at a time. One of them,
  in `Followed`, goes through every event there is: lists, result pages, other tabs,
  old age, and a grade or a failure. The other one is handed in by this tab, fails and
  is announced, which is what makes the checks overlap, and what a check may forget;
  the notifier treats both alike. Overlaps of three checks are covered by the proofs,
  as far as safety goes.

The safety properties of every run that is to pass are proved for any number of
everything, so their instances serve to find mistakes early and to show that the
mutants are caught. What rests on the bounds alone is liveness.

`CHECK_DEADLOCK FALSE` is said where there may be nothing left to do: for the custom
tests and the marking, whose bounds on ids, versions and submissions run out; for the
two graders, which are over when a submission is graded or failed and its XP
granted; and for the exam, whose page is closed in the end. That they get that far
is `EventuallyAnswered`, `GrantsEnd` and `ExamEnds`, which a deadlock would violate.

Each property of a passing run has a mutant in `PROJECT.json`: a plausible slip in
the code (a lease that ignores the longer timeout, a check without its mark, a
`cancelled` flag not looked at) that makes TLC find the property violated.

### Fairness, and why the code justifies it

* Queue: goroutines are scheduled and time passes (`WF` on every worker's step and
  on `Tick`); a stopping process exits when its workers have. A stopped process is
  started again (`WF` on `Restart`): this is the operator's part, since
  `docker-compose.yml` asks for no restart, and it is needed, for with every
  process down nothing settles. Faults are finite in number.
* Audio: goroutines are scheduled. A line that can be served is served time and
  again (`SF` on `Resolve`), as learners open the test; this is needed, since a
  line dropped from a full queue is brought back by nothing else. Text to speech does
  not fail every time it is tried (`SF` on `Speak`).
* Speaking grade: goroutines are scheduled, a free slot is taken, and every call
  returns (`WF` on each step), since the job's deadline ends it at the latest and the
  HTTP clients have timeouts. Nothing is assumed to succeed.
* Rewards: a transaction whose locks are free goes on (`WF` on the steps of `Grant`).
  Rollbacks are possible and not counted on, so that a wait that only a lock timeout
  would end violates `GrantsEnd`.
* Exam: speech ends, recordings are stopped by the hard limit, attempts at an upload
  and requests are answered or fail (`WF` on each). Nothing is assumed to succeed.
* Pages: timers fire and requests end. The learner is signed in when a timer
  fires time and again; a poll of a settled submission that is made time and again
  sometimes succeeds, whatever else is watched; a reload sometimes is answered, and applied, before the next
  one cancels it. This last one is a real condition on the network: a list whose
  answers always take longer than the refresh interval never changes.

### What the runs found

* `queue_shutdown`: `worker.go:38-39` says a grade in flight returns to the queue
  on shutdown. A shutdown that hits the query for the test makes it an ungradable
  submission, failed for good on its first attempt. So does any transient error of
  that query.
* `marking_key`: `autograde.go:14-16` says that bad content fails when the test is
  created instead of when a submission is graded, and `:138` that every question has a
  non-empty answer. A key that is JSON of another shape, such as a number, passes
  and no answer matches it; a choice of two whose keys are the same letter passes and
  gives one mark of two at most. An empty string passes as well, and is matched by an
  answer of blanks alone.
* `speaking_last`: `speaking_submission.go:82-83` says that on the last attempt
  pronunciation is estimated rather than fail the test, and `docs/speaking.md:143-144`
  that grades are never failed by the service. The service is asked clip by clip
  under the deadline of the whole job (180 s a call, 720 s for the job), so a slow one
  uses it up; the estimate is made, but the judges fail on the expired context.

Seen on the way, in what the models allow; no run is about them:

* `service.go:44-45` says XP is awarded exactly once per pair. It is at most once: an
  error, a cancellation or a crash between the status and the grant loses it.
* `audio.go:25-27` says each line is synthesised once, ever. Two replicas that both
  miss a line in the store both pay for it; `CostBounded` is what does hold.
* `docs/speaking.md:125-127` says a custom test can't be edited once attempted. An
  edit checks this, then waits for moderation, then writes: a submission in between has
  its test changed, as `ChangesMissOnlyLateAttempts` grants.
* A microphone that goes while an answer is being recorded stops the recorder, and
  `stop()` then waits for an event that has passed (`speakingAudio.js:35`): the exam
  stays there. It is the exception (`Hung`) in `ExamEnds`.
* Upload links last 30 minutes from the start of the exam (`service.go:19`), while the
  longest test that validation accepts takes longer; its last clips are then lost,
  and with them the hand-in, which the page does not offer to repeat.
* A refresh that is answered after a log-out in another tab stores its tokens again
  (`api.js:13`). `HandInIsWhole` shows that no answer gets under another name by it.
* With a pronunciation service and no answer of five words or more, the first attempts
  fail and are repeated in full although the outcome cannot change (`grader.go:216`).
* `docs/speaking.md` speaks of a sample of up to three minutes where the code takes
  900 seconds.

## 4. Proofs

Everything below holds for all values of the constants that satisfy the `ASSUME`
of the module, and TLC evaluates each of them on a run. They ask for types and, for
the cost and limit bounds, finite sets. Two ask for more, and some theorems have a
hypothesis besides:

* `BankAssumption` of `ExaminerScript`: official tests have been normalised and
  validated, as `validateContentData` sees to before one is stored, and have
  nothing in them that moderation would flag, since a composition is moderated for
  its own parts only. Only the last conjunct of `TestIsExaminable` rests on the latter.
* `ExamAssumption` of `SpeakingExam`: the server hands out as many upload slots as
  the longest test has questions, which is what `service.go` sets the limit to, and
  takes answers as long as the page lets them be. With the code's numbers both hold;
  a change of one of them that breaks it fails the run.
* `SlackCovers` of `GradingQueue` is a hypothesis of three theorems and no `ASSUME`
  (see *The lease*). `LimitNearlyHolds` takes it that there is a request at all.

| module | theorem | says | argument |
|---|---|---|---|
| `GradingQueueProofs` | `TypeCorrect` | `[]TypeOK` | `TypeInv`: a worker that is busy has a submission, and its job is within its age limit |
| | `GradedStaysGraded` | `GradedIsFinal` | the only writes to a graded row are the status and the guarded settling |
| | `ClaimsAreDue` | `ClaimsOnlyDueWork` | the UPDATE repeats the SELECT's condition for a `now` that is no later than the present |
| | `GradedIsScored` | `[]GradedHasScore` | `GradeInv`: whoever is about to mark a row has its score saved |
| | `XpIsEarned` | `[]XpOnlyForGraded` | `GradeInv`: whoever is about to grant has a graded row, and graded is final |
| | `LeaseExcludes` | `[]ExclusiveGrading` | `LeaseInv`, under `SlackCovers` |
| | `CostOfGradingIsBounded` | `[]AttemptsBounded` | `AttemptsInv`, under `SlackCovers`: every attempt beyond the last is charged to a fault of its own |
| | `QueueImplementsLifecycle` | `ImplementsLifecycle` | step simulation, with `LeaseInv` |
| `MarkingProofs` | `MarksAreOfOneVersion` | `[]MarkedAgainstOneVersion` | `MarkInv`: what jobs hold and scores are made of are versions since the submission, and versions are only added |
| | `OnlyMarksTell` | `[]AnswersAreEarned` | `PublicIsNotSecret`: redaction leaves no key; `EarnInv`: marks, once stored, stay |
| | `KeysEarn` | `[]KeyEarnsAllMarks` | `VersionInv`: all versions there are have been validated; by the type of question its key matches; and since numbers are a question's own, the whole key gives each question its own key, so that the marks add up to the total, and the total to band 9 |
| | `NumbersNeverMeet` | `[]NumbersAreTheirOwn` | `VersionInv`; validation has found the numbers different and without a gap, and there are as many as the spans add up to (`SumCounts`) |
| | `BandsFollowMarks` | `[]MoreMarksNoLowerBand` | `MarkInv`, and that the table is monotone in a share rounded to the nearest of forty |
| | `MarkingTypesHold` | `[]TypeOK` | `VersionInv`, `SeenInv`: what is stored is `Acceptable`, what is shown `Showable`; `MarkInv`, and that a band is one of the table |
| `GradedRewardsProofs` | `CauseComesFirst` | `[]CauseIsNotTheEcho` | `ErrorInv`: a context is cancelled only after a cause was kept |
| | `GrantsAreSound` | `[](NoPairTwice /\ LevelFollowsXp /\ PaidForGrades)` | `GrantInv`, `RewardInv` |
| | `NoGrantIsLost` | every change of XP is one new grant, added to the XP of that moment | `GrantInv`: whoever holds the row has read what is still there |
| | `XpAddsUp` | `[]XpMatchesLedger` | `PaidInv`: an account's XP is the sum over its rows of the ledger, which grow by one row at a time; and a level found by counting thresholds lies between two of them |
| | `GradesAreWhole` | `[]WrittenGradeIsWhole` | `JobsInv`: what each stage of a job has established, and that every answer it waits for was asked for; `OverallIsClosest` about `IELTSOverall`, `FiledIsFiling` about the corrections |
| | `TypesHold` | `[]TypeOK` | `JobsInv`, `GrantInv` |
| `SpeakingTestProofs` | `GradeTypeCorrect`, `GradesAreSound` | `[]TypeOK`, `[]GradeIsSound` | `IInv`: each stage has established what the next relies on, and a grade is `GradeOf` the attempt's own material |
| | `GradesAreWhole`, `EstimatesAreLastResort`, `FewWordsCapEverything`, `GuardrailsAreExact`, `OverallRoundsToNearest` | the parts of `GradeIsSound` | `IInv`, then `Capping`, `CapsAllow`, `HighestAllowed` and `Rounding`, about the operators alone |
| `ExaminerAudioProofs` | `AudioTypeCorrect` | `[]TypeOK` | `TypeInv`: a busy worker or request has a line and a replica |
| | `LinksResolve` | `[]KnownIsStored` | `KnownIsStored` is inductive, and nothing is taken out of the store |
| | `CostIsBounded` | `[]CostBounded` | `CostInv`: before a line is stored, every recording paid for is in a worker's hands or was lost to a fault; afterwards only the workers that had looked before may still pay |
| | `PendingIsTrue` | `[]PendingIsInHand` | `HandsInv`: the pending lines of a replica and the hands they are in match one to one |
| `SpeakingTestProofs` | `CustomTypeCorrect`, `LimitNearlyHolds`, `ChecksHold`, `DeletionIsSafe` | the four properties of `custom_tests` | `TypeInv`; `LimitInv`: the tests and the requests about to add one are together at most the limit and the other requests; `SeenInv`: no submission a request has seen is one of the test it is about to change |
| | `NoOrphans`, `DeletionIsFinal` | the parts of `DeletionsHold` | `TypeInv` |
| `SpeakingExamProofs` | `ComposedCanBeTaken` | `[]TestIsExaminable` | `TestInv`: the test is normalised, valid and, if it was moderated, decent; the rest is about the script as a function of the content |
| | `SubmissionIsWhole` | `[]HandInIsWhole` | `ExamInv`: an answer to each question so far, the i-th in the i-th slot, and what a slot holds is its answer |
| `ResultPagesProofs` | `PagesTypeCorrect`, `PollingNeverStops`, `NothingIsForgotten`, `RowsStaySettled` | the four safety properties of `result_pages` | `PagesInv` |
| | `ScoresAreThere` | a page that shows a grade has its score | `PagesInv` |

*The lease.* `SlackCovers == Setup + Overrun <= Slack` is the one assumption that
is about the world and not about types: that a job gets under way and, once its
deadline has passed, stops within the slack the code adds to its longest timeout.
`LeaseInv` says that a worker that holds a submission has its row in `grading`
under a claim exactly as old as the worker's job (or in `graded`, when its own
write took effect but was reported as failed); a job within its age limit is within
the lease, so nobody else finds the row eligible. `ExclusiveGrading` by itself is
not inductive, for it does not connect a worker's age with its row's. `queue_late`
drops the assumption, and what it checks (`GradedIsScored`, `GradedStaysGraded`) is
proved without it. The refinement needs the
assumption as well: with two runs of a job, a submission that has failed for good
may be marked graded by the other run, which the lifecycle rules out.

*Attempts.* A row that waits for a claim has spent fewer attempts than
`MaxAttempts` allows, and faults; a row in a worker's hands is one attempt further,
and the worker counts the attempt its row counts, so the attempt that fails for good
is the last. A claim that is lost puts the row back a step, which the fault that lost
it pays for. The awkward case is a shutdown, which lets the claim of a stopping worker
fail without a fault of its own while its commit takes effect: `AttemptsInv` charges
this in advance, to the shutdown, for a row that a stopping worker has picked.

*Sums.* Marks, numbers of questions and XP are sums over finite sets, which the
library defines by choosing a function that recurs. `Sums` shows that there is such
a function and that it is unique, so that a sum splits at any element, is bounded by
what its summands are bounded by, and counts when they are one. An induction that
the provers cannot instantiate is replaced by a smallest counterexample: of a set of
numbers one that fails first (`LeastNumber`), of finite sets one of least size
(`SmallestSet`), and a recursion on a sequence is built up step by step
(`StepByStep`). Every recursive function and fold in the modules that are proved
about is unfolded with these.

*The marks.* `MarkedAgainstOneVersion` does not say what a job holds that has not
written yet; `MarkInv` does, and carries along how versions grow. That proof never
looks into `AutoGrade`, so it holds of any marking. `OnlyMarksTell` does look into
`PublicContentData`, question by question, `KeysEarn` into the marking of a question,
and `NumbersNeverMeet` counts what the check of the order has let through. `BandsFollowMarks`
needs that shares rounded to the nearest of forty keep the order of the marks
(`ShareOutOf40`), that the bands of the table do (`BandsGrow`), and that the marks of
a question are at most its numbers, summed over the test.

*The rewards.* That a commit adds to the XP of its own moment follows from the lock
of the row between the read and the commit: `GrantInv` says that two holders have
different users and that what was read is still the account. The unique key enters in
the same way: two holders have different pairs, and none has a pair of the ledger. `XpAddsUp` is
then `NoGrantIsLost` summed up: `PaidInv` moves by exactly the summand the ledger
gained. That XP lies between two thresholds needs no more of them than that the
first is 0 and that all are integers: the level is the highest one reached.

*The written grade.* `WrittenGradeIsWhole` speaks of stored scores only. `JobsInv`
follows a job: while it grades, every call that succeeded has an answer of the shape
its check lets through, the calls that are out are the ones that were asked for, and
a result is put together only when none failed; and a score, once it is stored, is
whole, whatever attempts follow. What `normalizeResult` makes of the answers is then
about its operators: the sum over the criteria is an integer (`Sums`), so that the
overall band is the half band nearest to the mean and the upper one of two
(`OverallIsClosest`), and of a list of corrections what is kept is a part of it, with
each issue filed under a known one or under `other` (`FiledIsFiling`).

*The grade.* None of the parts of `GradeIsSound` is inductive: a grade is judged by what the
attempt has been through. `Progress` carries from stage to stage that every answer
was heard, that the estimate was permitted, that the verdicts are valid and that the
reviews under way are of parts that were heard; `Combined` that a grade was made of
just that. The rest is arithmetic: `LowestOfBands` and `Capping` show that a capped
band is no higher than its caps, `CapsAllow` that a band is below all caps just when
the measurements allow it (`Allowed`, which is the guardrails said once more, by bands
instead of by caps), `HighestAllowed` that no higher one is, and `Rounding` that `IELTSOverall` is within a quarter
band of the mean.

*The exam.* `TestIsExaminable` has two halves. What becomes of the request is short:
`TestInv`. What the script of a valid, normalised content is like is long, for it is
about every line of it: numbering gives the questions ids of their own by part, topic
and place, whichever of the parts there are; `Build` puts each of them in one line
that waits for an answer, in that order, and the other lines have no id; what is
asked in a script that is put together of pieces is asked in the pieces (`Asking`);
and trimming, lowering the first letter and cutting a topic from its sentence bring
in no word that moderation did not see, while every own text of a request is among
those it does see.

`HandInIsWhole` by itself is not inductive, for it says nothing of an exam that is
still sat. `AnswersInv` says of it that the answers so far are to the questions of
the lines so far, that the i-th of them has the key of the i-th slot, and that the
store has an answer's clip under its key once its upload has succeeded. Slots are
numbered, so that keys differ and an upload, tried again or heard of late, writes its
own key only. `RequestInv` says that a hand-in that is on its way was made when every
upload had succeeded; `SessionInv` is what a refresh that fails or another tab's login
leave in the tokens. The server's checks, `Accepts`, follow from this for the user the
slots were made out to (`WholeIsAccepted`).

*The pages.* `PollingGoesOn` needs `KnownInv`, that nothing is watched that was
not submitted; `RowsNeverGoBack` needs `ListInv`, that any answer that can still
be applied is at least as new as the rows; `ScoreIsThere` needs `ServerInv`, which
is the server's promise.

Only model-checked is liveness (`EventuallySettled`, `EventuallyRecorded`,
`EventuallyTold`, `EventuallyShown`, `EventuallyAnswered`, `ReviewersEnd`, `GrantsEnd`,
`ExamEnds`), which is beyond the prover, as is `ENABLED`; and the three properties
that are violated, which have a counterexample. All safety properties of the other
runs, invariants and action properties, are proved.

The modules have no `RECURSIVE` operator, which the prover's SMT backend would refuse.

## 5. Not modelled, and what is left

Not modelled, for good, since none keeps state another part relies on: decoding of
requests and mapping of errors, listings with filters and pages, reading settings,
CORS and middleware beyond `RequireAuth`, migrations, reading files and printing in
the import and calibration tools, test generation (one call and its parsing), prompts,
forms, layout. The language-model, text-to-speech, speech-recognition and
pronunciation services are outcomes of the steps that call them. Passwords and
registration are single statements.

Modelled in part:

* *Speaking grader*: the measurements behind its evidence (pauses, runs, repairs) are
  inputs (`Measures`). They are arithmetic over word timings in floating point, whose
  results only matter through the thresholds that the instances straddle.
* *Exam attempt pages*: the speaking exam in full, of the writing page the hand-in;
  the countdown and the drafts of reading, listening and writing are timers of one
  component without another actor.
* *Result pages*: one result page at a time. Going straight from one to another could
  show a late score on the wrong page (`SubmissionDetailPage.jsx:64`); this needs a
  second page with its own request.
* *Profile*: as the server puts it together. The browser's copy may be fetched between
  the status and the grant (`api.js:141`) and then lags until the next one.

Worth proving next, in this order:

1. Of the exam, that what is uploaded is not overwritten: a key of the store is
   written with one answer's clip and keeps it, also after the hand-in, as an action
   property; and that a hand-in is stored once per exam, so long as its answer is heard.
2. The non-temporal steps of the liveness arguments: for the rewards, that whoever
   waits for a lock waits for a transaction that waits for none (no deadlock of two
   grants); for the grade, that a stage that is not over has a call under way.
3. That a page never shows a score on a submission that has none, on top of
   `GradingQueue` itself: `ResultPages` with the queue's refinement in place of the
   lifecycle.
