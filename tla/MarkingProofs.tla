--------------------------- MODULE MarkingProofs ---------------------------
(***************************************************************************)
(* What Marking guarantees for any number of tests, versions, submissions  *)
(* and users, whatever the marking of one answer computes.                 *)
(***************************************************************************)
EXTENDS Marking, Sums, TLAPS

-----------------------------------------------------------------------------
(* The invariant *)

Statuses == {"pending", "grading", "graded", "failed"}

\* The contents that a test has had since a submission was made.
Since(sub, vs) == {vs[sub.test][v] : v \in sub.since..Len(vs[sub.test])}

IsSubmission(sub) ==
    /\ sub = [status |-> sub.status, user |-> sub.user, test |-> sub.test,
              payload |-> sub.payload, score |-> sub.score, since |-> sub.since]
    /\ sub.status \in Statuses /\ sub.user \in Users /\ sub.test \in Tests
    /\ sub.payload \in Payloads

\* Jobs and scores are about contents of that time, and a graded submission
\* has a score.
IsMarked(sub, js, vs) ==
    /\ IsSubmission(sub)
    /\ sub.since \in 1..Len(vs[sub.test])
    /\ js \in Seq(Since(sub, vs))
    /\ sub.score # None => \E c \in Since(sub, vs) : sub.score = AutoGrade(c, sub.payload)
    /\ sub.status = "graded" => sub.score # None

MarkInv ==
    /\ versions \in [Tests -> Seq(Drafts)]
    /\ subs = [s \in Subs |-> subs[s]] /\ jobs = [s \in Subs |-> jobs[s]]
    /\ \A s \in Subs : IF subs[s] = Unused THEN jobs[s] = <<>> ELSE IsMarked(subs[s], jobs[s], versions)

\* What was shown gives nothing away, and learners who were told a test's
\* answers have marks for it.
EarnInv == told \in [Users -> SUBSET Tests] /\ AnswersAreEarned

-----------------------------------------------------------------------------
(* Versions are only appended *)

Grown(vs, ws) ==
    \A t \in Tests : /\ Len(vs[t]) <= Len(ws[t])
                     /\ \A v \in 1..Len(vs[t]) : ws[t][v] = vs[t][v]

LEMMA UploadGrows ==
    ASSUME versions \in [Tests -> Seq(Drafts)], NEW t \in Tests, NEW d \in Drafts, Upload(t, d)
    PROVE  versions' \in [Tests -> Seq(Drafts)] /\ Grown(versions, versions')
<1>1. versions' = [versions EXCEPT ![t] = Append(@, d)]  BY DEF Upload
<1>2. versions[t] \in Seq(Drafts)  OBVIOUS
<1>3. /\ Append(versions[t], d) \in Seq(Drafts)
      /\ Len(Append(versions[t], d)) = Len(versions[t]) + 1
      /\ \A v \in 1..Len(versions[t]) : Append(versions[t], d)[v] = versions[t][v]
  BY <1>2
<1>4. versions' \in [Tests -> Seq(Drafts)]  BY <1>1, <1>3
<1>5. ASSUME NEW r \in Tests
      PROVE  /\ Len(versions[r]) <= Len(versions'[r])
             /\ \A v \in 1..Len(versions[r]) : versions'[r][v] = versions[r][v]
  <2>1. CASE r = t
    <3>1. versions'[r] = Append(versions[t], d)  BY <1>1, <2>1
    <3>2. Len(versions[t]) \in Nat  BY <1>2
    <3> QED  BY <1>3, <2>1, <3>1, <3>2
  <2>2. CASE r # t
    <3>1. versions'[r] = versions[r]  BY <1>1, <2>2
    <3>2. Len(versions[r]) \in Nat  OBVIOUS
    <3> QED  BY <3>1, <3>2
  <2> QED  BY <2>1, <2>2
<1> QED  BY <1>4, <1>5 DEF Grown

LEMMA GrowingKeepsMarks ==
    ASSUME NEW vs \in [Tests -> Seq(Drafts)], NEW ws \in [Tests -> Seq(Drafts)], Grown(vs, ws),
           NEW sub, NEW js, IsMarked(sub, js, vs)
    PROVE  IsMarked(sub, js, ws)
<1>1. sub.test \in Tests /\ sub.since \in 1..Len(vs[sub.test])  BY DEF IsMarked, IsSubmission
<1>2. vs[sub.test] \in Seq(Drafts) /\ ws[sub.test] \in Seq(Drafts)  BY <1>1
<1>3. Len(vs[sub.test]) \in Nat /\ Len(ws[sub.test]) \in Nat  BY <1>2
<1>4. /\ Len(vs[sub.test]) <= Len(ws[sub.test])
      /\ \A v \in 1..Len(vs[sub.test]) : ws[sub.test][v] = vs[sub.test][v]
  BY <1>1 DEF Grown
<1>5. sub.since \in 1..Len(ws[sub.test])  BY <1>1, <1>3, <1>4
<1>6. Since(sub, vs) \subseteq Since(sub, ws)
  <2>1. SUFFICES ASSUME NEW v \in sub.since..Len(vs[sub.test])
                 PROVE  \E w \in sub.since..Len(ws[sub.test]) : vs[sub.test][v] = ws[sub.test][w]
    BY DEF Since
  <2>2. v \in 1..Len(vs[sub.test]) /\ v \in sub.since..Len(ws[sub.test])  BY <1>1, <1>3, <1>4
  <2> QED  BY <1>4, <2>2
<1>7. js \in Seq(Since(sub, ws))
  <2>1. js \in Seq(Since(sub, vs))  BY DEF IsMarked
  <2> QED  BY <1>6, <2>1
<1> QED  BY <1>5, <1>6, <1>7 DEF IsMarked

-----------------------------------------------------------------------------
(* Every step keeps the marks true to a version *)

LEMMA InitMarks == ASSUME Init PROVE MarkInv
<1>1. versions \in [Tests -> Seq(Drafts)]  BY DEF Init
<1> QED  BY <1>1 DEF Init, MarkInv

LEMMA UploadKeepsMarks ==
    ASSUME MarkInv, NEW t \in Tests, NEW d \in Drafts, Upload(t, d)
    PROVE  MarkInv'
<1>1. versions' \in [Tests -> Seq(Drafts)] /\ Grown(versions, versions')
  BY UploadGrows DEF MarkInv
<1>2. subs' = subs /\ jobs' = jobs  BY DEF Upload
<1>3. ASSUME NEW s \in Subs
      PROVE  IF subs[s] = Unused THEN jobs[s] = <<>> ELSE IsMarked(subs[s], jobs[s], versions')
  BY <1>1, GrowingKeepsMarks DEF MarkInv
<1> QED  BY <1>1, <1>2, <1>3 DEF MarkInv

\* A step that changes one submission, and what is being marked of it.
LEMMA OneSubmission ==
    ASSUME MarkInv, NEW s \in Subs, NEW sub, NEW js,
           subs' = [subs EXCEPT ![s] = sub], jobs' = [jobs EXCEPT ![s] = js], versions' = versions,
           sub # Unused, IsMarked(sub, js, versions)
    PROVE  MarkInv'
<1>1. ASSUME NEW r \in Subs
      PROVE  IF subs'[r] = Unused THEN jobs'[r] = <<>> ELSE IsMarked(subs'[r], jobs'[r], versions)
  <2>1. CASE r = s
    <3>1. subs'[r] = sub /\ jobs'[r] = js  BY <2>1 DEF MarkInv
    <3> QED  BY <3>1
  <2>2. CASE r # s
    <3>1. subs'[r] = subs[r] /\ jobs'[r] = jobs[r]  BY <2>2 DEF MarkInv
    <3> QED  BY <3>1 DEF MarkInv
  <2> QED  BY <2>1, <2>2
<1>2. subs' = [r \in Subs |-> subs'[r]] /\ jobs' = [r \in Subs |-> jobs'[r]]  BY DEF MarkInv
<1> QED  BY <1>1, <1>2 DEF MarkInv

LEMMA NotUnused ==
    ASSUME NEW sub, IsSubmission(sub)
    PROVE  sub # Unused
BY DEF IsSubmission, Statuses, Unused

LEMMA UsedAreMarked ==
    ASSUME MarkInv, NEW s \in Used
    PROVE  s \in Subs /\ IsMarked(subs[s], jobs[s], versions) /\ IsSubmission(subs[s])
BY DEF Used, MarkInv, IsMarked

LEMMA SubmitKeepsMarks ==
    ASSUME MarkInv, NEW s \in Subs, NEW u \in Learners, NEW t \in Tests, NEW p \in Payloads,
           SubmitAnswer(s, u, t, p)
    PROVE  MarkInv'
<1> DEFINE sub == [status |-> "pending", user |-> u, test |-> t,
                   payload |-> p, score |-> None, since |-> Len(versions[t])]
<1>1. subs' = [subs EXCEPT ![s] = sub] /\ versions' = versions /\ jobs' = jobs  BY DEF SubmitAnswer
<1>2. jobs[s] = << >> /\ jobs' = [jobs EXCEPT ![s] = << >>]
  <2>1. subs[s] = Unused  BY DEF SubmitAnswer, Used
  <2> QED  BY <1>1, <2>1 DEF MarkInv
<1>3. versions[t] \in Seq(Drafts) /\ versions[t] # <<>>  BY DEF SubmitAnswer, Exists, MarkInv
<1>4. Len(versions[t]) \in 1..Len(versions[t])  BY <1>3
<1>5. IsSubmission(sub)  BY DEF IsSubmission, Statuses, Users
<1>6. IsMarked(sub, << >>, versions)  BY <1>4, <1>5 DEF IsMarked
<1>7. sub # Unused  BY <1>5, NotUnused
<1> HIDE DEF sub
<1> QED  BY <1>1, <1>2, <1>6, <1>7, OneSubmission

LEMMA ClaimKeepsMarks ==
    ASSUME MarkInv, NEW s \in Used, ClaimNextForGrading(s)
    PROVE  MarkInv'
<1> DEFINE sub == [subs[s] EXCEPT !.status = "grading"]
<1> DEFINE current == versions[subs[s].test][Len(versions[subs[s].test])]
<1>1. s \in Subs /\ IsMarked(subs[s], jobs[s], versions) /\ IsSubmission(subs[s])  BY UsedAreMarked
<1>2. /\ subs' = [subs EXCEPT ![s] = sub] /\ versions' = versions
      /\ jobs' = [jobs EXCEPT ![s] = Append(jobs[s], current)]
  BY DEF ClaimNextForGrading, Current, Last
<1>3. /\ IsSubmission(sub) /\ sub.status = "grading" /\ sub.test = subs[s].test
      /\ sub.since = subs[s].since /\ sub.score = subs[s].score /\ sub.payload = subs[s].payload
  BY <1>1 DEF IsSubmission, Statuses
<1>4. current \in Since(subs[s], versions)
  <2>1. versions[subs[s].test] \in Seq(Drafts)  BY <1>1 DEF MarkInv, IsSubmission
  <2>2. Len(versions[subs[s].test]) \in Nat /\ subs[s].since \in 1..Len(versions[subs[s].test])
    BY <1>1, <2>1 DEF IsMarked
  <2>3. Len(versions[subs[s].test]) \in subs[s].since..Len(versions[subs[s].test])  BY <2>2
  <2> QED  BY <2>3 DEF Since
<1>5. Since(sub, versions) = Since(subs[s], versions)  BY <1>3 DEF Since
<1> HIDE DEF sub, current
<1>6. IsMarked(sub, Append(jobs[s], current), versions)
  <2>1. jobs[s] \in Seq(Since(subs[s], versions))  BY <1>1 DEF IsMarked
  <2>2. Append(jobs[s], current) \in Seq(Since(subs[s], versions))  BY <1>4, <2>1
  <2> QED  BY <1>1, <1>3, <1>5, <2>2 DEF IsMarked
<1>7. sub # Unused  BY <1>3, NotUnused
<1> QED  BY <1>1, <1>2, <1>6, <1>7, OneSubmission

LEMMA RecordKeepsMarks ==
    ASSUME MarkInv, NEW s \in Used, NEW j \in DOMAIN jobs[s], RecordScore(s, j)
    PROVE  MarkInv'
<1> DEFINE content == jobs[s][j]
<1> DEFINE marks == AutoGrade(content, subs[s].payload)
<1> DEFINE sub == [subs[s] EXCEPT !.score = IF @ = None THEN marks ELSE @]
<1>1. s \in Subs /\ IsMarked(subs[s], jobs[s], versions) /\ IsSubmission(subs[s])  BY UsedAreMarked
<1>2. jobs' = [jobs EXCEPT ![s] = jobs[s]] /\ subs' = [subs EXCEPT ![s] = sub] /\ versions' = versions
  <2>1. jobs' = jobs  BY DEF RecordScore
  <2> QED  BY <2>1 DEF RecordScore, MarkInv
<1>3. content \in Since(subs[s], versions)
  <2>1. jobs[s] \in Seq(Since(subs[s], versions))  BY <1>1 DEF IsMarked
  <2> QED  BY <2>1
<1>4. marks = AutoGrade(content, subs[s].payload)  OBVIOUS
<1> HIDE DEF marks, content
<1>5. /\ IsSubmission(sub) /\ sub.status = subs[s].status /\ sub.test = subs[s].test
      /\ sub.since = subs[s].since /\ sub.payload = subs[s].payload
      /\ sub.score = IF subs[s].score = None THEN marks ELSE subs[s].score
  BY <1>1 DEF IsSubmission
<1>6. Since(sub, versions) = Since(subs[s], versions)  BY <1>5 DEF Since
<1> HIDE DEF sub
<1>7. IsMarked(sub, jobs[s], versions)
  <2>1. sub.score # None => \E c \in Since(sub, versions) : sub.score = AutoGrade(c, sub.payload)
    <3>1. CASE subs[s].score = None  BY <1>3, <1>4, <1>5, <1>6, <3>1
    <3>2. CASE subs[s].score # None  BY <1>1, <1>5, <1>6, <3>2 DEF IsMarked
    <3> QED  BY <3>1, <3>2
  <2>2. sub.status = "graded" => sub.score # None  BY <1>1, <1>5 DEF IsMarked
  <2> QED  BY <1>1, <1>5, <1>6, <2>1, <2>2 DEF IsMarked
<1>8. sub # Unused  BY <1>5, NotUnused
<1> QED  BY <1>1, <1>2, <1>7, <1>8, OneSubmission

LEMMA Removing ==
    ASSUME NEW S, NEW list \in Seq(S), NEW j \in DOMAIN list
    PROVE  RemoveAt(list, j) \in Seq(S)
<1>1. j \in 1..Len(list) /\ Len(list) \in Nat  OBVIOUS
<1>2. \A i \in 1..Len(list) : list[i] \in S  OBVIOUS
<1>3. SubSeq(list, 1, j - 1) \in Seq(S)  BY <1>1, <1>2
<1>4. SubSeq(list, j + 1, Len(list)) \in Seq(S)  BY <1>1, <1>2
<1> QED  BY <1>3, <1>4 DEF RemoveAt

\* A job ends, and the status may change.
LEMMA SettlingKeepsMarks ==
    ASSUME MarkInv, NEW s \in Used, NEW j \in DOMAIN jobs[s], NEW status \in Statuses,
           status = "graded" => subs[s].score # None,
           subs' = [subs EXCEPT ![s] = [subs[s] EXCEPT !.status = status]],
           Ended(s, j), versions' = versions
    PROVE  MarkInv'
<1> DEFINE sub == [subs[s] EXCEPT !.status = status]
<1>1. s \in Subs /\ IsMarked(subs[s], jobs[s], versions) /\ IsSubmission(subs[s])  BY UsedAreMarked
<1>2. /\ IsSubmission(sub) /\ sub.status = status /\ sub.test = subs[s].test
      /\ sub.since = subs[s].since /\ sub.score = subs[s].score /\ sub.payload = subs[s].payload
  BY <1>1 DEF IsSubmission
<1>3. Since(sub, versions) = Since(subs[s], versions)  BY <1>2 DEF Since
<1>4. subs' = [subs EXCEPT ![s] = sub]  OBVIOUS
<1> HIDE DEF sub
<1>5. IsMarked(sub, RemoveAt(jobs[s], j), versions)
  <2>1. jobs[s] \in Seq(Since(subs[s], versions))  BY <1>1 DEF IsMarked
  <2>2. RemoveAt(jobs[s], j) \in Seq(Since(subs[s], versions))  BY <2>1, Removing
  <2> QED  BY <1>1, <1>2, <1>3, <2>2 DEF IsMarked
<1>6. sub # Unused  BY <1>2, NotUnused
<1>7. jobs' = [jobs EXCEPT ![s] = RemoveAt(jobs[s], j)]  BY DEF Ended
<1> QED  BY <1>1, <1>4, <1>5, <1>6, <1>7, OneSubmission

LEMMA GradedKeepsMarks ==
    ASSUME MarkInv, NEW s \in Used, NEW j \in DOMAIN jobs[s], SettleGraded(s, j)
    PROVE  MarkInv'
<1>1. "graded" \in Statuses /\ subs[s].score # None  BY DEF Statuses, SettleGraded
<1>2. subs' = [subs EXCEPT ![s] = [subs[s] EXCEPT !.status = "graded"]]  BY DEF SettleGraded
<1>3. Ended(s, j) /\ versions' = versions  BY DEF SettleGraded
<1> QED  BY <1>1, <1>2, <1>3, SettlingKeepsMarks

LEMMA FailureKeepsMarks ==
    ASSUME MarkInv, NEW s \in Used, NEW j \in DOMAIN jobs[s], NEW permanent \in BOOLEAN,
           SettleFailure(s, j, permanent)
    PROVE  MarkInv'
<1> DEFINE status == IF subs[s].status # "grading" THEN subs[s].status
                     ELSE IF permanent THEN "failed" ELSE "pending"
<1>1. IsMarked(subs[s], jobs[s], versions) /\ IsSubmission(subs[s])  BY UsedAreMarked
<1>2. subs' = [subs EXCEPT ![s] = [subs[s] EXCEPT !.status = status]]  BY DEF SettleFailure
<1>3. Ended(s, j) /\ versions' = versions  BY DEF SettleFailure
<1>4. status \in Statuses /\ (status = "graded" => subs[s].score # None)
  BY <1>1 DEF IsSubmission, IsMarked, Statuses
<1> HIDE DEF status
<1> QED  BY <1>2, <1>3, <1>4, SettlingKeepsMarks

LEMMA StepKeepsMarks == ASSUME MarkInv, Next PROVE MarkInv'
<1>0. ASSUME UNCHANGED <<versions, subs, jobs>> PROVE MarkInv'  BY <1>0 DEF MarkInv
<1>1. ASSUME NEW t \in Tests, GetTest(t) PROVE MarkInv'  BY <1>0, <1>1 DEF GetTest
<1>2. ASSUME NEW t \in Tests, NEW d \in Drafts, PostTest(t, d) PROVE MarkInv'
  BY <1>2, UploadKeepsMarks DEF PostTest
<1>3. ASSUME NEW t \in Tests, NEW d \in Rewrites, ReplaceTest(t, d) PROVE MarkInv'
  BY <1>3, UploadKeepsMarks, MarkingAssumption DEF ReplaceTest, MarkingAssumption
<1>4. ASSUME NEW u \in Users, NEW t \in Tests, GetAnswerKey(u, t) PROVE MarkInv'
  BY <1>0, <1>4 DEF GetAnswerKey
<1>5. ASSUME NEW u \in Users, NEW s \in Subs, GetScore(u, s) PROVE MarkInv'
  BY <1>0, <1>5 DEF GetScore
<1>6. ASSUME NEW s \in Used, NEW d \in DOMAIN jobs[s], NEW permanent \in BOOLEAN,
             RecordScore(s, d) \/ SettleGraded(s, d) \/ SettleFailure(s, d, permanent)
      PROVE  MarkInv'
  BY <1>6, RecordKeepsMarks, GradedKeepsMarks, FailureKeepsMarks
<1>7. TRUE \in BOOLEAN  OBVIOUS
<1> QED  BY <1>1, <1>2, <1>3, <1>4, <1>5, <1>6, <1>7, SubmitKeepsMarks, ClaimKeepsMarks DEF Next

\* A score is always the marks against one content that the test had
\* between the submission and now, whatever was replaced and however many
\* jobs marked it: recordScore, against the content of the claim.
THEOREM MarksAreOfOneVersion == Spec => []MarkedAgainstOneVersion
<1>1. Init => MarkInv  BY InitMarks
<1>2. MarkInv /\ [Next]_vars => MarkInv'
  <2>1. ASSUME MarkInv, UNCHANGED vars PROVE MarkInv'  BY <2>1 DEF MarkInv, vars
  <2> QED  BY <2>1, StepKeepsMarks
<1>3. MarkInv => MarkedAgainstOneVersion
  <2>1. SUFFICES ASSUME MarkInv, NEW s \in Used, subs[s].score # None
                 PROVE  \E v \in subs[s].since..Len(versions[subs[s].test]) :
                           subs[s].score = AutoGrade(versions[subs[s].test][v], subs[s].payload)
    BY DEF MarkedAgainstOneVersion
  <2>2. PICK c \in Since(subs[s], versions) : subs[s].score = AutoGrade(c, subs[s].payload)
    BY <2>1, UsedAreMarked DEF IsMarked
  <2>3. PICK v \in subs[s].since..Len(versions[subs[s].test]) : c = versions[subs[s].test][v]
    BY <2>2 DEF Since
  <2> QED  BY <2>2, <2>3
<1> QED  BY <1>1, <1>2, <1>3, PTL DEF Spec

-----------------------------------------------------------------------------
(* What is shown gives no answer away *)

LEMMA PublicSections ==
    ASSUME NEW section \in Sections, NEW skill \in {"reading", "listening"}
    PROVE  /\ PublicSection(skill, section).groups =
              [g \in DOMAIN section.groups |-> RedactGroup(section.groups[g])]
           /\ PublicSection(skill, section).paragraphs =
              IF skill = "listening" THEN <<>> ELSE section.paragraphs
<1>1. RedactSection(section).groups = [g \in DOMAIN section.groups |-> RedactGroup(section.groups[g])]
  BY DEF RedactSection, Sections
<1>2. RedactSection(section).paragraphs = section.paragraphs /\ DOMAIN RedactSection(section) = DOMAIN section
  BY DEF RedactSection, Sections
<1>3. {"groups", "paragraphs"} \subseteq DOMAIN section  BY DEF Sections
<1> HIDE DEF RedactSection
<1> QED  BY <1>1, <1>2, <1>3 DEF PublicSection

LEMMA RedactedQuestions ==
    ASSUME NEW section \in Sections, NEW skill \in {"reading", "listening"},
           NEW g \in DOMAIN PublicSection(skill, section).groups,
           NEW q \in DOMAIN PublicSection(skill, section).groups[g].questions
    PROVE  LET shown == PublicSection(skill, section).groups[g].questions[q] IN
             /\ IsEmpty(shown.answer) /\ shown.accepted = <<>>
             /\ ~shown.explained /\ shown.evidence = <<>>
<1>1. g \in DOMAIN section.groups /\ section.groups \in Seq(Groups)  BY PublicSections DEF Sections
<1>2. section.groups[g] \in Groups  BY <1>1
<1>3. PublicSection(skill, section).groups[g] = RedactGroup(section.groups[g])
  <2>1. PublicSection(skill, section).groups = [h \in DOMAIN section.groups |-> RedactGroup(section.groups[h])]
    BY PublicSections
  <2> QED  BY <1>1, <2>1
<1>4. RedactGroup(section.groups[g]).questions =
      [r \in DOMAIN section.groups[g].questions |-> RedactQuestion(section.groups[g].questions[r])]
  BY <1>2 DEF RedactGroup, Groups
<1>5. q \in DOMAIN section.groups[g].questions /\ section.groups[g].questions \in Seq(Questions)
  BY <1>2, <1>3, <1>4 DEF Groups
<1>6. section.groups[g].questions[q] \in Questions  BY <1>5
<1>7. PublicSection(skill, section).groups[g].questions[q] = RedactQuestion(section.groups[g].questions[q])
  BY <1>3, <1>4, <1>5
<1> QED  BY <1>6, <1>7 DEF RedactQuestion, Questions, IsEmpty, NoAnswer

\* publicContentData: nothing of an answer is left in it, nor the script of
\* a listening test.
LEMMA PublicIsNotSecret ==
    ASSUME NEW test \in Bodies
    PROVE  ~Secret(PublicContentData(test))
<1> DEFINE shown == PublicContentData(test)
<1>1. test.sections \in Seq(Sections) /\ test.skill \in {"reading", "listening"}  BY DEF Bodies
<1>2. /\ shown.skill = test.skill
      /\ shown.sections = [s \in DOMAIN test.sections |-> PublicSection(test.skill, test.sections[s])]
  BY DEF PublicContentData, Bodies
<1>3. \A s \in DOMAIN test.sections : test.sections[s] \in Sections  BY <1>1
<1>4. /\ DOMAIN shown.sections = DOMAIN test.sections
      /\ \A s \in DOMAIN test.sections : shown.sections[s] = PublicSection(test.skill, test.sections[s])
  BY <1>2
<1> HIDE DEF shown
<1>5. ASSUME NEW p \in Places(shown)
      PROVE  LET q == QuestionAt(shown, p) IN
               /\ IsEmpty(q.answer) /\ q.accepted = <<>> /\ ~q.explained /\ q.evidence = <<>>
  <2>1. PICK s \in DOMAIN shown.sections : \E g \in DOMAIN shown.sections[s].groups :
          \E q \in DOMAIN shown.sections[s].groups[g].questions : p = <<s, g, q>>
    BY DEF Places
  <2>2. PICK g \in DOMAIN shown.sections[s].groups :
          \E q \in DOMAIN shown.sections[s].groups[g].questions : p = <<s, g, q>>
    BY <2>1
  <2>6. PICK q \in DOMAIN shown.sections[s].groups[g].questions : p = <<s, g, q>>  BY <2>2
  <2>3. s \in DOMAIN test.sections /\ test.sections[s] \in Sections  BY <1>3, <1>4
  <2>4. shown.sections[s] = PublicSection(test.skill, test.sections[s])  BY <1>4, <2>3
  <2>5. QuestionAt(shown, p) = PublicSection(test.skill, test.sections[s]).groups[g].questions[q]
    BY <2>4, <2>6 DEF QuestionAt, GroupAt
  <2> QED  BY <1>1, <2>2, <2>3, <2>4, <2>5, <2>6, RedactedQuestions
<1>6. shown.skill = "listening" => \A section \in ToSet(shown.sections) : section.paragraphs = <<>>
  <2>1. ASSUME test.skill = "listening", NEW s \in DOMAIN test.sections
        PROVE  shown.sections[s].paragraphs = <<>>
    <3>1. test.sections[s] \in Sections /\ shown.sections[s] = PublicSection(test.skill, test.sections[s])
      BY <1>3, <1>4
    <3>2. PublicSection(test.skill, test.sections[s]).paragraphs = <<>>
      BY <1>1, <2>1, <3>1, PublicSections
    <3> QED  BY <3>1, <3>2
  <2> QED  BY <1>2, <1>4, <2>1 DEF ToSet
<1> QED  BY <1>5, <1>6 DEF Secret, shown

-----------------------------------------------------------------------------
(* Answers are told to those with marks *)

\* A learner keeps the marks that opened a key, as long as submissions stay
\* the user's and their scores are kept.
LEMMA MarksStay ==
    ASSUME NEW u, NEW t, Earned(u, t),
           \A s \in Used : /\ s \in Used' /\ subs'[s].user = subs[s].user
                           /\ subs'[s].test = subs[s].test
                           /\ subs[s].score # None => subs'[s].score # None
    PROVE  Earned(u, t)'
BY DEF Earned

LEMMA SubmissionsStay ==
    ASSUME MarkInv, Next, NEW s \in Used
    PROVE  /\ s \in Used' /\ subs'[s].user = subs[s].user /\ subs'[s].test = subs[s].test
           /\ subs[s].score # None => subs'[s].score # None
<1> DEFINE Kept == /\ s \in Used' /\ subs'[s].user = subs[s].user /\ subs'[s].test = subs[s].test
                   /\ subs[s].score # None => subs'[s].score # None
<1>1. s \in Subs /\ IsSubmission(subs[s]) /\ subs = [r \in Subs |-> subs[r]]
  BY UsedAreMarked DEF MarkInv
<1>2. ASSUME subs' = subs PROVE Kept  BY <1>2 DEF Used
<1>3. ASSUME NEW r \in Subs, r # s, NEW sub, subs' = [subs EXCEPT ![r] = sub] PROVE Kept
  <2>1. subs'[s] = subs[s]  BY <1>1, <1>3
  <2> QED  BY <1>1, <2>1 DEF Used, Unused
<1>4. ASSUME NEW status, NEW score, subs[s].score # None => score # None,
             subs' = [subs EXCEPT ![s] = [subs[s] EXCEPT !.status = status, !.score = score]]
      PROVE  Kept
  <2>1. subs'[s] = [subs[s] EXCEPT !.status = status, !.score = score]  BY <1>1, <1>4
  <2>2. /\ subs'[s].user = subs[s].user /\ subs'[s].test = subs[s].test
        /\ subs'[s].score = score /\ "score" \in DOMAIN subs'[s]
    BY <1>1, <2>1 DEF IsSubmission
  <2>3. subs'[s] # Unused  BY <2>2 DEF Unused
  <2> QED  BY <1>1, <1>4, <2>2, <2>3 DEF Used, Unused
<1> HIDE DEF Kept
<1>5. ASSUME NEW r \in Subs, NEW u \in Learners, NEW t \in Tests, NEW p \in Payloads, SubmitAnswer(r, u, t, p)
      PROVE  Kept
  BY <1>3, <1>5 DEF SubmitAnswer
<1>6. ASSUME NEW r \in Used, NEW d, NEW permanent \in BOOLEAN,
             \/ ClaimNextForGrading(r) \/ RecordScore(r, d) \/ SettleGraded(r, d)
             \/ SettleFailure(r, d, permanent)
      PROVE  Kept
  <2>1. r \in Subs /\ IsSubmission(subs[r])  BY UsedAreMarked
  <2>2. \E status, score : /\ subs[r].score # None => score # None
                           /\ subs' = [subs EXCEPT ![r] = [subs[r] EXCEPT !.status = status, !.score = score]]
    <3>1. CASE RecordScore(r, d)
      <4> DEFINE score == IF subs[r].score = None THEN AutoGrade(jobs[r][d], subs[r].payload) ELSE subs[r].score
      <4>1. subs' = [subs EXCEPT ![r] = [subs[r] EXCEPT !.score = score]]  BY <3>1 DEF RecordScore
      <4>2. subs[r].score # None => score # None  OBVIOUS
      <4> HIDE DEF score
      <4>3. [subs[r] EXCEPT !.score = score] = [subs[r] EXCEPT !.status = subs[r].status, !.score = score]
        BY <2>1 DEF IsSubmission
      <4> QED  BY <4>1, <4>2, <4>3
    <3>2. CASE \E status : subs' = [subs EXCEPT ![r] = [subs[r] EXCEPT !.status = status]]
      <4>1. PICK status : subs' = [subs EXCEPT ![r] = [subs[r] EXCEPT !.status = status]]  BY <3>2
      <4>2. [subs[r] EXCEPT !.status = status] =
            [subs[r] EXCEPT !.status = status, !.score = subs[r].score]
        BY <2>1 DEF IsSubmission
      <4> QED  BY <4>1, <4>2
    <3>3. ClaimNextForGrading(r) => subs' = [subs EXCEPT ![r] = [subs[r] EXCEPT !.status = "grading"]]
      BY DEF ClaimNextForGrading
    <3>4. SettleGraded(r, d) => subs' = [subs EXCEPT ![r] = [subs[r] EXCEPT !.status = "graded"]]
      BY DEF SettleGraded
    <3>5. SettleFailure(r, d, permanent) =>
            subs' = [subs EXCEPT ![r] = [subs[r] EXCEPT !.status =
                        IF subs[r].status # "grading" THEN subs[r].status
                        ELSE IF permanent THEN "failed" ELSE "pending"]]
      BY DEF SettleFailure
    <3> QED  BY <1>6, <3>1, <3>2, <3>3, <3>4, <3>5
  <2> QED  BY <1>3, <1>4, <2>1, <2>2
<1>7. ASSUME NEW u, NEW t, NEW d,
             GetTest(t) \/ PostTest(t, d) \/ ReplaceTest(t, d) \/ GetAnswerKey(u, t) \/ GetScore(u, t)
      PROVE  Kept
  BY <1>2, <1>7 DEF GetTest, PostTest, ReplaceTest, Upload, GetAnswerKey, GetScore
<1>8. Kept  BY <1>5, <1>6, <1>7 DEF Next
<1> QED  BY <1>8 DEF Kept

LEMMA StepKeepsEarned ==
    ASSUME MarkInv, EarnInv, Next
    PROVE  EarnInv'
<1>1. ASSUME NEW u \in Learners, NEW t, Earned(u, t) PROVE Earned(u, t)'
  BY <1>1, MarksStay, SubmissionsStay
<1>2. told' = told \/ \E u \in Users, t \in Tests : /\ Tell(u, t)
                                                    /\ u \in Learners => Earned(u, t)
  <2>1. ASSUME NEW u \in Users, NEW t \in Tests, GetAnswerKey(u, t)
        PROVE  Tell(u, t) /\ (u \in Learners => Earned(u, t))
    <3>1. ASSUME HasGradedSubmission(u, t) PROVE Earned(u, t)
      BY <3>1, UsedAreMarked DEF HasGradedSubmission, Earned, IsMarked
    <3>2. u \in Learners => u \notin Admins  BY MarkingAssumption DEF MarkingAssumption
    <3> QED  BY <2>1, <3>1, <3>2 DEF GetAnswerKey
  <2>2. ASSUME NEW u \in Users, NEW s \in Subs, GetScore(u, s)
        PROVE  /\ subs[s].test \in Tests /\ Tell(u, subs[s].test)
               /\ Earned(u, subs[s].test)
    BY <2>2, UsedAreMarked DEF GetScore, Earned, IsSubmission
  <2>3. ASSUME NEW s, NEW d, NEW permanent \in BOOLEAN,
               \/ ClaimNextForGrading(s) \/ RecordScore(s, d) \/ SettleGraded(s, d)
               \/ SettleFailure(s, d, permanent)
        PROVE  told' = told
    BY <2>3 DEF ClaimNextForGrading, RecordScore, SettleGraded, SettleFailure
  <2>4. ASSUME NEW u, NEW s, NEW t, NEW d,
               GetTest(t) \/ PostTest(t, d) \/ ReplaceTest(t, d) \/ SubmitAnswer(s, u, t, d)
        PROVE  told' = told
    BY <2>4 DEF GetTest, PostTest, ReplaceTest, Upload, SubmitAnswer
  <2> DEFINE Tells == \E u \in Users, t \in Tests : /\ Tell(u, t)
                                                    /\ u \in Learners => Earned(u, t)
  <2>5. ASSUME NEW u \in Users, NEW t \in Tests, GetAnswerKey(u, t) PROVE Tells  BY <2>1, <2>5
  <2>6. ASSUME NEW u \in Users, NEW s \in Subs, GetScore(u, s) PROVE Tells  BY <2>2, <2>6
  <2> HIDE DEF Tells
  <2>7. told' = told \/ Tells
    <3>1. TRUE \in BOOLEAN  OBVIOUS
    <3> QED  BY <3>1, <2>3, <2>4, <2>5, <2>6 DEF Next
  <2> QED  BY <2>7 DEF Tells
<1>3. told' \in [Users -> SUBSET Tests]
  <2>1. told \in [Users -> SUBSET Tests]  BY DEF EarnInv
  <2>2. ASSUME NEW u \in Users, NEW t \in Tests, Tell(u, t)
        PROVE  told' \in [Users -> SUBSET Tests]
    <3>1. told[u] \cup {t} \in SUBSET Tests  BY <2>1
    <3> QED  BY <2>1, <2>2, <3>1 DEF Tell
  <2>3. CASE told' = told  BY <2>1, <2>3
  <2>4. CASE \E u \in Users, t \in Tests : Tell(u, t)
    <3>1. PICK u \in Users, t \in Tests : Tell(u, t)  BY <2>4
    <3> QED  BY <2>2, <3>1
  <2> QED  BY <1>2, <2>3, <2>4
<1>4. ASSUME NEW u \in Learners, NEW t \in told'[u] PROVE Earned(u, t)'
  <2>1. u \in Users /\ told \in [Users -> SUBSET Tests]  BY DEF Users, EarnInv
  <2>2. t \in told[u] \/ Earned(u, t)
    <3>1. ASSUME NEW v \in Users, NEW r \in Tests, Tell(v, r),
                 v \in Learners => Earned(v, r)
          PROVE  t \in told[u] \/ Earned(u, t)
      <4>1. CASE v = u
        <5>1. told'[u] = told[u] \cup {r}  BY <2>1, <3>1, <4>1 DEF Tell
        <5> QED  BY <1>4, <3>1, <4>1, <5>1
      <4>2. CASE v # u
        <5>1. told'[u] = told[u]  BY <2>1, <3>1, <4>2 DEF Tell
        <5> QED  BY <1>4, <5>1
      <4> QED  BY <4>1, <4>2
    <3>2. CASE told' = told  BY <1>4, <3>2
    <3>3. CASE \E v \in Users, r \in Tests : /\ Tell(v, r)
                                             /\ v \in Learners => Earned(v, r)
      <4>1. PICK v \in Users, r \in Tests : /\ Tell(v, r)
                                            /\ v \in Learners => Earned(v, r)
        BY <3>3
      <4> QED  BY <3>1, <4>1
    <3> QED  BY <1>2, <3>2, <3>3
  <2>3. Earned(u, t)  BY <2>2 DEF EarnInv, AnswersAreEarned
  <2> QED  BY <1>1, <2>3
<1>5. \A content \in seen' : ~Secret(content)
  <2>1. seen' = seen \/ \E test \in Bodies : seen' = seen \cup {PublicContentData(test)}
    <3>1. ASSUME NEW t \in Tests, GetTest(t)
          PROVE  \E test \in Bodies : seen' = seen \cup {PublicContentData(test)}
      <4>1. versions[t] \in Seq(Drafts) /\ versions[t] # <<>>  BY <3>1 DEF GetTest, Exists, MarkInv
      <4>2. Current(t) \in Drafts  BY <4>1 DEF Current, Last
      <4> QED  BY <3>1, <4>2, MarkingAssumption DEF GetTest, MarkingAssumption
    <3>2. ASSUME NEW t \in Tests, NEW d \in Drafts, PostTest(t, d)
          PROVE  d \in Bodies /\ seen' = seen \cup {PublicContentData(d)}
      BY <3>2, MarkingAssumption DEF PostTest, MarkingAssumption
    <3>3. ASSUME NEW u, NEW s, NEW t, NEW d, NEW permanent \in BOOLEAN,
                 \/ ReplaceTest(t, d) \/ SubmitAnswer(s, u, t, d) \/ GetAnswerKey(u, t) \/ GetScore(u, s)
                 \/ ClaimNextForGrading(s) \/ RecordScore(s, d) \/ SettleGraded(s, d)
                 \/ SettleFailure(s, d, permanent)
          PROVE  seen' = seen
      BY <3>3 DEF ReplaceTest, SubmitAnswer, GetAnswerKey, GetScore, ClaimNextForGrading, RecordScore,
                  SettleGraded, SettleFailure
    <3>4. TRUE \in BOOLEAN  OBVIOUS
    <3> QED  BY <3>1, <3>2, <3>3, <3>4 DEF Next
  <2> QED  BY <2>1, PublicIsNotSecret DEF EarnInv, AnswersAreEarned
<1> QED  BY <1>3, <1>4, <1>5 DEF EarnInv, AnswersAreEarned

\* What tests show to everybody holds no answer, and a learner is told
\* answers only with marks of an own attempt: publicContentData, GetAnswerKey
\* and GetScore, in whatever order the requests come.
THEOREM OnlyMarksTell == Spec => []AnswersAreEarned
<1>1. Init => MarkInv /\ EarnInv
  <2>1. ASSUME Init PROVE EarnInv
    <3>1. \A u \in Learners : u \in Users /\ told[u] = {}
      BY <2>1, MarkingAssumption DEF Init, Users, MarkingAssumption
    <3> QED  BY <2>1, <3>1 DEF Init, EarnInv, AnswersAreEarned
  <2> QED  BY <2>1, InitMarks
<1>2. MarkInv /\ EarnInv /\ [Next]_vars => (MarkInv /\ EarnInv)'
  <2>1. ASSUME MarkInv, EarnInv, UNCHANGED vars PROVE (MarkInv /\ EarnInv)'
    BY <2>1 DEF MarkInv, EarnInv, AnswersAreEarned, Earned, Used, vars
  <2> QED  BY <2>1, StepKeepsMarks, StepKeepsEarned
<1>3. EarnInv => AnswersAreEarned  BY DEF EarnInv
<1> QED  BY <1>1, <1>2, <1>3, PTL DEF Spec

-----------------------------------------------------------------------------
(* What a test that was accepted is like *)

Accepted == {test \in Bodies : Validate(test)}

LEMMA QuestionsOf ==
    ASSUME NEW test \in Accepted, NEW p \in Places(test)
    PROVE  /\ GroupAt(test, p) \in Groups /\ QuestionAt(test, p) \in Questions
           /\ ValidateGroupShape(GroupAt(test, p))
           /\ HasKey(GroupAt(test, p), QuestionAt(test, p))
           /\ QuestionAt(test, p) \in ToSet(GroupAt(test, p).questions)
<1>1. PICK s \in DOMAIN test.sections : \E g \in DOMAIN test.sections[s].groups :
        \E q \in DOMAIN test.sections[s].groups[g].questions : p = <<s, g, q>>
  BY DEF Places
<1>2. PICK g \in DOMAIN test.sections[s].groups :
        \E q \in DOMAIN test.sections[s].groups[g].questions : p = <<s, g, q>>
  BY <1>1
<1>3. PICK q \in DOMAIN test.sections[s].groups[g].questions : p = <<s, g, q>>  BY <1>2
<1> DEFINE section == test.sections[s]
           group == section.groups[g]
<1>4. GroupAt(test, p) = group /\ QuestionAt(test, p) = group.questions[q]
  BY <1>3 DEF GroupAt, QuestionAt
<1>5. test.sections \in Seq(Sections) /\ test.skill \in {"reading", "listening"} /\ Validate(test)
  BY DEF Accepted, Bodies
<1>6. section \in Sections /\ section \in ToSet(test.sections)  BY <1>5 DEF ToSet
<1>7. section.groups \in Seq(Groups)  BY <1>6 DEF Sections
<1>8. group \in Groups /\ group \in ToSet(section.groups)  BY <1>2, <1>7 DEF ToSet
<1>9. group.questions \in Seq(Questions)  BY <1>8 DEF Groups
<1>10. group.questions[q] \in Questions /\ group.questions[q] \in ToSet(group.questions)
  BY <1>3, <1>9 DEF ToSet
<1>11. \E allowed : ValidateQuestionGroups(section.groups, allowed)
  <2>1. ValidateSection(test, section)  BY <1>5, <1>6 DEF Validate, ValidateContentData
  <2> HIDE DEF section
  <2> QED  BY <1>5, <2>1 DEF ValidateSection
<1> HIDE DEF section, group
<1>12. ValidateGroupShape(group) /\ HasKey(group, group.questions[q])
  BY <1>8, <1>10, <1>11 DEF ValidateQuestionGroups
<1> QED  BY <1>4, <1>8, <1>10, <1>12

LEMMA PlacesAreFinite ==
    ASSUME NEW test \in Accepted
    PROVE  IsFiniteSet(Places(test)) /\ Places(test) # {}
<1> DEFINE OfGroup(s, g) == {<<s, g, q>> : q \in DOMAIN test.sections[s].groups[g].questions}
           OfSection(s) == UNION {OfGroup(s, g) : g \in DOMAIN test.sections[s].groups}
<1>0. test.sections \in Seq(Sections) /\ Validate(test) /\ test.skill \in {"reading", "listening"}
  BY DEF Accepted, Bodies
<1>1. ASSUME NEW s \in DOMAIN test.sections
      PROVE  /\ test.sections[s].groups \in Seq(Groups)
             /\ \A g \in DOMAIN test.sections[s].groups : test.sections[s].groups[g].questions \in Seq(Questions)
  <2>1. test.sections[s] \in Sections  BY <1>0
  <2>2. test.sections[s].groups \in Seq(Groups)  BY <2>1 DEF Sections
  <2>3. \A g \in DOMAIN test.sections[s].groups : test.sections[s].groups[g] \in Groups  BY <2>2
  <2> QED  BY <2>2, <2>3 DEF Groups
<1>2. \A A, list : list \in Seq(A) => IsFiniteSet(DOMAIN list)
  <2> SUFFICES ASSUME NEW A, NEW list \in Seq(A) PROVE IsFiniteSet(DOMAIN list)  OBVIOUS
  <2>1. DOMAIN list = 1..Len(list) /\ Len(list) \in Int  OBVIOUS
  <2> QED  BY <2>1, FS_Interval
<1>3. ASSUME NEW s \in DOMAIN test.sections, NEW g \in DOMAIN test.sections[s].groups
      PROVE  IsFiniteSet(OfGroup(s, g))
  <2> DEFINE S == DOMAIN test.sections[s].groups[g].questions
             f == [q \in S |-> <<s, g, q>>]
  <2>1. IsFiniteSet(S)  BY <1>1, <1>2
  <2>2. OfGroup(s, g) = {f[q] : q \in S} /\ DOMAIN f = S /\ f = [q \in S |-> f[q]]  OBVIOUS
  <2> HIDE DEF S, f, OfGroup
  <2> QED  BY <2>1, <2>2, Values
<1>4. ASSUME NEW s \in DOMAIN test.sections
      PROVE  IsFiniteSet(OfSection(s))
  <2> DEFINE S == DOMAIN test.sections[s].groups
             f == [g \in S |-> OfGroup(s, g)]
  <2>1. IsFiniteSet(S)  BY <1>1, <1>2
  <2>2. OfSection(s) = UNION {f[g] : g \in S} /\ DOMAIN f = S /\ f = [g \in S |-> f[g]]  OBVIOUS
  <2>3. \A g \in S : IsFiniteSet(f[g])  BY <1>3
  <2> HIDE DEF S, f, OfSection
  <2> QED  BY <2>1, <2>2, <2>3, FiniteUnion
<1>5. IsFiniteSet(Places(test))
  <2> DEFINE S == DOMAIN test.sections
             f == [s \in S |-> OfSection(s)]
  <2>1. IsFiniteSet(S)  BY <1>0, <1>2
  <2>2. Places(test) = UNION {OfSection(s) : s \in S}  BY DEF Places
  <2> HIDE DEF OfSection
  <2>3. Places(test) = UNION {f[s] : s \in S} /\ DOMAIN f = S /\ f = [s \in S |-> f[s]]  BY <2>2
  <2>4. \A s \in S : IsFiniteSet(f[s])  BY <1>4
  <2> HIDE DEF S, f
  <2> QED  BY <2>1, <2>3, <2>4, FiniteUnion
<1>first. \A A, list : list \in Seq(A) /\ list # <<>> => 1 \in DOMAIN list /\ list[1] \in ToSet(list)
  <2> SUFFICES ASSUME NEW A, NEW list \in Seq(A), list # <<>>
               PROVE  1 \in DOMAIN list /\ list[1] \in ToSet(list)
    OBVIOUS
  <2> QED  BY DEF ToSet
<1>6. Places(test) # {}
  <2>1. test.sections # <<>>  BY <1>0 DEF Validate, ValidateContentData
  <2>2. 1 \in DOMAIN test.sections /\ test.sections[1] \in ToSet(test.sections)  BY <1>0, <1>first, <2>1
  <2>3. \E allowed : ValidateQuestionGroups(test.sections[1].groups, allowed)
    BY <1>0, <2>2 DEF Validate, ValidateContentData, ValidateSection
  <2>4. test.sections[1].groups # <<>> /\ test.sections[1].groups \in Seq(Groups)
    BY <1>1, <2>2, <2>3 DEF ValidateQuestionGroups
  <2>5. 1 \in DOMAIN test.sections[1].groups /\ test.sections[1].groups[1] \in ToSet(test.sections[1].groups)
    BY <1>first, <2>4
  <2>6. test.sections[1].groups[1].questions # <<>>  BY <2>3, <2>5 DEF ValidateQuestionGroups
  <2>7. test.sections[1].groups[1].questions \in Seq(Questions)  BY <1>1, <2>2, <2>5
  <2>8. 1 \in DOMAIN test.sections[1].groups[1].questions  BY <1>first, <2>6, <2>7
  <2>9. <<1, 1, 1>> \in Places(test)  BY <2>2, <2>5, <2>8 DEF Places
  <2> QED  BY <2>9
<1> QED  BY <1>5, <1>6

-----------------------------------------------------------------------------
(* Marks *)

LEMMA SpanOf ==
    ASSUME NEW test \in Accepted, NEW p \in Places(test)
    PROVE  /\ QuestionSpan(GroupAt(test, p)) \in Nat \ {0}
           /\ GroupAt(test, p).type = Multi =>
                /\ QuestionSpan(GroupAt(test, p)) = GroupAt(test, p).select
                /\ Len(Strings(QuestionAt(test, p).answer)) = GroupAt(test, p).select
           /\ GroupAt(test, p).type # Multi => QuestionSpan(GroupAt(test, p)) = 1
<1> DEFINE g == GroupAt(test, p)
           q == QuestionAt(test, p)
<1>1. g \in Groups /\ ValidateGroupShape(g) /\ q \in ToSet(g.questions)  BY QuestionsOf
<1> HIDE DEF g, q
<1>2. g.select \in Int  BY <1>1 DEF Groups
<1>3. CASE g.type = Multi
  <2>1. g.select >= 2 /\ Len(Strings(q.answer)) = g.select  BY <1>1, <1>3 DEF ValidateGroupShape
  <2>2. QuestionSpan(g) = g.select  BY <1>2, <1>3, <2>1 DEF QuestionSpan
  <2> QED  BY <1>2, <1>3, <2>1, <2>2 DEF g, q
<1>4. CASE g.type # Multi  BY <1>4 DEF QuestionSpan, g
<1> QED  BY <1>3, <1>4 DEF g, q

LEMMA StringsAreTexts ==
    ASSUME NEW answer \in Answers
    PROVE  Strings(answer) \in Seq(Texts)
<1>1. CASE answer.kind \in {"one", "many"}
  <2>1. answer \in [kind: {"one"}, texts: [1..1 -> Texts]] \/ answer \in [kind: {"many"}, texts: Seq(Texts)]
    BY <1>1 DEF Answers, NoAnswer, Other
  <2>2. answer.texts \in Seq(Texts)
    <3>1. CASE answer \in [kind: {"one"}, texts: [1..1 -> Texts]]
      <4>1. answer.texts \in [1..1 -> Texts]  BY <3>1
      <4> HIDE DEF Texts
      <4>2. answer.texts = <<answer.texts[1]>> /\ answer.texts[1] \in Texts  BY <4>1
      <4>3. <<answer.texts[1]>> \in Seq(Texts)  BY <4>2
      <4> QED  BY <4>2, <4>3
    <3>2. CASE answer \in [kind: {"many"}, texts: Seq(Texts)]  BY <3>2
    <3> QED  BY <2>1, <3>1, <3>2
  <2> QED  BY <1>1, <2>2 DEF Strings
<1>2. CASE answer.kind \notin {"one", "many"}  BY <1>2 DEF Strings
<1> QED  BY <1>1, <1>2

LEMMA FewNormalized ==
    ASSUME NEW texts \in Seq(Texts)
    PROVE  IsFiniteSet(Normalized(texts)) /\ Cardinality(Normalized(texts)) <= Len(texts)
<1> DEFINE S == 1..Len(texts)
           f == [i \in S |-> NormalizeAnswer(texts[i])]
<1>1. Len(texts) \in Nat /\ DOMAIN texts = S  OBVIOUS
<1>2. IsFiniteSet(S) /\ Cardinality(S) = Len(texts)
  <2>1. \A n \in Nat : IsFiniteSet(1..n) /\ Cardinality(1..n) = n  BY FS_Interval
  <2> QED  BY <1>1, <2>1
<1>3. Normalized(texts) = {f[i] : i \in S}  BY <1>1 DEF Normalized, ToSet
<1>4. DOMAIN f = S /\ f = [i \in S |-> f[i]]  OBVIOUS
<1> HIDE DEF S, f
<1> QED  BY <1>2, <1>3, <1>4, Values

\* No answer gets more marks than the question has.
LEMMA PointsInSpan ==
    ASSUME NEW test \in Accepted, NEW p \in Places(test), NEW submitted
    PROVE  AnswerPoints(GroupAt(test, p), QuestionAt(test, p), submitted)
             \in 0..QuestionSpan(GroupAt(test, p))
<1> DEFINE g == GroupAt(test, p)
           q == QuestionAt(test, p)
<1>1. /\ QuestionSpan(g) \in Nat \ {0}
      /\ g.type = Multi => /\ QuestionSpan(g) = g.select
                           /\ Len(Strings(q.answer)) = g.select
  BY SpanOf
<1>2. q.answer \in Answers  BY QuestionsOf DEF Questions
<1> HIDE DEF g, q
<1>3. CASE g.type = Multi
  <2> DEFINE right == Normalized(Strings(q.answer))
             found == (Normalized(submitted) \ {Nothing}) \cap right
  <2>1. IsFiniteSet(right) /\ Cardinality(right) <= QuestionSpan(g)
    BY <1>1, <1>2, <1>3, StringsAreTexts, FewNormalized
  <2>2. found \subseteq right  OBVIOUS
  <2>3. AnswerPoints(g, q, submitted) = Cardinality(found)  BY <1>3 DEF AnswerPoints
  <2> HIDE DEF right, found
  <2>4. /\ Cardinality(found) \in Nat /\ Cardinality(right) \in Nat
        /\ Cardinality(found) <= Cardinality(right)
    BY <2>1, <2>2, FS_Subset, FS_CardinalityType
  <2> QED  BY <1>1, <2>1, <2>3, <2>4 DEF g, q
<1>4. CASE g.type # Multi
  <2>1. AnswerPoints(g, q, submitted) \in {0, 1}  BY <1>4 DEF AnswerPoints
  <2> QED  BY <1>1, <2>1 DEF g, q
<1> QED  BY <1>3, <1>4

\* A key that says what it should earns all the marks.
LEMMA OneKeyEarns ==
    ASSUME NEW test \in Accepted, NEW p \in Places(test),
           WellKeyed(GroupAt(test, p), QuestionAt(test, p))
    PROVE  AnswerPoints(GroupAt(test, p), QuestionAt(test, p), DecodeAnswerStrings(QuestionAt(test, p).answer))
             = QuestionSpan(GroupAt(test, p))
<1> DEFINE g == GroupAt(test, p)
           q == QuestionAt(test, p)
           texts == Strings(q.answer)
<1>1. /\ g.type = Multi => QuestionSpan(g) = Len(texts)
      /\ g.type # Multi => QuestionSpan(g) = 1
  BY SpanOf
<1>2. q \in Questions /\ HasKey(g, q) /\ WellKeyed(g, q)  BY QuestionsOf
<1> HIDE DEF g, q
<1>3. q.answer \in Answers  BY <1>2 DEF Questions
<1>4. Nothing \notin Normalized(texts) /\ Cardinality(Normalized(texts)) = Len(texts)
  BY <1>2 DEF WellKeyed, Proper
<1>5. CASE g.type = Multi
  <2>1. q.answer.kind = "many"  BY <1>2, <1>5 DEF WellKeyed
  <2>2. DecodeAnswerStrings(q.answer) = texts  BY <2>1 DEF DecodeAnswerStrings, OneOf
  <2>3. (Normalized(texts) \ {Nothing}) \cap Normalized(texts) = Normalized(texts)  BY <1>4
  <2>4. AnswerPoints(g, q, texts) = Cardinality(Normalized(texts))  BY <1>5, <2>3 DEF AnswerPoints
  <2> QED  BY <1>1, <1>4, <1>5, <2>2, <2>4 DEF g, q
<1>6. CASE g.type # Multi
  <2>1. q.answer.kind = "one"  BY <1>2, <1>6 DEF WellKeyed
  <2>2. q.answer \in [kind: {"one"}, texts: [1..1 -> Texts]] /\ texts = q.answer.texts
    BY <1>3, <2>1 DEF Answers, NoAnswer, Other, Strings
  <2>3. texts \in [1..1 -> Texts] /\ texts \in Seq(Texts) /\ texts # <<>>
    <3>1. q.answer.texts \in [1..1 -> Texts]  BY <2>2
    <3>2. texts \in [1..1 -> Texts]  BY <2>2, <3>1
    <3>3. texts \in Seq(Texts)  BY <1>3, StringsAreTexts
    <3>4. DOMAIN texts = 1..1 /\ DOMAIN <<>> = {} /\ 1 \in 1..1
      <4> HIDE DEF texts
      <4> QED  BY <3>2
    <3>5. texts # <<>>
      <4> HIDE DEF texts
      <4> QED  BY <3>4
    <3> QED  BY <3>2, <3>3, <3>5
  <2> HIDE DEF texts
  <2>4. ToSet(texts) = {texts[1]}  BY <2>3 DEF ToSet
  <2>5. Normalized(texts) = {NormalizeAnswer(texts[1])}  BY <2>4 DEF Normalized
  <2>6. q.answer # OneOf(Blank)
    <3>1. SUFFICES ASSUME q.answer = OneOf(Blank) PROVE FALSE  OBVIOUS
    <3>2. texts[1] = Blank  BY <2>2, <3>1 DEF OneOf
    <3>3. NormalizeAnswer(texts[1]) = Nothing  BY <3>2 DEF NormalizeAnswer, Blank
    <3> QED  BY <1>4, <2>5, <3>3
  <2>7. DecodeAnswerStrings(q.answer) = texts  BY <2>6 DEF DecodeAnswerStrings, texts
  <2>8. AnswersMatch(g, q, texts)
    <3>1. CASE FillsBlank(g)
      <4>1. Normalized(q.accepted) \cap Normalized(texts) # {}
        BY <1>2, <3>1 DEF HasKey, ContainsFold, texts
      <4>2. NormalizeAnswer(texts[1]) \in Normalized(q.accepted)  BY <2>5, <4>1
      <4> QED  BY <2>3, <3>1, <4>2 DEF AnswersMatch
    <3>2. CASE ~FillsBlank(g)  BY <2>3, <3>2 DEF AnswersMatch, texts
    <3> QED  BY <3>1, <3>2
  <2>9. AnswerPoints(g, q, texts) = 1  BY <1>6, <2>8 DEF AnswerPoints
  <2> QED  BY <1>1, <1>6, <2>7, <2>9 DEF g, q
<1> QED  BY <1>5, <1>6

-----------------------------------------------------------------------------
(* Numbers *)

\* ValidateQuestionOrderContinuity counts what the questions take together.
LEMMA OwnOrders ==
    ASSUME NEW test \in Accepted, NEW p \in Places(test), NEW q \in Places(test),
           QuestionAt(test, p).order = QuestionAt(test, q).order
    PROVE  p = q
<1>1. \A m, n \in Numbers(test) : m[2] = n[2] => m = n
  <2>1. ValidateQuestionOrderContinuity(test)  BY DEF Accepted, Validate, ValidateContentData
  <2> QED  BY <2>1 DEF ValidateQuestionOrderContinuity
<1>2. ASSUME NEW r \in Places(test)
      PROVE  <<r, QuestionAt(test, r).order>> \in Numbers(test)
  <2>1. QuestionSpan(GroupAt(test, r)) \in Nat \ {0}  BY SpanOf
  <2>2. QuestionAt(test, r).order \in Int  BY QuestionsOf DEF Questions
  <2>3. 0 \in 0..QuestionSpan(GroupAt(test, r)) - 1 /\ QuestionAt(test, r).order + 0 = QuestionAt(test, r).order
    BY <2>1, <2>2
  <2>4. <<r, QuestionAt(test, r).order + 0>> \in Numbers(test)  BY <2>3 DEF Numbers
  <2> QED  BY <2>3, <2>4
<1>3. <<p, QuestionAt(test, p).order>> = <<q, QuestionAt(test, q).order>>  BY <1>1, <1>2
<1> QED  BY <1>3

LEMMA NumbersOfAccepted ==
    ASSUME NEW test \in Accepted
    PROVE  OwnNumbers(test)
<1> DEFINE P == Places(test)
           order == [p \in P |-> QuestionAt(test, p).order]
           span == Spans(test)
           F == [p \in P |-> {<<p, order[p] + i>> : i \in 0..span[p] - 1}]
           N == Numbers(test)
           second == [n \in N |-> n[2]]
           taken == {n[2] : n \in N}
<1>1. IsFiniteSet(P)  BY PlacesAreFinite
<1>2. /\ \A m, n \in N : m[2] = n[2] => m = n
      /\ taken = 1..Cardinality(taken)
  <2>1. ValidateQuestionOrderContinuity(test)  BY DEF Accepted, Validate, ValidateContentData
  <2> QED  BY <2>1 DEF ValidateQuestionOrderContinuity
<1>3. \A p \in P : order[p] \in Int /\ span[p] \in Nat \ {0}
  <2>1. ASSUME NEW p \in P PROVE QuestionAt(test, p).order \in Int  BY QuestionsOf DEF Questions
  <2> QED  BY <2>1, SpanOf DEF Spans
<1>4. DOMAIN span = P  BY DEF Spans
<1>5. N = UNION {F[p] : p \in P}  BY DEF Numbers, Spans
<1>6. \A p \in P : order[p] = QuestionAt(test, p).order  OBVIOUS
<1>7. \A p \in P : F[p] = {<<p, order[p] + i>> : i \in 0..span[p] - 1}  OBVIOUS
<1>8. DOMAIN order = P /\ order = [p \in P |-> order[p]]  OBVIOUS
<1>9. DOMAIN second = N /\ second = [n \in N |-> second[n]] /\ taken = {second[n] : n \in N}
      /\ \A n \in N : second[n] = n[2]
  OBVIOUS
<1>10. {QuestionAt(test, p).order : p \in P} = {order[p] : p \in P}  OBVIOUS
<1>11. \A p, q \in P : order[p] = order[q] => p = q  BY OwnOrders
<1> HIDE DEF P, order, span, F, N, second, taken
<1>12. ASSUME NEW p \in P
       PROVE  IsFiniteSet(F[p]) /\ span[p] = Cardinality(F[p])
  <2> DEFINE S == 0..span[p] - 1
             at == [i \in S |-> <<p, order[p] + i>>]
  <2>1. IsFiniteSet(S) /\ Cardinality(S) = span[p]
    <3>1. \A n \in Nat \ {0} : IsFiniteSet(0..n - 1) /\ Cardinality(0..n - 1) = n
      <4> SUFFICES ASSUME NEW n \in Nat \ {0} PROVE IsFiniteSet(0..n - 1) /\ Cardinality(0..n - 1) = n
        OBVIOUS
      <4>1. PICK m \in Nat : m = n - 1  OBVIOUS
      <4>2. IsFiniteSet(0..m) /\ Cardinality(0..m) = m - 0 + 1  BY FS_Interval
      <4> QED  BY <4>1, <4>2
    <3> QED  BY <1>3, <3>1
  <2>2. F[p] = {at[i] : i \in S}  BY <1>7
  <2>3. DOMAIN at = S /\ at = [i \in S |-> at[i]]  OBVIOUS
  <2>4. \A i, k \in S : at[i] = at[k] => i = k  BY <1>3
  <2> HIDE DEF S, at
  <2>5. IsFiniteSet({at[i] : i \in S}) /\ Cardinality({at[i] : i \in S}) = Cardinality(S)
    BY <2>1, <2>3, <2>4, Values
  <2> QED  BY <2>1, <2>2, <2>5
<1>13. \A p, q \in P : p # q => F[p] \cap F[q] = {}  BY <1>7
<1>14. IsFiniteSet(N) /\ Cardinality(N) = Sum(span, P)
  <2>1. /\ IsFiniteSet(UNION {F[p] : p \in P})
        /\ Cardinality(UNION {F[p] : p \in P}) = Sum(span, P)
    BY <1>1, <1>12, <1>13, SumCounts
  <2> QED  BY <1>5, <2>1
<1>15. Cardinality(taken) = Cardinality(N)
  <2>1. \A m, n \in N : second[m] = second[n] => m = n  BY <1>2, <1>9
  <2>2. Cardinality({second[n] : n \in N}) = Cardinality(N)  BY <1>9, <1>14, <2>1, Values
  <2> QED  BY <1>9, <2>2
<1>16. Cardinality({order[p] : p \in P}) = Cardinality(P)  BY <1>1, <1>8, <1>11, Values
<1>17. SumFunction(span) = Sum(span, P)  BY <1>4 DEF SumFunction, Sum
<1>18. taken = 1..SumFunction(span)  BY <1>2, <1>14, <1>15, <1>17
<1> QED  BY <1>10, <1>16, <1>18 DEF P, span, N, taken, OwnNumbers

-----------------------------------------------------------------------------
(* Bands *)

Rows(marks) == {i \in 1..14 : marks >= AcademicBandTable[i][1]}

LEMMA TableRows ==
    /\ DOMAIN AcademicBandTable = 1..14
    /\ \A i \in 1..14 : AcademicBandTable[i][1] \in Int /\ AcademicBandTable[i][2] = 19 - i
    /\ AcademicBandTable[1][1] = 39
BY DEF AcademicBandTable

LEMMA BandOfRows ==
    ASSUME NEW marks \in Int
    PROVE  \/ Rows(marks) = {} /\ BandOutOf40(marks) = 4
           \/ \E i \in Rows(marks) : BandOutOf40(marks) = 19 - i /\ \A k \in Rows(marks) : i <= k
<1>1. Rows(marks) = {i \in DOMAIN AcademicBandTable : marks >= AcademicBandTable[i][1]}
  BY TableRows DEF Rows
<1>2. Rows(marks) \in SUBSET Nat /\ \A i \in Rows(marks) : AcademicBandTable[i][2] = 19 - i
  BY TableRows DEF Rows
<1> DEFINE row == CHOOSE i \in Rows(marks) : \A k \in Rows(marks) : i <= k
<1>3. BandOutOf40(marks) = IF Rows(marks) = {} THEN Lowest ELSE AcademicBandTable[row][2]
  BY <1>1 DEF BandOutOf40
<1>4. CASE Rows(marks) # {}
  <2>1. \E i \in Rows(marks) : \A k \in Rows(marks) : i <= k  BY <1>2, <1>4, LeastNumber
  <2>2. row \in Rows(marks) /\ \A k \in Rows(marks) : row <= k  BY <2>1
  <2> HIDE DEF row
  <2> QED  BY <1>2, <1>3, <1>4, <2>2
<1>5. CASE Rows(marks) = {}  BY <1>3, <1>5 DEF Lowest
<1> QED  BY <1>4, <1>5

LEMMA BandsGrow ==
    ASSUME NEW a \in Int, NEW b \in Int, a <= b
    PROVE  BandOutOf40(a) <= BandOutOf40(b) /\ BandOutOf40(a) \in 4..18
<1>1. Rows(a) \subseteq Rows(b) /\ Rows(b) \subseteq 1..14  BY TableRows DEF Rows
<1>2. CASE Rows(a) = {} /\ BandOutOf40(a) = 4
  BY <1>1, <1>2, BandOfRows
<1>3. CASE \E i \in Rows(a) : BandOutOf40(a) = 19 - i /\ \A k \in Rows(a) : i <= k
  <2>1. PICK i \in Rows(a) : BandOutOf40(a) = 19 - i  BY <1>3
  <2>2. PICK k \in Rows(b) : BandOutOf40(b) = 19 - k /\ \A l \in Rows(b) : k <= l
    BY <1>1, <2>1, BandOfRows
  <2> QED  BY <1>1, <2>1, <2>2
<1> QED  BY <1>2, <1>3, BandOfRows

LEMMA FullBand == BandOutOf40(40) = 18
<1>1. 1 \in Rows(40) /\ Rows(40) \subseteq 1..14  BY TableRows DEF Rows
<1>2. PICK i \in Rows(40) : BandOutOf40(40) = 19 - i /\ \A k \in Rows(40) : i <= k
  BY <1>1, BandOfRows
<1>3. i = 1  BY <1>1, <1>2
<1> QED  BY <1>2, <1>3

\* Marks in proportion.
LEMMA ShareOutOf40 ==
    ASSUME NEW total \in Nat \ {0}, NEW c \in Nat, NEW d \in Nat, c <= d
    PROVE  /\ OutOf40(c, total) \in Int /\ OutOf40(c, total) <= OutOf40(d, total)
           /\ OutOf40(total, total) = 40
<1> DEFINE n == 2 * total
<1>1. n \in Nat \ {0}  OBVIOUS
<1>2. ASSUME NEW a \in Nat, NEW b \in Nat, a <= b PROVE a \div n \in Int /\ a \div n <= b \div n
  <2> HIDE DEF n
  <2> DEFINE x == a \div n
             y == b \div n
             u == a % n
             v == b % n
  <2>1. x \in Int /\ u \in 0..n - 1 /\ a = n * x + u  BY <1>1
  <2>2. y \in Int /\ v \in 0..n - 1 /\ b = n * y + v  BY <1>1
  <2> HIDE DEF x, y, u, v
  <2>3. x <= y
    <3>1. SUFFICES ASSUME y + 1 <= x PROVE FALSE  BY <2>1, <2>2
    <3>2. n * (y + 1) <= n * x  BY <1>1, <2>1, <2>2, <3>1
    <3>3. n * (y + 1) = n * y + n  BY <1>1, <2>2
    <3>4. n * y \in Int /\ n * x \in Int  BY <1>1, <2>1, <2>2
    <3> QED  BY <1>1, <1>2, <2>1, <2>2, <3>2, <3>3, <3>4
  <2> QED  BY <2>1, <2>3 DEF x, y
<1>3. 80 * c + total \in Nat /\ 80 * d + total \in Nat /\ 80 * c + total <= 80 * d + total  OBVIOUS
<1>4. OutOf40(c, total) = (80 * c + total) \div n /\ OutOf40(d, total) = (80 * d + total) \div n
  BY DEF OutOf40
<1>5. OutOf40(total, total) = 40
  <2>1. OutOf40(total, total) = (80 * total + total) \div (2 * total)  BY DEF OutOf40
  <2>2. 80 * total + total = 40 * (2 * total) + total /\ total < 2 * total  OBVIOUS
  <2> QED  BY <2>1, <2>2
<1> HIDE DEF n
<1>6. (80 * c + total) \div n \in Int /\ (80 * c + total) \div n <= (80 * d + total) \div n
  BY <1>2, <1>3
<1> QED  BY <1>4, <1>5, <1>6

LEMMA MarksOf ==
    ASSUME NEW test \in Accepted, NEW answers
    PROVE  LET a == AutoGrade(test, answers) IN
             /\ a.total \in Nat \ {0} /\ a.correct \in 0..a.total
             /\ a.band = BandOutOf40(OutOf40(a.correct, a.total))
<1> DEFINE P == Places(test)
           points == PointsAt(test, answers)
           spans == Spans(test)
           correct == SumFunction(points)
           total == SumFunction(spans)
<1>1. IsFiniteSet(P) /\ P # {}  BY PlacesAreFinite
<1>2. DOMAIN points = P /\ DOMAIN spans = P  BY DEF PointsAt, Spans
<1>3. \A p \in P : spans[p] \in Nat \ {0} /\ points[p] \in 0..spans[p]
  BY SpanOf, PointsInSpan DEF PointsAt, Spans
<1>4. LET a == AutoGrade(test, answers) IN
        a.total = total /\ a.correct = correct /\ a.band = BandFromRawScore(correct, total)
  BY DEF AutoGrade
<1> HIDE DEF P, points, spans
<1>5. correct = Sum(points, P) /\ total = Sum(spans, P)  BY <1>2 DEF SumFunction, Sum
<1>6. \A p \in P : points[p] \in Nat /\ points[p] \in Int /\ spans[p] \in Nat /\ spans[p] \in Int
                   /\ points[p] <= spans[p] /\ 1 <= spans[p]
  BY <1>3
<1> HIDE DEF correct, total
<1>7. correct \in Nat /\ total \in Nat /\ correct <= total
  BY <1>1, <1>5, <1>6, SumType, SumMonotone
<1>8. total # 0
  <2>1. PICK p \in P : TRUE  BY <1>1
  <2>2. total = spans[p] + Sum(spans, P \ {p})  BY <1>1, <1>5, <1>6, SumOfElement
  <2>3. Sum(spans, P \ {p}) \in Nat
    <3>1. IsFiniteSet(P \ {p})  BY <1>1, FS_Subset
    <3> QED  BY <1>6, <3>1, SumType
  <2> QED  BY <1>6, <2>1, <2>2, <2>3
<1>9. BandFromRawScore(correct, total) = BandOutOf40(OutOf40(correct, total))
  BY <1>8 DEF BandFromRawScore
<1> QED  BY <1>4, <1>7, <1>8, <1>9

\* The answers that are kept under the number of a question are its own, so
\* a key handed in is marked as each question's key is.
LEMMA KeyOfAccepted ==
    ASSUME NEW test \in Accepted
    PROVE  KeyEarns(test)
<1> DEFINE P == Places(test)
           Keyed(p) == WellKeyed(GroupAt(test, p), QuestionAt(test, p))
           answers == KeyAnswers(test)
           marks == AutoGrade(test, answers)
<1>1. ASSUME NEW p \in P, Keyed(p)
      PROVE  AnswerPoints(GroupAt(test, p), QuestionAt(test, p), DecodeAnswerStrings(QuestionAt(test, p).answer))
               = QuestionSpan(GroupAt(test, p))
  BY <1>1, OneKeyEarns
<1>2. ASSUME NEW p \in P
      PROVE  Submitted(answers, QuestionAt(test, p)) = DecodeAnswerStrings(QuestionAt(test, p).answer)
  <2> DEFINE n == QuestionAt(test, p).order
             place == CHOOSE q \in P : QuestionAt(test, q).order = n
  <2>1. place \in P /\ QuestionAt(test, place).order = n  BY <1>2
  <2>2. place = p  BY <1>2, <2>1, OwnOrders
  <2>3. n \in DOMAIN answers /\ answers[n] = QuestionAt(test, place).answer  BY <1>2 DEF KeyAnswers
  <2> HIDE DEF answers, place
  <2> QED  BY <2>2, <2>3 DEF Submitted
<1>3. ASSUME \A p \in P : Keyed(p)
      PROVE  marks.right = P /\ marks.correct = marks.total /\ marks.band = 18
  <2>1. \A p \in P : PointsAt(test, answers)[p] = Spans(test)[p]
    <3> SUFFICES ASSUME NEW p \in P PROVE PointsAt(test, answers)[p] = Spans(test)[p]  OBVIOUS
    <3> HIDE DEF answers
    <3>1. PointsAt(test, answers)[p] =
          AnswerPoints(GroupAt(test, p), QuestionAt(test, p), Submitted(answers, QuestionAt(test, p)))
      BY DEF PointsAt
    <3>2. Spans(test)[p] = QuestionSpan(GroupAt(test, p))  BY DEF Spans
    <3>3. Keyed(p)  BY <1>3
    <3> QED  BY <1>1, <1>2, <3>1, <3>2, <3>3
  <2> HIDE DEF answers
  <2>2. PointsAt(test, answers) = Spans(test)
    <3>1. PointsAt(test, answers) = [p \in P |-> PointsAt(test, answers)[p]]  BY DEF PointsAt
    <3>2. Spans(test) = [p \in P |-> Spans(test)[p]]  BY DEF Spans
    <3> HIDE DEF P
    <3>3. [p \in P |-> PointsAt(test, answers)[p]] = [p \in P |-> Spans(test)[p]]  BY <2>1
    <3> QED  BY <3>1, <3>2, <3>3
  <2>3. /\ marks.right = {p \in P : PointsAt(test, answers)[p] = Spans(test)[p]}
        /\ marks.correct = SumFunction(PointsAt(test, answers)) /\ marks.total = SumFunction(Spans(test))
    BY DEF AutoGrade
  <2>4. /\ marks.total \in Nat \ {0} /\ marks.band = BandOutOf40(OutOf40(marks.correct, marks.total))
    BY MarksOf
  <2> HIDE DEF marks
  <2>5. marks.correct = marks.total  BY <2>2, <2>3
  <2>6. OutOf40(marks.total, marks.total) = 40
    <3>1. marks.total \in Nat /\ marks.total <= marks.total  BY <2>4
    <3> QED  BY <2>4, <3>1, ShareOutOf40
  <2> QED  BY <2>1, <2>3, <2>4, <2>5, <2>6, FullBand
<1> QED  BY <1>1, <1>3 DEF KeyEarns

-----------------------------------------------------------------------------
(* Every content a test has had was accepted *)

VersionInv ==
    /\ \A t \in Tests : Len(versions[t]) <= MaxVersions
    /\ \A t \in Tests : \A v \in 1..Len(versions[t]) : Validate(versions[t][v])

\* What was shown is what can be shown of a test.
SeenInv == seen \subseteq Showable

LEMMA UploadKeepsVersions ==
    ASSUME MarkInv, VersionInv, NEW t \in Tests, NEW d \in Drafts, Upload(t, d),
           Len(versions[t]) < MaxVersions
    PROVE  VersionInv'
<1>1. versions' = [versions EXCEPT ![t] = Append(versions[t], d)] /\ Validate(d)  BY DEF Upload
<1>2. versions \in [Tests -> Seq(Drafts)]  BY DEF MarkInv
<1>3. /\ Len(Append(versions[t], d)) = Len(versions[t]) + 1 /\ Len(versions[t]) \in Nat
      /\ Append(versions[t], d)[Len(versions[t]) + 1] = d
      /\ \A v \in 1..Len(versions[t]) : Append(versions[t], d)[v] = versions[t][v]
  BY <1>2
<1>4. MaxVersions \in Nat  BY MarkingAssumption DEF MarkingAssumption
<1>5. ASSUME NEW r \in Tests
      PROVE  /\ Len(versions'[r]) <= MaxVersions
             /\ \A v \in 1..Len(versions'[r]) : Validate(versions'[r][v])
  <2>1. CASE r = t
    <3>1. versions'[r] = Append(versions[t], d)  BY <1>1, <1>2, <2>1
    <3>2. Len(versions'[r]) = Len(versions[t]) + 1  BY <1>3, <3>1
    <3>3. ASSUME NEW v \in 1..Len(versions'[r]) PROVE Validate(versions'[r][v])
      <4>1. CASE v = Len(versions[t]) + 1  BY <1>1, <1>3, <3>1, <4>1
      <4>2. CASE v # Len(versions[t]) + 1
        <5>1. v \in 1..Len(versions[t])  BY <1>3, <3>2, <4>2
        <5> QED  BY <1>3, <3>1, <5>1 DEF VersionInv
      <4> QED  BY <4>1, <4>2
    <3> QED  BY <1>3, <1>4, <3>2, <3>3
  <2>2. CASE r # t
    <3>1. versions'[r] = versions[r]  BY <1>1, <1>2, <2>2
    <3> QED  BY <3>1 DEF VersionInv
  <2> QED  BY <2>1, <2>2
<1> QED  BY <1>5 DEF VersionInv

LEMMA StepKeepsVersions ==
    ASSUME MarkInv, VersionInv, Next
    PROVE  VersionInv'
<1>0. ASSUME versions' = versions PROVE VersionInv'  BY <1>0 DEF VersionInv
<1>1. ASSUME NEW t \in Tests, NEW d \in Drafts, PostTest(t, d) PROVE VersionInv'
  <2>1. Len(versions[t]) = 0 /\ 0 < MaxVersions
    BY <1>1, MarkingAssumption DEF PostTest, Exists, MarkingAssumption
  <2> QED  BY <1>1, <2>1, UploadKeepsVersions DEF PostTest
<1>2. ASSUME NEW t \in Tests, NEW d \in Rewrites, ReplaceTest(t, d) PROVE VersionInv'
  BY <1>2, UploadKeepsVersions, MarkingAssumption DEF ReplaceTest, MarkingAssumption
<1>3. ASSUME NEW u, NEW s, NEW t, NEW d, NEW permanent \in BOOLEAN,
             \/ GetTest(t) \/ SubmitAnswer(s, u, t, d) \/ GetAnswerKey(u, t) \/ GetScore(u, s)
             \/ ClaimNextForGrading(s) \/ RecordScore(s, d) \/ SettleGraded(s, d)
             \/ SettleFailure(s, d, permanent)
      PROVE  versions' = versions
  BY <1>3 DEF GetTest, SubmitAnswer, GetAnswerKey, GetScore, ClaimNextForGrading, RecordScore,
              SettleGraded, SettleFailure
<1>4. TRUE \in BOOLEAN  OBVIOUS
<1> QED  BY <1>0, <1>1, <1>2, <1>3, <1>4 DEF Next

LEMMA StepKeepsSeen ==
    ASSUME MarkInv, VersionInv, SeenInv, Next
    PROVE  SeenInv'
<1>1. ASSUME NEW d \in Acceptable, seen' = seen \cup {PublicContentData(d)} PROVE SeenInv'
  BY <1>1 DEF SeenInv, Showable
<1>2. ASSUME NEW t \in Tests, GetTest(t) PROVE SeenInv'
  <2>1. versions[t] \in Seq(Drafts) /\ versions[t] # << >>  BY <1>2 DEF GetTest, Exists, MarkInv
  <2>2. Len(versions[t]) \in 1..Len(versions[t])  BY <2>1
  <2>3. Current(t) \in Drafts /\ Validate(Current(t))  BY <2>1, <2>2 DEF Current, Last, VersionInv
  <2> QED  BY <1>1, <1>2, <2>3 DEF GetTest, Acceptable
<1>3. ASSUME NEW t \in Tests, NEW d \in Drafts, PostTest(t, d) PROVE SeenInv'
  BY <1>1, <1>3 DEF PostTest, Upload, Acceptable
<1>4. ASSUME NEW u, NEW s, NEW t, NEW d, NEW permanent \in BOOLEAN,
             \/ ReplaceTest(t, d) \/ SubmitAnswer(s, u, t, d) \/ GetAnswerKey(u, t) \/ GetScore(u, s)
             \/ ClaimNextForGrading(s) \/ RecordScore(s, d) \/ SettleGraded(s, d)
             \/ SettleFailure(s, d, permanent)
      PROVE  SeenInv'
  BY <1>4 DEF SeenInv, ReplaceTest, SubmitAnswer, GetAnswerKey, GetScore, ClaimNextForGrading,
              RecordScore, SettleGraded, SettleFailure
<1>5. TRUE \in BOOLEAN  OBVIOUS
<1> QED  BY <1>2, <1>3, <1>4, <1>5 DEF Next

LEMMA InvariantsHold == Spec => [](MarkInv /\ VersionInv /\ SeenInv /\ EarnInv)
<1>1. Init => MarkInv /\ VersionInv /\ SeenInv /\ EarnInv
  <2> SUFFICES ASSUME Init PROVE MarkInv /\ VersionInv /\ SeenInv /\ EarnInv  OBVIOUS
  <2>1. \A u \in Learners : u \in Users /\ told[u] = {}
    BY MarkingAssumption DEF Init, Users, MarkingAssumption
  <2>2. \A t \in Tests : Len(versions[t]) = 0  BY DEF Init
  <2>3. MaxVersions \in Nat  BY MarkingAssumption DEF MarkingAssumption
  <2>4. VersionInv  BY <2>2, <2>3 DEF VersionInv
  <2> QED  BY <2>1, <2>4, InitMarks DEF Init, SeenInv, EarnInv, AnswersAreEarned
<1>2. MarkInv /\ VersionInv /\ SeenInv /\ EarnInv /\ [Next]_vars => (MarkInv /\ VersionInv /\ SeenInv /\ EarnInv)'
  <2>1. ASSUME MarkInv, VersionInv, SeenInv, EarnInv, UNCHANGED vars PROVE (MarkInv /\ VersionInv /\ SeenInv /\ EarnInv)'
    BY <2>1 DEF MarkInv, VersionInv, SeenInv, EarnInv, AnswersAreEarned, Earned, Used, vars
  <2> QED  BY <2>1, StepKeepsMarks, StepKeepsVersions, StepKeepsSeen, StepKeepsEarned
<1> QED  BY <1>1, <1>2, PTL DEF Spec

LEMMA StoredAreAccepted ==
    ASSUME MarkInv, VersionInv, NEW t \in Tests
    PROVE  /\ Stored(t) \subseteq Accepted \cap Drafts
           /\ \A v \in 1..Len(versions[t]) : versions[t][v] \in Accepted
           /\ versions[t] \in Seq(Acceptable)
<1>1. versions[t] \in Seq(Drafts)  BY DEF MarkInv
<1>2. \A v \in 1..Len(versions[t]) : versions[t][v] \in Drafts  BY <1>1
<1>3. Drafts \subseteq Bodies  BY MarkingAssumption DEF MarkingAssumption
<1>4. \A v \in 1..Len(versions[t]) : versions[t][v] \in Accepted  BY <1>2, <1>3 DEF VersionInv, Accepted
<1>5. DOMAIN versions[t] = 1..Len(versions[t])  BY <1>1
<1>6. versions[t] \in Seq(Acceptable)
  <2>1. \A v \in 1..Len(versions[t]) : versions[t][v] \in Acceptable
    BY <1>2 DEF VersionInv, Acceptable
  <2> QED  BY <1>1, <2>1
<1> QED  BY <1>2, <1>4, <1>5, <1>6 DEF Stored, ToSet

\* Whatever test is accepted, in whatever version: its own key earns all the
\* marks of a question that the key is proper for, and where it is proper
\* for all of them, the key of the test handed in as the answers earns every
\* mark and band 9 (HasKey, validateGroupShape, answerPoints,
\* bandFromRawScore).
THEOREM KeysEarn == Spec => []KeyEarnsAllMarks
<1>1. MarkInv /\ VersionInv => KeyEarnsAllMarks
  BY StoredAreAccepted, KeyOfAccepted DEF KeyEarnsAllMarks, WhereKeyEarns
<1> QED  BY <1>1, InvariantsHold, PTL

\* The questions of every test there ever is have the numbers from 1 to the
\* number of marks, none of them twice, however many numbers each takes
\* (validateQuestionOrderContinuity).
THEOREM NumbersNeverMeet == Spec => []NumbersAreTheirOwn
<1>1. MarkInv /\ VersionInv => NumbersAreTheirOwn
  BY StoredAreAccepted, NumbersOfAccepted DEF NumbersAreTheirOwn, WithOwnNumbers
<1> QED  BY <1>1, InvariantsHold, PTL

LEMMA ScoresAreMarks ==
    ASSUME MarkInv, VersionInv, NEW s \in Used, subs[s].score # None
    PROVE  \E test \in Accepted : subs[s].score = AutoGrade(test, subs[s].payload)
<1>1. IsMarked(subs[s], jobs[s], versions) /\ IsSubmission(subs[s])  BY UsedAreMarked
<1>2. PICK c \in Since(subs[s], versions) : subs[s].score = AutoGrade(c, subs[s].payload)
  BY <1>1 DEF IsMarked
<1>3. PICK v \in subs[s].since..Len(versions[subs[s].test]) : c = versions[subs[s].test][v]
  BY DEF Since
<1>4. subs[s].test \in Tests  BY <1>1 DEF IsSubmission
<1>5. v \in 1..Len(versions[subs[s].test])
  <2>1. versions[subs[s].test] \in Seq(Drafts)  BY <1>4 DEF MarkInv
  <2>2. Len(versions[subs[s].test]) \in Nat  BY <2>1
  <2> QED  BY <1>1, <1>3, <2>2 DEF IsMarked
<1> QED  BY <1>2, <1>3, <1>4, <1>5, StoredAreAccepted

\* Whichever tests, versions and answers: no more marks than there are, all
\* of them give band 9, and of as many more marks never give less
\* (answerPoints, BandFromRawScore).
THEOREM BandsFollowMarks == Spec => []MoreMarksNoLowerBand
<1>1. ASSUME MarkInv, VersionInv, NEW s \in Used, subs[s].score # None
      PROVE  /\ subs[s].score.total \in Nat \ {0} /\ subs[s].score.correct \in 0..subs[s].score.total
             /\ subs[s].score.band = BandOutOf40(OutOf40(subs[s].score.correct, subs[s].score.total))
  BY <1>1, ScoresAreMarks, MarksOf
<1>2. ASSUME NEW total \in Nat \ {0}, NEW c \in 0..total, NEW d \in 0..total
      PROVE  /\ c = total => BandOutOf40(OutOf40(c, total)) = 18
             /\ c <= d => BandOutOf40(OutOf40(c, total)) <= BandOutOf40(OutOf40(d, total))
  <2>1. c = total => OutOf40(c, total) = 40  BY ShareOutOf40
  <2>2. ASSUME c <= d PROVE BandOutOf40(OutOf40(c, total)) <= BandOutOf40(OutOf40(d, total))
    <3>1. c \in Nat /\ d \in Nat /\ d <= d  OBVIOUS
    <3>2. OutOf40(c, total) \in Int /\ OutOf40(d, total) \in Int
          /\ OutOf40(c, total) <= OutOf40(d, total)
      BY <2>2, <3>1, ShareOutOf40
    <3> QED  BY <3>2, BandsGrow
  <2> QED  BY <2>1, <2>2, FullBand
<1>3. MarkInv /\ VersionInv => MoreMarksNoLowerBand
  <2> SUFFICES ASSUME MarkInv, VersionInv, NEW r \in Used, NEW s \in Used,
                      subs[r].score # None, subs[s].score # None
               PROVE  LET a == subs[r].score
                          b == subs[s].score
                      IN /\ a.correct \in 0..a.total
                         /\ a.correct = a.total => a.band = 18
                         /\ a.total = b.total /\ a.correct <= b.correct => a.band <= b.band
    BY DEF MoreMarksNoLowerBand
  <2> QED  BY <1>1, <1>2
<1> QED  BY <1>3, InvariantsHold, PTL

\* Every content a test ever has was accepted by validation, whatever was
\* shown was made from such a content, every job marks one, every band is
\* one, and a submission is never newer than its test.
THEOREM MarkingTypesHold == Spec => []TypeOK
<1>1. ASSUME MarkInv, VersionInv, SeenInv, EarnInv PROVE TypeOK
  <2>1. versions \in [Tests -> Seq(Acceptable)] /\ told \in [Users -> SUBSET Tests]
    <3>1. versions \in [Tests -> Seq(Drafts)] /\ told \in [Users -> SUBSET Tests]
      BY <1>1 DEF MarkInv, EarnInv
    <3>2. \A t \in Tests : versions[t] \in Seq(Acceptable)  BY <1>1, StoredAreAccepted
    <3> QED  BY <3>1, <3>2
  <2>2. ASSUME NEW s \in Used
        PROVE  /\ subs[s].status \in {"pending", "grading", "graded", "failed"}
               /\ subs[s].user \in Users /\ subs[s].test \in Tests /\ subs[s].payload \in Payloads
               /\ subs[s].since \in 1..Len(versions[subs[s].test])
    BY <1>1, UsedAreMarked DEF IsMarked, IsSubmission, Statuses
  <2>3. ASSUME NEW s \in Used, subs[s].score # None PROVE subs[s].score.band \in 0..18
    <3>1. PICK test \in Accepted : subs[s].score = AutoGrade(test, subs[s].payload)
      BY <1>1, <2>3, ScoresAreMarks
    <3> DEFINE a == subs[s].score
    <3>2. a.total \in Nat \ {0} /\ a.correct \in 0..a.total
          /\ a.band = BandOutOf40(OutOf40(a.correct, a.total))
      BY <3>1, MarksOf
    <3>3. OutOf40(a.correct, a.total) \in Int  BY <3>2 DEF OutOf40
    <3> HIDE DEF a
    <3>4. a.band \in 4..18  BY <3>2, <3>3, BandsGrow
    <3> QED  BY <3>4 DEF a
  <2>4. ASSUME NEW s \in Subs PROVE jobs[s] \in Seq(Acceptable)
    <3>1. CASE subs[s] = Unused
      <4>1. jobs[s] = << >>  BY <1>1, <3>1 DEF MarkInv
      <4> QED  BY <4>1
    <3>2. CASE subs[s] # Unused
      <4>1. s \in Used  BY <3>2 DEF Used
      <4>2. IsMarked(subs[s], jobs[s], versions) /\ IsSubmission(subs[s])  BY <1>1, <4>1, UsedAreMarked
      <4>3. versions[subs[s].test] \in Seq(Acceptable)  BY <2>1, <4>2 DEF IsSubmission
      <4>4. Since(subs[s], versions) \subseteq Acceptable
        <5>1. subs[s].since \in 1..Len(versions[subs[s].test]) /\ Len(versions[subs[s].test]) \in Nat
          BY <4>2, <4>3 DEF IsMarked
        <5>2. \A v \in subs[s].since..Len(versions[subs[s].test]) : versions[subs[s].test][v] \in Acceptable
          BY <4>3, <5>1
        <5> QED  BY <5>2 DEF Since
      <4>5. jobs[s] \in Seq(Since(subs[s], versions))  BY <4>2 DEF IsMarked
      <4> QED  BY <4>4, <4>5
    <3> QED  BY <3>1, <3>2
  <2>5. jobs \in [Subs -> Seq(Acceptable)]
    <3>1. jobs = [s \in Subs |-> jobs[s]]  BY <1>1 DEF MarkInv
    <3> QED  BY <2>4, <3>1
  <2> QED  BY <1>1, <2>1, <2>2, <2>3, <2>5 DEF TypeOK, VersionInv, SeenInv
<1> QED  BY <1>1, InvariantsHold, PTL

=============================================================================
