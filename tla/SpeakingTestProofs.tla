------------------------ MODULE SpeakingTestProofs ------------------------
(***************************************************************************)
(* What becomes of speaking tests and of the answers to them.  First what  *)
(* CustomTests guarantees for any number of tests, contents and requests;  *)
(* then what SpeakingGrade guarantees for any answers, mode, number of     *)
(* slots and attempts, whatever the judges say and the recordings measure. *)
(***************************************************************************)
EXTENDS CustomTests, SpeakingGrade, FiniteSetTheorems, TLAPS

-----------------------------------------------------------------------------
(* Custom tests: types *)

\* A request past its first step has a test, one that writes or takes a test
\* has a content.
RequestOK(j) ==
    /\ j \in RequestState
    /\ j.pc \notin {"idle", "creating"} => j.test \in Tests
    /\ j.pc \in {"creating", "edit", "editing", "taking", "submitting"} => j.content \in Contents

TypeInv == CustomTypeOK /\ \A q \in Requests : RequestOK(request[q])

LEMMA IdleOK == RequestOK(Idle)
  BY DEF RequestOK, RequestState, Idle

LEMMA InitType == CustomInit => TypeInv
  BY IdleOK DEF CustomInit, TypeInv, CustomTypeOK, RequestOK

\* Replacing one request's state by a good one.
LEMMA RequestUpdate ==
    ASSUME TypeInv, NEW q \in Requests, NEW j, RequestOK(j), request' = [request EXCEPT ![q] = j]
    PROVE  request' \in [Requests -> RequestState] /\ \A p \in Requests : RequestOK(request'[p])
  BY DEF TypeInv, CustomTypeOK, RequestOK

LEMMA FinishOK ==
    ASSUME TypeInv, NEW q \in Requests, Finish(q)
    PROVE  request' \in [Requests -> RequestState] /\ \A p \in Requests : RequestOK(request'[p])
  BY IdleOK, RequestUpdate DEF Finish

\* Types after a step of a request that only changes that request, and after
\* the steps that write a row.
LEMMA CountTestsType ==
    ASSUME TypeInv, NEW q \in Requests, NEW c \in Contents, CountTests(q, c)
    PROVE  TypeInv'
<1> DEFINE j == [request[q] EXCEPT !.pc = "creating", !.content = c]
<1>1. request[q] \in RequestState
  BY DEF TypeInv, CustomTypeOK
<1>2. j \in RequestState /\ j.pc = "creating" /\ j.content = c
  BY <1>1 DEF RequestState
<1>3. request' = [request EXCEPT ![q] = j]
  BY DEF CountTests
<1>. HIDE DEF j
<1>. QED
  BY <1>2, <1>3, RequestUpdate DEF CountTests, RequestOK, TypeInv, CustomTypeOK

LEMMA OpenEditType ==
    ASSUME TypeInv, NEW q \in Requests, NEW t \in Tests, NEW c \in Contents, OpenEdit(q, t, c)
    PROVE  TypeInv'
<1> DEFINE j == [request[q] EXCEPT !.pc = "edit", !.test = t, !.content = c]
<1>1. request[q] \in RequestState
  BY DEF TypeInv, CustomTypeOK
<1>2. j \in RequestState /\ j.pc = "edit" /\ j.test = t /\ j.content = c
  BY <1>1 DEF RequestState
<1>3. request' = [request EXCEPT ![q] = j]
  BY DEF OpenEdit
<1>. HIDE DEF j
<1>. QED
  BY <1>2, <1>3, RequestUpdate DEF OpenEdit, RequestOK, TypeInv, CustomTypeOK

LEMMA OpenDeleteType ==
    ASSUME TypeInv, NEW q \in Requests, NEW t \in Tests, OpenDelete(q, t)
    PROVE  TypeInv'
<1> DEFINE j == [request[q] EXCEPT !.pc = "delete", !.test = t]
<1>1. request[q] \in RequestState
  BY DEF TypeInv, CustomTypeOK
<1>2. j \in RequestState /\ j.pc = "delete" /\ j.test = t
  BY <1>1 DEF RequestState
<1>3. request' = [request EXCEPT ![q] = j]
  BY DEF OpenDelete
<1>. HIDE DEF j
<1>. QED
  BY <1>2, <1>3, RequestUpdate DEF OpenDelete, RequestOK, TypeInv, CustomTypeOK

LEMMA ScriptType ==
    ASSUME TypeInv, NEW q \in Requests, NEW t \in Tests, Script(q, t)
    PROVE  TypeInv'
<1> DEFINE j == [request[q] EXCEPT !.pc = "taking", !.test = t, !.content = tests[t]]
<1>1. request[q] \in RequestState /\ tests[t] \in Contents
  BY DEF TypeInv, CustomTypeOK, Script, Exists
<1>2. j \in RequestState /\ j.pc = "taking" /\ j.test = t /\ j.content = tests[t]
  BY <1>1 DEF RequestState
<1>3. request' = [request EXCEPT ![q] = j]
  BY DEF Script
<1>. HIDE DEF j
<1>. QED
  BY <1>1, <1>2, <1>3, RequestUpdate DEF Script, RequestOK, TypeInv, CustomTypeOK

LEMMA CheckAttemptsType ==
    ASSUME TypeInv, NEW q \in Requests,
           CheckAttempts(q, "edit", "editing") \/ CheckAttempts(q, "delete", "deleting")
    PROVE  TypeInv'
<1>1. request[q] \in RequestState /\ RequestOK(request[q]) /\ Len(attempts) \in Nat
  BY DEF TypeInv, CustomTypeOK
<1>0. UNCHANGED <<tests, attempts>>
  BY DEF CheckAttempts
<1>2. CASE Finish(q)
  BY <1>0, <1>2, FinishOK DEF TypeInv, CustomTypeOK
<1>3. ASSUME NEW pc \in {"editing", "deleting"},
             request[q].pc \in {"edit", "delete"}, pc = "editing" => request[q].pc = "edit",
             request' = [request EXCEPT ![q].pc = pc, ![q].seen = Len(attempts)]
      PROVE  TypeInv'
  <2> DEFINE j == [request[q] EXCEPT !.pc = pc, !.seen = Len(attempts)]
  <2>1. /\ j \in RequestState /\ j.pc = pc
        /\ j.test = request[q].test /\ j.content = request[q].content
    BY <1>1 DEF RequestState
  <2>2. request' = [request EXCEPT ![q] = j]
    BY <1>3
  <2>. HIDE DEF j
  <2>3. RequestOK(j)
    BY <1>1, <1>3, <2>1 DEF RequestOK
  <2>. QED
    BY <1>0, <2>2, <2>3, RequestUpdate DEF TypeInv, CustomTypeOK
<1>4. CASE CheckAttempts(q, "edit", "editing")
  <2>1. CASE request' = [request EXCEPT ![q].pc = "editing", ![q].seen = Len(attempts)]
    BY <1>3, <1>4, <2>1 DEF CheckAttempts
  <2>. QED
    BY <1>2, <1>4, <2>1 DEF CheckAttempts
<1>5. CASE CheckAttempts(q, "delete", "deleting")
  <2>1. CASE request' = [request EXCEPT ![q].pc = "deleting", ![q].seen = Len(attempts)]
    BY <1>3, <1>5, <2>1 DEF CheckAttempts
  <2>. QED
    BY <1>2, <1>5, <2>1 DEF CheckAttempts
<1>. QED
  BY <1>4, <1>5

LEMMA ValidateType ==
    ASSUME TypeInv, NEW q \in Requests, ValidateSubmission(q)
    PROVE  TypeInv'
<1>1. CASE Finish(q)
  BY <1>1, FinishOK DEF ValidateSubmission, TypeInv, CustomTypeOK
<1>2. CASE Goto(q, "submitting")
  <2> DEFINE j == [request[q] EXCEPT !.pc = "submitting"]
  <2>1. request[q] \in RequestState /\ RequestOK(request[q])
    BY DEF TypeInv, CustomTypeOK
  <2>2. /\ j \in RequestState /\ j.pc = "submitting"
        /\ j.test = request[q].test /\ j.content = request[q].content
    BY <2>1 DEF RequestState
  <2>3. request' = [request EXCEPT ![q] = j]
    BY <1>2 DEF Goto
  <2>. HIDE DEF j
  <2>4. RequestOK(j)
    BY <2>1, <2>2 DEF RequestOK, ValidateSubmission
  <2>. QED
    BY <2>3, <2>4, RequestUpdate DEF ValidateSubmission, TypeInv, CustomTypeOK
<1>. QED
  BY <1>1, <1>2 DEF ValidateSubmission

\* The steps that write a row of tests.
Write(q) == InsertTest(q) \/ ReplaceTest(q) \/ DeleteTest(q)

LEMMA WriteType ==
    ASSUME TypeInv, NEW q \in Requests, Write(q)
    PROVE  TypeInv'
<1>1. tests' \in [Tests -> Contents \union {Unused, Deleted}]
  BY DEF Write, InsertTest, ReplaceTest, DeleteTest, TypeInv, CustomTypeOK, RequestOK
<1>. QED
  BY <1>1, FinishOK DEF Write, InsertTest, ReplaceTest, DeleteTest, TypeInv, CustomTypeOK

LEMMA SubmitType ==
    ASSUME TypeInv, NEW q \in Requests, CreateSubmission(q)
    PROVE  TypeInv'
<1> DEFINE a == [test |-> request[q].test, answered |-> request[q].content, judged |-> None]
<1>1. a \in Attempt
  BY DEF TypeInv, RequestOK, CreateSubmission, Attempt
<1>2. attempts' = attempts \/ attempts' = Append(attempts, a)
  BY DEF CreateSubmission
<1>. HIDE DEF a
<1>3. attempts' \in Seq(Attempt)
  BY <1>1, <1>2 DEF TypeInv, CustomTypeOK
<1>. QED
  BY <1>3, FinishOK DEF CreateSubmission, TypeInv, CustomTypeOK

\* Grading leaves every submission with its test.
LEMMA GradeShape ==
    ASSUME TypeInv, NEW i \in DOMAIN attempts, Grade(i)
    PROVE  /\ TypeInv'
           /\ Len(attempts') = Len(attempts) /\ DOMAIN attempts' = DOMAIN attempts
           /\ \A k \in DOMAIN attempts : attempts'[k].test = attempts[k].test
<1> DEFINE a == [attempts[i] EXCEPT !.judged = tests[attempts[i].test]]
<1>1. attempts \in Seq(Attempt) /\ attempts[i] \in Attempt
  BY DEF TypeInv, CustomTypeOK
<1>2. a \in Attempt /\ a.test = attempts[i].test
  BY <1>1 DEF Grade, Exists, Attempt
<1>3. attempts' = [attempts EXCEPT ![i] = a]
  BY DEF Grade
<1>. HIDE DEF a
<1>4. attempts' \in Seq(Attempt) /\ Len(attempts') = Len(attempts) /\ DOMAIN attempts' = DOMAIN attempts
  BY <1>1, <1>2, <1>3
<1>5. \A k \in DOMAIN attempts : attempts'[k].test = attempts[k].test
  BY <1>1, <1>2, <1>3
<1>. QED
  BY <1>4, <1>5 DEF Grade, TypeInv, CustomTypeOK

LEMMA NextType == TypeInv /\ [CustomNext]_customVars => TypeInv'
<1> SUFFICES ASSUME TypeInv, [CustomNext]_customVars PROVE TypeInv'
  OBVIOUS
<1>1. CASE UNCHANGED customVars
  BY <1>1 DEF customVars, TypeInv, CustomTypeOK
<1>2. ASSUME NEW q \in Requests, Abandon(q) PROVE TypeInv'
  BY <1>2, FinishOK DEF Abandon, TypeInv, CustomTypeOK
<1>. QED
  BY <1>1, <1>2, CountTestsType, OpenEditType, OpenDeleteType, ScriptType, CheckAttemptsType,
     ValidateType, WriteType, SubmitType, GradeShape DEF CustomNext, EditStep, TakeStep, Write

LEMMA TypeInvariant == CustomSpec => []TypeInv
  BY InitType, NextType, PTL DEF CustomSpec

\* Rows and requests are well typed, and no content nobody composed is stored.
THEOREM CustomTypeCorrect == CustomSpec => []CustomTypeOK
<1>1. TypeInv => CustomTypeOK
  BY DEF TypeInv
<1>. QED
  BY <1>1, TypeInvariant, PTL

-----------------------------------------------------------------------------
(* Custom tests: submissions and their tests *)

LEMMA NextKeeps == TypeInv /\ AttemptsKeepTheirTest /\ [CustomNext]_customVars => AttemptsKeepTheirTest'
<1> SUFFICES ASSUME TypeInv, AttemptsKeepTheirTest, [CustomNext]_customVars PROVE AttemptsKeepTheirTest'
  OBVIOUS
<1>0. attempts \in Seq(Attempt) /\ tests \in [Tests -> Contents \union {Unused, Deleted}]
  BY DEF TypeInv, CustomTypeOK
<1>1. ASSUME NEW i \in DOMAIN attempts, Grade(i) PROVE AttemptsKeepTheirTest'
  BY <1>1, GradeShape DEF Grade, AttemptsKeepTheirTest, Exists
<1>2. ASSUME NEW q \in Requests, CreateSubmission(q) PROVE AttemptsKeepTheirTest'
  BY <1>0, <1>2 DEF CreateSubmission, AttemptsKeepTheirTest, Exists
<1>3. ASSUME NEW q \in Requests, Write(q) PROVE AttemptsKeepTheirTest'
  <2>1. \A t \in Tests : Exists(t) /\ Attempted(t) => Exists(t)'
    BY <1>0, <1>3, CustomAssumption
    DEF Write, InsertTest, ReplaceTest, DeleteTest, Exists, TypeInv, RequestOK
  <2>2. UNCHANGED attempts
    BY <1>3 DEF Write, InsertTest, ReplaceTest, DeleteTest
  <2>3. ASSUME NEW i \in DOMAIN attempts PROVE Exists(attempts[i].test)'
    <3>1. attempts[i].test \in Tests /\ Attempted(attempts[i].test) /\ Exists(attempts[i].test)
      <4>1. attempts[i] \in Attempt
        BY <1>0
      <4>. QED
        BY <4>1 DEF AttemptsKeepTheirTest, Attempted, Attempt
    <3>2. attempts'[i] = attempts[i]
      BY <2>2
    <3>. QED
      BY <2>1, <3>1, <3>2 DEF Exists
  <2>. QED
    BY <2>2, <2>3 DEF AttemptsKeepTheirTest
<1>4. CASE UNCHANGED <<tests, attempts>>
  BY <1>4 DEF AttemptsKeepTheirTest, Exists
<1>. QED
  BY <1>1, <1>2, <1>3, <1>4
  DEF CustomNext, EditStep, TakeStep, Write, customVars, CountTests, Abandon, OpenEdit, OpenDelete,
      CheckAttempts, Script, ValidateSubmission

\* No interleaving of deletions and exams leaves a submission without its test:
\* see AttemptsKeepTheirTest.
THEOREM NoOrphans == CustomSpec => []AttemptsKeepTheirTest
<1>1. CustomInit => AttemptsKeepTheirTest
  BY DEF CustomInit, AttemptsKeepTheirTest
<1>. QED
  BY <1>1, NextKeeps, TypeInvariant, PTL DEF CustomSpec

\* A deleted test never comes back, not even by an edit under way: see
\* DeletedForGood.
THEOREM DeletionIsFinal == CustomSpec => DeletedForGood
<1>1. TypeInv /\ [CustomNext]_customVars => [\A t \in Tests : tests[t] = Deleted => tests'[t] = Deleted]_customVars
  <2> SUFFICES ASSUME TypeInv, CustomNext, NEW t \in Tests, tests[t] = Deleted PROVE tests'[t] = Deleted
    OBVIOUS
  <2>0. tests \in [Tests -> Contents \union {Unused, Deleted}]
    BY DEF TypeInv, CustomTypeOK
  <2>1. ASSUME NEW q \in Requests, Write(q) PROVE tests'[t] = Deleted
    BY <2>0, <2>1, CustomAssumption DEF Write, InsertTest, ReplaceTest, DeleteTest
  <2>2. CASE UNCHANGED tests
    BY <2>2
  <2>. QED
    BY <2>1, <2>2
    DEF CustomNext, EditStep, TakeStep, Write, CountTests, Abandon, OpenEdit, OpenDelete,
        CheckAttempts, Script, ValidateSubmission, CreateSubmission, Grade
<1>. QED
  BY <1>1, TypeInvariant, PTL DEF CustomSpec, DeletedForGood

\* A deletion takes no submission's test away and is final, whatever it races
\* with: see DeletionsHold.
THEOREM DeletionIsSafe == CustomSpec => DeletionsHold
BY NoOrphans, DeletionIsFinal DEF DeletionsHold

-----------------------------------------------------------------------------
(* Custom tests: what a check covers *)

\* None of the submissions a request has seen is one of the test it is about
\* to change.
SeenInv ==
    \A q \in Requests :
        request[q].pc \in {"editing", "deleting"} =>
            /\ request[q].seen <= Len(attempts)
            /\ \A i \in 1..request[q].seen : attempts[i].test # request[q].test

\* Submissions are only ever added, and keep their test.
LEMMA Growing ==
    ASSUME TypeInv, CustomNext
    PROVE  /\ Len(attempts') \in Nat /\ Len(attempts) <= Len(attempts')
           /\ \A i \in DOMAIN attempts : attempts'[i].test = attempts[i].test
<1>0. attempts \in Seq(Attempt)
  BY DEF TypeInv, CustomTypeOK
<1>. DEFINE Grows == /\ Len(attempts') \in Nat /\ Len(attempts) <= Len(attempts')
                    /\ \A i \in DOMAIN attempts : attempts'[i].test = attempts[i].test
<1>1. ASSUME NEW i \in DOMAIN attempts, Grade(i) PROVE Grows
  BY <1>0, <1>1, GradeShape
<1>2. ASSUME NEW q \in Requests, CreateSubmission(q) PROVE Grows
  <2>1. CASE UNCHANGED attempts
    BY <1>0, <2>1
  <2>2. ASSUME NEW a, attempts' = Append(attempts, a) PROVE Grows
    BY <1>0, <2>2
  <2>. QED
    BY <1>2, <2>1, <2>2 DEF CreateSubmission
<1>3. CASE UNCHANGED attempts
  BY <1>0, <1>3
<1>4. (\E i \in DOMAIN attempts : Grade(i)) \/ (\E q \in Requests : CreateSubmission(q)) \/ UNCHANGED attempts
  BY DEF CustomNext, EditStep, TakeStep, CountTests, InsertTest, Abandon, OpenEdit, OpenDelete,
         CheckAttempts, ReplaceTest, DeleteTest, Script, ValidateSubmission
<1>. QED
  BY <1>1, <1>2, <1>3, <1>4

\* A request that is about to change a test was so before, or has just looked
\* for submissions and found none.
LEMMA Checking ==
    ASSUME TypeInv, CustomNext, NEW q \in Requests, request'[q].pc \in {"editing", "deleting"}
    PROVE  \/ request'[q] = request[q]
           \/ /\ ~Attempted(request[q].test) /\ UNCHANGED attempts
              /\ request'[q].test = request[q].test /\ request'[q].seen = Len(attempts)
<1>0. request \in [Requests -> RequestState]
  BY DEF TypeInv, CustomTypeOK
<1>1. ASSUME NEW p \in Requests, NEW from, NEW to, CheckAttempts(p, from, to)
      PROVE  \/ request'[q] = request[q]
             \/ /\ ~Attempted(request[q].test) /\ UNCHANGED attempts
                /\ request'[q].test = request[q].test /\ request'[q].seen = Len(attempts)
  BY <1>0, <1>1 DEF CheckAttempts, Finish, Idle, RequestState
<1>2. ASSUME NEW p \in Requests, Finish(p) PROVE request'[q] = request[q]
  BY <1>0, <1>2 DEF Finish, Idle
<1>3. ASSUME NEW p \in Requests,
             \/ \E c \in Contents : CountTests(p, c)
             \/ \E t \in Tests : OpenDelete(p, t) \/ Script(p, t) \/ \E c \in Contents : OpenEdit(p, t, c)
             \/ Goto(p, "submitting")
      PROVE  request'[q] = request[q]
  <2>1. request[p] \in RequestState /\ request[q] \in RequestState
    BY <1>0
  <2>2. CASE p = q
    <3>1. ASSUME NEW c \in Contents, CountTests(p, c) PROVE request'[p].pc = "creating"
      BY <1>0, <2>1, <3>1 DEF CountTests, RequestState
    <3>2. ASSUME NEW t \in Tests, OpenDelete(p, t) PROVE request'[p].pc = "delete"
      BY <1>0, <2>1, <3>2 DEF OpenDelete, RequestState
    <3>3. ASSUME NEW t \in Tests, Script(p, t) PROVE request'[p].pc = "taking"
      BY <1>0, <2>1, <3>3 DEF Script, RequestState
    <3>4. ASSUME NEW t \in Tests, NEW c \in Contents, OpenEdit(p, t, c) PROVE request'[p].pc = "edit"
      BY <1>0, <2>1, <3>4 DEF OpenEdit, RequestState
    <3>5. ASSUME Goto(p, "submitting") PROVE request'[p].pc = "submitting"
      BY <1>0, <2>1, <3>5 DEF Goto, RequestState
    <3>. QED
      BY <1>3, <2>2, <3>1, <3>2, <3>3, <3>4, <3>5
  <2>3. CASE p # q
    BY <1>0, <1>3, <2>3 DEF CountTests, OpenEdit, OpenDelete, Script, Goto
  <2>. QED
    BY <2>2, <2>3
<1>4. CASE UNCHANGED request
  BY <1>4
<1>. QED
  BY <1>1, <1>2, <1>3, <1>4
  DEF CustomNext, EditStep, TakeStep, InsertTest, Abandon, ReplaceTest, DeleteTest,
      ValidateSubmission, CreateSubmission, Grade

LEMMA NextSeen == TypeInv /\ SeenInv /\ [CustomNext]_customVars => SeenInv'
<1> SUFFICES ASSUME TypeInv, SeenInv, [CustomNext]_customVars PROVE SeenInv'
  OBVIOUS
<1>0. attempts \in Seq(Attempt) /\ request \in [Requests -> RequestState]
  BY DEF TypeInv, CustomTypeOK
<1>1. CASE UNCHANGED customVars
  BY <1>1 DEF customVars, SeenInv
<1>2. CASE CustomNext
  <2> SUFFICES ASSUME NEW q \in Requests, request'[q].pc \in {"editing", "deleting"}
               PROVE  /\ request'[q].seen <= Len(attempts')
                      /\ \A i \in 1..request'[q].seen : attempts'[i].test # request'[q].test
    BY DEF SeenInv
  <2>1. CASE request'[q] = request[q]
    <3>1. request[q].seen \in Nat
      BY <1>0 DEF RequestState
    <3>. QED
      BY <1>0, <1>2, <2>1, <3>1, Growing DEF SeenInv
  <2>2. CASE /\ ~Attempted(request[q].test) /\ UNCHANGED attempts
             /\ request'[q].test = request[q].test /\ request'[q].seen = Len(attempts)
    BY <1>0, <2>2 DEF Attempted
  <2>. QED
    BY <1>2, <2>1, <2>2, Checking
<1>. QED
  BY <1>1, <1>2

LEMMA SeenInvariant == CustomSpec => []SeenInv
<1>1. CustomInit => SeenInv
  BY DEF CustomInit, SeenInv, Idle
<1>. QED
  BY <1>1, NextSeen, TypeInvariant, PTL DEF CustomSpec

\* A request that found no submissions can only hit ones that came in later:
\* see ChangesMissOnlyLateAttempts.
THEOREM ChecksHold == CustomSpec => ChangesMissOnlyLateAttempts
<1>. DEFINE Miss == \A q \in Requests, t \in Tests :
          (request[q].pc \in {"editing", "deleting"} /\ request'[q] # request[q]
             /\ request[q].test = t /\ tests'[t] # tests[t])
          => \A i \in DOMAIN attempts : attempts[i].test = t => i > request[q].seen
<1>1. TypeInv /\ SeenInv => Miss
  <2>1. TypeInv => attempts \in Seq(Attempt) /\ request \in [Requests -> RequestState]
    BY DEF TypeInv, CustomTypeOK
  <2>2. TypeInv => \A q \in Requests : request[q].seen \in Nat
    BY <2>1 DEF RequestState
  <2>. QED
    BY <2>1, <2>2 DEF SeenInv
<1>2. TypeInv /\ SeenInv => [Miss]_customVars
  BY <1>1
<1>. QED
  BY <1>2, TypeInvariant, SeenInvariant, PTL DEF ChangesMissOnlyLateAttempts

-----------------------------------------------------------------------------
(* Custom tests: the limit *)

\* The tests of the user, and the requests about to add one.
Creating == {q \in Requests : request[q].pc = "creating"}
LimitInv == Cardinality(Owned) + Cardinality(Creating) <= MaxTests + Cardinality(Requests) - 1

LEMMA Counts ==
    /\ IsFiniteSet(Owned) /\ IsFiniteSet(Creating)
    /\ Cardinality(Owned) \in Nat /\ Cardinality(Creating) \in Nat
    /\ Cardinality(Requests) \in Nat /\ Cardinality(Creating) <= Cardinality(Requests)
<1>1. Owned \in SUBSET Tests /\ Creating \in SUBSET Requests
  BY DEF Owned, Creating
<1>. QED
  BY <1>1, CustomAssumption, FS_Subset, FS_CardinalityType

\* Only InsertTest makes a test, and only CountTests a request about to.
LEMMA CreatingStep ==
    ASSUME TypeInv, [CustomNext]_customVars
    PROVE  \/ \E q \in Requests, c \in Contents : CountTests(q, c)
           \/ \E q \in Requests : InsertTest(q)
           \/ Owned' \subseteq Owned /\ Creating' \subseteq Creating
<1>0. /\ request \in [Requests -> RequestState]
      /\ tests \in [Tests -> Contents \union {Unused, Deleted}]
  BY DEF TypeInv, CustomTypeOK
<1>1. \A q \in Requests : request[q] \in RequestState
  BY <1>0
<1>2. ASSUME NEW q \in Requests, Finish(q) PROVE Creating' \subseteq Creating
  BY <1>0, <1>2 DEF Finish, Idle, Creating
<1>3. ASSUME NEW q \in Requests, Goto(q, "submitting") PROVE Creating' \subseteq Creating
  BY <1>0, <1>1, <1>3 DEF Goto, Creating, RequestState
<1>4. ASSUME NEW q \in Requests, NEW t \in Tests, OpenDelete(q, t) PROVE Creating' \subseteq Creating
  BY <1>0, <1>1, <1>4 DEF OpenDelete, Creating, RequestState
<1>5. ASSUME NEW q \in Requests, NEW t \in Tests, Script(q, t) PROVE Creating' \subseteq Creating
  BY <1>0, <1>1, <1>5 DEF Script, Creating, RequestState
<1>6. ASSUME NEW q \in Requests, NEW t \in Tests, NEW c \in Contents, OpenEdit(q, t, c)
      PROVE  Creating' \subseteq Creating
  BY <1>0, <1>1, <1>6 DEF OpenEdit, Creating, RequestState
<1>7. ASSUME NEW q \in Requests, CheckAttempts(q, "edit", "editing") \/ CheckAttempts(q, "delete", "deleting")
      PROVE  Creating' \subseteq Creating
  <2>1. CASE request' = [request EXCEPT ![q].pc = "editing", ![q].seen = Len(attempts)]
    BY <1>0, <1>1, <2>1 DEF Creating, RequestState
  <2>2. CASE request' = [request EXCEPT ![q].pc = "deleting", ![q].seen = Len(attempts)]
    BY <1>0, <1>1, <2>2 DEF Creating, RequestState
  <2>. QED
    BY <1>2, <1>7, <2>1, <2>2 DEF CheckAttempts
<1>8. ASSUME NEW q \in Requests, ReplaceTest(q) \/ DeleteTest(q) PROVE Owned' \subseteq Owned
  BY <1>0, <1>8, CustomAssumption DEF ReplaceTest, DeleteTest, Owned, Exists
<1>9. UNCHANGED request => Creating' = Creating
  BY DEF Creating
<1>10. UNCHANGED tests => Owned' = Owned
  BY DEF Owned, Exists
<1>. QED
  BY <1>2, <1>3, <1>4, <1>5, <1>6, <1>7, <1>8, <1>9, <1>10
  DEF CustomNext, EditStep, TakeStep, customVars, Abandon, OpenEdit, OpenDelete, CheckAttempts,
      ReplaceTest, DeleteTest, Script, ValidateSubmission, CreateSubmission, Grade

LEMMA NextLimit == TypeInv /\ LimitInv /\ [CustomNext]_customVars => LimitInv'
<1> SUFFICES ASSUME TypeInv, LimitInv, [CustomNext]_customVars PROVE LimitInv'
  OBVIOUS
<1>0. /\ request \in [Requests -> RequestState]
      /\ tests \in [Tests -> Contents \union {Unused, Deleted}]
  BY DEF TypeInv, CustomTypeOK
<1>1. /\ Creating' \in SUBSET Requests
      /\ Cardinality(Creating') \in Nat /\ Cardinality(Creating') <= Cardinality(Requests)
  <2>1. Creating' \in SUBSET Requests
    BY DEF Creating
  <2>. QED
    BY <2>1, CustomAssumption, FS_Subset, FS_CardinalityType
<1>2. ASSUME NEW q \in Requests, NEW c \in Contents, CountTests(q, c) PROVE LimitInv'
  <2>1. Owned' = Owned /\ Cardinality(Owned) < MaxTests
    BY <1>2 DEF CountTests, Owned, Exists
  <2>. QED
    BY <1>1, <2>1, Counts, CustomAssumption DEF LimitInv
<1>3. ASSUME NEW q \in Requests, InsertTest(q) PROVE LimitInv'
  <2>1. PICK t \in Tests : tests[t] = Unused /\ tests' = [tests EXCEPT ![t] = request[q].content]
    BY <1>3 DEF InsertTest
  <2>2. request[q].content \in Contents
    BY <1>3 DEF InsertTest, TypeInv, RequestOK
  <2>3. Owned' = Owned \union {t} /\ t \notin Owned
    BY <1>0, <2>1, <2>2, CustomAssumption DEF Owned, Exists
  <2>4. Creating' = Creating \ {q} /\ q \in Creating
    BY <1>0, <1>3 DEF InsertTest, Finish, Idle, Creating
  <2>5. Cardinality(Owned') = Cardinality(Owned) + 1
    BY <2>3, Counts, FS_AddElement
  <2>6. Cardinality(Creating') = Cardinality(Creating) - 1
    BY <2>4, Counts, FS_RemoveElement
  <2>. QED
    BY <2>5, <2>6, Counts, CustomAssumption DEF LimitInv
<1>4. CASE Owned' \subseteq Owned /\ Creating' \subseteq Creating
  <2>1. Cardinality(Owned') \in Nat /\ Cardinality(Owned') <= Cardinality(Owned)
    BY <1>4, Counts, FS_Subset, FS_CardinalityType
  <2>2. Cardinality(Creating') <= Cardinality(Creating)
    BY <1>4, Counts, FS_Subset
  <2>. QED
    BY <1>1, <2>1, <2>2, Counts, CustomAssumption DEF LimitInv
<1>. QED
  BY <1>2, <1>3, <1>4, CreatingStep

\* The limit of custom tests is only ever exceeded by the number of requests
\* racing past it: see TestsBounded.
THEOREM LimitNearlyHolds == ASSUME Requests # {} PROVE CustomSpec => []TestsBounded
<1>1. CustomInit => LimitInv
  <2> SUFFICES ASSUME CustomInit PROVE LimitInv
    OBVIOUS
  <2>1. Owned = {} /\ Creating = {}
    BY CustomAssumption DEF CustomInit, Owned, Exists, Creating, Idle
  <2>2. Cardinality(Requests) >= 1
    BY Counts, CustomAssumption, FS_EmptySet
  <2>. QED
    BY <2>1, <2>2, Counts, CustomAssumption, FS_EmptySet DEF LimitInv
<1>2. LimitInv => TestsBounded
  BY Counts, CustomAssumption DEF LimitInv, TestsBounded
<1>. QED
  BY <1>1, <1>2, NextLimit, TypeInvariant, PTL DEF CustomSpec

-----------------------------------------------------------------------------
(* Grading: the guardrails and the overall band *)

\* A set of bands has a lowest one.
LEMMA LowestOfBands ==
    ASSUME NEW S, S \subseteq 1..9, S # {}
    PROVE  Lowest(S) \in S /\ \A y \in S : Lowest(S) <= y
<1>1. \E x \in S : \A y \in S : x <= y
  <2>1. CASE 1 \in S  BY <2>1
  <2>2. CASE 1 \notin S /\ 2 \in S  BY <2>2
  <2>3. CASE 1 \notin S /\ 2 \notin S /\ 3 \in S  BY <2>3
  <2>4. CASE S \intersect 1..3 = {} /\ 4 \in S  BY <2>4
  <2>5. CASE S \intersect 1..4 = {} /\ 5 \in S  BY <2>5
  <2>6. CASE S \intersect 1..5 = {} /\ 6 \in S  BY <2>6
  <2>7. CASE S \intersect 1..6 = {} /\ 7 \in S  BY <2>7
  <2>8. CASE S \intersect 1..7 = {} /\ 8 \in S  BY <2>8
  <2>9. CASE S \intersect 1..8 = {}
    <3>1. \A x \in S : x = 9
      <4> TAKE x \in S
      <4>1. x \in 1..9 /\ x \notin 1..8  BY <2>9
      <4> QED  BY <4>1
    <3>2. PICK x \in S : TRUE  OBVIOUS
    <3>3. \A y \in S : x <= y  BY <3>1, <3>2
    <3> QED  BY <3>2, <3>3
  <2> QED  BY <2>1, <2>2, <2>3, <2>4, <2>5, <2>6, <2>7, <2>8, <2>9
<1> QED  BY <1>1 DEF Lowest

\* Every cap is a band from 3 to 7.
LEMMA CapsAreBands ==
    ASSUME NEW c, NEW m \in Measure, NEW p
    PROVE  CapsFor(c, m, p) \subseteq 3..7
<1>1. FewWords(c, m) \subseteq 3..7  BY DEF FewWords, Capped
<1>2. FluencyCaps(m) \subseteq 3..7  BY DEF FluencyCaps, Capped
<1>3. PronunciationCaps(m, p) \subseteq 3..7  BY DEF PronunciationCaps, Capped
<1> QED  BY <1>1, <1>2, <1>3 DEF CapsFor

\* A capped band is a band, no higher than the judged one or any of its caps.
LEMMA Capping ==
    ASSUME NEW band \in 1..9, NEW caps, caps \subseteq 3..7
    PROVE  /\ ApplyCaps(band, caps) \in 1..9
           /\ ApplyCaps(band, caps) <= band
           /\ \A x \in caps : ApplyCaps(band, caps) <= x
<1>1. caps \union {band} \subseteq 1..9 /\ caps \union {band} # {}  OBVIOUS
<1> QED  BY <1>1, LowestOfBands DEF ApplyCaps

\* The caps allow a band if and only if none of them is lower.
LEMMA CapsAllow ==
    ASSUME NEW c \in Criteria, NEW m \in Measure, NEW p, NEW x \in 1..9
    PROVE  Allowed(c, x, m, p) <=> \A y \in CapsFor(c, m, p) : x <= y
<1>0. /\ m.words \in Nat /\ m.talk \in Nat /\ m.pauses \in Nat
      /\ m.rate \in Nat /\ m.clear \in Nat /\ m.pitch \in Nat
  BY DEF Measure
<1>1. (\A y \in FewWords(c, m) : x <= y) <=> (m.words < 40 => x <= 3)
  BY <1>0 DEF FewWords, Capped
<1> DEFINE Fluent == /\ Mode \in {"full", "part2"} => (m.talk < 450 => x <= 5) /\ (m.talk < 600 => x <= 6)
                     /\ Mode = "part1" => x <= 7
                     /\ (m.pauses > 600 => x <= 5) /\ (m.pauses > 1000 => x <= 4)
                     /\ m.words >= 40 => (m.rate < 700 => x <= 5) /\ (m.rate < 500 => x <= 4)
           Clear == IF p = "measured"
                    THEN /\ (m.clear < 85 => x <= 6) /\ (m.clear < 75 => x <= 5)
                         /\ (m.clear < 60 => x <= 4) /\ (m.pitch > 0 /\ m.pitch < 15 => x <= 6)
                    ELSE x <= 7
<1>2. (\A y \in FluencyCaps(m) : x <= y) <=> Fluent
  <2> DEFINE Below(S) == \A y \in S : x <= y
             Short == Capped(Mode \in {"full", "part2"} /\ m.talk < 450, 5)
             Medium == Capped(Mode \in {"full", "part2"} /\ m.talk \in 450..599, 6)
             First == Capped(Mode = "part1", 7)
             Halting == Capped(m.pauses > 1000, 4)
             Pausing == Capped(m.pauses \in 601..1000, 5)
             Slowest == Capped(m.words >= 40 /\ m.rate < 500, 4)
             Slow == Capped(m.words >= 40 /\ m.rate \in 500..699, 5)
  <2>1. FluencyCaps(m) = UNION {Short, Medium, First, Halting, Pausing, Slowest, Slow}
    BY DEF FluencyCaps
  <2>2. Below(Short) /\ Below(Medium)
        <=> (Mode \in {"full", "part2"} => (m.talk < 450 => x <= 5) /\ (m.talk < 600 => x <= 6))
    BY <1>0 DEF Capped
  <2>3. Below(First) <=> (Mode = "part1" => x <= 7)  BY DEF Capped
  <2>4. Below(Halting) /\ Below(Pausing)
        <=> (m.pauses > 600 => x <= 5) /\ (m.pauses > 1000 => x <= 4)
    BY <1>0 DEF Capped
  <2>5. Below(Slowest) /\ Below(Slow)
        <=> (m.words >= 40 => (m.rate < 700 => x <= 5) /\ (m.rate < 500 => x <= 4))
    BY <1>0 DEF Capped
  <2> HIDE DEF Short, Medium, First, Halting, Pausing, Slowest, Slow
  <2>6. Below(FluencyCaps(m))
        <=> /\ Below(Short) /\ Below(Medium) /\ Below(First) /\ Below(Halting) /\ Below(Pausing)
            /\ Below(Slowest) /\ Below(Slow)
    BY <2>1
  <2> HIDE DEF Below
  <2>7. Below(FluencyCaps(m)) <=> Fluent  BY <2>2, <2>3, <2>4, <2>5, <2>6
  <2> QED  BY <2>7 DEF Below
<1>3. (\A y \in PronunciationCaps(m, p) : x <= y) <=> Clear
  BY <1>0 DEF PronunciationCaps, Capped
<1>4. (\A y \in CapsFor(c, m, p) : x <= y)
      <=> /\ \A y \in FewWords(c, m) : x <= y
          /\ c = "FC" => \A y \in FluencyCaps(m) : x <= y
          /\ c = "P" => \A y \in PronunciationCaps(m, p) : x <= y
  BY DEF CapsFor
<1>5. Allowed(c, x, m, p) <=> /\ m.words < 40 => x <= 3
                              /\ c = "FC" => Fluent
                              /\ c = "P" => Clear
  BY DEF Allowed
<1> QED  BY <1>1, <1>2, <1>3, <1>4, <1>5

\* applyCaps finds the highest band that is allowed, up to the judged one.
LEMMA HighestAllowed ==
    ASSUME NEW c \in Criteria, NEW m \in Measure, NEW p, NEW band \in 1..9
    PROVE  LET capped == ApplyCaps(band, CapsFor(c, m, p))
           IN  /\ capped <= band /\ Allowed(c, capped, m, p)
               /\ \A x \in capped + 1..band : ~Allowed(c, x, m, p)
<1> DEFINE caps == CapsFor(c, m, p)
           capped == ApplyCaps(band, caps)
<1>1. caps \subseteq 3..7  BY CapsAreBands
<1> HIDE DEF caps
<1>2. capped \in caps \union {band} /\ \A y \in caps \union {band} : capped <= y
  <2>1. caps \union {band} \subseteq 1..9 /\ caps \union {band} # {}  BY <1>1
  <2> QED  BY <2>1, LowestOfBands DEF ApplyCaps
<1> HIDE DEF capped
<1>3. capped \in 1..9 /\ capped <= band  BY <1>1, <1>2
<1>4. Allowed(c, capped, m, p)  BY <1>2, <1>3, CapsAllow DEF caps
<1>5. ASSUME NEW x \in capped + 1..band PROVE ~Allowed(c, x, m, p)
  <2>1. x \in 1..9 /\ capped # band /\ ~(x <= capped)  BY <1>3
  <2>2. capped \in caps  BY <1>2, <2>1
  <2> QED  BY <2>1, <2>2, CapsAllow DEF caps
<1> QED  BY <1>3, <1>4, <1>5 DEF capped, caps

\* IELTSOverall rounds the mean to the nearest half band, ties upwards.
LEMMA Rounding ==
    ASSUME NEW sum \in Nat, NEW n \in {3, 4}
    PROVE  /\ IELTSOverall(sum, n) \in Nat
           /\ -n <= 2 * (2 * sum - n * IELTSOverall(sum, n))
           /\ 2 * (2 * sum - n * IELTSOverall(sum, n)) < n
<1>1. CASE n = 3  BY <1>1 DEF IELTSOverall
<1>2. CASE n = 4  BY <1>2 DEF IELTSOverall
<1> QED  BY <1>1, <1>2

\* The bands of a grade put together from valid verdicts.
LEMMA BandsOfGrade ==
    ASSUME NEW m \in Measure, NEW parts,
           verdict \in [Criteria -> -1..9], \A c \in Rated : verdict[c] \in 1..9
    PROVE  LET g == GradeOf(m, parts)
           IN  /\ g.band \in [Criteria -> 0..9]
               /\ \A c \in Rated : /\ g.band[c] \in 1..9
                                   /\ g.band[c] <= verdict[c]
                                   /\ \A x \in CapsFor(c, m, pron) : g.band[c] <= x
<1> DEFINE band == [c \in Criteria |-> IF c \in Rated
                       THEN ApplyCaps(verdict[c], CapsFor(c, m, pron)) ELSE Asked]
<1>1. Rated \subseteq Criteria  BY DEF Rated
<1>2. ASSUME NEW c \in Rated
      PROVE  /\ band[c] \in 1..9 /\ band[c] <= verdict[c]
             /\ \A x \in CapsFor(c, m, pron) : band[c] <= x
  BY <1>1, CapsAreBands, Capping
<1>3. \A c \in Criteria : c \notin Rated => band[c] = 0  BY DEF Asked
<1>4. band = [c \in Criteria |-> band[c]]  OBVIOUS
<1>5. band \in [Criteria -> 0..9]
  <2> HIDE DEF band
  <2>1. \A c \in Criteria : band[c] \in 0..9
    <3> TAKE c \in Criteria
    <3>1. CASE c \in Rated  BY <1>2, <3>1
    <3>2. CASE c \notin Rated  BY <1>3, <3>2
    <3> QED  BY <3>1, <3>2
  <2> QED  BY <1>4, <2>1
<1>6. GradeOf(m, parts).band = band  BY DEF GradeOf
<1> QED  BY <1>2, <1>5, <1>6

\* Its overall band is that of the mean of the rated criteria.
LEMMA OverallOfGrade ==
    ASSUME NEW m \in Measure, NEW parts,
           verdict \in [Criteria -> -1..9], \A c \in Rated : verdict[c] \in 1..9
    PROVE  LET g == GradeOf(m, parts)
           IN  /\ SumOf(g.band) \in Nat /\ Count \in {3, 4}
               /\ SumOf(g.band) <= 9 * Count
               /\ m.words < 40 => SumOf(g.band) <= 3 * Count
               /\ g.overall = IELTSOverall(SumOf(g.band), Count)
<1> DEFINE g == GradeOf(m, parts)
<1>1. g.band \in [Criteria -> 0..9]  BY BandsOfGrade
<1>2. SumOf(g.band) \in Nat /\ Count \in {3, 4} /\ SumOf(g.band) <= 9 * Count
  BY <1>1 DEF SumOf, Count, Criteria
<1>3. ASSUME m.words < 40 PROVE SumOf(g.band) <= 3 * Count
  <2>1. \A c \in Rated : 3 \in CapsFor(c, m, pron)
    BY <1>3 DEF CapsFor, FewWords, Capped, Rated
  <2>2. \A c \in Rated : g.band[c] <= 3  BY <2>1, BandsOfGrade
  <2>3. {"FC", "LR", "GRA"} \subseteq Rated /\ (config # "off" => "P" \in Rated)
    BY DEF Rated, Criteria
  <2>4. g.band["FC"] <= 3 /\ g.band["LR"] <= 3 /\ g.band["GRA"] <= 3
        /\ (config # "off" => g.band["P"] <= 3)
    BY <2>2, <2>3
  <2> QED  BY <1>1, <2>4 DEF SumOf, Count, Criteria
<1>4. g.overall = IELTSOverall(SumOf(g.band), Count)  BY DEF GradeOf
<1> QED  BY <1>2, <1>3, <1>4

-----------------------------------------------------------------------------
(* Grading: the inductive invariant *)

HeardAll == \A a \in Answers : clip[a] \in Heard
Inputs == {r \in Reviewed : HasInput(r)}

\* What the stages an attempt has been through have established.
Progress ==
    /\ stage # "waiting" => attempt \in 1..MaxAttempts
    /\ \A a \in Answers : clip[a] = "running" => stage = "transcribing"
    /\ stage = "assessing" => config = "service"
    /\ stage \in {"assessing", "judging", "combining", "graded"} => HeardAll
    /\ stage \in {"combining", "graded"} => \A c \in Rated : verdict[c] \in 1..9
    /\ stage \in {"judging", "combining", "graded"} =>
         /\ pron = "none" <=> config = "off"
         /\ pron = "estimated" => LastAttempt \/ config = "none"
         /\ review[attempt].left \union review[attempt].done \subseteq Inputs

\* A grade is what Combine put together from the attempt's own material.
Combined ==
    IF stage = "graded"
    THEN \E m \in Measures, parts \in SUBSET Inputs : grade = GradeOf(m, parts)
    ELSE grade = NoGrade

BaseOK ==
    /\ config \in {"off", "none", "service"}
    /\ attempt \in 0..MaxAttempts
    /\ stage \in Stages
    /\ expired \in {"no"} \union (Stages \ Over)
    /\ clip \in [Answers -> Clips]
    /\ sample \subseteq Answers
    /\ pron \in {"none", "measured", "estimated"}
    /\ verdict \in [Criteria -> -1..9]
    /\ review \in [1..MaxAttempts -> Review]

IInv == BaseOK /\ Progress /\ Combined

\* The properties follow from the invariant.
LEMMA GradeFromInvariant ==
    ASSUME GradeAssumption, IInv
    PROVE  TypeOK /\ GradeIsWhole /\ EstimateIsLastResort /\ FewWordsFewBands /\ GuardrailsHold
           /\ OverallIsNearest
<1>1. CASE stage # "graded"
  <2>1. grade = NoGrade  BY <1>1 DEF IInv, Combined
  <2> QED  BY <2>1 DEF IInv, BaseOK, TypeOK, GradeIsWhole, EstimateIsLastResort,
                       FewWordsFewBands, GuardrailsHold, OverallIsNearest, IsGraded
<1>2. CASE stage = "graded"
  <2>1. PICK m \in Measures, parts \in SUBSET Inputs : grade = GradeOf(m, parts)
    BY <1>2 DEF IInv, Combined
  <2>2. m \in Measure  BY DEF GradeAssumption
  <2>3. /\ verdict \in [Criteria -> -1..9] /\ HeardAll
        /\ \A c \in Rated : verdict[c] \in 1..9
        /\ attempt \in 1..MaxAttempts
        /\ pron \in {"none", "measured", "estimated"}
        /\ pron = "none" <=> config = "off"
        /\ pron = "estimated" => LastAttempt \/ config = "none"
    BY <1>2 DEF IInv, BaseOK, Progress
  <2>4. /\ grade.attempt = attempt /\ grade.pron = pron /\ grade.judged = verdict
        /\ grade.measured = m /\ grade.parts = parts
    BY <2>1 DEF GradeOf
  <2>5. /\ grade.band \in [Criteria -> 0..9]
        /\ \A c \in Rated : \A x \in CapsFor(c, m, pron) : grade.band[c] <= x
    BY <2>1, <2>2, <2>3, BandsOfGrade
  <2>6. /\ SumOf(grade.band) \in Nat /\ Count \in {3, 4}
        /\ SumOf(grade.band) <= 9 * Count
        /\ m.words < 40 => SumOf(grade.band) <= 3 * Count
        /\ grade.overall = IELTSOverall(SumOf(grade.band), Count)
    BY <2>1, <2>2, <2>3, OverallOfGrade
  <2>7. /\ grade.overall \in Nat
        /\ -Count <= 2 * (2 * SumOf(grade.band) - Count * grade.overall)
        /\ 2 * (2 * SumOf(grade.band) - Count * grade.overall) < Count
    BY <2>6, Rounding
  <2>8. OverallIsNearest  BY <2>7 DEF OverallIsNearest
  <2>9. grade.overall <= 18 /\ (m.words < 40 => grade.overall <= 6)
    <3>1. CASE Count = 3  BY <2>6, <2>7, <3>1
    <3>2. CASE Count = 4  BY <2>6, <2>7, <3>2
    <3> QED  BY <2>6, <3>1, <3>2
  <2>10. FewWordsFewBands  BY <2>4, <2>9 DEF FewWordsFewBands
  <2>11. GradeIsWhole  BY <2>3, <2>4 DEF GradeIsWhole, HeardAll, Inputs
  <2>12. EstimateIsLastResort
    <3>1. ASSUME pron = "estimated" PROVE grade.band["P"] <= 7
      <4>1. "P" \in Rated  BY <2>3, <3>1 DEF Rated, Criteria
      <4>2. 7 \in CapsFor("P", m, pron)  BY <3>1 DEF CapsFor, PronunciationCaps
      <4> QED  BY <2>5, <4>1, <4>2
    <3> QED  BY <2>3, <2>4, <3>1 DEF EstimateIsLastResort
  <2>13. grade \in Grades
    <3>1. grade.overall \in 0..18  BY <2>7, <2>9
    <3>2. grade.band \in [Criteria -> -1..9]  BY <2>5
    <3>3. parts \in SUBSET Parts  BY DEF Inputs, GradeAssumption
    <3>4. grade = [attempt |-> attempt, pron |-> pron, judged |-> verdict, measured |-> m,
                   band |-> grade.band, overall |-> grade.overall, parts |-> parts]
      BY <2>1 DEF GradeOf
    <3> QED  BY <2>2, <2>3, <3>1, <3>2, <3>3, <3>4 DEF Grades
  <2>14. TypeOK  BY <2>13 DEF TypeOK, IInv, BaseOK
  <2>15. GuardrailsHold
    <3> SUFFICES ASSUME NEW c \in Rated
                 PROVE  /\ grade.band[c] <= verdict[c] /\ Allowed(c, grade.band[c], m, pron)
                        /\ \A x \in grade.band[c] + 1..verdict[c] : ~Allowed(c, x, m, pron)
      BY <2>4 DEF GuardrailsHold
    <3>1. c \in Criteria /\ verdict[c] \in 1..9  BY <2>3 DEF Rated
    <3>2. grade.band[c] = ApplyCaps(verdict[c], CapsFor(c, m, pron))  BY <2>1, <3>1 DEF GradeOf
    <3> QED  BY <2>2, <3>1, <3>2, HighestAllowed
  <2> QED  BY <2>8, <2>10, <2>11, <2>12, <2>14, <2>15
<1> QED  BY <1>1, <1>2

-----------------------------------------------------------------------------
(* Grading: the invariant is inductive *)

LEMMA InitInvariant ==
    ASSUME GradeAssumption, Init
    PROVE  IInv
<1> USE DEF Init
<1>1. BaseOK  BY DEF GradeAssumption, BaseOK, Stages, Over, Clips, Criteria, Asked, Review, NoReview
<1>2. Progress  BY DEF Progress
<1>3. Combined  BY DEF Combined
<1> QED  BY <1>1, <1>2, <1>3 DEF IInv

\* What Combined speaks of, and the inputs of the reviews, stay as they are.
LEMMA SameGrade ==
    ASSUME Combined, UNCHANGED <<config, attempt, stage, clip, pron, verdict, grade>>
    PROVE  Combined'
BY DEF Combined, GradeOf, Inputs, HasInput, Rated, SumOf, Count

LEMMA SameInputs ==
    ASSUME UNCHANGED clip
    PROVE  Inputs' = Inputs
BY DEF Inputs, HasInput

\* An attempt that fails forgets everything but the reviews it started.
LEMMA EndAttemptKeeps ==
    ASSUME GradeAssumption, IInv, stage \notin Over, EndAttempt
    PROVE  IInv'
<1> USE DEF IInv, EndAttempt
<1>1. BaseOK'  BY DEF BaseOK, Stages, Over, Clips, Criteria, Asked
<1>2. Progress'  BY DEF Progress, Over
<1>3. Combined'  BY DEF Combined, Over
<1> QED  BY <1>1, <1>2, <1>3

LEMMA StartJudgingKeeps ==
    ASSUME GradeAssumption, IInv, stage \in {"transcribing", "assessing"}, HeardAll,
           NEW p \in {"none", "measured", "estimated"},
           p = "none" <=> config = "off",
           p = "estimated" => LastAttempt \/ config = "none",
           StartJudging(p)
    PROVE  IInv'
<1> USE DEF IInv, StartJudging
<1>1. attempt \in 1..MaxAttempts  BY DEF Progress
<1>2. Inputs \subseteq Parts  BY DEF Inputs, GradeAssumption
<1>3. review'[attempt] = [at |-> "writing", left |-> Inputs, done |-> {}]
  BY <1>1 DEF BaseOK, Inputs
<1>4. BaseOK'
  <2>1. review' \in [1..MaxAttempts -> Review]  BY <1>2 DEF BaseOK, Review, Inputs
  <2> QED  BY <2>1 DEF BaseOK, Stages
<1>5. Progress'
  <2>1. /\ HeardAll' /\ Inputs' = Inputs /\ LastAttempt' = LastAttempt
        /\ \A a \in Answers : clip'[a] # "running"
    BY SameInputs DEF HeardAll, Heard, LastAttempt
  <2> QED  BY <1>1, <1>3, <2>1 DEF Progress
<1>6. Combined'  BY DEF Combined
<1> QED  BY <1>4, <1>5, <1>6

LEMMA UnavailableKeeps ==
    ASSUME GradeAssumption, IInv, stage \in {"transcribing", "assessing"}, HeardAll,
           config # "off", Unavailable
    PROVE  IInv'
<1>1. CASE ~LastAttempt /\ config = "service"
  BY <1>1, EndAttemptKeeps DEF Unavailable, Over
<1>2. CASE LastAttempt \/ config # "service"
  BY <1>2, StartJudgingKeeps DEF Unavailable, IInv, BaseOK
<1> QED  BY <1>1, <1>2

\* The steps of an attempt, one by one.

LEMMA StartKeeps ==
    ASSUME GradeAssumption, IInv, Start
    PROVE  IInv'
<1> USE DEF IInv, Start
<1>1. BaseOK' /\ attempt' \in 1..MaxAttempts  BY DEF BaseOK, Stages, GradeAssumption
<1>2. Progress'  BY <1>1 DEF Progress
<1>3. Combined'  BY DEF Combined
<1> QED  BY <1>1, <1>2, <1>3

LEMMA ExpireKeeps ==
    ASSUME GradeAssumption, IInv, Expire
    PROVE  IInv'
<1> USE DEF IInv, Expire
<1>1. BaseOK'  BY DEF BaseOK
<1>2. Progress'
  <2>1. Inputs' = Inputs /\ HeardAll' = HeardAll /\ LastAttempt' = LastAttempt /\ Rated' = Rated
    BY SameInputs DEF HeardAll, LastAttempt, Rated
  <2> QED  BY <2>1 DEF Progress
<1>3. Combined'  BY SameGrade
<1> QED  BY <1>1, <1>2, <1>3

LEMMA ClipStepKeeps ==
    ASSUME GradeAssumption, IInv, NEW a \in Answers, Acquire(a) \/ Transcribe(a)
    PROVE  IInv'
<1>1. stage = "transcribing"
      /\ UNCHANGED <<config, attempt, stage, expired, sample, pron, verdict, review, grade>>
  BY DEF Acquire, Transcribe, IInv, Progress
<1>2. clip' \in [Answers -> Clips]
  BY DEF Acquire, Transcribe, IInv, BaseOK, Clips
<1>3. BaseOK'  BY <1>1, <1>2 DEF IInv, BaseOK
<1>4. Progress'  BY <1>1 DEF IInv, Progress
<1>5. Combined'  BY <1>1 DEF IInv, Combined
<1> QED  BY <1>3, <1>4, <1>5 DEF IInv

LEMMA TranscribedKeeps ==
    ASSUME GradeAssumption, IInv, Transcribed
    PROVE  IInv'
<1>1. stage = "transcribing" /\ stage \notin Over  BY DEF Transcribed, Over
<1>2. CASE EndAttempt  BY <1>1, <1>2, EndAttemptKeeps
<1>3. CASE (\A a \in Answers : clip[a] # "lost") /\ ~EndAttempt
  <2>1. HeardAll  BY <1>3 DEF Transcribed, HeardAll
  <2>2. CASE config = "off" /\ StartJudging("none")
    BY <1>1, <2>1, <2>2, StartJudgingKeeps
  <2>3. CASE config # "off" /\ Unavailable  BY <1>1, <2>1, <2>3, UnavailableKeeps
  <2>4. CASE /\ config = "service" /\ stage' = "assessing"
             /\ \E picked \in SUBSET Assessable \ {{}} : sample' = picked
             /\ UNCHANGED <<config, attempt, expired, clip, pron, verdict, review, grade>>
    <3>1. sample' \subseteq Answers  BY <2>4 DEF Assessable
    <3>2. BaseOK'  BY <2>4, <3>1 DEF IInv, BaseOK, Stages
    <3>3. HeardAll' /\ \A a \in Answers : clip'[a] # "running"
      BY <2>1, <2>4 DEF HeardAll, Heard
    <3>4. Progress'  BY <1>1, <2>4, <3>3 DEF IInv, Progress
    <3>5. Combined'  BY <1>1, <2>4 DEF IInv, Combined
    <3> QED  BY <3>2, <3>4, <3>5 DEF IInv
  <2> QED  BY <1>3, <2>2, <2>3, <2>4 DEF Transcribed
<1> QED  BY <1>2, <1>3 DEF Transcribed

LEMMA AssessKeeps ==
    ASSUME GradeAssumption, IInv, AssessFails \/ \E a \in Answers : Assess(a)
    PROVE  IInv'
<1>1. stage = "assessing" /\ HeardAll /\ config = "service"
  BY DEF AssessFails, Assess, IInv, Progress
<1>2. CASE AssessFails  BY <1>1, <1>2, UnavailableKeeps DEF AssessFails
<1>3. ASSUME NEW a \in Answers, Assess(a) PROVE IInv'
  <2>1. CASE sample = {a}
    BY <1>1, <1>3, <2>1, StartJudgingKeeps, UnavailableKeeps DEF Assess
  <2>2. CASE sample # {a}
    <3>1. /\ sample' = sample \ {a}
          /\ UNCHANGED <<config, attempt, stage, expired, clip, pron, verdict, review, grade>>
      BY <1>3, <2>2 DEF Assess
    <3>2. BaseOK'  BY <3>1 DEF IInv, BaseOK
    <3>3. Progress'  BY <1>1, <3>1 DEF IInv, Progress, HeardAll
    <3>4. Combined'  BY <1>1, <3>1 DEF IInv, Combined
    <3> QED  BY <3>2, <3>3, <3>4 DEF IInv
  <2> QED  BY <2>1, <2>2
<1> QED  BY <1>2, <1>3

LEMMA JudgeKeeps ==
    ASSUME GradeAssumption, IInv, NEW c \in Criteria, Judge(c)
    PROVE  IInv'
<1>1. /\ stage = "judging"
      /\ UNCHANGED <<config, attempt, stage, expired, clip, sample, pron, review, grade>>
  BY DEF Judge
<1>2. verdict' \in [Criteria -> -1..9]
  BY DEF Judge, IInv, BaseOK, Broken
<1>3. BaseOK'  BY <1>1, <1>2 DEF IInv, BaseOK
<1>4. Progress'
  <2>1. Inputs' = Inputs /\ HeardAll' = HeardAll /\ LastAttempt' = LastAttempt
    BY <1>1, SameInputs DEF HeardAll, LastAttempt
  <2> QED  BY <1>1, <2>1 DEF IInv, Progress
<1>5. Combined'  BY <1>1 DEF IInv, Combined
<1> QED  BY <1>3, <1>4, <1>5 DEF IInv

LEMMA JudgedKeeps ==
    ASSUME GradeAssumption, IInv, Judged
    PROVE  IInv'
<1>1. stage = "judging" /\ stage \notin Over  BY DEF Judged, Over
<1>2. CASE EndAttempt  BY <1>1, <1>2, EndAttemptKeeps
<1>3. CASE /\ \A c \in Rated : verdict[c] # Broken
           /\ stage' = "combining"
           /\ UNCHANGED <<config, attempt, expired, clip, sample, pron, verdict, review, grade>>
  <2>1. \A c \in Rated : verdict[c] \in 1..9
    BY <1>3 DEF Judged, IInv, BaseOK, Asked, Broken, Rated
  <2>2. Inputs' = Inputs /\ HeardAll' = HeardAll /\ LastAttempt' = LastAttempt /\ Rated' = Rated
    BY <1>3, SameInputs DEF HeardAll, LastAttempt, Rated
  <2>3. BaseOK'  BY <1>3 DEF IInv, BaseOK, Stages
  <2>4. Progress'  BY <1>1, <1>3, <2>1, <2>2 DEF IInv, Progress
  <2>5. Combined'  BY <1>1, <1>3 DEF IInv, Combined
  <2> QED  BY <2>3, <2>4, <2>5 DEF IInv
<1> QED  BY <1>2, <1>3 DEF Judged

\* A review goroutine only takes parts off what it has left.
LEMMA ReviewStepKeeps ==
    ASSUME GradeAssumption, IInv, NEW k \in 1..MaxAttempts,
           SendReviews(k) \/ \E part \in Parts : WriteReview(k, part)
    PROVE  IInv'
<1>1. UNCHANGED <<config, attempt, stage, expired, clip, sample, pron, verdict, grade>>
  BY DEF SendReviews, WriteReview
<1>2. /\ review' \in [1..MaxAttempts -> Review]
      /\ \A j \in 1..MaxAttempts :
           review'[j].left \union review'[j].done \subseteq review[j].left \union review[j].done
  <2>1. review \in [1..MaxAttempts -> Review]  BY DEF IInv, BaseOK
  <2>2. CASE SendReviews(k)  BY <2>1, <2>2 DEF SendReviews, Review
  <2>3. ASSUME NEW part \in Parts, WriteReview(k, part)
        PROVE  <1>2!1 /\ <1>2!2
    <3>1. PICK written \in {{part}, {}} :
            review' = [review EXCEPT ![k].left = @ \ {part}, ![k].done = @ \union written]
      BY <2>3 DEF WriteReview
    <3>2. part \in review[k].left  BY <2>3 DEF WriteReview
    <3>3. review'[k] = [at |-> review[k].at, left |-> review[k].left \ {part},
                        done |-> review[k].done \union written]
      BY <2>1, <3>1 DEF Review
    <3>4. \A j \in 1..MaxAttempts : j # k => review'[j] = review[j]  BY <2>1, <3>1
    <3>5. review'[k] \in Review  BY <2>1, <3>2, <3>3 DEF Review
    <3>6. review' \in [1..MaxAttempts -> Review]  BY <2>1, <3>1, <3>4, <3>5
    <3> QED  BY <3>2, <3>3, <3>4, <3>6
  <2> QED  BY <2>2, <2>3
<1>3. BaseOK'  BY <1>1, <1>2 DEF IInv, BaseOK
<1>4. Progress'
  <2>1. /\ Inputs' = Inputs /\ HeardAll' = HeardAll /\ LastAttempt' = LastAttempt
        /\ Rated' = Rated
    BY <1>1, SameInputs DEF HeardAll, LastAttempt, Rated
  <2>2. stage # "waiting" =>
          review'[attempt].left \union review'[attempt].done
            \subseteq review[attempt].left \union review[attempt].done
    BY <1>2 DEF IInv, Progress
  <2> QED  BY <1>1, <2>1, <2>2 DEF IInv, Progress
<1>5. Combined'  BY <1>1, SameGrade DEF IInv
<1> QED  BY <1>3, <1>4, <1>5 DEF IInv

LEMMA CombineKeeps ==
    ASSUME GradeAssumption, IInv, Combine
    PROVE  IInv'
<1>1. /\ stage = "combining" /\ stage' = "graded" /\ attempt \in 1..MaxAttempts
      /\ review' = [review EXCEPT ![attempt].at = "taken"]
      /\ UNCHANGED <<config, attempt, expired, clip, sample, pron, verdict>>
  BY DEF Combine, IInv, Progress
<1>2. /\ review' \in [1..MaxAttempts -> Review]
      /\ review'[attempt].left = review[attempt].left
      /\ review'[attempt].done = review[attempt].done
  BY <1>1 DEF IInv, BaseOK, Review
<1>3. BaseOK'  BY <1>1, <1>2 DEF IInv, BaseOK, Stages
<1>4. /\ Inputs' = Inputs /\ HeardAll' = HeardAll /\ LastAttempt' = LastAttempt
      /\ Rated' = Rated
  BY <1>1, SameInputs DEF HeardAll, LastAttempt, Rated
<1>5. Progress'  BY <1>1, <1>2, <1>4 DEF IInv, Progress
<1>6. Combined'
  <2>1. PICK m \in Measured : grade' = GradeOf(m, review[attempt].done)  BY DEF Combine
  <2>2. m \in Measures  BY DEF Measured
  <2>3. review[attempt].done \in SUBSET Inputs  BY <1>1 DEF IInv, Progress
  <2>4. grade' = GradeOf(m, review[attempt].done)'
    BY <1>1, <1>2, <2>1 DEF GradeOf, Rated, SumOf, Count
  <2> QED  BY <1>1, <1>2, <1>4, <2>2, <2>3, <2>4 DEF Combined
<1> QED  BY <1>3, <1>5, <1>6 DEF IInv

LEMMA StepInvariant ==
    ASSUME GradeAssumption, IInv, [Next]_vars
    PROVE  IInv'
<1>1. CASE UNCHANGED vars
  <2>1. /\ Inputs' = Inputs /\ HeardAll' = HeardAll /\ LastAttempt' = LastAttempt
        /\ Rated' = Rated
    BY <1>1, SameInputs DEF vars, HeardAll, LastAttempt, Rated
  <2>2. BaseOK' /\ Progress'  BY <1>1, <2>1 DEF vars, IInv, BaseOK, Progress
  <2>3. Combined'  BY <1>1, SameGrade DEF vars, IInv
  <2> QED  BY <2>2, <2>3 DEF IInv
<1>2. CASE Start  BY <1>2, StartKeeps
<1>3. CASE Expire  BY <1>3, ExpireKeeps
<1>4. CASE Transcribed  BY <1>4, TranscribedKeeps
<1>5. CASE AssessFails \/ \E a \in Answers : Assess(a)  BY <1>5, AssessKeeps
<1>6. CASE Judged  BY <1>6, JudgedKeeps
<1>7. CASE Combine  BY <1>7, CombineKeeps
<1>8. ASSUME NEW a \in Answers, Acquire(a) \/ Transcribe(a) PROVE IInv'
  BY <1>8, ClipStepKeeps
<1>9. ASSUME NEW c \in Criteria, Judge(c) PROVE IInv'  BY <1>9, JudgeKeeps
<1>10. ASSUME NEW k \in 1..MaxAttempts,
              SendReviews(k) \/ \E part \in Parts : WriteReview(k, part)
       PROVE  IInv'
  BY <1>10, ReviewStepKeeps
<1> QED
  BY <1>1, <1>2, <1>3, <1>4, <1>5, <1>6, <1>7, <1>8, <1>9, <1>10 DEF Next

\* The inductive invariant, with the properties it carries.
THEOREM GradeInvariant == Spec => [](IInv /\ TypeOK /\ GradeIsWhole /\ EstimateIsLastResort
                                      /\ FewWordsFewBands /\ GuardrailsHold /\ OverallIsNearest)
<1>1. Init => IInv  BY GradeAssumption, InitInvariant
<1>2. IInv /\ [Next]_vars => IInv'  BY GradeAssumption, StepInvariant
<1>3. IInv => TypeOK /\ GradeIsWhole /\ EstimateIsLastResort
              /\ FewWordsFewBands /\ GuardrailsHold /\ OverallIsNearest
  BY GradeAssumption, GradeFromInvariant
<1> QED  BY <1>1, <1>2, <1>3, PTL DEF Spec

-----------------------------------------------------------------------------
(* Grading: the properties the runs check *)

\* Everything stays in its set, for any answers, slots and attempts: the
\* overall band of a grade is a band (IELTSOverall, applyCaps).
THEOREM GradeTypeCorrect == Spec => []TypeOK
BY GradeInvariant, PTL

\* Only complete material of one attempt is graded (Grade, transcribeAll,
\* judgeAll, rewriteAll).
THEOREM GradesAreWhole == Spec => []GradeIsWhole
BY GradeInvariant, PTL

\* Pronunciation is estimated only when no attempt could measure it, and an
\* estimate earns at most a 7 (Grade, capsFor).
THEOREM EstimatesAreLastResort == Spec => []EstimateIsLastResort
BY GradeInvariant, PTL

\* Under 40 words no band is above 3, whatever the judges answer and whatever
\* else is measured (capsFor, applyCaps, IELTSOverall).
THEOREM FewWordsCapEverything == Spec => []FewWordsFewBands
BY GradeInvariant, PTL

\* Each band is the highest, up to the judge's, that the measurements allow
\* (capsFor, applyCaps).
THEOREM GuardrailsAreExact == Spec => []GuardrailsHold
BY GradeInvariant, PTL

\* The overall band is the half band nearest to the mean (IELTSOverall).
THEOREM OverallRoundsToNearest == Spec => []OverallIsNearest
BY GradeInvariant, PTL

\* All of that together, as the run checks it: see GradeIsSound.
THEOREM GradesAreSound == Spec => []GradeIsSound
<1>1. GradeIsWhole /\ EstimateIsLastResort /\ FewWordsFewBands /\ GuardrailsHold
      /\ OverallIsNearest => GradeIsSound
  BY DEF GradeIsSound
<1> QED  BY <1>1, GradeInvariant, PTL

=============================================================================
