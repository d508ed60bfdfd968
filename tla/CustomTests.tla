---------------------------- MODULE CustomTests ----------------------------
(***************************************************************************)
(* One user's custom speaking tests: several requests of that user create, *)
(* edit, delete and take them at once.  Every request is a few database    *)
(* statements without a transaction, with moderation (a call to another    *)
(* service) between the check and the write, and taking a test lasts as    *)
(* long as the exam.                                                       *)
(*                                                                         *)
(* A content stands for all questions of a test.  Question ids are         *)
(* positions, so answers to one content often pass for answers to another. *)
(***************************************************************************)
EXTENDS Integers, Sequences, FiniteSets

CONSTANTS
    Tests,        \* ids: AUTO_INCREMENT never hands one out twice
    Contents,     \* what a test may ask
    Requests,     \* requests of the user at one time
    MaxTests,     \* maxCustomTests
    MaxSubmissions, \* bound on the submissions
    Unused, Deleted, None

ASSUME CustomAssumption ==
    /\ IsFiniteSet(Tests) /\ IsFiniteSet(Requests)
    /\ Unused \notin Contents /\ Deleted \notin Contents /\ None \notin Contents
    /\ Unused # Deleted /\ None \notin Tests
    /\ MaxTests \in Nat \ {0} /\ MaxSubmissions \in Nat

VARIABLES
    tests,     \* per id: its content, Unused or Deleted
    attempts,  \* submissions: of which test, the content answered, the content judged
    request    \* per request: where it is and what it has read

customVars == <<tests, attempts, request>>

Idle == [pc |-> "idle", test |-> None, content |-> None, seen |-> 0]

Exists(t) == tests[t] \in Contents
Owned == {t \in Tests : Exists(t)}
Attempted(t) == \E i \in DOMAIN attempts : attempts[i].test = t

Finish(q) == request' = [request EXCEPT ![q] = Idle]
Goto(q, pc) == request' = [request EXCEPT ![q].pc = pc]

CustomInit ==
    /\ tests = [t \in Tests |-> Unused]
    /\ attempts = <<>>
    /\ request = [q \in Requests |-> Idle]

-----------------------------------------------------------------------------
(* Creating *)

\* Mutant: the limit is not looked at.
CountUnlimited(q, c) ==
    /\ request[q].pc = "idle"
    /\ request' = [request EXCEPT ![q].pc = "creating", ![q].content = c]
    /\ UNCHANGED <<tests, attempts>>

\* Mutant: the content composed is not the content stored.
CountBlank(q, c) ==
    /\ request[q].pc = "idle"
    /\ Cardinality(Owned) < MaxTests /\ c \in Contents
    /\ Goto(q, "creating")
    /\ UNCHANGED <<tests, attempts>>

\* CreateCustom refuses a user who has maxCustomTests already.
CountTests(q, c) ==
    /\ request[q].pc = "idle"
    /\ Cardinality(Owned) < MaxTests
    /\ request' = [request EXCEPT ![q].pc = "creating", ![q].content = c]
    /\ UNCHANGED <<tests, attempts>>

InsertTest(q) ==
    /\ request[q].pc = "creating"
    /\ \E t \in Tests :
          /\ tests[t] = Unused
          /\ tests' = [tests EXCEPT ![t] = request[q].content]
    /\ Finish(q)
    /\ UNCHANGED attempts

\* A request ends early: compose refuses a bad or flagged content, a database
\* call fails, or the user leaves the exam.
Abandon(q) ==
    /\ request[q].pc # "idle"
    /\ Finish(q)
    /\ UNCHANGED <<tests, attempts>>

-----------------------------------------------------------------------------
(* Editing and deleting *)

\* ownedTest finds the test.
OpenEdit(q, t, c) ==
    /\ request[q].pc = "idle" /\ Exists(t)
    /\ request' = [request EXCEPT ![q].pc = "edit", ![q].test = t, ![q].content = c]
    /\ UNCHANGED <<tests, attempts>>

OpenDelete(q, t) ==
    /\ request[q].pc = "idle" /\ Exists(t)
    /\ request' = [request EXCEPT ![q].pc = "delete", ![q].test = t]
    /\ UNCHANGED <<tests, attempts>>

\* Mutant: nobody asks for submissions.
CheckNothing(q, from, to) ==
    /\ request[q].pc = from
    /\ request' = [request EXCEPT ![q].pc = to, ![q].seen = Len(attempts)]
    /\ UNCHANGED <<tests, attempts>>

\* HasSubmissions.  seen notes how many submissions there were.
CheckAttempts(q, from, to) ==
    /\ request[q].pc = from
    /\ IF Attempted(request[q].test)
       THEN Finish(q)
       ELSE request' = [request EXCEPT ![q].pc = to, ![q].seen = Len(attempts)]
    /\ UNCHANGED <<tests, attempts>>

\* Mutant: the edit is an upsert.
ReplaceOrInsert(q) ==
    /\ request[q].pc = "editing"
    /\ tests' = [tests EXCEPT ![request[q].test] = request[q].content]
    /\ Finish(q)
    /\ UNCHANGED attempts

\* UPDATE ... WHERE id: a test that is gone is no error, and stays gone.
ReplaceTest(q) ==
    /\ request[q].pc = "editing"
    /\ tests' = [tests EXCEPT ![request[q].test] = IF @ \in Contents THEN request[q].content ELSE @]
    /\ Finish(q)
    /\ UNCHANGED attempts

\* fk_submissions_test (ON DELETE RESTRICT) refuses if a submission came in.
DeleteTest(q) ==
    /\ request[q].pc = "deleting"
    /\ tests' = [tests EXCEPT ![request[q].test] = IF Attempted(request[q].test) THEN @ ELSE Deleted]
    /\ Finish(q)
    /\ UNCHANGED attempts

-----------------------------------------------------------------------------
(* Taking *)

\* The exam runner is given the test's script and plays it.
Script(q, t) ==
    /\ request[q].pc = "idle" /\ Exists(t)
    /\ request' = [request EXCEPT ![q].pc = "taking", ![q].test = t, ![q].content = tests[t]]
    /\ UNCHANGED <<tests, attempts>>

\* SubmitAnswer reads the test again and compares question ids, which an edit
\* may or may not have changed.
ValidateSubmission(q) ==
    /\ request[q].pc = "taking"
    /\ \/ Exists(request[q].test) /\ Goto(q, "submitting")
       \/ tests[request[q].test] # request[q].content /\ Finish(q)
    /\ UNCHANGED <<tests, attempts>>

\* The row is inserted, unless the foreign key misses its test.
CreateSubmission(q) ==
    /\ request[q].pc = "submitting"
    /\ \/ /\ Exists(request[q].test) /\ Len(attempts) < MaxSubmissions
          /\ attempts' = Append(attempts,
                [test |-> request[q].test, answered |-> request[q].content, judged |-> None])
       \/ ~Exists(request[q].test) /\ UNCHANGED attempts
    /\ Finish(q)
    /\ UNCHANGED tests

\* A grading worker reads the test once more, and judges the answers by that.
Grade(i) ==
    /\ attempts[i].judged = None
    /\ Exists(attempts[i].test)
    /\ attempts' = [attempts EXCEPT ![i].judged = tests[attempts[i].test]]
    /\ UNCHANGED <<tests, request>>

EditStep(q) ==
    \/ \E t \in Tests : OpenDelete(q, t) \/ \E c \in Contents : OpenEdit(q, t, c)
    \/ CheckAttempts(q, "edit", "editing") \/ CheckAttempts(q, "delete", "deleting")
    \/ ReplaceTest(q) \/ DeleteTest(q)

TakeStep(q) ==
    \/ \E t \in Tests : Script(q, t)
    \/ ValidateSubmission(q) \/ CreateSubmission(q)

CustomNext ==
    \/ \E q \in Requests :
          \/ \E c \in Contents : CountTests(q, c)
          \/ InsertTest(q) \/ Abandon(q)
          \/ EditStep(q) \/ TakeStep(q)
    \/ \E i \in DOMAIN attempts : Grade(i)

CustomSpec == CustomInit /\ [][CustomNext]_customVars

-----------------------------------------------------------------------------
(* Properties *)

Attempt == [test: Tests, answered: Contents, judged: Contents \union {None}]

RequestState == [
    pc: {"idle", "creating", "edit", "editing", "delete", "deleting", "taking", "submitting"},
    test: Tests \union {None}, content: Contents \union {None}, seen: Nat]

\* Every row and every request is in a state the code gives it, and no content
\* that was never composed is stored.
CustomTypeOK ==
    /\ tests \in [Tests -> Contents \union {Unused, Deleted}]
    /\ attempts \in Seq(Attempt)
    /\ request \in [Requests -> RequestState]

\* No interleaving of deleting with taking leaves a submission without its
\* test, so grading never finds the test gone.
AttemptsKeepTheirTest == \A i \in DOMAIN attempts : Exists(attempts[i].test)

\* The limit is checked before the insert, so requests racing past it may
\* exceed it, but only by their own number.
TestsBounded == Cardinality(Owned) <= MaxTests + Cardinality(Requests) - 1

\* A request whose check found no submissions can only hit submissions that
\* came in after that check.
ChangesMissOnlyLateAttempts ==
    [][\A q \in Requests, t \in Tests :
          (request[q].pc \in {"editing", "deleting"} /\ request'[q] # request[q]
             /\ request[q].test = t /\ tests'[t] # tests[t])
          => \A i \in DOMAIN attempts : attempts[i].test = t => i > request[q].seen]_customVars

\* An edit that meets a deletion does not bring the test back, and its id is
\* never used for another one.
DeletedForGood == [][\A t \in Tests : tests[t] = Deleted => tests'[t] = Deleted]_customVars

\* Deleting, whatever it races with, takes no submission's test and is final.
DeletionsHold == []AttemptsKeepTheirTest /\ DeletedForGood

=============================================================================
