--------------------------- MODULE GradedRewards ---------------------------
(***************************************************************************)
(* The grading jobs together with the XP they earn: a job that has set its *)
(* submission to graded asks for the XP of the test, if it gives any, and  *)
(* is done whatever comes of that.                                         *)
(***************************************************************************)
EXTENDS WritingGrade, XpGrant

ASSUME RewardsAssumption == Grants = Jobs

vars == <<gradeVars, xpVars>>

Init == InitGrade /\ InitXp

Grade(j) == GradeStep(j) /\ UNCHANGED xpVars

\* The end of gradeClaimed.
Settle(j) ==
    /\ SettleGraded(j)
    /\ IF XpGain[TestOf[j]] > 0 THEN Call(j) ELSE UNCHANGED xpVars

Reward(j) == (Grant(j) \/ Rollback(j)) /\ UNCHANGED gradeVars

Next == \E j \in Jobs : Grade(j) \/ Settle(j) \/ Reward(j)

\* A transaction whose locks are free goes on; lock timeouts, which would
\* also end a wait, are not counted on.
Fairness == \A j \in Jobs : WF_xpVars(Grant(j))

Spec == Init /\ [][Next]_vars
FairSpec == Spec /\ Fairness

-----------------------------------------------------------------------------
(* Properties *)

Stages == {"pending", "loading", "resolving", "grading", "scored", "graded", "failed"}
Steps == {"off", "called", "claimed", "locked", "over"}

Answered == [criteria : [Criteria -> 0..9 \cup {None}], corrections : CorrectionLists \cup {None},
             model : {None, "llm"}]
Grades == [criteria : [Criteria -> 0..9], overall : 0..2 * 9, model : {"sample", "llm"},
           corrections : Seq([quoted : BOOLEAN, issue : CorrectionIssues \cup {"other"}])]

\* Everything is in its set; attempts stay within their limit.
TypeOK ==
    /\ attempt \in [Jobs -> 0..MaxAttempts]
    /\ stage \in [Jobs -> Stages]
    /\ ctx \in [Jobs -> {"live", "expired", "cancelled"}]
    /\ call \in [Jobs -> [Calls -> {"idle", "running", "answered", "failed"}]]
    /\ cause \in [Jobs -> {None, "own", "expired", "cancelled", "ungradable"}]
    /\ result \in [Jobs -> Answered]
    /\ DOMAIN score = Jobs
    /\ \A j \in Jobs : score[j] \in {None} \cup (IF j \in Written THEN Grades ELSE {"auto"})
    /\ account \in [Users -> [xp : Nat, level : 0..MaxLevel]]
    /\ ledger \subseteq Jobs
    /\ txn \in [Jobs -> [at : Steps, read : Nat]]

\* A written grade has a valid verdict on every criterion and the half band
\* nearest to their mean, the higher one of two; corrections that quote the
\* answer, of an issue that is known, and no more of them than are shown; and
\* the test's sample or a model answer.  While calls of an attempt are
\* running, the attempt goes on waiting for them (Grade, normalizeResult).
WrittenGradeIsWhole ==
    \A j \in Written :
        /\ score[j] # None =>
             /\ \A c \in Criteria : score[j].criteria[c] \in 0..9
             /\ LET count == Cardinality(Criteria)
                    off == 2 * (2 * SumFunction(score[j].criteria) - count * score[j].overall)
                IN  -count <= off /\ off < count
             /\ Len(score[j].corrections) <= MaxCorrections
             /\ \A i \in DOMAIN score[j].corrections :
                   /\ score[j].corrections[i].quoted
                   /\ score[j].corrections[i].issue \in CorrectionIssues \cup {"other"}
             /\ score[j].model = (IF j \in Sampled THEN "sample" ELSE "llm")
        /\ (\E c \in Calls : call[j][c] = "running") => stage[j] = "grading"

\* An attempt that fails reports what went wrong first, never the
\* cancellation that followed from it.
CauseIsNotTheEcho ==
    \A j \in Jobs : /\ cause[j] # "cancelled"
                    /\ ctx[j] = "cancelled" => cause[j] = "own"

Earned(u) == SumFunctionOnSet([g \in Grants |-> XpGain[TestOf[g]]], {g \in ledger : UserOf[g] = u})

NoPairTwice == \A g, h \in ledger : Pair(g) = Pair(h) => g = h
LevelFollowsXp ==
    \A u \in Users : account[u].level = IF \E g \in ledger : UserOf[g] = u
                                       THEN LevelForXP(account[u].xp) ELSE 0

PaidForGrades == \A g \in ledger : stage[g] = "graded"

\* However grants of one user, or of one test, meet, and wherever they
\* fail: the XP is what the ledger says, no test counts twice, every row of
\* the ledger stands for a graded submission; and the level column, which no
\* account starts with, is in the end the level that the profile works out,
\* between whose thresholds the XP lies.
XpMatchesLedger ==
    /\ NoPairTwice
    /\ LevelFollowsXp
    /\ PaidForGrades
    /\ \A u \in Users :
         /\ account[u].xp = Earned(u)
         /\ Profile(u).past >= 0 /\ (Profile(u).left > 0 \/ Profile(u).level = MaxLevel)

\* Once a grant has begun there comes a time when all that have begun are
\* over: none waits for ever for the key or the row of another.
GrantsEnd == (\E j \in Jobs : txn[j].at = "called") ~> (\A j \in Jobs : txn[j].at = "off" \/ IsOver(j))

=============================================================================
