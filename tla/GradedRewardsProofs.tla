------------------------ MODULE GradedRewardsProofs ------------------------
(***************************************************************************)
(* What GradedRewards guarantees for any number of jobs, users and tests.  *)
(***************************************************************************)
EXTENDS GradedRewards, Sums, TLAPS

-----------------------------------------------------------------------------
(* Errors *)

Causes == {None, "own", "expired", "cancelled", "ungradable"}

\* A context is only ever cancelled or expired while calls are waited for,
\* and cancelled only by a call's own error; while it lives, none has failed.
ErrorInv ==
    /\ stage \in [Jobs -> Stages]
    /\ ctx \in [Jobs -> {"live", "expired", "cancelled"}]
    /\ cause \in [Jobs -> Causes]
    /\ \A j \in Jobs : /\ stage[j] # "grading" => ctx[j] = "live"
                       /\ stage[j] \in {"loading", "resolving", "grading"} /\ ctx[j] = "live" => cause[j] = None
    /\ CauseIsNotTheEcho

\* How an attempt begins, goes on or ends, as far as its error goes.
LEMMA AttemptKeepsErrorInv ==
    ASSUME ErrorInv, NEW j \in Jobs, NEW s \in Stages,
           NEW c \in {"live", "expired", "cancelled"}, NEW e \in Causes \ {"cancelled"},
           stage' = [stage EXCEPT ![j] = s], ctx' = [ctx EXCEPT ![j] = c], cause' = [cause EXCEPT ![j] = e],
           s # "grading" => c = "live", c = "cancelled" => e = "own",
           s \in {"loading", "resolving", "grading"} /\ c = "live" => e = None
    PROVE  ErrorInv'
<1>1. stage' \in [Jobs -> Stages] /\ ctx' \in [Jobs -> {"live", "expired", "cancelled"}]
      /\ cause' \in [Jobs -> Causes]
  BY DEF ErrorInv
<1>2. ASSUME NEW k \in Jobs
      PROVE  /\ stage'[k] # "grading" => ctx'[k] = "live"
             /\ stage'[k] \in {"loading", "resolving", "grading"} /\ ctx'[k] = "live" => cause'[k] = None
             /\ cause'[k] # "cancelled"
             /\ ctx'[k] = "cancelled" => cause'[k] = "own"
  <2>1. CASE k = j  BY <2>1, WritingAssumption DEF ErrorInv, WritingAssumption, Causes
  <2>2. CASE k # j  BY <2>2 DEF ErrorInv, CauseIsNotTheEcho
  <2> QED  BY <2>1, <2>2
<1> QED  BY <1>1, <1>2 DEF ErrorInv, CauseIsNotTheEcho

LEMMA SettlingKeepsErrorInv ==
    ASSUME ErrorInv, NEW j \in Jobs, NEW e \in Causes \ {"cancelled"}, SettleFailure(j, e)
    PROVE  ErrorInv'
<1>1. PICK s \in {"failed", "pending"} : stage' = [stage EXCEPT ![j] = s]
  BY DEF SettleFailure
<1>2. ctx' = [ctx EXCEPT ![j] = "live"] /\ cause' = [cause EXCEPT ![j] = e]
  BY DEF SettleFailure, EndCalls
<1>3. s \in Stages /\ s \notin {"loading", "resolving", "grading"}  BY <1>1 DEF Stages
<1> QED  BY <1>1, <1>2, <1>3, AttemptKeepsErrorInv

LEMMA AnswerKeepsErrorInv ==
    ASSUME ErrorInv, UNCHANGED <<stage, ctx, cause>>
    PROVE  ErrorInv'
BY DEF ErrorInv, CauseIsNotTheEcho

LEMMA GradeStepKeepsErrorInv ==
    ASSUME ErrorInv, NEW j \in Jobs, GradeStep(j)
    PROVE  ErrorInv'
<1> cause[j] \in Causes \ {"cancelled"} /\ ctx[j] \in {"live", "expired", "cancelled"} /\ stage[j] \in Stages
    /\ (ctx[j] = "cancelled" => cause[j] = "own")
  BY DEF ErrorInv, CauseIsNotTheEcho
<1>same. /\ cause = [cause EXCEPT ![j] = cause[j]] /\ ctx = [ctx EXCEPT ![j] = ctx[j]]
         /\ stage = [stage EXCEPT ![j] = stage[j]]
  BY DEF ErrorInv
<1>1. CASE Begin(j)
  <2>1. ctx[j] = "live"  BY <1>1 DEF Begin, ErrorInv
  <2>2. stage' = [stage EXCEPT ![j] = "loading"]  BY <1>1 DEF Begin
  <2>3. ctx' = [ctx EXCEPT ![j] = "live"] /\ cause' = [cause EXCEPT ![j] = None]
    BY <1>1, <2>1, <1>same DEF Begin
  <2>4. "loading" \in Stages /\ None \in Causes \ {"cancelled"}
    BY WritingAssumption DEF Stages, Causes, WritingAssumption
  <2> QED  BY <2>2, <2>3, <2>4, AttemptKeepsErrorInv
<1>12. CASE Load(j)
  <2>1. ctx[j] = "live" /\ cause[j] = None  BY <1>12 DEF Load, ErrorInv
  <2>2. PICK s \in {"scored", "resolving", "grading"} : stage' = [stage EXCEPT ![j] = s]
    BY <1>12 DEF Load
  <2>3. ctx' = [ctx EXCEPT ![j] = "live"] /\ cause' = [cause EXCEPT ![j] = None]
    BY <1>12, <2>1, <1>same DEF Load
  <2>4. s \in Stages  BY <2>2 DEF Stages
  <2> QED  BY <2>1, <2>2, <2>3, <2>4, AttemptKeepsErrorInv
<1>13. CASE LoadFails(j)
  <2>1. "ungradable" \in Causes \ {"cancelled"}  BY DEF Causes
  <2> QED  BY <1>13, <2>1, SettlingKeepsErrorInv DEF LoadFails
<1>2. CASE Resolve(j)
  <2>1. ctx' = [ctx EXCEPT ![j] = ctx[j]] /\ cause' = [cause EXCEPT ![j] = cause[j]]
        /\ stage' = [stage EXCEPT ![j] = "grading"]
    BY <1>2, <1>same DEF Resolve
  <2>2. "grading" \in Stages  BY DEF Stages
  <2>3. ctx[j] = "live" /\ cause[j] = None  BY <1>2 DEF Resolve, ErrorInv
  <2> QED  BY <2>1, <2>2, <2>3, AttemptKeepsErrorInv
<1>own. "own" \in Causes \ {"cancelled"}  BY DEF Causes
<1>3. CASE ResolveFails(j)  BY <1>own, <1>3, SettlingKeepsErrorInv DEF ResolveFails
<1>4. CASE Expire(j)
  <2>1. ctx' = [ctx EXCEPT ![j] = "expired"] /\ cause' = [cause EXCEPT ![j] = cause[j]]
        /\ stage' = [stage EXCEPT ![j] = "grading"]
    BY <1>4, <1>same DEF Expire
  <2>2. "grading" \in Stages  BY DEF Stages
  <2> QED  BY <2>1, <2>2, AttemptKeepsErrorInv
<1>5. CASE \E c \in Calls : \E band \in Bands : Judge(j, c, band)
  BY <1>5, AnswerKeepsErrorInv DEF Judge, Answer
<1>6. CASE \E c \in Calls : \E error \in {"own", "expired", "cancelled"} : Fail(j, c, error)
  <2>1. PICK c \in Calls, error \in {"own", "expired", "cancelled"} : Fail(j, c, error)
    BY <1>6
  <2>2. error = "own" \/ (error = ctx[j] /\ ctx[j] # "live")
    BY <2>1 DEF Fail
  <2> DEFINE e == IF cause[j] = None THEN error ELSE cause[j]
             x == IF ctx[j] = "live" THEN "cancelled" ELSE ctx[j]
  <2>3. stage' = [stage EXCEPT ![j] = "grading"] /\ cause' = [cause EXCEPT ![j] = e]
        /\ ctx' = [ctx EXCEPT ![j] = x]
    BY <2>1, <1>same DEF Fail
  <2>4. CASE ctx[j] = "live"
    <3>1. cause[j] = None  BY <2>1, <2>4 DEF Fail, ErrorInv
    <3>2. e = "own"  BY <2>2, <2>4, <3>1
    <3> QED  BY <2>3, <2>4, <3>2, <1>own, AttemptKeepsErrorInv DEF Stages
  <2>5. CASE ctx[j] = "cancelled"
    <3>1. e = "own"  BY <2>5, WritingAssumption DEF WritingAssumption
    <3> QED  BY <2>3, <2>5, <3>1, <1>own, AttemptKeepsErrorInv DEF Stages
  <2>6. CASE ctx[j] = "expired"
    <3>1. e \in Causes \ {"cancelled"}  BY <2>2, <2>6 DEF Causes
    <3> QED  BY <2>3, <2>6, <3>1, AttemptKeepsErrorInv DEF Stages
  <2> QED  BY <2>4, <2>5, <2>6
<1>7. CASE \E list \in CorrectionLists : Correct(j, list)
  BY <1>7, AnswerKeepsErrorInv DEF Correct, Answer
<1>8. CASE WriteModelAnswer(j)  BY <1>8, AnswerKeepsErrorInv DEF WriteModelAnswer, Answer
<1>9. CASE RecordScore(j) \/ AutoGrade(j)
  <2>1. stage' = [stage EXCEPT ![j] = "scored"] /\ ctx' = [ctx EXCEPT ![j] = "live"]
        /\ cause' = [cause EXCEPT ![j] = cause[j]]
    BY <1>9, <1>same DEF RecordScore, AutoGrade, EndCalls
  <2>2. "scored" \in Stages  BY DEF Stages
  <2> QED  BY <2>1, <2>2, AttemptKeepsErrorInv
<1>10. CASE AttemptFails(j)
  <2>1. (IF cause[j] = None THEN "own" ELSE cause[j]) \in Causes \ {"cancelled"}  BY <1>own
  <2> QED  BY <1>10, <2>1, SettlingKeepsErrorInv DEF AttemptFails
<1>11. CASE SettleFails(j)  BY <1>own, <1>11, SettlingKeepsErrorInv DEF SettleFails
<1> QED
  BY <1>1, <1>2, <1>3, <1>4, <1>5, <1>6, <1>7, <1>8, <1>9, <1>10, <1>11, <1>12, <1>13 DEF GradeStep

LEMMA ErrorInvHolds == Spec => []ErrorInv
<1>1. Init => ErrorInv
  BY WritingAssumption DEF Init, InitGrade, ErrorInv, CauseIsNotTheEcho, Stages, Causes, WritingAssumption
<1>2. ErrorInv /\ [Next]_vars => ErrorInv'
  <2> SUFFICES ASSUME ErrorInv, [Next]_vars PROVE ErrorInv'  OBVIOUS
  <2>1. ASSUME NEW j \in Jobs, Grade(j) PROVE ErrorInv'
    BY <2>1, GradeStepKeepsErrorInv DEF Grade
  <2>2. ASSUME NEW j \in Jobs, Settle(j) PROVE ErrorInv'
    <3>1. /\ stage' = [stage EXCEPT ![j] = "graded"]
          /\ ctx' = [ctx EXCEPT ![j] = ctx[j]] /\ cause' = [cause EXCEPT ![j] = cause[j]]
      BY <2>2 DEF Settle, SettleGraded, ErrorInv
    <3>2. ctx[j] = "live" /\ cause[j] \in Causes \ {"cancelled"}
      BY <2>2 DEF Settle, SettleGraded, ErrorInv, CauseIsNotTheEcho
    <3> QED  BY <3>1, <3>2, AttemptKeepsErrorInv DEF Stages
  <2>3. ASSUME NEW j \in Jobs, Reward(j) PROVE ErrorInv'
    BY <2>3, AnswerKeepsErrorInv DEF Reward, gradeVars
  <2>4. CASE UNCHANGED vars  BY <2>4, AnswerKeepsErrorInv DEF vars, gradeVars
  <2> QED  BY <2>1, <2>2, <2>3, <2>4 DEF Next
<1> QED  BY <1>1, <1>2, PTL DEF Spec

\* However the calls of an attempt fail and whenever its time runs out: the
\* error it reports is not the cancellation that the first failure caused
\* (openAIGrader.Grade).
THEOREM CauseComesFirst == Spec => []CauseIsNotTheEcho
<1>1. ErrorInv => CauseIsNotTheEcho  BY DEF ErrorInv
<1> QED  BY <1>1, ErrorInvHolds, PTL

-----------------------------------------------------------------------------
(* Grants *)

Levels == {0} \cup {LevelForXP(xp) : xp \in Nat}

GrantTypes ==
    /\ account \in [Users -> [xp : Nat, level : Levels]]
    /\ ledger \subseteq Grants
    /\ txn \in [Grants -> [at : Steps, read : Nat]]

\* A key is held by one transaction, and by none once its row is there.
KeysAreExclusive ==
    /\ \A g, h \in Grants : HoldsKey(g) /\ HoldsKey(h) /\ Pair(g) = Pair(h) => g = h
    /\ \A g \in Grants, h \in ledger : HoldsKey(g) => Pair(h) # Pair(g)

\* While a transaction holds a user's row, what it read is still true.
RowsAreExclusive ==
    /\ \A g, h \in Grants : HoldsRow(g) /\ HoldsRow(h) /\ UserOf[g] = UserOf[h] => g = h
    /\ \A g \in Grants : HoldsRow(g) => txn[g].read = account[UserOf[g]].xp

GrantInv ==
    /\ GrantTypes
    /\ KeysAreExclusive
    /\ RowsAreExclusive
    /\ \A g \in ledger : IsOver(g)
    /\ NoPairTwice
    /\ LevelFollowsXp

LEMMA StepKinds == Steps = {"off", "called", "claimed", "locked", "over"}
BY DEF Steps

\* A step of a transaction that takes no lock and writes nothing.
LEMMA ReleaseKeepsGrantInv ==
    ASSUME GrantInv, NEW g \in Grants, NEW s \in {"called", "over"}, NEW r \in Nat,
           txn' = [txn EXCEPT ![g] = [at |-> s, read |-> r]], g \notin ledger,
           UNCHANGED <<account, ledger>>
    PROVE  GrantInv'
<1>1. GrantTypes'  BY DEF GrantInv, GrantTypes, Steps
<1>2. \A h \in Grants : h # g => txn'[h] = txn[h]  BY DEF GrantInv, GrantTypes
<1>3. txn'[g] = [at |-> s, read |-> r]  BY DEF GrantInv, GrantTypes
<1>4. KeysAreExclusive'
  BY <1>2, <1>3 DEF GrantInv, GrantTypes, KeysAreExclusive, HoldsKey, Pair
<1>5. RowsAreExclusive'
  BY <1>2, <1>3 DEF GrantInv, GrantTypes, RowsAreExclusive, HoldsRow
<1>6. (\A h \in ledger : IsOver(h))'  BY <1>2 DEF GrantInv, GrantTypes, IsOver
<1>7. NoPairTwice' /\ LevelFollowsXp'  BY DEF GrantInv, NoPairTwice, LevelFollowsXp, Pair
<1> QED  BY <1>1, <1>4, <1>5, <1>6, <1>7 DEF GrantInv

LEMMA InsertKeepsGrantInv ==
    ASSUME GrantInv, NEW g \in Grants, Insert(g)
    PROVE  GrantInv'
<1> USE GrantAssumption
<1>0. g \notin ledger /\ txn[g] \in [at : Steps, read : Nat] /\ txn[g].at = "called"
  BY DEF Insert, Goes, GrantInv, GrantTypes, IsOver
<1>1. CASE \E h \in ledger : Pair(h) = Pair(g)
  <2>1. txn' = [txn EXCEPT ![g] = [at |-> "over", read |-> txn[g].read]]
    BY <1>0, <1>1 DEF Insert, Goes, GrantInv, GrantTypes
  <2> QED  BY <1>0, <2>1, ReleaseKeepsGrantInv DEF Insert
<1>2. CASE ~\E h \in ledger : Pair(h) = Pair(g)
  <2>1. txn' = [txn EXCEPT ![g] = [at |-> "claimed", read |-> txn[g].read]]
    BY <1>0, <1>2 DEF Insert, Goes, GrantInv, GrantTypes
  <2>2. \A h \in Grants : h # g => txn'[h] = txn[h]  BY <2>1 DEF GrantInv, GrantTypes
  <2>3. txn'[g].at = "claimed"  BY <2>1 DEF GrantInv, GrantTypes
  <2>4. UNCHANGED <<account, ledger>>  BY DEF Insert
  <2>5. GrantTypes'  BY <1>0, <2>1, <2>4 DEF GrantInv, GrantTypes, Steps
  <2>6. KeysAreExclusive'
    <3>1. \A h \in Grants \ {g} : HoldsKey(h) => Pair(h) # Pair(g)  BY DEF Insert
    <3> QED  BY <1>2, <2>2, <2>4, <3>1 DEF GrantInv, GrantTypes, KeysAreExclusive, HoldsKey, Pair
  <2>7. RowsAreExclusive'
    BY <2>2, <2>3, <2>4 DEF GrantInv, GrantTypes, RowsAreExclusive, HoldsRow
  <2>8. (\A h \in ledger : IsOver(h))'  BY <1>0, <2>2, <2>4 DEF GrantInv, GrantTypes, IsOver
  <2>9. NoPairTwice' /\ LevelFollowsXp'  BY <2>4 DEF GrantInv, NoPairTwice, LevelFollowsXp, Pair
  <2> QED  BY <2>5, <2>6, <2>7, <2>8, <2>9 DEF GrantInv
<1> QED  BY <1>1, <1>2

LEMMA LockKeepsGrantInv ==
    ASSUME GrantInv, NEW g \in Grants, LockUser(g)
    PROVE  GrantInv'
<1> USE GrantAssumption
<1>0. g \notin ledger /\ txn[g].at = "claimed" /\ UserOf[g] \in Users
  BY DEF LockUser, GrantInv, GrantTypes, IsOver
<1> DEFINE xp == account[UserOf[g]].xp
<1>1. xp \in Nat  BY <1>0 DEF GrantInv, GrantTypes
<1>2. txn' = [txn EXCEPT ![g] = [at |-> "locked", read |-> xp]]  BY DEF LockUser
<1>3. \A h \in Grants : h # g => txn'[h] = txn[h]  BY <1>2 DEF GrantInv, GrantTypes
<1>4. txn'[g] = [at |-> "locked", read |-> xp]  BY <1>2 DEF GrantInv, GrantTypes
<1>5. UNCHANGED <<account, ledger>>  BY DEF LockUser
<1>6. GrantTypes'
  <2>1. [at |-> "locked", read |-> xp] \in [at : Steps, read : Nat]  BY <1>1 DEF Steps
  <2> QED  BY <1>2, <1>5, <2>1 DEF GrantInv, GrantTypes
<1>7. KeysAreExclusive'
  <2>1. \A h \in Grants : HoldsKey(h)' => HoldsKey(h)  BY <1>0, <1>3 DEF HoldsKey
  <2>2. \A h \in Grants : Pair(h)' = Pair(h)  BY DEF Pair
  <2> QED  BY <1>5, <2>1, <2>2 DEF GrantInv, GrantTypes, KeysAreExclusive, Pair
<1>8. RowsAreExclusive'
  <2>1. \A h \in Grants \ {g} : HoldsRow(h) => UserOf[h] # UserOf[g]  BY DEF LockUser
  <2> QED  BY <1>3, <1>4, <1>5, <2>1 DEF GrantInv, RowsAreExclusive, HoldsRow
<1>9. (\A h \in ledger : IsOver(h))'  BY <1>0, <1>3, <1>5 DEF GrantInv, GrantTypes, IsOver
<1>10. NoPairTwice' /\ LevelFollowsXp'  BY <1>5 DEF GrantInv, NoPairTwice, LevelFollowsXp, Pair
<1> QED  BY <1>6, <1>7, <1>8, <1>9, <1>10 DEF GrantInv

LEMMA CommitKeepsGrantInv ==
    ASSUME GrantInv, NEW g \in Grants, Commit(g)
    PROVE  GrantInv'
<1> USE GrantAssumption
<1> DEFINE xp == txn[g].read + XpGain[TestOf[g]]
<1>0. g \notin ledger /\ txn[g].at = "locked" /\ UserOf[g] \in Users
  BY DEF Commit, GrantInv, GrantTypes, IsOver
<1>1. xp \in Nat  BY DEF GrantInv, GrantTypes
<1>2. /\ account' = [account EXCEPT ![UserOf[g]] = [xp |-> xp, level |-> LevelForXP(xp)]]
      /\ ledger' = ledger \cup {g}
      /\ txn' = [txn EXCEPT ![g] = [at |-> "over", read |-> 0]]
  BY DEF Commit
<1>3. \A h \in Grants : h # g => txn'[h] = txn[h]  BY <1>2 DEF GrantInv, GrantTypes
<1>4. txn'[g] = [at |-> "over", read |-> 0]  BY <1>2 DEF GrantInv, GrantTypes
<1>5. \A u \in Users : u # UserOf[g] => account'[u] = account[u]  BY <1>2 DEF GrantInv, GrantTypes
<1>6. account'[UserOf[g]] = [xp |-> xp, level |-> LevelForXP(xp)]  BY <1>0, <1>2 DEF GrantInv, GrantTypes
<1>7. GrantTypes'
  <2>1. LevelForXP(xp) \in Levels  BY <1>1 DEF Levels
  <2>2. [xp |-> xp, level |-> LevelForXP(xp)] \in [xp : Nat, level : Levels]  BY <1>1, <2>1
  <2>3. [at |-> "over", read |-> 0] \in [at : Steps, read : Nat]  BY DEF Steps
  <2>4. account' \in [Users -> [xp : Nat, level : Levels]]  BY <1>2, <2>2 DEF GrantInv, GrantTypes
  <2>5. txn' \in [Grants -> [at : Steps, read : Nat]]  BY <1>2, <2>3 DEF GrantInv, GrantTypes
  <2> QED  BY <1>2, <2>4, <2>5 DEF GrantInv, GrantTypes
<1>8. HoldsKey(g) /\ HoldsRow(g)  BY <1>0 DEF HoldsKey, HoldsRow
<1>9. \A h \in Grants : h # g /\ HoldsKey(h) => Pair(h) # Pair(g)
  BY <1>8 DEF GrantInv, KeysAreExclusive
<1>10. \A h \in ledger : Pair(h) # Pair(g)  BY <1>8 DEF GrantInv, KeysAreExclusive
<1>11. KeysAreExclusive'
  <2>1. \A h \in Grants : HoldsKey(h)' => h # g /\ HoldsKey(h)  BY <1>3, <1>4 DEF HoldsKey
  <2>2. \A h \in Grants : Pair(h)' = Pair(h)  BY DEF Pair
  <2>3. ASSUME NEW h \in Grants, HoldsKey(h)', NEW k \in ledger' PROVE Pair(k)' # Pair(h)'
    <3>1. CASE k = g  BY <1>9, <2>1, <2>2, <2>3, <3>1
    <3>2. CASE k # g
      <4>1. k \in ledger  BY <1>2, <2>3, <3>2
      <4> QED  BY <2>1, <2>3, <4>1 DEF GrantInv, KeysAreExclusive, Pair
    <3> QED  BY <3>1, <3>2
  <2>4. \A h, k \in Grants : HoldsKey(h)' /\ HoldsKey(k)' /\ Pair(h)' = Pair(k)' => h = k
    BY <2>1, <2>2 DEF GrantInv, KeysAreExclusive
  <2> QED  BY <2>3, <2>4 DEF KeysAreExclusive
<1>12. RowsAreExclusive'
  <2>1. \A h \in Grants : HoldsRow(h)' => h # g /\ HoldsRow(h)  BY <1>3, <1>4 DEF HoldsRow
  <2>2. \A h \in Grants : HoldsRow(h)' => UserOf[h] # UserOf[g]
    BY <1>8, <2>1 DEF GrantInv, RowsAreExclusive
  <2> QED  BY <1>3, <1>5, <2>1, <2>2 DEF GrantInv, RowsAreExclusive
<1>13. (\A h \in ledger : IsOver(h))'  BY <1>2, <1>3, <1>4 DEF GrantInv, GrantTypes, IsOver
<1>14. NoPairTwice'  BY <1>2, <1>10 DEF GrantInv, NoPairTwice, Pair
<1>15. LevelFollowsXp'
  <2> SUFFICES ASSUME NEW u \in Users
               PROVE account'[u].level = IF \E h \in ledger' : UserOf[h] = u
                                         THEN LevelForXP(account'[u].xp) ELSE 0
    BY DEF LevelFollowsXp
  <2>1. CASE u = UserOf[g]  BY <1>2, <1>6, <2>1
  <2>2. CASE u # UserOf[g]
    <3>1. (\E h \in ledger' : UserOf[h] = u) <=> \E h \in ledger : UserOf[h] = u  BY <1>2, <2>2
    <3> QED  BY <1>5, <2>2, <3>1 DEF GrantInv, LevelFollowsXp
  <2> QED  BY <2>1, <2>2
<1> QED  BY <1>7, <1>11, <1>12, <1>13, <1>14, <1>15 DEF GrantInv

LEMMA RewardKeepsGrantInv ==
    ASSUME GrantInv, NEW g \in Grants, Grant(g) \/ Rollback(g)
    PROVE  GrantInv'
<1>1. CASE Rollback(g)
  <2>1. g \notin ledger  BY <1>1 DEF Rollback, GrantInv, IsOver
  <2> QED  BY <1>1, <2>1, ReleaseKeepsGrantInv DEF Rollback
<1> QED
  BY <1>1, InsertKeepsGrantInv, LockKeepsGrantInv, CommitKeepsGrantInv DEF Grant

-----------------------------------------------------------------------------
(* Grades and grants *)

\* A grant is asked for only by a job that is through.
CalledWhenGraded ==
    /\ stage \in [Jobs -> Stages]
    /\ \A j \in Jobs : txn[j].at # "off" => stage[j] = "graded"

RewardInv == GrantInv /\ CalledWhenGraded

LEMMA OthersKeepTheirStage ==
    ASSUME NEW j \in Jobs, GradeStep(j), stage \in [Jobs -> Stages]
    PROVE  /\ stage[j] # "graded"
           /\ stage' \in [Jobs -> Stages]
           /\ \A k \in Jobs : k # j => stage'[k] = stage[k]
<1>1. ASSUME NEW e, SettleFailure(j, e), stage[j] # "graded"
      PROVE  /\ stage' \in [Jobs -> Stages]
             /\ \A k \in Jobs : k # j => stage'[k] = stage[k]
  BY <1>1 DEF SettleFailure, Stages
<1>2. CASE Begin(j) \/ Load(j) \/ Resolve(j) \/ RecordScore(j) \/ AutoGrade(j)
  BY <1>2 DEF Begin, Load, Resolve, RecordScore, AutoGrade, Waited, Stages
<1>3. CASE LoadFails(j) \/ ResolveFails(j) \/ AttemptFails(j) \/ SettleFails(j)
  BY <1>1, <1>3 DEF LoadFails, ResolveFails, AttemptFails, Waited, SettleFails
<1>4. CASE Expire(j)  BY <1>4 DEF Expire
<1>5. CASE \E c \in Calls : \/ \E band \in Bands : Judge(j, c, band)
                            \/ \E error \in {"own", "expired", "cancelled"} : Fail(j, c, error)
  BY <1>5 DEF Judge, Fail, Answer
<1>6. CASE (\E list \in CorrectionLists : Correct(j, list)) \/ WriteModelAnswer(j)
  BY <1>6 DEF Correct, WriteModelAnswer, Answer
<1> QED  BY <1>2, <1>3, <1>4, <1>5, <1>6 DEF GradeStep

LEMMA StutterKeepsGrantInv ==
    ASSUME GrantInv, UNCHANGED xpVars
    PROVE  GrantInv'
<1>1. GrantTypes'  BY DEF GrantInv, GrantTypes, xpVars
<1>2. KeysAreExclusive'  BY DEF GrantInv, KeysAreExclusive, HoldsKey, Pair, xpVars
<1>3. RowsAreExclusive'  BY DEF GrantInv, RowsAreExclusive, HoldsRow, xpVars
<1>4. (\A h \in ledger : IsOver(h))'  BY DEF GrantInv, IsOver, xpVars
<1>5. NoPairTwice'  BY DEF GrantInv, NoPairTwice, Pair, xpVars
<1>6. LevelFollowsXp'  BY DEF GrantInv, LevelFollowsXp, xpVars
<1> QED  BY <1>1, <1>2, <1>3, <1>4, <1>5, <1>6 DEF GrantInv

LEMMA RewardInvHolds == Spec => []RewardInv
<1> USE RewardsAssumption, GrantAssumption
<1>1. Init => RewardInv
  <2> SUFFICES ASSUME Init PROVE RewardInv  OBVIOUS
  <2>1. GrantTypes  BY DEF Init, InitXp, GrantTypes, Levels, Steps
  <2>2. \A g \in Grants : txn[g].at = "off"  BY DEF Init, InitXp
  <2>3. KeysAreExclusive /\ RowsAreExclusive
    BY <2>2 DEF Init, InitXp, KeysAreExclusive, RowsAreExclusive, HoldsKey, HoldsRow
  <2>4. NoPairTwice /\ LevelFollowsXp /\ \A g \in ledger : IsOver(g)
    BY DEF Init, InitXp, NoPairTwice, LevelFollowsXp
  <2>5. CalledWhenGraded  BY <2>2 DEF Init, InitGrade, CalledWhenGraded, Stages
  <2> QED  BY <2>1, <2>3, <2>4, <2>5 DEF RewardInv, GrantInv
<1>2. RewardInv /\ [Next]_vars => RewardInv'
  <2> SUFFICES ASSUME RewardInv, [Next]_vars PROVE RewardInv'  OBVIOUS
  <2> USE DEF RewardInv
  <2>1. ASSUME NEW j \in Jobs, Grade(j) PROVE RewardInv'
    <3>1. GrantInv'  BY <2>1, StutterKeepsGrantInv DEF Grade
    <3>2. CalledWhenGraded'
      BY <2>1, OthersKeepTheirStage DEF Grade, CalledWhenGraded, xpVars
    <3> QED  BY <3>1, <3>2
  <2>2. ASSUME NEW j \in Jobs, Settle(j) PROVE RewardInv'
    <3>1. stage' = [stage EXCEPT ![j] = "graded"]  BY <2>2 DEF Settle, SettleGraded
    <3>2. UNCHANGED xpVars \/ Call(j)  BY <2>2 DEF Settle
    <3>3. CASE UNCHANGED xpVars
      <4>1. CalledWhenGraded'  BY <3>1, <3>3 DEF CalledWhenGraded, xpVars, Stages
      <4> QED  BY <3>3, <4>1, StutterKeepsGrantInv
    <3>4. CASE Call(j)
      <4>1. txn[j] \in [at : Steps, read : Nat] /\ txn[j].at = "off" /\ j \notin ledger
        BY <3>4 DEF Call, Goes, GrantInv, GrantTypes, IsOver
      <4>2. txn' = [txn EXCEPT ![j] = [at |-> "called", read |-> txn[j].read]]
        <5>1. txn' = [txn EXCEPT ![j].at = "called"]  BY <3>4 DEF Call, Goes
        <5>2. [txn[j] EXCEPT !.at = "called"] = [at |-> "called", read |-> txn[j].read]  BY <4>1
        <5> QED  BY <5>1, <5>2
      <4>3. GrantInv'  BY <3>4, <4>1, <4>2, ReleaseKeepsGrantInv DEF Call
      <4>4. CalledWhenGraded'  BY <3>1, <4>2 DEF CalledWhenGraded, GrantInv, GrantTypes, Stages
      <4> QED  BY <4>3, <4>4
    <3> QED  BY <3>2, <3>3, <3>4
  <2>3. ASSUME NEW j \in Jobs, Reward(j) PROVE RewardInv'
    <3>1. GrantInv'  BY <2>3, RewardKeepsGrantInv DEF Reward
    <3>2. UNCHANGED stage /\ txn[j].at # "off" /\ \A k \in Jobs : k # j => txn'[k] = txn[k]
      BY <2>3 DEF Reward, Grant, Rollback, Insert, Goes, LockUser, Commit, gradeVars, GrantInv, GrantTypes
    <3>3. CalledWhenGraded'  BY <3>2 DEF CalledWhenGraded
    <3> QED  BY <3>1, <3>3
  <2>4. CASE UNCHANGED vars
    <3>1. CalledWhenGraded'  BY <2>4 DEF CalledWhenGraded, vars, gradeVars, xpVars
    <3> QED  BY <2>4, <3>1, StutterKeepsGrantInv DEF vars
  <2> QED  BY <2>1, <2>2, <2>3, <2>4 DEF Next
<1> QED  BY <1>1, <1>2, PTL DEF Spec

\* However transactions meet, fail and wait: a test pays a user at most once,
\* only for a submission that was graded, and the level column is the level
\* of the XP column (GrantIfFirstAttempt).
THEOREM GrantsAreSound == Spec => [](NoPairTwice /\ LevelFollowsXp /\ PaidForGrades)
<1>1. RewardInv => NoPairTwice /\ LevelFollowsXp /\ PaidForGrades
  BY RewardsAssumption DEF RewardInv, GrantInv, GrantTypes, CalledWhenGraded, PaidForGrades, IsOver
<1> QED  BY <1>1, RewardInvHolds, PTL

\* One grant of g, on top of the XP there is.
Pays(g) ==
    /\ g \notin ledger /\ ledger' = ledger \cup {g}
    /\ \A u \in Users : account'[u].xp = account[u].xp + (IF u = UserOf[g] THEN XpGain[TestOf[g]] ELSE 0)

LEMMA GrantsPay ==
    ASSUME RewardInv, [Next]_vars
    PROVE  UNCHANGED <<account, ledger>> \/ \E g \in Grants : Pays(g)
<1> SUFFICES ASSUME ~UNCHANGED <<account, ledger>> PROVE \E g \in Grants : Pays(g)
  OBVIOUS
<1>1. PICK g \in Grants : Commit(g)
  BY RewardsAssumption DEF Next, Grade, Settle, Call, Reward, Grant, Rollback, Insert, LockUser, vars, xpVars
<1>2. g \notin ledger /\ HoldsRow(g) /\ UserOf[g] \in Users
  BY <1>1, GrantAssumption DEF Commit, RewardInv, GrantInv, GrantTypes, IsOver, HoldsRow
<1>3. txn[g].read = account[UserOf[g]].xp
  BY <1>2 DEF RewardInv, GrantInv, RowsAreExclusive
<1>4. \A u \in Users : account[u].xp \in Nat  BY DEF RewardInv, GrantInv, GrantTypes
<1>5. ASSUME NEW u \in Users
      PROVE account'[u].xp = account[u].xp + (IF u = UserOf[g] THEN XpGain[TestOf[g]] ELSE 0)
  BY <1>1, <1>2, <1>3, <1>4 DEF Commit, RewardInv, GrantInv, GrantTypes
<1> QED  BY <1>1, <1>2, <1>5 DEF Pays, Commit

\* No grant overwrites another: the XP changes only with the ledger, and each
\* new row of it adds its test's XP to what its user has at that moment, not
\* at the moment the transaction began.
THEOREM NoGrantIsLost == Spec => [][UNCHANGED <<account, ledger>> \/ \E g \in Grants : Pays(g)]_<<account, ledger>>
<1>1. RewardInv /\ [Next]_vars => UNCHANGED <<account, ledger>> \/ \E g \in Grants : Pays(g)
  BY GrantsPay
<1> QED  BY <1>1, RewardInvHolds, PTL DEF Spec

-----------------------------------------------------------------------------
(* Levels *)

Amounts == Int \X Int

LEMMA Amounts1 ==
    ASSUME NEW a \in Amounts, NEW b \in Amounts
    PROVE  Add(a, b) \in Amounts /\ Grow(a) \in Amounts /\ Round(a) \in Int
<1> USE DEF Amounts
<1>1. a[1] \in Int /\ a[2] \in Int /\ b[1] \in Int /\ b[2] \in Int  OBVIOUS
<1>2. \A c, d \in Amounts : Add(c, d) \in Amounts
  <2> SUFFICES ASSUME NEW c \in Amounts, NEW d \in Amounts PROVE Add(c, d) \in Amounts  OBVIOUS
  <2>1. c[1] \in Int /\ c[2] \in Int /\ d[1] \in Int /\ d[2] \in Int  OBVIOUS
  <2>2. (c[2] + d[2]) \div 1000000 \in Int /\ (c[2] + d[2]) % 1000000 \in Int  BY <2>1
  <2> QED  BY <2>1, <2>2 DEF Add
<1>3. Grow(a) \in Amounts
  <2>1. (104 * a[1]) \div 100 \in Int /\ (((104 * a[1]) % 100) * 1000000 + 104 * a[2]) \div 100 \in Int
    BY <1>1
  <2> QED  BY <1>2, <2>1 DEF Grow
<1> QED  BY <1>1, <1>2, <1>3 DEF Round

LEMMA LevelCount == MaxLevel \in Nat /\ MaxLevel - 1 \in Nat
BY GrantAssumption DEF GrantAssumption

\* A list that starts with an amount, and makes each from the one before.
LEMMA AmountsFollow ==
    ASSUME NEW base \in Amounts, NEW step \in [Nat -> [Amounts -> Amounts]]
    PROVE  \E h \in [1..MaxLevel -> Amounts] :
              h = [level \in 1..MaxLevel |-> IF level = 1 THEN base ELSE step[level - 1][h[level - 1]]]
<1>1. PICK g \in [0..MaxLevel - 1 -> Amounts] :
         g[0] = base /\ \A i \in 1..MaxLevel - 1 : g[i] = step[i][g[i - 1]]
  <2>1. PICK n \in Nat : n = MaxLevel - 1  BY LevelCount
  <2>2. PICK g : Stepwise(Amounts, base, step, n, g)  BY StepByStep
  <2> QED  BY <2>1, <2>2 DEF Stepwise
<1> DEFINE h == [level \in 1..MaxLevel |-> g[level - 1]]
<1>2. h \in [1..MaxLevel -> Amounts]  BY LevelCount
<1>3. ASSUME NEW level \in 1..MaxLevel
      PROVE  h[level] = IF level = 1 THEN base ELSE step[level - 1][h[level - 1]]
  <2>1. CASE level = 1  BY <1>1, <2>1
  <2>2. CASE level # 1
    <3>1. level - 1 \in 1..MaxLevel - 1 /\ level - 1 \in 1..MaxLevel  BY LevelCount, <2>2
    <3>2. h[level - 1] = g[(level - 1) - 1]  BY <3>1
    <3> QED  BY <1>1, <2>2, <3>1, <3>2
  <2> QED  BY <2>1, <2>2
<1> HIDE DEF h
<1>4. h = [level \in 1..MaxLevel |-> h[level]]  BY <1>2
<1>5. h = [level \in 1..MaxLevel |-> IF level = 1 THEN base ELSE step[level - 1][h[level - 1]]]
  BY <1>3, <1>4
<1> QED  BY <1>2, <1>5

\* A list of which each amount follows from the one before is one of amounts.
LEMMA ListOfAmounts ==
    ASSUME NEW h, h[1] \in Amounts,
           \A level \in 2..MaxLevel : h[level - 1] \in Amounts => h[level] \in Amounts
    PROVE  \A level \in 1..MaxLevel : h[level] \in Amounts
<1> DEFINE f == [i \in 0..MaxLevel - 1 |-> h[i + 1]]
<1>1. f[0] \in Amounts  BY LevelCount
<1>2. ASSUME NEW i \in 1..MaxLevel - 1, f[i - 1] \in Amounts PROVE f[i] \in Amounts
  <2>1. i + 1 \in 2..MaxLevel /\ i \in 0..MaxLevel - 1 /\ i - 1 \in 0..MaxLevel - 1
        /\ (i + 1) - 1 = i /\ (i - 1) + 1 = i
    BY LevelCount
  <2>2. f[i - 1] = h[i] /\ f[i] = h[i + 1]  BY <2>1
  <2>3. h[(i + 1) - 1] \in Amounts  BY <1>2, <2>1, <2>2
  <2> QED  BY <2>1, <2>2, <2>3
<1>3. \A i \in 0..MaxLevel - 1 : f[i] \in Amounts
  <2> HIDE DEF f
  <2> QED  BY <1>1, <1>2, LevelCount, HandedOn
<1>4. ASSUME NEW level \in 1..MaxLevel PROVE h[level] \in Amounts
  <2>1. level - 1 \in 0..MaxLevel - 1 /\ (level - 1) + 1 = level  BY LevelCount
  <2> QED  BY <1>3, <2>1
<1> QED  BY <1>4

LEMMA CostIsList ==
    Cost = [level \in 1..MaxLevel |-> IF level = 1 THEN <<60, 0>> ELSE Grow(Cost[level - 1])]
<1> DEFINE step == [i \in Nat |-> [a \in Amounts |-> Grow(a)]]
<1>1. step \in [Nat -> [Amounts -> Amounts]]  BY Amounts1
<1>2. <<60, 0>> \in Amounts  BY DEF Amounts
<1>3. PICK h \in [1..MaxLevel -> Amounts] :
         h = [level \in 1..MaxLevel |-> IF level = 1 THEN <<60, 0>> ELSE step[level - 1][h[level - 1]]]
  <2> HIDE DEF step
  <2> QED  BY <1>1, <1>2, AmountsFollow
<1>4. ASSUME NEW level \in 1..MaxLevel, level # 1
      PROVE  step[level - 1][h[level - 1]] = Grow(h[level - 1])
  <2>1. level - 1 \in Nat /\ level - 1 \in 1..MaxLevel  BY <1>4, LevelCount
  <2>2. h[level - 1] \in Amounts  BY <2>1
  <2> QED  BY <2>1, <2>2
<1> HIDE DEF step
<1>5. h = [level \in 1..MaxLevel |-> IF level = 1 THEN <<60, 0>> ELSE Grow(h[level - 1])]
  BY <1>3, <1>4
<1> QED  BY <1>5 DEF Cost

LEMMA CostsAreAmounts == \A level \in 1..MaxLevel : Cost[level] \in Amounts
<1>1. Cost[1] \in Amounts  BY CostIsList, LevelCount, GrantAssumption DEF Amounts, GrantAssumption
<1>2. ASSUME NEW level \in 2..MaxLevel, Cost[level - 1] \in Amounts PROVE Cost[level] \in Amounts
  <2>1. level \in 1..MaxLevel /\ level # 1  BY LevelCount
  <2>2. Cost[level] = Grow(Cost[level - 1])  BY <2>1, CostIsList
  <2> QED  BY <1>2, <2>2, Amounts1
<1> QED  BY <1>1, <1>2, ListOfAmounts

LEMMA CumulativeIsList ==
    Cumulative = [level \in 1..MaxLevel |->
                    IF level = 1 THEN <<0, 0>> ELSE Add(Cumulative[level - 1], Cost[level - 1])]
<1> DEFINE paid(i) == IF i \in 1..MaxLevel THEN Cost[i] ELSE <<0, 0>>
           step == [i \in Nat |-> [a \in Amounts |-> Add(a, paid(i))]]
<1>1. step \in [Nat -> [Amounts -> Amounts]]
  <2>1. ASSUME NEW i \in Nat PROVE paid(i) \in Amounts  BY CostsAreAmounts DEF Amounts
  <2> HIDE DEF paid
  <2> QED  BY <2>1, Amounts1
<1>2. <<0, 0>> \in Amounts  BY DEF Amounts
<1>3. PICK h \in [1..MaxLevel -> Amounts] :
         h = [level \in 1..MaxLevel |-> IF level = 1 THEN <<0, 0>> ELSE step[level - 1][h[level - 1]]]
  <2> HIDE DEF step
  <2> QED  BY <1>1, <1>2, AmountsFollow
<1>4. ASSUME NEW level \in 1..MaxLevel, level # 1
      PROVE  step[level - 1][h[level - 1]] = Add(h[level - 1], Cost[level - 1])
  <2>1. level - 1 \in Nat /\ level - 1 \in 1..MaxLevel  BY <1>4, LevelCount
  <2>2. h[level - 1] \in Amounts /\ paid(level - 1) = Cost[level - 1]  BY <2>1
  <2> HIDE DEF paid
  <2> QED  BY <2>1, <2>2
<1> HIDE DEF step
<1>5. h = [level \in 1..MaxLevel |-> IF level = 1 THEN <<0, 0>> ELSE Add(h[level - 1], Cost[level - 1])]
  BY <1>3, <1>4
<1> QED  BY <1>5 DEF Cumulative

LEMMA Thresholds == LevelThresholds[1] = 0 /\ \A level \in 1..MaxLevel : LevelThresholds[level] \in Int
<1>1. 1 \in 1..MaxLevel  BY GrantAssumption DEF GrantAssumption
<1>2. Cumulative[1] = <<0, 0>>  BY <1>1, CumulativeIsList
<1>3. ASSUME NEW level \in 2..MaxLevel, Cumulative[level - 1] \in Amounts PROVE Cumulative[level] \in Amounts
  <2>1. level \in 1..MaxLevel /\ level # 1 /\ level - 1 \in 1..MaxLevel  BY LevelCount
  <2>2. Cumulative[level] = Add(Cumulative[level - 1], Cost[level - 1])  BY <2>1, CumulativeIsList
  <2>3. Cost[level - 1] \in Amounts  BY <2>1, CostsAreAmounts
  <2> QED  BY <1>3, <2>2, <2>3, Amounts1
<1>4. <<0, 0>> \in Amounts  BY DEF Amounts
<1>5. \A level \in 1..MaxLevel : Cumulative[level] \in Amounts
  BY <1>2, <1>3, <1>4, ListOfAmounts
<1>6. \A level \in 1..MaxLevel : LevelThresholds[level] \in Int
  BY <1>5, Amounts1 DEF LevelThresholds
<1>7. LevelThresholds[1] = 0  BY <1>1, <1>2 DEF LevelThresholds, Round
<1> QED  BY <1>6, <1>7

\* LevelForXP finds the level between whose thresholds the XP lies.
LEMMA LevelOfXp ==
    ASSUME NEW xp \in Nat
    PROVE  /\ LevelForXP(xp) \in 1..MaxLevel
           /\ LevelThresholds[LevelForXP(xp)] <= xp
           /\ LevelForXP(xp) < MaxLevel => xp < LevelThresholds[LevelForXP(xp) + 1]
<1> DEFINE reached == {1} \cup {level \in 1..MaxLevel : xp >= LevelThresholds[level]}
<1>1. 1 \in 1..MaxLevel /\ MaxLevel \in Nat  BY GrantAssumption DEF GrantAssumption
<1>2. \A level \in reached : level \in 1..MaxLevel /\ LevelThresholds[level] <= xp
  BY <1>1, Thresholds
<1>3. \E most \in reached : \A level \in reached : level <= most
  <2>1. reached \in SUBSET (0..MaxLevel) /\ reached # {}  BY <1>1
  <2> HIDE DEF reached
  <2> QED  BY <1>1, <2>1, GreatestNumber
<1>4. \E most \in reached : \A level \in reached : most >= level
  <2>1. reached \subseteq Int  BY <1>1
  <2> HIDE DEF reached
  <2> QED  BY <1>3, <2>1
<1>5. LevelForXP(xp) \in reached /\ \A level \in reached : LevelForXP(xp) >= level
  <2>1. LevelForXP(xp) = Max(reached)  BY DEF LevelForXP
  <2> HIDE DEF reached
  <2> QED  BY <1>4, <2>1 DEF Max
<1>6. ASSUME LevelForXP(xp) < MaxLevel PROVE xp < LevelThresholds[LevelForXP(xp) + 1]
  <2>1. LevelForXP(xp) \in Int /\ LevelForXP(xp) + 1 \in 1..MaxLevel  BY <1>1, <1>2, <1>5, <1>6
  <2>2. LevelForXP(xp) + 1 \notin reached  BY <1>5, <2>1
  <2> QED  BY <2>1, <2>2, Thresholds
<1> QED  BY <1>2, <1>5, <1>6

-----------------------------------------------------------------------------
(* The XP is what the ledger says *)

PaidInv ==
    /\ IsFiniteSet(ledger)
    /\ \A u \in Users : account[u].xp = Earned(u)

Gains == [g \in Grants |-> XpGain[TestOf[g]]]
RowsOf(u) == {g \in ledger : UserOf[g] = u}

LEMMA PayingKeepsPaidInv ==
    ASSUME RewardInv, PaidInv, NEW g \in Grants, Pays(g)
    PROVE  PaidInv'
<1>1. IsFiniteSet(ledger)'  BY FS_AddElement DEF Pays, PaidInv
<1>2. \A h \in ledger \cup {g} : Gains[h] \in Int
  BY GrantAssumption DEF Gains, GrantAssumption, RewardInv, GrantInv, GrantTypes
<1>3. ASSUME NEW u \in Users
      PROVE  account'[u].xp = Earned(u)'
  <2>1. account[u].xp = Sum(Gains, RowsOf(u)) /\ Earned(u)' = Sum(Gains, RowsOf(u)')
    BY DEF PaidInv, Earned, Sum, Gains, RowsOf
  <2>2. CASE u = UserOf[g]
    <3>1. RowsOf(u)' = RowsOf(u) \cup {g}  BY <2>2 DEF Pays, RowsOf
    <3>2. IsFiniteSet(RowsOf(u)) /\ g \notin RowsOf(u)
      BY FS_Subset DEF PaidInv, RowsOf, Pays
    <3>3. \A h \in RowsOf(u) \cup {g} : Gains[h] \in Int  BY <1>2 DEF RowsOf
    <3>4. Sum(Gains, RowsOf(u) \cup {g}) = Sum(Gains, RowsOf(u)) + Gains[g]
      BY <3>2, <3>3, SumGrows
    <3>5. account'[u].xp = account[u].xp + Gains[g]  BY <2>2 DEF Pays, Gains
    <3> QED  BY <2>1, <3>1, <3>4, <3>5
  <2>3. CASE u # UserOf[g]
    <3>1. RowsOf(u)' = RowsOf(u)  BY <2>3 DEF Pays, RowsOf
    <3>2. account'[u].xp = account[u].xp + 0  BY <2>3 DEF Pays
    <3>3. account[u].xp \in Nat  BY DEF RewardInv, GrantInv, GrantTypes
    <3> QED  BY <2>1, <3>1, <3>2, <3>3
  <2> QED  BY <2>2, <2>3
<1> QED  BY <1>1, <1>3 DEF PaidInv

\* However transactions meet, fail and wait: the XP of a user is the sum of
\* what the ledger says was granted, each test once and for a graded
\* submission; and the profile's level is the one the XP lies in
\* (GrantIfFirstAttempt, leveling.LevelForXP).
THEOREM XpAddsUp == Spec => []XpMatchesLedger
<1>1. Init => PaidInv
  <2> SUFFICES ASSUME Init PROVE PaidInv  OBVIOUS
  <2>1. IsFiniteSet({}) /\ Sum(Gains, {}) = 0  BY FS_EmptySet, SumSplits
  <2>2. \A u \in Users : RowsOf(u) = {}  BY DEF Init, InitXp, RowsOf
  <2>3. \A u \in Users : account[u].xp = 0 /\ ledger = {}  BY DEF Init, InitXp
  <2> QED  BY <2>1, <2>2, <2>3 DEF PaidInv, Init, InitXp, Earned, Sum, Gains, RowsOf
<1>2. RewardInv /\ PaidInv /\ [Next]_vars => PaidInv'
  <2> SUFFICES ASSUME RewardInv, PaidInv, [Next]_vars PROVE PaidInv'  OBVIOUS
  <2>1. CASE UNCHANGED <<account, ledger>>  BY <2>1 DEF PaidInv, Earned
  <2> QED  BY <2>1, GrantsPay, PayingKeepsPaidInv
<1>3. RewardInv /\ PaidInv => XpMatchesLedger
  <2> SUFFICES ASSUME RewardInv, PaidInv PROVE XpMatchesLedger  OBVIOUS
  <2>1. NoPairTwice /\ LevelFollowsXp /\ PaidForGrades
    BY RewardsAssumption DEF RewardInv, GrantInv, GrantTypes, CalledWhenGraded, PaidForGrades, IsOver
  <2>2. ASSUME NEW u \in Users
        PROVE  Profile(u).past >= 0 /\ (Profile(u).left > 0 \/ Profile(u).level = MaxLevel)
    <3> DEFINE xp == account[u].xp
               level == LevelForXP(xp)
    <3>1. xp \in Nat  BY DEF RewardInv, GrantInv, GrantTypes
    <3>2. /\ Profile(u).level = level /\ Profile(u).past = xp - LevelThresholds[level]
          /\ Profile(u).left = IF level = MaxLevel THEN 0 ELSE LevelThresholds[level + 1] - xp
      BY DEF Profile, CurrentLevelXP, XPToNextLevel
    <3>3. /\ level \in 1..MaxLevel /\ LevelThresholds[level] <= xp
          /\ level < MaxLevel => xp < LevelThresholds[level + 1]
      BY <3>1, LevelOfXp
    <3>4. \A l \in 1..MaxLevel : LevelThresholds[l] \in Int  BY Thresholds
    <3> HIDE DEF level, xp
    <3>5. level # MaxLevel => level < MaxLevel /\ level + 1 \in 1..MaxLevel
      BY <3>3, LevelCount
    <3> QED  BY <3>1, <3>2, <3>3, <3>4, <3>5
  <2> QED  BY <2>1, <2>2 DEF XpMatchesLedger, PaidInv
<1> QED  BY <1>1, <1>2, <1>3, RewardInvHolds, PTL DEF Spec

-----------------------------------------------------------------------------
(* What a written grade is made of *)

\* The overall band lies between the lowest and the highest it is made from.
LEMMA OverallInBounds ==
    ASSUME NEW n \in Nat \ {0}, NEW low \in Int, NEW high \in Int, NEW sum \in Int,
           n * low <= sum, sum <= n * high
    PROVE  IELTSOverall(sum, n) \in 2 * low .. 2 * high
<1> DEFINE q == sum \div n
           r == sum % n
<1>1. q \in Int /\ r \in 0..n - 1 /\ sum = n * q + r  OBVIOUS
<1>2. IELTSOverall(sum, n) = 2 * q + (IF 4 * r < n THEN 0 ELSE IF 4 * r < 3 * n THEN 1 ELSE 2)
  BY DEF IELTSOverall
<1> HIDE DEF q, r
<1>3. low <= q
  <2>1. SUFFICES ASSUME q + 1 <= low PROVE FALSE  BY <1>1
  <2>2. n * (q + 1) <= n * low  BY <1>1, <2>1
  <2>3. n * (q + 1) = n * q + n  BY <1>1
  <2> QED  BY <1>1, <2>2, <2>3
<1>4. q <= high /\ (q = high => r = 0)
  <2>1. \A b \in Int : b <= q => n * b <= n * q  BY <1>1
  <2>2. q <= high
    <3>1. SUFFICES ASSUME high + 1 <= q PROVE FALSE  BY <1>1
    <3>2. n * (high + 1) <= n * q /\ n * (high + 1) = n * high + n  BY <2>1, <3>1
    <3>3. n * q \in Int /\ n * high \in Int  BY <1>1
    <3> QED  BY <1>1, <3>2, <3>3
  <2>3. q = high => r = 0
    <3>1. n * q \in Int  BY <1>1
    <3> QED  BY <1>1, <3>1
  <2> QED  BY <2>2, <2>3
<1> QED  BY <1>1, <1>2, <1>3, <1>4

\* IELTSOverall rounds the mean to the nearest half band, ties upwards.
LEMMA OverallIsClosest ==
    ASSUME NEW n \in Nat \ {0}, NEW sum \in Int
    PROVE  /\ IELTSOverall(sum, n) \in Int
           /\ LET off == 2 * (2 * sum - n * IELTSOverall(sum, n))
              IN  -n <= off /\ off < n
<1> DEFINE q == sum \div n
           r == sum % n
<1>1. q \in Int /\ r \in 0..n - 1 /\ sum = n * q + r  OBVIOUS
<1>2. IELTSOverall(sum, n) = 2 * q + (IF 4 * r < n THEN 0 ELSE IF 4 * r < 3 * n THEN 1 ELSE 2)
  BY DEF IELTSOverall
<1> HIDE DEF q, r
<1>3. PICK p \in Int : p = n * q  BY <1>1
<1>4. CASE 4 * r < n
  <2>1. n * (2 * q) = 2 * p /\ IELTSOverall(sum, n) = 2 * q  BY <1>1, <1>2, <1>3, <1>4
  <2> QED  BY <1>1, <1>3, <1>4, <2>1
<1>5. CASE ~(4 * r < n) /\ 4 * r < 3 * n
  <2>1. n * (2 * q + 1) = 2 * p + n /\ IELTSOverall(sum, n) = 2 * q + 1  BY <1>1, <1>2, <1>3, <1>5
  <2> QED  BY <1>1, <1>3, <1>5, <2>1
<1>6. CASE ~(4 * r < n) /\ ~(4 * r < 3 * n)
  <2>1. n * (2 * q + 2) = 2 * p + 2 * n /\ IELTSOverall(sum, n) = 2 * q + 2
    BY <1>1, <1>2, <1>3, <1>6
  <2> QED  BY <1>1, <1>3, <1>6, <2>1
<1> QED  BY <1>4, <1>5, <1>6

Corrections == [quoted : BOOLEAN, issue : STRING]
Filings == [quoted : BOOLEAN, issue : CorrectionIssues \cup {"other"}]
Quotes == {c \in Filings : c.quoted}
KeptLists == {kept \in Seq(Quotes) : Len(kept) <= MaxCorrections}

LEMMA FiledIsFiling ==
    ASSUME NEW c \in Corrections
    PROVE  Filed(c) \in Filings /\ Filed(c).quoted = c.quoted
<1>0. c.quoted \in BOOLEAN /\ c = [quoted |-> c.quoted, issue |-> c.issue]  BY DEF Corrections
<1>1. CASE c.issue \in CorrectionIssues
  <2>1. Filed(c) = c  BY <1>1 DEF Filed
  <2>2. [quoted |-> c.quoted, issue |-> c.issue] \in Filings  BY <1>0, <1>1 DEF Filings
  <2> QED  BY <1>0, <2>1, <2>2
<1>2. CASE c.issue \notin CorrectionIssues
  <2>1. Filed(c) = [c EXCEPT !.issue = "other"]  BY <1>2 DEF Filed
  <2>2. [c EXCEPT !.issue = "other"] = [quoted |-> c.quoted, issue |-> "other"]  BY DEF Corrections
  <2>3. [quoted |-> c.quoted, issue |-> "other"] \in Filings  BY <1>0 DEF Filings
  <2>4. Filed(c) = [quoted |-> c.quoted, issue |-> "other"]  BY <2>1, <2>2
  <2> QED  BY <2>3, <2>4
<1> QED  BY <1>1, <1>2

\* At most MaxCorrections corrections are kept, all of which quote the answer.
LEMMA KeptAreQuotes ==
    ASSUME NEW list \in CorrectionLists
    PROVE  Kept(list) \in KeptLists
<1> DEFINE Next1(i, kept) == IF list[i].quoted /\ Len(kept) < MaxCorrections
                             THEN Append(kept, Filed(list[i])) ELSE kept
           IsList(h) == h = [i \in 0..Len(list) |-> IF i = 0 THEN <<>> ELSE Next1(i, h[i - 1])]
<1>0. list \in Seq(Corrections) /\ MaxCorrections \in Nat
  BY WritingAssumption DEF WritingAssumption, Corrections
<1>1. Len(list) \in Nat  BY <1>0
<1>2. ASSUME NEW i \in 1..Len(list), NEW kept \in KeptLists PROVE Next1(i, kept) \in KeptLists
  <2>1. list[i] \in Corrections  BY <1>0
  <2>2. Filed(list[i]).quoted = list[i].quoted /\ Filed(list[i]) \in Filings
    BY <2>1, FiledIsFiling
  <2>3. CASE list[i].quoted /\ Len(kept) < MaxCorrections
    <3>1. Filed(list[i]) \in Quotes  BY <2>1, <2>2, <2>3 DEF Quotes
    <3>2. kept \in Seq(Quotes)  BY DEF KeptLists
    <3>3. Append(kept, Filed(list[i])) \in Seq(Quotes)
          /\ Len(Append(kept, Filed(list[i]))) = Len(kept) + 1 /\ Len(kept) \in Nat
      BY <3>1, <3>2
    <3> QED  BY <1>0, <2>3, <3>3 DEF KeptLists
  <2>4. CASE ~(list[i].quoted /\ Len(kept) < MaxCorrections)  BY <2>4
  <2> QED  BY <2>3, <2>4
<1>3. <<>> \in KeptLists  BY <1>0 DEF KeptLists
<1> HIDE DEF Next1
<1>4. \E h : IsList(h)
  <2> DEFINE longer == [i \in Nat |-> [kept \in KeptLists |-> IF i \in 1..Len(list) THEN Next1(i, kept) ELSE kept]]
  <2>1. PICK step \in [Nat -> [KeptLists -> KeptLists]] : step = longer
    <3>1. longer \in [Nat -> [KeptLists -> KeptLists]]  BY <1>2
    <3> QED  BY <3>1
  <2> HIDE DEF longer
  <2>2. PICK n \in Nat : n = Len(list)  BY <1>1
  <2>3. PICK h \in [0..n -> KeptLists] : h[0] = <<>> /\ \A i \in 1..n : h[i] = step[i][h[i - 1]]
    <3>1. PICK empty \in KeptLists : empty = <<>>  BY <1>3
    <3>2. PICK h : Stepwise(KeptLists, empty, step, n, h)  BY StepByStep
    <3> QED  BY <3>1, <3>2 DEF Stepwise
  <2> USE DEF longer
  <2>4. ASSUME NEW i \in 0..n PROVE h[i] = IF i = 0 THEN <<>> ELSE Next1(i, h[i - 1])
    <3>1. CASE i = 0  BY <2>3, <3>1
    <3>2. CASE i # 0
      <4>1. i \in 1..n /\ i - 1 \in 0..n /\ i \in Nat  BY <3>2
      <4>2. h[i - 1] \in KeptLists /\ h[i] = step[i][h[i - 1]]  BY <2>3, <4>1
      <4> QED  BY <2>1, <2>2, <3>2, <4>1, <4>2
    <3> QED  BY <3>1, <3>2
  <2>5. h = [i \in 0..n |-> h[i]]  OBVIOUS
  <2>6. h = [i \in 0..n |-> IF i = 0 THEN <<>> ELSE Next1(i, h[i - 1])]  BY <2>4, <2>5
  <2> QED  BY <2>2, <2>6
<1> DEFINE kept == CHOOSE h : IsList(h)
<1>5. IsList(kept)
  <2> HIDE DEF IsList
  <2> QED  BY <1>4
<1>6. Kept(list) = kept[Len(list)]
  BY DEF Kept, Next1
<1> HIDE DEF kept
<1>7. kept[0] \in KeptLists  BY <1>1, <1>3, <1>5
<1>8. ASSUME NEW i \in 1..Len(list), kept[i - 1] \in KeptLists PROVE kept[i] \in KeptLists
  <2>1. i \in 0..Len(list) /\ i # 0  BY <1>1
  <2> QED  BY <1>2, <1>5, <1>8, <2>1
<1> HIDE DEF IsList
<1>9. \A i \in 0..Len(list) : kept[i] \in KeptLists
  BY <1>1, <1>7, <1>8, HandedOn
<1> QED  BY <1>1, <1>6, <1>9

-----------------------------------------------------------------------------
(* Attempts *)

CallStates == {"idle", "running", "answered", "failed"}
Results == Answered

\* A grade that a learner may see; cf. WrittenGradeIsWhole.
IsWhole(j, grade) ==
    /\ \A c \in Criteria : grade.criteria[c] \in 0..9
    /\ LET count == Cardinality(Criteria)
           off == 2 * (2 * SumFunction(grade.criteria) - count * grade.overall)
       IN  -count <= off /\ off < count
    /\ Len(grade.corrections) <= MaxCorrections
    /\ \A i \in DOMAIN grade.corrections :
          /\ grade.corrections[i].quoted
          /\ grade.corrections[i].issue \in CorrectionIssues \cup {"other"}
    /\ grade.model = (IF j \in Sampled THEN "sample" ELSE "llm")
ScoreOK(j, grade) ==
    /\ grade \in {None} \cup (IF j \in Written THEN Grades ELSE {"auto"})
    /\ j \in Written /\ grade # None => IsWhole(j, grade)

\* What a call that has answered is recorded to have said.
IsAnswered(calls, found) ==
    /\ \A c \in Criteria : calls[c] = "answered" => found.criteria[c] \in 0..9
    /\ calls["corrections"] = "answered" => found.corrections \in CorrectionLists
    /\ calls["modelAnswer"] = "answered" => found.model = "llm"

\* A job's attempt, stage, calls, cause, result and score fit together: a
\* waiting job has an attempt left; calls are made only while an attempt is
\* graded, all that it asks for, and none of them has failed while there is
\* no cause; the score is whole.
JobOK(a, s, calls, e, found) ==
    /\ a \in 0..MaxAttempts /\ (s = "pending" => a < MaxAttempts)
    /\ s \in Stages /\ e \in Causes
    /\ calls \in [Calls -> CallStates] /\ (s # "grading" => calls = Idle)
    /\ e = None => \A c \in Calls : calls[c] # "failed"
    /\ found \in Results /\ IsAnswered(calls, found)
AllAsked(j, s, calls) == s = "grading" => \A c \in Asked(j) : calls[c] # "idle"

JobsInv ==
    /\ attempt = [j \in Jobs |-> attempt[j]] /\ stage = [j \in Jobs |-> stage[j]]
    /\ call = [j \in Jobs |-> call[j]] /\ cause = [j \in Jobs |-> cause[j]]
    /\ result = [j \in Jobs |-> result[j]] /\ score = [j \in Jobs |-> score[j]]
    /\ \A j \in Jobs : /\ JobOK(attempt[j], stage[j], call[j], cause[j], result[j])
                       /\ AllAsked(j, stage[j], call[j])
                       /\ ScoreOK(j, score[j])

\* A step of one job.
LEMMA OneJob ==
    ASSUME JobsInv, NEW j \in Jobs, NEW a, NEW s, NEW calls, NEW e, NEW found, NEW grade,
           attempt' = [attempt EXCEPT ![j] = a], stage' = [stage EXCEPT ![j] = s],
           call' = [call EXCEPT ![j] = calls], cause' = [cause EXCEPT ![j] = e],
           result' = [result EXCEPT ![j] = found], score' = [score EXCEPT ![j] = grade],
           JobOK(a, s, calls, e, found), AllAsked(j, s, calls),
           ScoreOK(j, grade)
    PROVE  JobsInv'
<1>1. ASSUME NEW k \in Jobs
      PROVE  /\ JobOK(attempt'[k], stage'[k], call'[k], cause'[k], result'[k])
             /\ AllAsked(k, stage'[k], call'[k])
             /\ ScoreOK(k, score'[k])
  <2>1. CASE k = j
    <3>1. /\ attempt'[k] = a /\ stage'[k] = s /\ call'[k] = calls
          /\ cause'[k] = e /\ result'[k] = found /\ score'[k] = grade
      BY <2>1 DEF JobsInv
    <3> QED  BY <2>1, <3>1
  <2>2. CASE k # j
    <3>1. /\ attempt'[k] = attempt[k] /\ stage'[k] = stage[k] /\ call'[k] = call[k]
          /\ cause'[k] = cause[k] /\ result'[k] = result[k] /\ score'[k] = score[k]
      BY <2>2 DEF JobsInv
    <3> QED  BY <3>1 DEF JobsInv
  <2> QED  BY <2>1, <2>2
<1>2. /\ attempt' = [k \in Jobs |-> attempt'[k]] /\ stage' = [k \in Jobs |-> stage'[k]]
      /\ call' = [k \in Jobs |-> call'[k]] /\ cause' = [k \in Jobs |-> cause'[k]]
      /\ result' = [k \in Jobs |-> result'[k]] /\ score' = [k \in Jobs |-> score'[k]]
  BY DEF JobsInv
<1> QED  BY <1>1, <1>2 DEF JobsInv

LEMMA IdleIsOK == Idle \in [Calls -> CallStates] /\ \A c \in Calls : Idle[c] = "idle"
BY DEF Idle, CallStates

LEMMA StartedIsOK ==
    ASSUME NEW j \in Jobs
    PROVE  /\ Started(j) \in [Calls -> CallStates]
           /\ \A c \in Calls : Started(j)[c] \notin {"answered", "failed"}
           /\ \A c \in Asked(j) : c \in Calls /\ Started(j)[c] = "running"
<1>1. Asked(j) \subseteq Calls  BY DEF Asked
<1> QED  BY <1>1 DEF Started, CallStates

LEMMA CallNames ==
    /\ Criteria \subseteq Calls /\ "corrections" \in Calls /\ "modelAnswer" \in Calls
    /\ "corrections" \notin Criteria /\ "modelAnswer" \notin Criteria
BY WritingAssumption DEF Calls, WritingAssumption

LEMMA EmptyIsOK == Empty \in Results
BY DEF Empty, Results, Answered

LEMMA NothingAnswered ==
    ASSUME NEW calls, \A c \in Calls : calls[c] # "answered", NEW found
    PROVE  IsAnswered(calls, found)
BY CallNames DEF IsAnswered

LEMMA SettlingKeepsJobs ==
    ASSUME JobsInv, NEW j \in Jobs, NEW e \in Causes, stage[j] # "pending", SettleFailure(j, e)
    PROVE  JobsInv'
<1> DEFINE s == IF e = "ungradable" \/ attempt[j] >= MaxAttempts THEN "failed" ELSE "pending"
<1>1. /\ attempt' = [attempt EXCEPT ![j] = attempt[j]] /\ stage' = [stage EXCEPT ![j] = s]
      /\ call' = [call EXCEPT ![j] = Idle] /\ cause' = [cause EXCEPT ![j] = e]
      /\ result' = [result EXCEPT ![j] = Empty] /\ score' = [score EXCEPT ![j] = score[j]]
  BY DEF SettleFailure, EndCalls, JobsInv
<1>2. attempt[j] \in 0..MaxAttempts /\ ScoreOK(j, score[j])
  BY DEF JobsInv, JobOK
<1>3. s \in Stages /\ s # "grading" /\ (s = "pending" => attempt[j] < MaxAttempts)
  <2>1. MaxAttempts \in Nat  BY WritingAssumption DEF WritingAssumption
  <2> QED  BY <1>2, <2>1 DEF Stages
<1> HIDE DEF s
<1>4. IsAnswered(Idle, Empty)
  <2>1. \A c \in Calls : Idle[c] # "answered"  BY IdleIsOK
  <2> QED  BY <2>1, NothingAnswered
<1>5. JobOK(attempt[j], s, Idle, e, Empty)
  BY <1>2, <1>3, <1>4, IdleIsOK, EmptyIsOK DEF JobOK
<1>6. AllAsked(j, s, Idle)  BY <1>3 DEF AllAsked
<1> QED  BY <1>1, <1>2, <1>5, <1>6, OneJob

LEMMA StartingKeepsJobs ==
    ASSUME JobsInv, NEW j \in Jobs, NEW a \in 0..MaxAttempts, NEW s \in Stages, NEW calls, NEW e \in Causes,
           s # "pending", e = None,
           calls = (IF s = "grading" THEN Started(j) ELSE Idle),
           attempt' = [attempt EXCEPT ![j] = a], stage' = [stage EXCEPT ![j] = s],
           call' = [call EXCEPT ![j] = calls], cause' = [cause EXCEPT ![j] = e],
           result' = result, score' = score
    PROVE  JobsInv'
<1>1. result' = [result EXCEPT ![j] = result[j]] /\ score' = [score EXCEPT ![j] = score[j]]
  BY DEF JobsInv
<1>2. result[j] \in Results /\ ScoreOK(j, score[j])
  BY DEF JobsInv, JobOK
<1>3. calls \in [Calls -> CallStates] /\ \A c \in Calls : calls[c] \notin {"answered", "failed"}
  BY IdleIsOK, StartedIsOK
<1>4. IsAnswered(calls, result[j])  BY <1>3, NothingAnswered
<1>5. s # "grading" => calls = Idle  OBVIOUS
<1>6. JobOK(a, s, calls, e, result[j])  BY <1>2, <1>3, <1>4, <1>5 DEF JobOK
<1>7. AllAsked(j, s, calls)  BY StartedIsOK DEF AllAsked
<1> QED  BY <1>1, <1>2, <1>6, <1>7, OneJob

\* A call of a running attempt ends, and leaves what it should.
LEMMA CallKeepsJobs ==
    ASSUME JobsInv, NEW j \in Jobs, NEW c \in Calls, NEW state \in {"answered", "failed"},
           NEW e \in Causes, NEW found,
           stage[j] = "grading",
           attempt' = attempt, stage' = stage, score' = score,
           call' = [call EXCEPT ![j][c] = state], cause' = [cause EXCEPT ![j] = e],
           result' = [result EXCEPT ![j] = found], found \in Results,
           e = None => cause[j] = None /\ state # "failed",
           IsAnswered([call[j] EXCEPT ![c] = state], found)
    PROVE  JobsInv'
<1> DEFINE calls == [call[j] EXCEPT ![c] = state]
<1>1. /\ attempt' = [attempt EXCEPT ![j] = attempt[j]] /\ stage' = [stage EXCEPT ![j] = stage[j]]
      /\ score' = [score EXCEPT ![j] = score[j]] /\ call' = [call EXCEPT ![j] = calls]
  BY DEF JobsInv
<1>2. JobOK(attempt[j], stage[j], call[j], cause[j], result[j]) /\ AllAsked(j, stage[j], call[j])
      /\ ScoreOK(j, score[j])
  BY DEF JobsInv
<1>3. call[j] \in [Calls -> CallStates] /\ (cause[j] = None => \A d \in Calls : call[j][d] # "failed")
  BY <1>2 DEF JobOK
<1>4. calls \in [Calls -> CallStates] /\ (e = None => \A d \in Calls : calls[d] # "failed")
  BY <1>3 DEF CallStates
<1>5. AllAsked(j, stage[j], calls)
  <2>1. \A d \in Asked(j) : d \in Calls  BY StartedIsOK
  <2> QED  BY <1>2, <1>3, <2>1 DEF AllAsked
<1>6. IsAnswered(calls, found)  OBVIOUS
<1> HIDE DEF calls
<1>7. JobOK(attempt[j], stage[j], calls, e, found)  BY <1>2, <1>4, <1>6 DEF JobOK
<1> QED  BY <1>1, <1>2, <1>5, <1>7, OneJob

LEMMA AnswersKeepJobs ==
    ASSUME JobsInv, NEW j \in Jobs, NEW c \in Calls, Answer(j, c), NEW found \in Results,
           result' = [result EXCEPT ![j] = found],
           \A d \in Criteria : found.criteria[d] \in 0..9
                               \/ (d # c /\ found.criteria[d] = result[j].criteria[d]),
           \/ found.corrections \in CorrectionLists
           \/ c # "corrections" /\ found.corrections = result[j].corrections,
           \/ found.model = "llm"
           \/ c # "modelAnswer" /\ found.model = result[j].model
    PROVE  JobsInv'
<1>1. /\ stage[j] = "grading" /\ attempt' = attempt /\ stage' = stage /\ score' = score
      /\ call' = [call EXCEPT ![j][c] = "answered"] /\ cause' = [cause EXCEPT ![j] = cause[j]]
  BY DEF Answer, JobsInv
<1>2. cause[j] \in Causes /\ call[j] \in [Calls -> CallStates] /\ IsAnswered(call[j], result[j])
  BY DEF JobsInv, JobOK
<1> DEFINE calls == [call[j] EXCEPT ![c] = "answered"]
<1>3. \A d \in Calls : calls[d] = IF d = c THEN "answered" ELSE call[j][d]  BY <1>2
<1> HIDE DEF calls
<1>4. IsAnswered(calls, found)
  <2>1. ASSUME NEW d \in Criteria, calls[d] = "answered" PROVE found.criteria[d] \in 0..9
    <3>1. CASE d # c /\ found.criteria[d] = result[j].criteria[d]
      <4>1. call[j][d] = "answered"  BY <1>3, <2>1, <3>1, CallNames
      <4>2. result[j].criteria[d] \in 0..9  BY <1>2, <4>1 DEF IsAnswered
      <4> QED  BY <3>1, <4>2
    <3> QED  BY <3>1
  <2>2. calls["corrections"] = "answered" => found.corrections \in CorrectionLists
    <3>1. CASE c # "corrections" /\ found.corrections = result[j].corrections
      BY <1>2, <1>3, <3>1, CallNames DEF IsAnswered
    <3> QED  BY <3>1
  <2>3. calls["modelAnswer"] = "answered" => found.model = "llm"
    <3>1. CASE c # "modelAnswer" /\ found.model = result[j].model
      BY <1>2, <1>3, <3>1, CallNames DEF IsAnswered
    <3> QED  BY <3>1
  <2> QED  BY <2>1, <2>2, <2>3 DEF IsAnswered
<1> QED  BY <1>1, <1>2, <1>4, CallKeepsJobs DEF calls

\* normalizeResult: what is stored of an attempt that went well is whole.
LEMMA NormalizedIsWhole ==
    ASSUME JobsInv, NEW j \in Written, Waited(j), cause[j] = None
    PROVE  ScoreOK(j, Normalized(j))
<1> USE WritingAssumption
<1>0. j \in Jobs  BY DEF WritingAssumption
<1>1. /\ call[j] \in [Calls -> CallStates] /\ IsAnswered(call[j], result[j]) /\ result[j] \in Results
      /\ AllAsked(j, "grading", call[j]) /\ \A c \in Calls : call[j][c] \notin {"failed", "running"}
  BY <1>0 DEF Waited, JobsInv, JobOK
<1>2. \A c \in Asked(j) : call[j][c] = "answered"
  <2>1. \A c \in Asked(j) : c \in Calls  BY <1>0, StartedIsOK
  <2> QED  BY <1>1, <2>1 DEF AllAsked, CallStates
<1>3. Criteria \subseteq Asked(j) /\ "corrections" \in Asked(j)
      /\ (j \notin Sampled => "modelAnswer" \in Asked(j))
  BY CallNames DEF Asked
<1> DEFINE grade == Normalized(j)
           bands == result[j].criteria
<1>4. /\ grade.criteria = bands /\ grade.corrections = Kept(result[j].corrections)
      /\ grade.overall = IELTSOverall(SumFunction(bands), Cardinality(Criteria))
      /\ grade.model = IF j \in Sampled THEN "sample" ELSE result[j].model
      /\ grade = [criteria |-> grade.criteria, overall |-> grade.overall,
                  corrections |-> grade.corrections, model |-> grade.model]
  BY DEF Normalized
<1> HIDE DEF grade
<1>5. \A c \in Criteria : bands[c] \in 0..9
  BY <1>1, <1>2, <1>3 DEF IsAnswered
<1>6. DOMAIN bands = Criteria  BY <1>1 DEF Results, Answered
<1>7. IsFiniteSet(Criteria) /\ Criteria # {}  BY DEF WritingAssumption
<1>8. bands \in [Criteria -> 0..9]
  <2>1. bands = [c \in Criteria |-> bands[c]]  BY <1>1 DEF Results, Answered
  <2> QED  BY <1>5, <2>1
<1> HIDE DEF bands
<1>9. PICK n \in Nat \ {0} : n = Cardinality(Criteria)
  BY <1>7, FS_CardinalityType, FS_EmptySet
<1> PICK low \in Int, high \in Int : low = 0 /\ high = 9  OBVIOUS
<1>10. PICK sum \in Int : sum = SumFunction(bands) /\ n * low <= sum /\ sum <= n * high
  <2>1. \A c \in Criteria : bands[c] \in Int  BY <1>5
  <2>2. PICK sum \in Int : sum = Sum(bands, Criteria)  BY <1>7, <2>1, SumType
  <2>3. \A c \in Criteria : bands[c] \in low..high  BY <1>5
  <2>4. /\ Cardinality(Criteria) * low <= Sum(bands, Criteria)
        /\ Sum(bands, Criteria) <= Cardinality(Criteria) * high
    BY <1>7, <2>3, SumBounds
  <2> QED  BY <1>6, <1>9, <2>2, <2>4 DEF SumFunction, Sum
<1>11. /\ grade.overall \in 0..2 * 9
       /\ LET off == 2 * (2 * sum - n * grade.overall) IN  -n <= off /\ off < n
  <2>1. grade.overall = IELTSOverall(sum, n)  BY <1>4, <1>9, <1>10
  <2>2. IELTSOverall(sum, n) \in 2 * low .. 2 * high  BY <1>10, OverallInBounds
  <2> QED  BY <2>1, <2>2, OverallIsClosest
<1>12. grade.corrections \in KeptLists
  <2>1. result[j].corrections \in CorrectionLists  BY <1>1, <1>2, <1>3 DEF IsAnswered
  <2> QED  BY <1>4, <2>1, KeptAreQuotes
<1>13. /\ grade.corrections \in Seq(Filings) /\ Len(grade.corrections) <= MaxCorrections
       /\ \A i \in DOMAIN grade.corrections :
             /\ grade.corrections[i].quoted
             /\ grade.corrections[i].issue \in CorrectionIssues \cup {"other"}
  <2>1. PICK kept \in Seq(Quotes) : kept = grade.corrections  BY <1>12 DEF KeptLists
  <2>2. \A i \in DOMAIN kept : kept[i] \in Quotes  OBVIOUS
  <2>3. \A c \in Quotes : c \in Filings /\ c.quoted /\ c.issue \in CorrectionIssues \cup {"other"}
    BY DEF Quotes, Filings
  <2>4. kept \in Seq(Filings)
    <3> HIDE DEF Quotes, Filings
    <3> QED  BY <2>3
  <2> QED  BY <1>12, <2>1, <2>2, <2>3, <2>4 DEF KeptLists
<1>14. grade.model = (IF j \in Sampled THEN "sample" ELSE "llm")
  BY <1>1, <1>2, <1>3, <1>4 DEF IsAnswered
<1>15. grade \in Grades
  <2>1. grade.model \in {"sample", "llm"}  BY <1>14
  <2>2. grade.criteria \in [Criteria -> 0..9]  BY <1>4, <1>8
  <2> QED  BY <1>4, <1>11, <1>13, <2>1, <2>2 DEF Grades, Filings
<1>16. IsWhole(j, grade)
  <2>1. SumFunction(grade.criteria) = sum /\ \A c \in Criteria : grade.criteria[c] \in 0..9
    BY <1>4, <1>5, <1>10
  <2> QED  BY <1>9, <1>11, <1>13, <1>14, <2>1 DEF IsWhole
<1> QED  BY <1>15, <1>16 DEF ScoreOK, grade

\* A score is stored: its calls and what they answered are done with.
LEMMA StoringKeepsJobs ==
    ASSUME JobsInv, NEW j \in Jobs, NEW grade, ScoreOK(j, grade),
           stage' = [stage EXCEPT ![j] = "scored"], score' = [score EXCEPT ![j] = grade],
           call' = [call EXCEPT ![j] = Idle], result' = [result EXCEPT ![j] = Empty],
           UNCHANGED <<attempt, cause>>
    PROVE  JobsInv'
<1>1. attempt' = [attempt EXCEPT ![j] = attempt[j]] /\ cause' = [cause EXCEPT ![j] = cause[j]]
  BY DEF JobsInv
<1>2. attempt[j] \in 0..MaxAttempts /\ cause[j] \in Causes  BY DEF JobsInv, JobOK
<1>3. "scored" \in Stages  BY DEF Stages
<1>4. IsAnswered(Idle, Empty)
  <2>1. \A c \in Calls : Idle[c] # "answered"  BY IdleIsOK
  <2> QED  BY <2>1, NothingAnswered
<1>5. JobOK(attempt[j], "scored", Idle, cause[j], Empty)
  BY <1>2, <1>3, <1>4, IdleIsOK, EmptyIsOK DEF JobOK
<1>6. AllAsked(j, "scored", Idle)  BY DEF AllAsked
<1> QED  BY <1>1, <1>5, <1>6, OneJob

LEMMA BeginKeepsJobs ==
    ASSUME JobsInv, NEW j \in Jobs, Begin(j)
    PROVE  JobsInv'
<1>1. attempt[j] \in 0..MaxAttempts /\ attempt[j] < MaxAttempts /\ call[j] = Idle
  BY DEF Begin, JobsInv, JobOK
<1>2. MaxAttempts \in Nat  BY WritingAssumption DEF WritingAssumption
<1>3. PICK a \in 0..MaxAttempts : a = attempt[j] + 1  BY <1>1, <1>2
<1>4. /\ attempt' = [attempt EXCEPT ![j] = a] /\ stage' = [stage EXCEPT ![j] = "loading"]
      /\ call' = [call EXCEPT ![j] = Idle] /\ cause' = [cause EXCEPT ![j] = None]
      /\ result' = result /\ score' = score
  BY <1>1, <1>3 DEF Begin, JobsInv
<1>5. "loading" \in Stages /\ None \in Causes  BY DEF Stages, Causes
<1>6. Idle = (IF "loading" = "grading" THEN Started(j) ELSE Idle)  OBVIOUS
<1> QED  BY <1>4, <1>5, <1>6, StartingKeepsJobs

LEMMA LoadKeepsJobs ==
    ASSUME ErrorInv, JobsInv, NEW j \in Jobs, Load(j)
    PROVE  JobsInv'
<1>1. attempt[j] \in 0..MaxAttempts /\ call[j] = Idle  BY DEF Load, JobsInv, JobOK
<1>2. cause[j] = None  BY DEF Load, ErrorInv
<1>3. PICK s \in {"scored", "resolving", "grading"} : stage' = [stage EXCEPT ![j] = s]
  BY DEF Load
<1>4. stage'[j] = s  BY <1>3 DEF JobsInv
<1>5. PICK calls : calls = IF s = "grading" THEN Started(j) ELSE Idle  OBVIOUS
<1>6. /\ attempt' = [attempt EXCEPT ![j] = attempt[j]] /\ cause' = [cause EXCEPT ![j] = None]
      /\ call' = [call EXCEPT ![j] = calls] /\ result' = result /\ score' = score
  BY <1>1, <1>2, <1>4, <1>5 DEF Load, JobsInv
<1>7. s \in Stages /\ s # "pending" /\ None \in Causes  BY <1>3 DEF Stages, Causes
<1> QED  BY <1>1, <1>3, <1>5, <1>6, <1>7, StartingKeepsJobs

LEMMA ResolveKeepsJobs ==
    ASSUME ErrorInv, JobsInv, NEW j \in Jobs, Resolve(j)
    PROVE  JobsInv'
<1>1. cause[j] = None  BY DEF Resolve, ErrorInv
<1>2. attempt[j] \in 0..MaxAttempts  BY DEF JobsInv, JobOK
<1>3. /\ attempt' = [attempt EXCEPT ![j] = attempt[j]] /\ cause' = [cause EXCEPT ![j] = None]
      /\ stage' = [stage EXCEPT ![j] = "grading"] /\ call' = [call EXCEPT ![j] = Started(j)]
      /\ result' = result /\ score' = score
  BY <1>1 DEF Resolve, JobsInv
<1>4. "grading" \in Stages /\ None \in Causes  BY DEF Stages, Causes
<1>5. Started(j) = (IF "grading" = "grading" THEN Started(j) ELSE Idle)  OBVIOUS
<1> QED  BY <1>2, <1>3, <1>4, <1>5, StartingKeepsJobs

LEMMA FailKeepsJobs ==
    ASSUME JobsInv, NEW j \in Jobs, NEW c \in Calls, NEW error \in {"own", "expired", "cancelled"},
           Fail(j, c, error)
    PROVE  JobsInv'
<1> DEFINE e == IF cause[j] = None THEN error ELSE cause[j]
           calls == [call[j] EXCEPT ![c] = "failed"]
<1>1. cause[j] \in Causes /\ call[j] \in [Calls -> CallStates] /\ result[j] \in Results
      /\ IsAnswered(call[j], result[j])
  BY DEF JobsInv, JobOK
<1>2. e \in Causes /\ e # None
  BY <1>1, WritingAssumption DEF Causes, WritingAssumption
<1>3. /\ stage[j] = "grading" /\ attempt' = attempt /\ stage' = stage /\ score' = score
      /\ call' = [call EXCEPT ![j][c] = "failed"] /\ cause' = [cause EXCEPT ![j] = e]
      /\ result' = [result EXCEPT ![j] = result[j]]
  BY DEF Fail, JobsInv
<1>4. \A d \in Calls : calls[d] = "answered" => call[j][d] = "answered"  BY <1>1
<1> HIDE DEF e, calls
<1>5. IsAnswered(calls, result[j])  BY <1>1, <1>4, CallNames DEF IsAnswered
<1> QED  BY <1>1, <1>2, <1>3, <1>5, CallKeepsJobs DEF calls

LEMMA JudgeKeepsJobs ==
    ASSUME JobsInv, NEW j \in Jobs, NEW c \in Calls, NEW band, Judge(j, c, band)
    PROVE  JobsInv'
<1> DEFINE judged == [result[j] EXCEPT !.criteria[c] = band]
<1>1. c \in Criteria /\ band \in 0..9 /\ Answer(j, c)  BY DEF Judge
<1>2. result[j] \in Results  BY DEF JobsInv, JobOK
<1>3. result' = [result EXCEPT ![j] = judged]  BY DEF Judge
<1>4. /\ judged.criteria = [result[j].criteria EXCEPT ![c] = band]
      /\ judged.corrections = result[j].corrections /\ judged.model = result[j].model
      /\ judged = [criteria |-> judged.criteria, corrections |-> judged.corrections, model |-> judged.model]
  BY <1>2 DEF Results, Answered
<1>5. result[j].criteria \in [Criteria -> 0..9 \cup {None}]  BY <1>2 DEF Results, Answered
<1> HIDE DEF judged
<1>6. judged.criteria \in [Criteria -> 0..9 \cup {None}]  BY <1>1, <1>4, <1>5
<1>7. PICK found \in Results : found = judged  BY <1>2, <1>4, <1>6 DEF Results, Answered
<1>8. \A d \in Criteria : found.criteria[d] \in 0..9
                          \/ (d # c /\ found.criteria[d] = result[j].criteria[d])
  BY <1>1, <1>4, <1>5, <1>7
<1>9. c \notin {"corrections", "modelAnswer"}  BY <1>1, CallNames
<1>10. result' = [result EXCEPT ![j] = found] /\ found.corrections = result[j].corrections
       /\ found.model = result[j].model
  BY <1>3, <1>4, <1>7
<1> QED  BY <1>1, <1>8, <1>9, <1>10, AnswersKeepJobs

LEMMA CorrectKeepsJobs ==
    ASSUME JobsInv, NEW j \in Jobs, NEW list \in CorrectionLists, Correct(j, list)
    PROVE  JobsInv'
<1> DEFINE corrected == [result[j] EXCEPT !.corrections = list]
<1>1. Answer(j, "corrections") /\ "corrections" \in Calls  BY CallNames DEF Correct
<1>2. result[j] \in Results  BY DEF JobsInv, JobOK
<1>3. result' = [result EXCEPT ![j] = corrected]  BY DEF Correct
<1>4. corrected.criteria = result[j].criteria /\ corrected.corrections = list
      /\ corrected.model = result[j].model /\ corrected \in Results
  BY <1>2 DEF Results, Answered
<1> HIDE DEF corrected
<1>5. PICK found \in Results : found = corrected  BY <1>4
<1>6. \A d \in Criteria : d # "corrections" /\ found.criteria[d] = result[j].criteria[d]
  BY <1>4, <1>5, CallNames
<1>7. PICK c \in Calls : c = "corrections"  BY <1>1
<1> QED  BY <1>1, <1>3, <1>4, <1>5, <1>6, <1>7, AnswersKeepJobs

LEMMA ModelAnswerKeepsJobs ==
    ASSUME JobsInv, NEW j \in Jobs, WriteModelAnswer(j)
    PROVE  JobsInv'
<1> DEFINE written == [result[j] EXCEPT !.model = "llm"]
<1>1. Answer(j, "modelAnswer") /\ "modelAnswer" \in Calls  BY CallNames DEF WriteModelAnswer
<1>2. result[j] \in Results  BY DEF JobsInv, JobOK
<1>3. result' = [result EXCEPT ![j] = written]  BY DEF WriteModelAnswer
<1>4. written.criteria = result[j].criteria /\ written.corrections = result[j].corrections
      /\ written.model = "llm" /\ written \in Results
  BY <1>2 DEF Results, Answered
<1> HIDE DEF written
<1>5. PICK found \in Results : found = written  BY <1>4
<1>6. \A d \in Criteria : d # "modelAnswer" /\ found.criteria[d] = result[j].criteria[d]
  BY <1>4, <1>5, CallNames
<1>7. PICK c \in Calls : c = "modelAnswer"  BY <1>1
<1>8. Answer(j, c) /\ c # "corrections" /\ result' = [result EXCEPT ![j] = found]
      /\ found.corrections = result[j].corrections /\ found.model = "llm"
      /\ \A d \in Criteria : found.criteria[d] \in 0..9
                             \/ (d # c /\ found.criteria[d] = result[j].criteria[d])
  BY <1>1, <1>3, <1>4, <1>5, <1>6, <1>7
<1> QED  BY <1>8, AnswersKeepJobs

LEMMA SameJobs ==
    ASSUME JobsInv, UNCHANGED <<attempt, stage, call, cause, result, score>>
    PROVE  JobsInv'
BY DEF JobsInv

LEMMA GradeStepKeepsJobs ==
    ASSUME ErrorInv, JobsInv, NEW j \in Jobs, GradeStep(j)
    PROVE  JobsInv'
<1>1. CASE Begin(j)  BY <1>1, BeginKeepsJobs
<1>13. CASE Load(j)  BY <1>13, LoadKeepsJobs
<1>14. CASE LoadFails(j)
  <2>1. stage[j] # "pending" /\ SettleFailure(j, "ungradable")  BY <1>14 DEF LoadFails
  <2>2. "ungradable" \in Causes  BY DEF Causes
  <2> QED  BY <2>1, <2>2, SettlingKeepsJobs
<1>2. CASE Resolve(j)  BY <1>2, ResolveKeepsJobs
<1>own. "own" \in Causes  BY DEF Causes
<1>3. CASE ResolveFails(j)
  <2>1. stage[j] # "pending" /\ SettleFailure(j, "own")  BY <1>3 DEF ResolveFails
  <2> QED  BY <1>own, <2>1, SettlingKeepsJobs
<1>4. CASE Expire(j)  BY <1>4, SameJobs DEF Expire
<1>5. CASE \E c \in Calls : \E band \in Bands : Judge(j, c, band)  BY <1>5, JudgeKeepsJobs
<1>6. CASE \E c \in Calls : \E error \in {"own", "expired", "cancelled"} : Fail(j, c, error)
  BY <1>6, FailKeepsJobs
<1>7. CASE \E list \in CorrectionLists : Correct(j, list)  BY <1>7, CorrectKeepsJobs
<1>8. CASE WriteModelAnswer(j)  BY <1>8, ModelAnswerKeepsJobs
<1>9. CASE RecordScore(j)
  <2>1. ScoreOK(j, Normalized(j))  BY <1>9, NormalizedIsWhole DEF RecordScore
  <2>2. /\ stage' = [stage EXCEPT ![j] = "scored"] /\ score' = [score EXCEPT ![j] = Normalized(j)]
        /\ call' = [call EXCEPT ![j] = Idle] /\ result' = [result EXCEPT ![j] = Empty]
        /\ UNCHANGED <<attempt, cause>>
    BY <1>9 DEF RecordScore, EndCalls
  <2> QED  BY <2>1, <2>2, StoringKeepsJobs
<1>10. CASE AutoGrade(j)
  <2>1. ScoreOK(j, "auto")  BY <1>10 DEF AutoGrade, ScoreOK
  <2>2. /\ stage' = [stage EXCEPT ![j] = "scored"] /\ score' = [score EXCEPT ![j] = "auto"]
        /\ call' = [call EXCEPT ![j] = Idle] /\ result' = [result EXCEPT ![j] = Empty]
        /\ UNCHANGED <<attempt, cause>>
    BY <1>10 DEF AutoGrade, EndCalls
  <2> QED  BY <2>1, <2>2, StoringKeepsJobs
<1>11. CASE AttemptFails(j)
  <2> DEFINE e == IF cause[j] = None THEN "own" ELSE cause[j]
  <2>1. stage[j] # "pending" /\ SettleFailure(j, e)  BY <1>11 DEF AttemptFails, Waited
  <2>2. e \in Causes  BY <1>own DEF JobsInv, JobOK
  <2> HIDE DEF e
  <2> QED  BY <2>1, <2>2, SettlingKeepsJobs
<1>12. CASE SettleFails(j)
  <2>1. stage[j] # "pending" /\ SettleFailure(j, "own")  BY <1>12 DEF SettleFails
  <2> QED  BY <1>own, <2>1, SettlingKeepsJobs
<1> QED  BY <1>1, <1>2, <1>3, <1>4, <1>5, <1>6, <1>7, <1>8, <1>9, <1>10, <1>11, <1>12, <1>13, <1>14 DEF GradeStep

LEMMA SettleKeepsJobs ==
    ASSUME JobsInv, NEW j \in Jobs, SettleGraded(j)
    PROVE  JobsInv'
<1>1. /\ attempt' = [attempt EXCEPT ![j] = attempt[j]] /\ stage' = [stage EXCEPT ![j] = "graded"]
      /\ call' = [call EXCEPT ![j] = call[j]] /\ cause' = [cause EXCEPT ![j] = cause[j]]
      /\ result' = [result EXCEPT ![j] = result[j]] /\ score' = [score EXCEPT ![j] = score[j]]
  BY DEF SettleGraded, JobsInv
<1>2. JobOK(attempt[j], stage[j], call[j], cause[j], result[j]) /\ stage[j] = "scored"
      /\ ScoreOK(j, score[j])
  BY DEF JobsInv, SettleGraded
<1>3. JobOK(attempt[j], "graded", call[j], cause[j], result[j]) /\ AllAsked(j, "graded", call[j])
  BY <1>2 DEF JobOK, AllAsked, Stages
<1> QED  BY <1>1, <1>2, <1>3, OneJob

LEMMA JobsInvHolds == Spec => []JobsInv
<1>1. Init => JobsInv
  <2> SUFFICES ASSUME Init PROVE JobsInv  OBVIOUS
  <2>1. /\ attempt = [j \in Jobs |-> 0] /\ stage = [j \in Jobs |-> "pending"]
        /\ call = [j \in Jobs |-> Idle] /\ cause = [j \in Jobs |-> None]
        /\ result = [j \in Jobs |-> Empty] /\ score = [j \in Jobs |-> None]
    BY DEF Init, InitGrade
  <2>2. 0 \in 0..MaxAttempts /\ 0 < MaxAttempts  BY WritingAssumption DEF WritingAssumption
  <2>3. IsAnswered(Idle, Empty)
    <3>1. \A c \in Calls : Idle[c] # "answered"  BY IdleIsOK
    <3> QED  BY <3>1, NothingAnswered
  <2>4. JobOK(0, "pending", Idle, None, Empty)
    BY <2>2, <2>3, IdleIsOK, EmptyIsOK DEF JobOK, Stages, Causes
  <2>5. ASSUME NEW j \in Jobs
        PROVE  /\ JobOK(attempt[j], stage[j], call[j], cause[j], result[j])
               /\ AllAsked(j, stage[j], call[j]) /\ score[j] = None
    BY <2>1, <2>4 DEF AllAsked
  <2> QED  BY <2>1, <2>5 DEF JobsInv, ScoreOK
<1>2. ErrorInv /\ JobsInv /\ [Next]_vars => JobsInv'
  <2> SUFFICES ASSUME ErrorInv, JobsInv, [Next]_vars PROVE JobsInv'  OBVIOUS
  <2>1. ASSUME NEW j \in Jobs, Grade(j) PROVE JobsInv'  BY <2>1, GradeStepKeepsJobs DEF Grade
  <2>2. ASSUME NEW j \in Jobs, Settle(j) PROVE JobsInv'  BY <2>2, SettleKeepsJobs DEF Settle
  <2>3. ASSUME NEW j \in Jobs, Reward(j) PROVE JobsInv'  BY <2>3, SameJobs DEF Reward, gradeVars
  <2>4. CASE UNCHANGED vars  BY <2>4, SameJobs DEF vars, gradeVars
  <2> QED  BY <2>1, <2>2, <2>3, <2>4 DEF Next
<1> QED  BY <1>1, <1>2, ErrorInvHolds, PTL DEF Spec

\* Whatever fails, is cancelled or runs out of time, in which order: a grade
\* that is stored has a valid verdict on every criterion and the half band
\* nearest to their mean, keeps only corrections that quote the answer, of
\* known issues, and has its sample or model answer; and no call is left
\* running once its attempt has ended (openAIGrader.Grade, normalizeResult).
THEOREM GradesAreWhole == Spec => []WrittenGradeIsWhole
<1>1. JobsInv => WrittenGradeIsWhole
  <2> SUFFICES ASSUME JobsInv, NEW j \in Written
               PROVE  /\ score[j] # None => IsWhole(j, score[j])
                      /\ (\E c \in Calls : call[j][c] = "running") => stage[j] = "grading"
    BY DEF WrittenGradeIsWhole, IsWhole
  <2>1. j \in Jobs  BY WritingAssumption DEF WritingAssumption
  <2>2. stage[j] # "grading" => call[j] = Idle  BY <2>1 DEF JobsInv, JobOK
  <2> QED  BY <2>1, <2>2, IdleIsOK DEF JobsInv, ScoreOK
<1> QED  BY <1>1, JobsInvHolds, PTL

\* Attempts stay within their limit and every variable keeps its type: what
\* calls have answered, and every score that is stored, too.
THEOREM TypesHold == Spec => []TypeOK
<1>1. ErrorInv /\ JobsInv /\ RewardInv => TypeOK
  <2> SUFFICES ASSUME ErrorInv, JobsInv, RewardInv PROVE TypeOK  OBVIOUS
  <2>1. attempt \in [Jobs -> 0..MaxAttempts]  BY DEF JobsInv, JobOK
  <2>2. call \in [Jobs -> [Calls -> CallStates]]  BY DEF JobsInv, JobOK
  <2>3. Levels \subseteq 0..MaxLevel
    <3>1. ASSUME NEW xp \in Nat PROVE LevelForXP(xp) \in 0..MaxLevel  BY LevelOfXp
    <3> QED  BY <3>1, LevelCount DEF Levels
  <2>4. account \in [Users -> [xp : Nat, level : 0..MaxLevel]]
    <3>1. account \in [Users -> [xp : Nat, level : Levels]]  BY DEF RewardInv, GrantInv, GrantTypes
    <3>2. [xp : Nat, level : Levels] \subseteq [xp : Nat, level : 0..MaxLevel]  BY <2>3
    <3> QED  BY <3>1, <3>2
  <2>5. ledger \subseteq Jobs /\ txn \in [Jobs -> [at : Steps, read : Nat]]
    BY RewardsAssumption DEF RewardInv, GrantInv, GrantTypes
  <2>6. result \in [Jobs -> Answered]  BY DEF JobsInv, JobOK, Results
  <2>7. /\ DOMAIN score = Jobs
        /\ \A j \in Jobs : score[j] \in {None} \cup (IF j \in Written THEN Grades ELSE {"auto"})
    BY DEF JobsInv, ScoreOK
  <2> QED  BY <2>1, <2>2, <2>4, <2>5, <2>6, <2>7 DEF TypeOK, ErrorInv, CallStates, Causes
<1> QED  BY <1>1, ErrorInvHolds, JobsInvHolds, RewardInvHolds, PTL

=============================================================================
