------------------------------ MODULE XpGrant ------------------------------
(***************************************************************************)
(* XP for graded submissions: GrantIfFirstAttempt as the transactions that *)
(* InnoDB runs side by side, the level that XP gives, and the profile.     *)
(* A grant is claimed by inserting its (user, test) key; the insert waits  *)
(* for a transaction that holds the same key, and the XP is read under a   *)
(* lock of the user's row.                                                 *)
(***************************************************************************)
EXTENDS Integers, Sequences, FiniteSets, SequencesExt, FiniteSetsExt

CONSTANTS
    Grants,   \* calls of GrantIfFirstAttempt
    Users,
    UserOf, TestOf,  \* of each call
    XpGain,   \* of each test
    MaxLevel  \* 100 in the code

ASSUME GrantAssumption ==
    /\ UserOf \in [Grants -> Users] /\ MaxLevel \in Nat \ {0}
    /\ \A g \in Grants : XpGain[TestOf[g]] \in Nat

VARIABLES
    account,  \* of each user: the xp and level columns
    ledger,   \* the rows of submission_xp_grants, by the call that made them
    txn       \* of each call: how far it is, and the XP it read

xpVars == <<account, ledger, txn>>

-----------------------------------------------------------------------------
(* Levels *)

\* The cost of a level-up and the sum of those before, as whole numbers and
\* millionths: 60 for the first, and each 4 % above the one before.
Add(a, b) == LET micro == a[2] + b[2] IN <<a[1] + b[1] + micro \div 1000000, micro % 1000000>>
Grow(c) == Add(<<(104 * c[1]) \div 100, 0>>, <<0, (((104 * c[1]) % 100) * 1000000 + 104 * c[2]) \div 100>>)
Round(a) == IF a[2] >= 500000 THEN a[1] + 1 ELSE a[1]

Cost[level \in 1..MaxLevel] == IF level = 1 THEN <<60, 0>> ELSE Grow(Cost[level - 1])
Cumulative[level \in 1..MaxLevel] ==
    IF level = 1 THEN <<0, 0>> ELSE Add(Cumulative[level - 1], Cost[level - 1])

LevelThresholds == [level \in 1..MaxLevel |-> Round(Cumulative[level])]

LevelForXP(xp) == Max({1} \cup {level \in 1..MaxLevel : xp >= LevelThresholds[level]})

CurrentLevelXP(xp) == xp - LevelThresholds[LevelForXP(xp)]
XPToNextLevel(xp) ==
    IF LevelForXP(xp) = MaxLevel THEN 0 ELSE LevelThresholds[LevelForXP(xp) + 1] - xp

-----------------------------------------------------------------------------
(* Grants *)

Pair(g) == <<UserOf[g], TestOf[g]>>

HoldsKey(g) == txn[g].at \in {"claimed", "locked"}
IsOver(g) == txn[g].at = "over"

\* Mutant: as if grants referred to users by a foreign key, for which an
\* insert takes a lock of the row.
ShareLocked(g) == txn[g].at \in {"claimed", "locked"}

HoldsRow(g) == txn[g].at = "locked"

InitXp ==
    /\ account = [u \in Users |-> [xp |-> 0, level |-> 0]]
    /\ ledger = {}
    /\ txn = [g \in Grants |-> [at |-> "off", read |-> 0]]

Goes(g, from, to) == txn[g].at = from /\ txn' = [txn EXCEPT ![g].at = to]

Call(g) == Goes(g, "off", "called") /\ UNCHANGED <<account, ledger>>

\* For a pair that has its grant the user's standing is read, which changes
\* nothing.
Insert(g) ==
    /\ \A h \in Grants \ {g} : HoldsKey(h) => Pair(h) # Pair(g)
    /\ IF \E h \in ledger : Pair(h) = Pair(g)
       THEN Goes(g, "called", "over") ELSE Goes(g, "called", "claimed")
    /\ UNCHANGED <<account, ledger>>

\* Mutant: the XP is read without FOR UPDATE.
ReadUnlocked(g) ==
    /\ txn[g].at = "claimed"
    /\ txn' = [txn EXCEPT ![g] = [at |-> "locked", read |-> account[UserOf[g]].xp]]
    /\ UNCHANGED <<account, ledger>>

\* SELECT xp ... FOR UPDATE
LockUser(g) ==
    /\ txn[g].at = "claimed"
    /\ \A h \in Grants \ {g} : HoldsRow(h) => UserOf[h] # UserOf[g]
    /\ txn' = [txn EXCEPT ![g] = [at |-> "locked", read |-> account[UserOf[g]].xp]]
    /\ UNCHANGED <<account, ledger>>

\* The writes of the transaction, which nobody sees before its commit.
Commit(g) ==
    /\ txn[g].at = "locked"
    /\ LET xp == txn[g].read + XpGain[TestOf[g]]
       IN account' = [account EXCEPT ![UserOf[g]] = [xp |-> xp, level |-> LevelForXP(xp)]]
    /\ ledger' = ledger \cup {g}
    /\ txn' = [txn EXCEPT ![g] = [at |-> "over", read |-> 0]]

\* Any step fails, the context ends or the process dies: rolled back.
Rollback(g) ==
    /\ txn[g].at \in {"called", "claimed", "locked"}
    /\ txn' = [txn EXCEPT ![g] = [at |-> "over", read |-> 0]]
    /\ UNCHANGED <<account, ledger>>

Grant(g) == Insert(g) \/ LockUser(g) \/ Commit(g)

\* What the profile shows follows from the XP, not from the level column.
Profile(u) ==
    LET xp == account[u].xp IN
      [xp |-> xp, level |-> LevelForXP(xp), past |-> CurrentLevelXP(xp), left |-> XPToNextLevel(xp)]

=============================================================================
