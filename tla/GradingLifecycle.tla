-------------------------- MODULE GradingLifecycle --------------------------
(***************************************************************************)
(* What the grading queue promises the rest of the system about a          *)
(* submission, whatever workers, retries, crashes and restarts do          *)
(* underneath: it stays open until it is settled once and for all; it is   *)
(* graded only on a saved score; and XP is credited at most once per       *)
(* (user, test) pair, for a graded submission.  A client polls until the   *)
(* submission is settled and then stops looking.                           *)
(***************************************************************************)
CONSTANTS Submissions, Pairs, PairOf

VARIABLES
    stage,    \* absent, open (pending or grading), graded or failed
    scored,   \* submissions with a saved score
    granted   \* pairs XP was credited for

lifecycleVars == <<stage, scored, granted>>

LifecycleInit ==
    /\ stage = [s \in Submissions |-> "absent"]
    /\ scored = {}
    /\ granted = {}

Submit(s) ==
    /\ stage[s] = "absent"
    /\ stage' = [stage EXCEPT ![s] = "open"]
    /\ UNCHANGED <<scored, granted>>

SaveScore(s) ==
    /\ stage[s] = "open"
    /\ scored' = scored \union {s}
    /\ UNCHANGED <<stage, granted>>

Grade(s) ==
    /\ stage[s] = "open" /\ s \in scored
    /\ stage' = [stage EXCEPT ![s] = "graded"]
    /\ UNCHANGED <<scored, granted>>

Fail(s) ==
    /\ stage[s] = "open"
    /\ stage' = [stage EXCEPT ![s] = "failed"]
    /\ UNCHANGED <<scored, granted>>

Grant(p) ==
    /\ p \notin granted
    /\ \E s \in Submissions : PairOf[s] = p /\ stage[s] = "graded"
    /\ granted' = granted \union {p}
    /\ UNCHANGED <<stage, scored>>

LifecycleNext ==
    \/ \E s \in Submissions : Submit(s) \/ SaveScore(s) \/ Grade(s) \/ Fail(s)
    \/ \E p \in Pairs : Grant(p)

LifecycleSpec == LifecycleInit /\ [][LifecycleNext]_lifecycleVars

=============================================================================
