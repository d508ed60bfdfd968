------------------------ MODULE ResultPagesProofs ------------------------
(***************************************************************************)
(* What holds of ResultPages for any set of submissions and any number of  *)
(* overlapping checks.                                                     *)
(*                                                                         *)
(* ServerInv: a graded submission has a score, which the server promises.  *)
(* SubInv: a result page is that of a submission.                          *)
(* DetailInv: only a submission the server has graded is asked for its     *)
(* score.  ListInv: what is on screen as settled is settled, and so it is  *)
(* in any answer that can still be applied.  KnownInv, with the watch      *)
(* list: nothing is watched that was not submitted.                        *)
(***************************************************************************)
EXTENDS ResultPages, TLAPS

SettledSet == {s \in Followed : Settled(s)}

ServerInv == \A s \in Submissions : stage[s] = "graded" => s \in scored

SubInv == detail.pc # "off" => detail.sub \in Submissions

DetailInv == detail.pc = "scoring" => stage[detail.sub] = "graded"

ListInv ==
    /\ list.rows.settled \subseteq SettledSet
    /\ list.rows.open \intersect list.rows.settled = {}
    /\ list.load = "served" => /\ list.rows.settled \subseteq list.answer.settled
                               /\ list.answer.settled \subseteq SettledSet
                               /\ list.answer.open \intersect list.answer.settled = {}

-----------------------------------------------------------------------------
(* What steps leave alone *)

\* The steps that have nothing to do with a result page.
LEMMA OtherSteps ==
    ASSUME Next
    PROVE  \/ UNCHANGED detail
           \/ \E s \in Submissions : OpenDetail(s)
           \/ Queued \/ Leave \/ ReloadTab \/ DetailStep
BY DEF Next, SaveScore, Settle, GrowOld, OtherTabWatches, OtherTabAnnounces, Send, QueuedLost,
       NotifierStep, FireTimer, PollInVain, Announce, EndCheck,
       ListStep, OpenList, ServeList, ApplyList, FailList, RefreshList, LateList

\* Every step keeps the types.
LEMMA TypeStep == TypeOK /\ SubInv /\ [Next]_pagesVars => TypeOK'
<1> SUFFICES ASSUME TypeOK, SubInv, [Next]_pagesVars PROVE TypeOK'
  OBVIOUS
<1> USE DEF TypeOK
<1>1. ASSUME NEW s \in Submissions, SaveScore(s) PROVE TypeOK'
  BY <1>1 DEF SaveScore, Server!SaveScore, watchVars
<1>2. ASSUME NEW s \in Submissions, Settle(s) PROVE TypeOK'
  BY <1>2 DEF Settle, Server!Grade, Server!Fail, watchVars
<1>3. ASSUME NEW s \in Submissions, GrowOld(s) PROVE TypeOK'
  BY <1>3 DEF GrowOld, serverVars
<1>4. ASSUME NEW s \in Submissions, OtherTabWatches(s) PROVE TypeOK'
  BY <1>4 DEF OtherTabWatches, Server!Submit, Watched
<1>5. ASSUME NEW s \in Submissions, OtherTabAnnounces(s) PROVE TypeOK'
  BY <1>5 DEF OtherTabAnnounces, Watched, serverVars
<1>6. ASSUME NEW s \in Submissions, Send(s) PROVE TypeOK'
  BY <1>6 DEF Send, Server!Submit, watchVars
<1>7. ASSUME NEW s \in Submissions, OpenDetail(s) PROVE TypeOK'
  BY <1>7 DEF OpenDetail, NoList, NoRows, Rows, serverVars, watchVars
<1>8. CASE Queued
  <2>1. MountedList \in [rows: Rows, load: {"none", "sent", "served"}, answer: Rows, late: SUBSET Rows]
    BY DEF MountedList, NoList, NoRows, Rows
  <2>2. LeftDetail \in [pc: {"off", "asked", "waiting", "scoring", "shown", "error"},
                        sub: Submissions \union {None}, here: BOOLEAN]
    BY DEF LeftDetail, NoDetail
  <2> QED BY <1>8, <2>1, <2>2 DEF Queued, Watched, serverVars
<1>9. CASE QueuedLost
  BY <1>9 DEF QueuedLost, serverVars, watchVars
<1>10. CASE ReloadTab
  BY <1>10 DEF ReloadTab, Watched, NoList, NoRows, NoDetail, Rows, serverVars
<1>11. CASE Leave
  BY <1>11 DEF Leave, LeftDetail, NoDetail, NoList, NoRows, Rows, serverVars, watchVars
<1>12. ASSUME NEW k \in Checks, NotifierStep(k) PROVE TypeOK'
  <2>1. ASSUME NEW todo \in SUBSET Submissions, FireTimer(k, todo) PROVE TypeOK'
    BY <2>1 DEF FireTimer, serverVars, watchVars
  <2>2. ASSUME NEW s \in Submissions, PollInVain(k, s) PROVE TypeOK'
    BY <2>2 DEF PollInVain, DoneWith, serverVars, watchVars
  <2>3. ASSUME NEW s \in Submissions, Announce(k, s) PROVE TypeOK'
    BY <2>3 DEF Announce, DoneWith, Watched, Reloaded, NoRows, Rows, serverVars
  <2>4. CASE EndCheck(k)
    BY <2>4 DEF EndCheck, serverVars, watchVars
  <2>5. Watched \in SUBSET Submissions /\ {} \in SUBSET Submissions
    BY DEF Watched
  <2> QED BY <1>12, <2>1, <2>2, <2>3, <2>4, <2>5 DEF NotifierStep
<1>13. CASE ListStep
  <2>1. CASE OpenList
    BY <2>1 DEF OpenList, MountedList, NoList, NoRows, Rows, serverVars, watchVars
  <2>2. CASE ServeList
    BY <2>2, PagesAssumption DEF ServeList, CurrentRows, Rows, serverVars, watchVars
  <2>3. CASE ApplyList
    BY <2>3 DEF ApplyList, NoRows, Rows, serverVars, watchVars
  <2>4. CASE FailList
    BY <2>4 DEF FailList, NoRows, Rows, serverVars, watchVars
  <2>5. CASE RefreshList
    BY <2>5 DEF RefreshList, Reloaded, NoRows, Rows, serverVars, watchVars
  <2>6. CASE LateList
    BY <2>6 DEF LateList, serverVars, watchVars
  <2> QED BY <1>13, <2>1, <2>2, <2>3, <2>4, <2>5, <2>6 DEF ListStep
<1>14. CASE DetailStep
  <2>1. CASE DetailLoads
    BY <2>1 DEF DetailLoads, ShowAt, AfterStatus, serverVars, watchVars
  <2>2. CASE DetailSettles
    <3>1. CASE detail.here
      <4>1. detail.sub \in Submissions
        BY <2>2 DEF SubInv, DetailSettles
      <4>2. watch' = Watched \ {detail.sub} /\ told' = told \union {detail.sub}
        BY <2>2, <3>1 DEF DetailSettles
      <4>3. PICK pc \in {"scoring", "shown"} : detail' = [detail EXCEPT !.pc = pc]
        BY <2>2, <3>1 DEF DetailSettles, ShowAt, AfterStatus
      <4> QED BY <2>2, <4>1, <4>2, <4>3 DEF DetailSettles, Watched, serverVars
    <3>2. CASE ~detail.here
      <4>1. detail' = NoDetail /\ UNCHANGED <<watch, told>>
        BY <2>2, <3>2 DEF DetailSettles
      <4> QED BY <2>2, <4>1 DEF DetailSettles, NoDetail, serverVars
    <3> QED BY <3>1, <3>2
  <2>3. CASE ScoreArrives
    BY <2>3 DEF ScoreArrives, ShowAt, serverVars, watchVars
  <2>4. CASE DetailFails
    BY <2>4 DEF DetailFails, NoDetail, serverVars, watchVars
  <2> QED BY <1>14, <2>1, <2>2, <2>3, <2>4 DEF DetailStep
<1>15. CASE UNCHANGED pagesVars
  BY <1>15 DEF pagesVars
<1> QED
  BY <1>1, <1>2, <1>3, <1>4, <1>5, <1>6, <1>7, <1>8, <1>9, <1>10, <1>11, <1>12, <1>13, <1>14, <1>15 DEF Next

\* A result page that is not closed is the page of a submission.
LEMMA SubStep == TypeOK /\ SubInv /\ [Next]_pagesVars => SubInv'
<1> SUFFICES ASSUME TypeOK, SubInv, [Next]_pagesVars PROVE SubInv'
  OBVIOUS
<1> USE DEF SubInv
<1>1. CASE UNCHANGED detail
  BY <1>1
<1>2. ASSUME NEW s \in Submissions, OpenDetail(s) PROVE SubInv'
  BY <1>2 DEF OpenDetail
<1>3. CASE Queued \/ Leave
  BY <1>3 DEF Queued, Leave, LeftDetail, NoDetail, TypeOK
<1>4. CASE ReloadTab
  BY <1>4 DEF ReloadTab, NoDetail
<1>5. CASE DetailStep
  BY <1>5 DEF DetailStep, DetailLoads, DetailSettles, ScoreArrives, DetailFails, ShowAt, NoDetail, TypeOK
<1> QED
  BY <1>1, <1>2, <1>3, <1>4, <1>5, OtherSteps DEF pagesVars, Next

-----------------------------------------------------------------------------
(* Types *)

LEMMA InitTypes == Init => TypeOK /\ SubInv
BY DEF Init, TypeOK, SubInv, Server!LifecycleInit, NoList, NoRows, NoDetail, Rows

\* Every list, request and page keeps its type: this is TypeOK of the run.
THEOREM PagesTypeCorrect == Spec => []TypeOK
<1>1. Init => TypeOK /\ SubInv
  BY InitTypes
<1>2. TypeOK /\ SubInv /\ [Next]_pagesVars => (TypeOK /\ SubInv)'
  BY TypeStep, SubStep
<1> QED BY <1>1, <1>2, PTL DEF Spec

-----------------------------------------------------------------------------
(* The server *)

\* A step that changes the server's state is one of the server.
LEMMA ServerSteps ==
    ASSUME Next
    PROVE  \/ UNCHANGED <<stage, scored>>
           \/ \E s \in Submissions :
                 Server!Submit(s) \/ Server!SaveScore(s) \/ Server!Grade(s) \/ Server!Fail(s)
BY DEF Next, serverVars, SaveScore, Settle, GrowOld, OtherTabWatches, OtherTabAnnounces, Send,
       OpenDetail, Queued, QueuedLost, ReloadTab, Leave, NotifierStep, FireTimer, PollInVain,
       Announce, EndCheck, ListStep, OpenList, ServeList, ApplyList, FailList, RefreshList,
       LateList, DetailStep, DetailLoads, DetailSettles, ScoreArrives, DetailFails

\* What pages may count on: a submission stays submitted, a settled one keeps
\* its result, and scores stay.
LEMMA ServerMoves ==
    ASSUME TypeOK, ServerInv, [Next]_pagesVars
    PROVE  /\ ServerInv'
           /\ \A s \in Submissions : Settled(s) => stage'[s] = stage[s]
           /\ \A s \in Submissions : stage[s] # "absent" => stage'[s] # "absent"
           /\ scored \subseteq scored'
<1> USE DEF TypeOK, ServerInv, Settled
<1>1. CASE UNCHANGED <<stage, scored>>
  BY <1>1
<1>2. ASSUME NEW s \in Submissions, Server!Submit(s) \/ Server!Fail(s)
      PROVE  /\ ServerInv'
             /\ \A r \in Submissions : Settled(r) => stage'[r] = stage[r]
             /\ \A r \in Submissions : stage[r] # "absent" => stage'[r] # "absent"
             /\ scored \subseteq scored'
  BY <1>2 DEF Server!Submit, Server!Fail
<1>3. ASSUME NEW s \in Submissions, Server!SaveScore(s) \/ Server!Grade(s)
      PROVE  /\ ServerInv'
             /\ \A r \in Submissions : Settled(r) => stage'[r] = stage[r]
             /\ \A r \in Submissions : stage[r] # "absent" => stage'[r] # "absent"
             /\ scored \subseteq scored'
  BY <1>3 DEF Server!SaveScore, Server!Grade
<1> QED
  BY <1>1, <1>2, <1>3, ServerSteps DEF pagesVars

-----------------------------------------------------------------------------
(* The watch list *)

\* What is watched, or being handed in, was submitted.
KnownInv ==
    \A s \in Submissions : stage[s] = "absent" => s \notin watch /\ s \notin mine /\ sending # s

\* The steps that add to what is watched or handed in.
LEMMA WatchSteps ==
    ASSUME Next
    PROVE  \/ /\ watch' \subseteq watch /\ mine' \subseteq mine \union watch
              /\ sending' = sending \/ sending' = None
           \/ Queued
           \/ \E s \in Submissions : Send(s) \/ OtherTabWatches(s)
BY DEF Next, Watched, serverVars, watchVars, SaveScore, Settle, GrowOld, OtherTabAnnounces,
       OpenDetail, QueuedLost, ReloadTab, Leave, NotifierStep, FireTimer, PollInVain,
       Announce, EndCheck, ListStep, OpenList, ServeList, ApplyList, FailList, RefreshList,
       LateList, DetailStep, DetailLoads, DetailSettles, ScoreArrives, DetailFails

LEMMA KnownStep ==
    ASSUME TypeOK, ServerInv, KnownInv, [Next]_pagesVars
    PROVE  KnownInv'
<1> USE DEF TypeOK, KnownInv
<1>0. \A s \in Submissions : stage[s] # "absent" => stage'[s] # "absent"
  BY ServerMoves
<1>1. CASE UNCHANGED pagesVars
  BY <1>1 DEF pagesVars
<1>2. CASE /\ watch' \subseteq watch /\ mine' \subseteq mine \union watch
           /\ sending' = sending \/ sending' = None
  BY <1>0, <1>2, PagesAssumption
<1>3. CASE Queued
  BY <1>0, <1>3, PagesAssumption DEF Queued, Watched
<1>4. ASSUME NEW s \in Submissions, Send(s) \/ OtherTabWatches(s) PROVE KnownInv'
  BY <1>4, PagesAssumption DEF Send, OtherTabWatches, Server!Submit, Watched, watchVars
<1> QED
  BY <1>1, <1>2, <1>3, <1>4, WatchSteps

\* A timer or a check survives every step while this tab watches something:
\* an event that arrives during a check, the end of one of two checks, and a
\* reload of the tab.
LEMMA PollingStep ==
    ASSUME TypeOK, KnownInv, PollingGoesOn, [Next]_pagesVars
    PROVE  PollingGoesOn'
<1> USE DEF TypeOK, PollingGoesOn, Watched
<1>1. CASE UNCHANGED pagesVars
  BY <1>1 DEF pagesVars
<1>2. ASSUME NEW s \in Submissions, SaveScore(s) \/ Settle(s) \/ GrowOld(s) PROVE PollingGoesOn'
  BY <1>2 DEF SaveScore, Settle, GrowOld, watchVars
<1>3. ASSUME NEW s \in Submissions, OtherTabWatches(s) PROVE PollingGoesOn'
  <2>1. s \notin mine
    BY <1>3 DEF KnownInv, OtherTabWatches, Server!Submit
  <2> QED
    BY <1>3, <2>1 DEF OtherTabWatches
<1>4. ASSUME NEW s \in Submissions, OtherTabAnnounces(s) \/ Send(s) \/ OpenDetail(s)
      PROVE  PollingGoesOn'
  BY <1>4 DEF OtherTabAnnounces, Send, OpenDetail, watchVars
<1>5. CASE Queued
  BY <1>5 DEF Queued
<1>6. CASE QueuedLost \/ Leave \/ ReloadTab
  <2>1. CASE QueuedLost \/ Leave
    BY <2>1 DEF QueuedLost, Leave, watchVars
  <2>2. CASE ReloadTab
    <3>1. Watched # {} => notifier'.timer
      BY <2>2 DEF ReloadTab
    <3>2. UNCHANGED <<watch, past>>
      BY <2>2 DEF ReloadTab
    <3> QED BY <3>1, <3>2
  <2> QED BY <1>6, <2>1, <2>2
<1>7. ASSUME NEW k \in Checks, NotifierStep(k) PROVE PollingGoesOn'
  <2>1. ASSUME NEW todo, FireTimer(k, todo) PROVE PollingGoesOn'
    <3>1. k \in notifier'.running
      BY <2>1 DEF FireTimer
    <3> QED BY <3>1
  <2>2. ASSUME NEW s \in Submissions, PollInVain(k, s) \/ Announce(k, s) PROVE PollingGoesOn'
    <3>1. notifier'.timer = notifier.timer /\ notifier'.running = notifier.running
      BY <2>2 DEF PollInVain, Announce, DoneWith
    <3>2. (watch' \intersect mine') \ past' \subseteq (watch \intersect mine) \ past
      BY <2>2 DEF PollInVain, Announce, watchVars
    <3> QED BY <3>1, <3>2
  <2>3. CASE EndCheck(k)
    <3>1. Watched # {} => notifier'.timer
      BY <2>3 DEF EndCheck
    <3>2. UNCHANGED <<watch, past, mine>>
      BY <2>3 DEF EndCheck, watchVars
    <3> QED BY <3>1, <3>2
  <2> QED BY <1>7, <2>1, <2>2, <2>3 DEF NotifierStep
<1>8. CASE ListStep
  BY <1>8 DEF ListStep, OpenList, ServeList, ApplyList, FailList, RefreshList, LateList, watchVars
<1>9. CASE DetailStep
  BY <1>9 DEF DetailStep, DetailLoads, DetailSettles, ScoreArrives, DetailFails, watchVars
<1> QED
  BY <1>1, <1>2, <1>3, <1>4, <1>5, <1>6, <1>7, <1>8, <1>9 DEF Next

-----------------------------------------------------------------------------
(* The page of one submission *)

LEMMA DetailStepInv ==
    ASSUME TypeOK, SubInv, ServerInv, DetailInv, [Next]_pagesVars
    PROVE  DetailInv'
<1> USE DEF DetailInv
<1>0. \A s \in Submissions : Settled(s) => stage'[s] = stage[s]
  BY ServerMoves
<1>1. CASE UNCHANGED detail
  BY <1>0, <1>1 DEF SubInv, Settled
<1>2. ASSUME NEW s \in Submissions, OpenDetail(s) PROVE DetailInv'
  BY <1>2 DEF OpenDetail
<1>3. CASE Queued \/ Leave
  BY <1>0, <1>3 DEF Queued, Leave, LeftDetail, NoDetail, TypeOK, SubInv, Settled
<1>4. CASE ReloadTab
  BY <1>4 DEF ReloadTab, NoDetail
<1>5. CASE DetailStep
  <2>1. CASE DetailLoads
    BY <2>1 DEF DetailLoads, ShowAt, AfterStatus, TypeOK, serverVars
  <2>2. CASE DetailSettles
    <3>1. CASE detail.here
      BY <2>2, <3>1 DEF DetailSettles, ShowAt, AfterStatus, TypeOK, serverVars
    <3>2. CASE ~detail.here
      BY <2>2, <3>2 DEF DetailSettles, NoDetail
    <3> QED BY <3>1, <3>2
  <2>3. CASE ScoreArrives
    BY <2>3 DEF ScoreArrives, ShowAt, TypeOK
  <2>4. CASE DetailFails
    BY <2>4 DEF DetailFails, NoDetail, TypeOK
  <2> QED BY <1>5, <2>1, <2>2, <2>3, <2>4 DEF DetailStep
<1> QED
  BY <1>1, <1>2, <1>3, <1>4, <1>5, OtherSteps DEF pagesVars

-----------------------------------------------------------------------------
(* The list *)

LEMMA ListSteps ==
    ASSUME Next
    PROVE  \/ UNCHANGED list
           \/ list' = NoList \/ list' = MountedList \/ list' = Reloaded(list)
           \/ UNCHANGED <<stage>> /\ (ServeList \/ ApplyList \/ FailList \/ LateList)
BY DEF Next, serverVars, SaveScore, Settle, GrowOld, OtherTabWatches, OtherTabAnnounces, Send,
       OpenDetail, Queued, QueuedLost, ReloadTab, Leave, NotifierStep, FireTimer, PollInVain,
       Announce, EndCheck, ListStep, OpenList, ServeList, ApplyList, FailList, RefreshList,
       LateList, DetailStep, DetailLoads, DetailSettles, ScoreArrives, DetailFails

LEMMA ListStepInv ==
    ASSUME TypeOK, ServerInv, ListInv, [Next]_pagesVars
    PROVE  ListInv'
<1> USE DEF ListInv
<1>0. SettledSet \subseteq SettledSet'
  BY ServerMoves, PagesAssumption DEF SettledSet, Settled
<1>1. CASE UNCHANGED list
  BY <1>0, <1>1
<1>2. CASE list' = NoList \/ list' = MountedList
  BY <1>2 DEF NoList, MountedList, NoRows
<1>3. CASE list' = Reloaded(list)
  <2>1. list'.rows = list.rows /\ list'.load = "sent"
    BY <1>3 DEF Reloaded, TypeOK
  <2> QED BY <1>0, <2>1
<1>4. CASE UNCHANGED stage /\ ServeList
  <2>1. list'.rows = list.rows /\ list'.answer = CurrentRows
    BY <1>4 DEF ServeList, TypeOK
  <2>2. CurrentRows.settled = SettledSet /\ CurrentRows.open \intersect SettledSet = {}
    BY DEF CurrentRows, SettledSet, Settled
  <2> QED BY <1>0, <2>1, <2>2
<1>5. CASE UNCHANGED stage /\ ApplyList
  <2>1. list'.rows = list.answer /\ list'.load = "none" /\ list.load = "served"
    BY <1>5 DEF ApplyList, TypeOK
  <2> QED BY <1>0, <2>1
<1>6. CASE FailList
  <2>1. list'.rows = list.rows /\ list'.load = "none"
    BY <1>6 DEF FailList, TypeOK
  <2> QED BY <1>0, <2>1
<1>7. CASE LateList
  <2>1. list'.rows = list.rows /\ list'.load = list.load /\ list'.answer = list.answer
    BY <1>7 DEF LateList, TypeOK
  <2> QED BY <1>0, <2>1
<1> QED
  BY <1>1, <1>2, <1>3, <1>4, <1>5, <1>6, <1>7, ListSteps DEF pagesVars

-----------------------------------------------------------------------------
(* Theorems *)

PagesInv ==
    /\ TypeOK /\ SubInv /\ ServerInv /\ KnownInv
    /\ PollingGoesOn /\ DetailInv /\ ListInv

\* The invariant of the proofs holds.
THEOREM PagesInvariant == Spec => []PagesInv
<1>1. Init => PagesInv
  <2> SUFFICES ASSUME Init PROVE PagesInv
    OBVIOUS
  <2>1. TypeOK /\ SubInv
    BY InitTypes
  <2>2. ServerInv /\ KnownInv /\ PollingGoesOn
    BY PagesAssumption DEF Init, Server!LifecycleInit, ServerInv, KnownInv, PollingGoesOn
  <2>3. DetailInv /\ ListInv
    BY DEF Init, DetailInv, ListInv, NoDetail, NoList, NoRows
  <2> QED BY <2>1, <2>2, <2>3 DEF PagesInv
<1>2. PagesInv /\ [Next]_pagesVars => PagesInv'
  BY TypeStep, SubStep, ServerMoves, KnownStep, PollingStep, DetailStepInv, ListStepInv DEF PagesInv
<1> QED BY <1>1, <1>2, PTL DEF Spec

\* PollingGoesOn of the run: the notifier never stops while the tab watches
\* something, whatever checks overlap.
THEOREM PollingNeverStops == Spec => []PollingGoesOn
<1>1. PagesInv => PollingGoesOn
  BY DEF PagesInv
<1> QED BY <1>1, PagesInvariant, PTL

\* ScoreIsThere of the run: a score is asked for only when there is one.
THEOREM ScoresAreThere == Spec => []ScoreIsThere
<1>1. PagesInv => ScoreIsThere
  BY DEF PagesInv, SubInv, DetailInv, ServerInv, ScoreIsThere
<1> QED BY <1>1, PagesInvariant, PTL

\* LeavesOnlyWhenTold of the run: no step forgets what nobody was told of.
THEOREM NothingIsForgotten == Spec => LeavesOnlyWhenTold
<1>1. ASSUME Next, NEW s \in watch
      PROVE  s \in watch' \/ s \in told' \/ s \in past
  BY <1>1 DEF Next, Watched, serverVars, watchVars, SaveScore, Settle, GrowOld, OtherTabWatches,
       OtherTabAnnounces, Send, OpenDetail, Queued, QueuedLost, ReloadTab, Leave, NotifierStep,
       FireTimer, PollInVain, Announce, EndCheck, ListStep, OpenList, ServeList, ApplyList,
       FailList, RefreshList, LateList, DetailStep, DetailLoads, DetailSettles, ScoreArrives,
       DetailFails
<1>2. [Next]_pagesVars => [\A s \in watch : s \in watch' \/ s \in told' \/ s \in past]_pagesVars
  BY <1>1
<1> QED BY <1>2, PTL DEF Spec, LeavesOnlyWhenTold

\* RowsNeverGoBack of the run: a row on screen as settled is never put back
\* by an answer that comes late.
THEOREM RowsStaySettled == Spec => RowsNeverGoBack
<1> DEFINE Kept == page = "list" /\ page' = "list" => list.rows.settled \intersect list'.rows.open = {}
<1>1. ASSUME PagesInv, Next PROVE Kept
  <2> USE <1>1 DEF PagesInv, ListInv
  <2>1. CASE UNCHANGED list
    BY <2>1
  <2>2. CASE list' = NoList \/ list' = MountedList
    BY <2>2 DEF NoList, MountedList, NoRows
  <2>3. CASE list' = Reloaded(list)
    <3>1. list'.rows = list.rows
      BY <2>3 DEF Reloaded, TypeOK
    <3> QED BY <3>1
  <2>4. CASE ServeList \/ FailList \/ LateList
    <3>1. list'.rows = list.rows
      BY <2>4 DEF ServeList, FailList, LateList, TypeOK
    <3> QED BY <3>1
  <2>5. CASE ApplyList
    <3>1. list'.rows = list.answer /\ list.load = "served"
      BY <2>5 DEF ApplyList, TypeOK
    <3> QED BY <3>1
  <2> QED BY <2>1, <2>2, <2>3, <2>4, <2>5, ListSteps
<1>2. PagesInv /\ [Next]_pagesVars => [Kept]_pagesVars
  BY <1>1
<1> QED BY <1>2, PagesInvariant, PTL DEF Spec, RowsNeverGoBack

=============================================================================
