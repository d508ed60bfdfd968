---------------------------- MODULE ResultPages ----------------------------
(***************************************************************************)
(* How a learner hears of a grade.  One browser tab is modelled in full:   *)
(* the grading notifier that polls watched submissions, the list of        *)
(* submissions that reloads itself, and the page of one submission that    *)
(* waits for its result.  Other tabs share the watch list in localStorage  *)
(* and are an environment.  The server is GradingLifecycle, which          *)
(* GradingQueue implements.                                                *)
(*                                                                         *)
(* JavaScript turns are atomic, so every action is the code between two    *)
(* awaits; what may change meanwhile is the server, the watch list, and    *)
(* the page the learner is on.                                             *)
(***************************************************************************)
EXTENDS Naturals

CONSTANTS
    Submissions,
    Followed,      \* Bound: those with every event, see below
    Checks,        \* slots for checks of the notifier that overlap
    None

ASSUME PagesAssumption == None \notin Submissions /\ Followed \subseteq Submissions

(***************************************************************************)
(* A submission that is not in Followed is handed in by this tab, fails    *)
(* and is announced, beside those that are.  It is on another page of the  *)
(* list, and no other tab handles it.  The notifier treats both alike.     *)
(***************************************************************************)

VARIABLES
    stage, scored, \* the server's submissions: see GradingLifecycle
    watch, past,   \* the watch list, and the submissions older than MAX_AGE_MS
    notifier,      \* timer armed, checks running, and submissions each has left
    page,          \* where the learner is
    list,          \* the list's rows, its request, and answers to superseded ones
    detail,        \* the page of one submission, or what is left of it
    sending,       \* the submission being handed in
    mine, told     \* watched by this tab since it was loaded; learnt of

serverVars == <<stage, scored>>
watchVars == <<watch, past, mine, told>>
pagesVars == <<stage, scored, watch, past, notifier, page, list, detail, sending, mine, told>>

Server == INSTANCE GradingLifecycle WITH Pairs <- {}, PairOf <- <<>>, granted <- {}

Settled(s) == stage[s] \in {"graded", "failed"}

\* watchedGrades drops what is too old.
Watched == watch \ past

\* The first page of the list as the server has it: rows open and settled.
Rows == [open: SUBSET Submissions, settled: SUBSET Submissions]
NoRows == [open |-> {}, settled |-> {}]
CurrentRows == [open |-> {s \in Followed : stage[s] = "open"},
                settled |-> {s \in Followed : Settled(s)}]

NoList == [rows |-> NoRows, load |-> "none", answer |-> NoRows, late |-> {}]
NoDetail == [pc |-> "off", sub |-> None, here |-> FALSE]

Init ==
    /\ Server!LifecycleInit
    /\ watch = {} /\ past = {} /\ mine = {} /\ told = {}
    /\ notifier = [timer |-> FALSE, running |-> {}, todo |-> [k \in Checks |-> {}]]
    /\ page = "elsewhere" /\ list = NoList /\ detail = NoDetail
    /\ sending = None

-----------------------------------------------------------------------------
(* The server, other tabs, and time *)

SaveScore(s) ==
    /\ s \in Followed /\ Server!SaveScore(s)
    /\ UNCHANGED <<watchVars, notifier, page, list, detail, sending>>


Settle(s) ==
    /\ Server!Grade(s) \/ Server!Fail(s)
    /\ UNCHANGED <<watchVars, notifier, page, list, detail, sending>>

\* Another tab hands in and watches: no event tells this one.
OtherTabWatches(s) ==
    /\ s \in Followed /\ Server!Submit(s)
    /\ watch' = Watched \union {s}
    /\ UNCHANGED <<past, mine, told, notifier, page, list, detail, sending>>

OtherTabAnnounces(s) ==
    /\ s \in Followed \intersect Watched /\ Settled(s)
    /\ watch' = Watched \ {s} /\ told' = told \union {s}
    /\ UNCHANGED <<serverVars, past, mine, notifier, page, list, detail, sending>>

GrowOld(s) ==
    /\ s \in Followed \intersect Watched
    /\ past' = past \union {s}
    /\ UNCHANGED <<serverVars, watch, mine, told, notifier, page, list, detail, sending>>

-----------------------------------------------------------------------------
(* Handing in *)

\* Mounting the list, or reloading it: an answer on its way is superseded.
MountedList == [NoList EXCEPT !.load = "sent"]
Reloaded(l) ==
    [l EXCEPT !.load = "sent", !.answer = NoRows,
              !.late = IF l.load = "served" THEN @ \union {l.answer} ELSE @]

\* A page that waits for its result and is left goes on until its next poll.
LeftDetail == IF detail.pc = "waiting" THEN [detail EXCEPT !.here = FALSE] ELSE NoDetail

Send(s) ==
    /\ page = "elsewhere" /\ sending = None
    /\ Server!Submit(s)
    /\ sending' = s
    /\ UNCHANGED <<watchVars, notifier, page, list, detail>>

\* Mutant: the event that starts the notifier is forgotten.
QueuedSilently ==
    /\ sending # None
    /\ watch' = Watched \union {sending} /\ mine' = mine \union {sending}
    /\ page' = "list" /\ list' = (IF page = "list" THEN list ELSE MountedList)
    /\ detail' = LeftDetail /\ sending' = None
    /\ UNCHANGED <<serverVars, past, told, notifier>>

\* Mutant: a submission is watched though none was handed in.
QueuedAnyway ==
    /\ watch' = Watched \union {sending} /\ mine' = mine \union {sending}
    /\ notifier' = [notifier EXCEPT !.timer = TRUE]
    /\ page' = "list" /\ list' = (IF page = "list" THEN list ELSE MountedList)
    /\ detail' = LeftDetail /\ sending' = None
    /\ UNCHANGED <<serverVars, past, told>>

\* The answer arrives: watchGrading, whose event arms the timer, then the list.
Queued ==
    /\ sending # None
    /\ watch' = Watched \union {sending} /\ mine' = mine \union {sending}
    /\ notifier' = [notifier EXCEPT !.timer = TRUE]
    /\ page' = "list" /\ list' = (IF page = "list" THEN list ELSE MountedList)
    /\ detail' = LeftDetail /\ sending' = None
    /\ UNCHANGED <<serverVars, past, told>>

\* The answer is lost: the learner sees an error, and nothing is watched.
QueuedLost ==
    /\ sending # None
    /\ sending' = None
    /\ UNCHANGED <<serverVars, watchVars, notifier, page, list, detail>>

-----------------------------------------------------------------------------
(* GradingNotifier *)

\* The timer fires.  A check takes the watch list as it is now, or nothing
\* when nobody is signed in.  Slots are alike: it has a given free one.
FireTimer(k, todo) ==
    /\ notifier.timer /\ k \notin notifier.running
    /\ k = CHOOSE free \in Checks \ notifier.running : TRUE
    /\ notifier' = [notifier EXCEPT !.timer = FALSE, !.running = @ \union {k}, !.todo[k] = todo]
    /\ UNCHANGED <<serverVars, watchVars, page, list, detail, sending>>

DoneWith(k, s) == notifier' = [notifier EXCEPT !.todo[k] = @ \ {s}]

\* The submission is still being graded, or the request fails.
PollInVain(k, s) ==
    /\ s \in notifier.todo[k]
    /\ DoneWith(k, s)
    /\ UNCHANGED <<serverVars, watchVars, page, list, detail, sending>>

\* It is settled: forgetGrading, the notification, and an event for the list.
Announce(k, s) ==
    /\ s \in notifier.todo[k] /\ Settled(s)
    /\ DoneWith(k, s)
    /\ watch' = Watched \ {s} /\ told' = told \union {s}
    /\ list' = IF page = "list" THEN Reloaded(list) ELSE list
    /\ UNCHANGED <<serverVars, past, mine, page, detail, sending>>

\* Mutant: a check does not schedule the next one.
EndCheckOnce(k) ==
    /\ k \in notifier.running /\ notifier.todo[k] = {}
    /\ notifier' = [notifier EXCEPT !.running = @ \ {k}]
    /\ UNCHANGED <<serverVars, watchVars, page, list, detail, sending>>

\* The check is over, and the next one scheduled while anything is watched.
EndCheck(k) ==
    /\ k \in notifier.running /\ notifier.todo[k] = {}
    /\ notifier' = [notifier EXCEPT !.running = @ \ {k}, !.timer = @ \/ Watched # {}]
    /\ UNCHANGED <<serverVars, watchVars, page, list, detail, sending>>

\* The tab is reloaded, on any page.
ReloadTab ==
    /\ notifier' = [timer |-> Watched # {}, running |-> {}, todo |-> [k \in Checks |-> {}]]
    /\ mine' = Watched
    /\ page' = "elsewhere" /\ list' = NoList /\ detail' = NoDetail /\ sending' = None
    /\ UNCHANGED <<serverVars, watch, past, told>>

-----------------------------------------------------------------------------
(* SubmissionsPage *)

OpenList ==
    /\ page = "elsewhere"
    /\ page' = "list" /\ list' = MountedList
    /\ UNCHANGED <<serverVars, watchVars, notifier, detail, sending>>

\* Mutant: a reload is answered from a cache.
ServeListCached ==
    /\ list.load = "sent"
    /\ list' = [list EXCEPT !.load = "served",
                            !.answer = IF list.rows = NoRows THEN CurrentRows ELSE list.rows]
    /\ UNCHANGED <<serverVars, watchVars, notifier, page, detail, sending>>

ServeList ==
    /\ list.load = "sent"
    /\ list' = [list EXCEPT !.load = "served", !.answer = CurrentRows]
    /\ UNCHANGED <<serverVars, watchVars, notifier, page, detail, sending>>

ApplyList ==
    /\ list.load = "served"
    /\ list' = [list EXCEPT !.rows = list.answer, !.load = "none", !.answer = NoRows]
    /\ UNCHANGED <<serverVars, watchVars, notifier, page, detail, sending>>

FailList ==
    /\ list.load # "none"
    /\ list' = [list EXCEPT !.load = "none", !.answer = NoRows]
    /\ UNCHANGED <<serverVars, watchVars, notifier, page, detail, sending>>

\* The interval runs while a row is unsettled.
RefreshList ==
    /\ page = "list" /\ list.rows.open # {}
    /\ list' = Reloaded(list)
    /\ UNCHANGED <<serverVars, watchVars, notifier, page, detail, sending>>

\* Mutant: a superseded answer is shown all the same.
LateListShown ==
    /\ \E answer \in list.late : list' = [list EXCEPT !.rows = answer, !.late = @ \ {answer}]
    /\ UNCHANGED <<serverVars, watchVars, notifier, page, detail, sending>>

\* A superseded answer arrives, and its cancelled flag discards it.
LateList ==
    /\ \E answer \in list.late : list' = [list EXCEPT !.late = @ \ {answer}]
    /\ UNCHANGED <<serverVars, watchVars, notifier, page, detail, sending>>

-----------------------------------------------------------------------------
(* SubmissionDetailPage *)

\* Bound: one page of this kind at a time, those that were left included.
OpenDetail(s) ==
    /\ s \in Followed /\ page # "detail" /\ detail.pc = "off" /\ stage[s] # "absent"
    /\ page' = "detail" /\ list' = NoList
    /\ detail' = [pc |-> "asked", sub |-> s, here |-> TRUE]
    /\ UNCHANGED <<serverVars, watchVars, notifier, sending>>

ShowAt(pc) == detail' = [detail EXCEPT !.pc = pc]
AfterStatus == IF stage[detail.sub] = "graded" THEN "scoring" ELSE "shown"

\* The submission is loaded: only a graded one is asked for its score, and an
\* open one is waited for.
DetailLoads ==
    /\ detail.pc = "asked"
    /\ ShowAt(IF Settled(detail.sub) THEN AfterStatus ELSE "waiting")
    /\ UNCHANGED <<serverVars, watchVars, notifier, page, list, sending>>

\* Mutant: a learner who has left the page counts as having seen the result.
DetailSettlesUnseen ==
    /\ detail.pc = "waiting" /\ Settled(detail.sub)
    /\ watch' = Watched \ {detail.sub}
    /\ told' = IF detail.here THEN told \union {detail.sub} ELSE told
    /\ detail' = IF detail.here THEN [detail EXCEPT !.pc = AfterStatus] ELSE NoDetail
    /\ UNCHANGED <<serverVars, past, mine, notifier, page, list, sending>>

\* waitForGrading returns.  On a page that was left nothing happens; else
\* the notification is called off, and a graded one asked for its score.
DetailSettles ==
    /\ detail.pc = "waiting" /\ Settled(detail.sub)
    /\ IF detail.here
       THEN /\ watch' = Watched \ {detail.sub} /\ told' = told \union {detail.sub}
            /\ ShowAt(AfterStatus)
       ELSE detail' = NoDetail /\ UNCHANGED <<watch, told>>
    /\ UNCHANGED <<serverVars, past, mine, notifier, page, list, sending>>

\* The score is there, or not: the page then shows an error.
ScoreArrives ==
    /\ detail.pc = "scoring"
    /\ ShowAt(IF detail.sub \in scored THEN "shown" ELSE "error")
    /\ UNCHANGED <<serverVars, watchVars, notifier, page, list, sending>>

\* A request fails, the wait times out, or the signal aborts it.
DetailFails ==
    /\ detail.pc \in {"asked", "waiting", "scoring"}
    /\ detail' = IF detail.here THEN [detail EXCEPT !.pc = "error"] ELSE NoDetail
    /\ UNCHANGED <<serverVars, watchVars, notifier, page, list, sending>>

\* The learner goes elsewhere.
Leave ==
    /\ page # "elsewhere"
    /\ page' = "elsewhere" /\ list' = NoList /\ detail' = LeftDetail
    /\ UNCHANGED <<serverVars, watchVars, notifier, sending>>

-----------------------------------------------------------------------------

NotifierStep(k) ==
    \/ FireTimer(k, Watched) \/ FireTimer(k, {})
    \/ \E s \in Submissions : PollInVain(k, s) \/ Announce(k, s)
    \/ EndCheck(k)

ListStep == OpenList \/ ServeList \/ ApplyList \/ FailList \/ RefreshList \/ LateList

DetailStep == DetailLoads \/ DetailSettles \/ ScoreArrives \/ DetailFails

Next ==
    \/ \E s \in Submissions :
          \/ SaveScore(s) \/ Settle(s) \/ GrowOld(s)
          \/ OtherTabWatches(s) \/ OtherTabAnnounces(s)
          \/ Send(s) \/ OpenDetail(s)
    \/ Queued \/ QueuedLost \/ ReloadTab \/ Leave
    \/ \E k \in Checks : NotifierStep(k)
    \/ ListStep \/ DetailStep

Spec == Init /\ [][Next]_pagesVars

\* Timers fire and requests end; the learner is signed in time and again, and
\* a request of a kind that is made time and again sometimes succeeds.
Fairness ==
    /\ \A k \in Checks : WF_pagesVars(NotifierStep(k))
    /\ \A s \in Submissions : SF_pagesVars(\E k \in Checks : Announce(k, s))
    /\ SF_pagesVars(\E k \in Checks : FireTimer(k, Watched))
    /\ WF_pagesVars(RefreshList) /\ SF_pagesVars(ServeList) /\ SF_pagesVars(ApplyList)

FairSpec == Spec /\ Fairness

-----------------------------------------------------------------------------
(* Properties *)

\* Lists, requests and pages are in a state the code gives them.
TypeOK ==
    /\ stage \in [Submissions -> {"absent", "open", "graded", "failed"}]
    /\ scored \subseteq Submissions
    /\ watch \subseteq Submissions /\ past \subseteq Submissions
    /\ mine \subseteq Submissions /\ told \subseteq Submissions
    /\ notifier \in [timer: BOOLEAN, running: SUBSET Checks, todo: [Checks -> SUBSET Submissions]]
    /\ page \in {"elsewhere", "list", "detail"}
    /\ list \in [rows: Rows, load: {"none", "sent", "served"}, answer: Rows, late: SUBSET Rows]
    /\ detail \in [pc: {"off", "asked", "waiting", "scoring", "shown", "error"},
                   sub: Submissions \union {None}, here: BOOLEAN]
    /\ sending \in Submissions \union {None}

\* However checks overlap, and events arrive while one is running, the tab
\* does not stop polling while something it watches is on the list.
PollingGoesOn ==
    mine \intersect Watched # {} => notifier.timer \/ notifier.running # {}

\* A submission leaves the watch list only when the learner has been told of
\* its result or is on its page, or it has grown too old: never because a
\* page that was left went on waiting.
LeavesOnlyWhenTold ==
    [][\A s \in watch : s \in watch' \/ s \in told' \/ s \in past]_pagesVars

\* The score of a submission is only asked for when the server has one, so
\* no result page ends in "score not found".
ScoreIsThere == detail.pc = "scoring" => detail.sub \in scored

\* Answers that overtake each other never turn a settled row of the list on
\* screen back into one that is being graded.
RowsNeverGoBack ==
    [][page = "list" /\ page' = "list" => list.rows.settled \intersect list'.rows.open = {}]_pagesVars

\* A settled submission this tab watches is announced in the end, unless it
\* has grown too old.
EventuallyTold ==
    \A s \in Submissions :
        s \in mine \intersect Watched /\ Settled(s) ~> s \in told \union past

\* An open row of the list on screen shows its result in the end.
EventuallyShown ==
    \A s \in Followed :
        page = "list" /\ s \in list.rows.open /\ Settled(s)
            ~> s \in list.rows.settled \/ page # "list"

=============================================================================
