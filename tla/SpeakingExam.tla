---------------------------- MODULE SpeakingExam ----------------------------
(***************************************************************************)
(* A speaking test from its composition to its hand-in.  The page plays    *)
(* the script, records an answer to each question and uploads it while the *)
(* test goes on, each clip through a link handed out at the beginning; at  *)
(* the end it waits for all uploads and posts which clip answers what.     *)
(* Meanwhile links and tokens expire, uploads fail, the microphone may go, *)
(* and another tab may change who is logged in.                            *)
(***************************************************************************)
EXTENDS ExaminerScript, ClientSession

CONSTANTS
    Requests,        \* what authors ask for
    Author,          \* the user who composes the test
    MaxUploadSlots,
    UploadTries,     \* attempts of uploadRecording
    MaxAnswerSeconds,
    SoftLimitGrace, MinAnswerSeconds,  \* of the page
    MaxSat           \* bound on the answers of a test that is sat

ASSUME ExamAssumption ==
    /\ Author \in Users
    /\ \A req \in Requests :
         /\ req.title \in Text
         /\ \A part \in 1..3 : Has(req.parts[part]) =>
              req.parts[part].custom \in {None} \cup
                  (CASE part = 1 -> SpeakingPart1 [] part = 2 -> SpeakingPart2 [] part = 3 -> SpeakingPart3)
    /\ {MaxUploadSlots, UploadTries, MaxAnswerSeconds, SoftLimitGrace, MinAnswerSeconds, MaxSat} \subseteq Nat
    /\ UploadTries > 0 /\ MinAnswerSeconds > 0
    \* What service.go says of a full test.
    /\ MaxPart1Questions + 1 + MaxPart2FollowUps + MaxPart3Questions <= MaxUploadSlots
    \* The page stops every answer before the server's generous ceiling.
    /\ {MinAnswerSeconds, 30 + SoftLimitGrace, 60 + SoftLimitGrace, 120} \subseteq 1..MaxAnswerSeconds

VARIABLES
    draft,        \* the request that is composed
    checked,      \* a moderator has answered
    test, owner,  \* the test there is: its content, and whose it is
    phase,        \* of the page
    line, stage,  \* the line of the script, and what it is doing
    mic,          \* the microphone is there
    slots,        \* keys the recordings go to
    links,        \* the upload links are still valid
    answers,      \* given so far
    upload,       \* per answer: the attempt under way, or how it ended
    store,        \* the clip each key holds: the question it answers
    submissions   \* on the server

composeVars == <<draft, checked, test, owner>>
examVars == <<line, stage, mic, slots, links, answers, upload, store>>
vars == <<composeVars, phase, examVars, submissions, sessionVars>>

Script == Build(test)

Init ==
    /\ draft \in Requests
    /\ checked = FALSE /\ test = None /\ owner = Nobody
    /\ phase = "writing"
    /\ line = 0 /\ stage = "speak" /\ mic = FALSE
    /\ slots = <<>> /\ links = FALSE /\ answers = <<>> /\ upload = <<>>
    /\ store = [k \in {} |-> None]
    /\ submissions = {}
    /\ InitSession(Author)

-----------------------------------------------------------------------------
(* The author *)

\* compose, and CreateCustom.  A moderator who does not answer lets it pass.
Compose(answered) ==
    /\ phase = "writing" /\ draft # None
    /\ IF SourcesOK(draft) /\ Valid(Composed(draft)) /\ ~(answered /\ Flagged(draft))
       THEN test' = Composed(draft) /\ owner' = Author /\ checked' = answered /\ UNCHANGED phase
       ELSE phase' = "rejected" /\ UNCHANGED <<test, owner, checked>>
    /\ draft' = None
    /\ UNCHANGED <<examVars, submissions, sessionVars>>

\* Or else the exam is an official test.
Choose(b) ==
    /\ phase = "writing" /\ draft # None
    /\ test' = Bank[b] /\ draft' = None
    /\ UNCHANGED <<checked, owner, phase, examVars, submissions, sessionVars>>

-----------------------------------------------------------------------------
(* The requests of the page *)

\* visibleTest: an official test, or the user's own.
Visible(user) == owner \in {Nobody, user}

Failed == phase' = "failed"

OpenPage ==
    /\ phase = "writing" /\ test # None /\ Len(Questions(test)) <= MaxSat
    /\ Send("script")
    /\ phase' = "loading"
    /\ UNCHANGED <<composeVars, examVars, submissions>>

GetScript ==
    /\ request.op = "script" /\ Sent /\ Authorized
    /\ phase' = IF Visible(request.token.user) THEN "ready" ELSE "failed"
    /\ Over
    /\ UNCHANGED <<composeVars, examVars, submissions>>

\* begin: the microphone first, then links for all answers.  Either may
\* fail; the page is then as before.
Begin ==
    /\ phase = "ready"
    /\ mic' = TRUE
    /\ Send("slots")
    /\ UNCHANGED <<composeVars, phase, line, stage, slots, links, answers, upload, store, submissions>>

\* UploadSlots: keys of the user the request is from, in place of which
\* stand numbers.
UploadSlots(user, count) ==
    IF count \in 1..MaxUploadSlots THEN [i \in 1..count |-> [user |-> user, number |-> i]] ELSE <<>>

GetSlots ==
    /\ request.op = "slots" /\ Sent /\ Authorized
    /\ slots' = UploadSlots(request.token.user, Len(Answerable(Script)))
    /\ IF slots' # <<>>
       THEN phase' = "running" /\ line' = 1 /\ stage' = "speak" /\ links' = TRUE
       ELSE UNCHANGED <<phase, line, stage, links>>
    /\ Over
    /\ UNCHANGED <<composeVars, mic, answers, upload, store, submissions>>

-----------------------------------------------------------------------------
(* The exam *)

\* The next line; after the last one the recordings are waited for.
Goto(n) ==
    /\ line' = n /\ stage' = "speak"
    /\ phase' = IF n > Len(Script) THEN "submitting" ELSE "running"

Speaking == phase = "running" /\ stage = "speak"

\* The examiner has said the line.
Spoken ==
    /\ Speaking
    /\ CASE Script[line].kind = "say" -> Goto(line + 1)
         [] Script[line].kind = "cue_card" -> stage' = "prep" /\ UNCHANGED <<line, phase>>
         [] Script[line].kind \in {"ask", "long_turn"} ->
              \* Nothing is recorded from a microphone that has gone.
              IF mic THEN stage' = "record" /\ UNCHANGED <<line, phase>>
                     ELSE Failed /\ UNCHANGED <<line, stage>>
    /\ UNCHANGED <<composeVars, mic, slots, links, answers, upload, store, submissions, sessionVars>>

\* An introduction is skipped together with what the examiner says after it.
SkipIntro ==
    /\ Speaking /\ Script[line].kind = "say"
    /\ Goto(Min({n \in line + 1..Len(Script) : Script[n].kind # "say"} \cup {Len(Script) + 1}))
    /\ UNCHANGED <<composeVars, mic, slots, links, answers, upload, store, submissions, sessionVars>>

PrepOver ==
    /\ phase = "running" /\ stage = "prep"
    /\ Goto(line + 1)
    /\ UNCHANGED <<composeVars, mic, slots, links, answers, upload, store, submissions, sessionVars>>

\* The time after which an answer is cut off.
HardLimit(l) == IF l.kind = "long_turn" THEN l.seconds ELSE l.seconds + SoftLimitGrace

\* The answer ends after so many seconds; the clip goes to the next slot,
\* and its upload begins.  A recorder that has stopped of itself, since the
\* microphone went, never says that it is done.
AnswerOver(seconds) ==
    /\ phase = "running" /\ stage = "record" /\ mic
    /\ LET key == slots[Len(answers) + 1]
       IN answers' = Append(answers, [id |-> Script[line].id, key |-> key, seconds |-> seconds])
    /\ upload' = Append(upload, 1)
    /\ Goto(line + 1)
    /\ UNCHANGED <<composeVars, mic, slots, links, store, submissions, sessionVars>>

\* The shortest and the longest.
Durations(l) == {MinAnswerSeconds, HardLimit(l)}

-----------------------------------------------------------------------------
(* Uploads *)

OnPage == phase \in {"running", "submitting"}
Attempting(i) == OnPage /\ upload[i] \in 1..UploadTries

\* How an upload ends.
Stored == 0
Lost == UploadTries + 1

\* Mutant: an upload that fails is tried again without end.
TriesForEver(i) == upload' = [upload EXCEPT ![i] = IF @ < UploadTries THEN @ + 1 ELSE 1]

\* Another attempt, or after the last one no more.
AttemptFails(i) == upload' = [upload EXCEPT ![i] = @ + 1]

\* The link is checked, and the object is written; the answer may be lost.
UploadArrives(i, heard) ==
    /\ Attempting(i) /\ links
    /\ store' = [k \in DOMAIN store \cup {answers[i].key} |->
                    IF k = answers[i].key THEN answers[i].id ELSE store[k]]
    /\ IF heard THEN upload' = [upload EXCEPT ![i] = Stored] ELSE AttemptFails(i)
    /\ UNCHANGED <<composeVars, phase, line, stage, mic, slots, links, answers, submissions, sessionVars>>

UploadFails(i) ==
    /\ Attempting(i) /\ AttemptFails(i)
    /\ UNCHANGED <<composeVars, phase, line, stage, mic, slots, links, answers, store, submissions, sessionVars>>

-----------------------------------------------------------------------------
(* The hand-in *)

UploadsSettled == phase = "submitting" /\ \A i \in DOMAIN upload : upload[i] \in {Stored, Lost}

AnyUploadFailed == \E i \in DOMAIN upload : upload[i] = Lost

LoseExam ==
    /\ UploadsSettled /\ AnyUploadFailed /\ request = Idle
    /\ Failed
    /\ UNCHANGED <<composeVars, examVars, submissions, sessionVars>>

HandIn ==
    /\ UploadsSettled /\ ~AnyUploadFailed
    /\ Send("submit")
    /\ UNCHANGED <<composeVars, phase, examVars, submissions>>

\* Mutant: any key is taken for the submitter's.
AcceptsAnyKey(user) ==
    /\ answers # <<>>
    /\ \A i \in DOMAIN answers :
         /\ answers[i].id \in {q.id : q \in ToSet(Questions(test))}
         /\ \A j \in 1..i - 1 : answers[j].id # answers[i].id
         /\ answers[i].seconds \in 1..MaxAnswerSeconds

\* validateSpeakingSubmission
Accepts(user) ==
    /\ answers # <<>>
    /\ \A i \in DOMAIN answers :
         /\ answers[i].id \in {q.id : q \in ToSet(Questions(test))}
         /\ \A j \in 1..i - 1 : answers[j].id # answers[i].id
         /\ answers[i].key.user = user
         /\ answers[i].seconds \in 1..MaxAnswerSeconds

\* SubmitAnswer; the answer of the server may be lost.
Submit(heard) ==
    /\ request.op = "submit" /\ Sent /\ Authorized
    /\ LET user == request.token.user
       IN IF Visible(user) /\ Accepts(user)
          THEN /\ submissions' = submissions \cup {[user |-> user, answers |-> answers]}
               /\ phase' = IF heard THEN "submitted" ELSE "failed"
          ELSE UNCHANGED submissions /\ phase' = (IF heard THEN "refused" ELSE "failed")
    /\ Over
    /\ UNCHANGED <<composeVars, examVars>>

\* The links a user gets to the clips of a submission.
Recordings(user, s) ==
    IF s.user # user THEN {}
    ELSE {s.answers[i] : i \in {i \in DOMAIN s.answers : s.answers[i].key.user = user}}

-----------------------------------------------------------------------------
(* What may go wrong *)

\* The network fails, or the token of the refresh is refused, too.
RequestThrows ==
    /\ Sent /\ Over
    /\ phase' = IF request.op = "slots" THEN "ready" ELSE "failed"
    /\ UNCHANGED <<composeVars, examVars, submissions>>

Refreshing ==
    /\ AskRefresh \/ Refreshed
    /\ UNCHANGED <<composeVars, phase, examVars, submissions>>

\* A refresh that fails takes the page away with the session.
SessionEnds ==
    /\ CannotRefresh \/ RefreshFails
    /\ phase' = "left"
    /\ UNCHANGED <<composeVars, examVars, submissions>>

\* So does one for a request of another component of the page, such as the
\* poll of GradingNotifier, and the candidate may leave, or close the tab.
\* Who leaves for another page of the app while the exam is handed in does
\* not stop it: nothing changes.
PageGone ==
    /\ OnPage
    /\ ForceLogout \/ Over
    /\ phase' = "left"
    /\ UNCHANGED <<composeVars, examVars, submissions>>

MicrophoneEnds ==
    /\ phase = "running" /\ mic
    /\ mic' = FALSE
    /\ UNCHANGED <<composeVars, phase, line, stage, slots, links, answers, upload, store, submissions, sessionVars>>

LinksExpire ==
    /\ OnPage /\ links
    /\ links' = FALSE
    /\ UNCHANGED <<composeVars, phase, line, stage, mic, slots, answers, upload, store, submissions, sessionVars>>

Closed == phase \in {"rejected", "submitted", "refused", "failed", "left"}

InOtherTabs == ~Closed /\ Meanwhile /\ UNCHANGED <<composeVars, phase, examVars, submissions>>

-----------------------------------------------------------------------------

\* The server answers, or the network has failed.
Answered == GetScript \/ GetSlots \/ \E heard \in BOOLEAN : Submit(heard)

UploadSettles(i) == UploadFails(i) \/ \E heard \in BOOLEAN : UploadArrives(i, heard)

LineOver ==
    \/ Spoken
    \/ PrepOver
    \/ /\ phase = "running" /\ stage = "record"
       /\ \E s \in Durations(Script[line]) : AnswerOver(s)

Next ==
    \/ \E answered \in BOOLEAN : Compose(answered)
    \/ \E b \in DOMAIN Bank : Choose(b)
    \/ OpenPage \/ Begin \/ LineOver \/ SkipIntro
    \/ \E i \in DOMAIN upload : UploadSettles(i)
    \/ LoseExam \/ HandIn
    \/ Answered \/ RequestThrows \/ Refreshing \/ SessionEnds
    \/ PageGone \/ MicrophoneEnds \/ LinksExpire \/ InOtherTabs

\* Speech, timers and requests end; the page goes on when they have.
Fairness ==
    /\ WF_vars(LineOver)
    /\ \A i \in 1..MaxSat : WF_vars(i \in DOMAIN upload /\ UploadSettles(i))
    /\ WF_vars(LoseExam \/ HandIn)
    /\ WF_vars(Answered \/ RequestThrows \/ Refreshing \/ SessionEnds)

Spec == Init /\ [][Next]_vars
FairSpec == Spec /\ Fairness

-----------------------------------------------------------------------------
(* Properties *)

Ids(qs) == [i \in DOMAIN qs |-> qs[i].id]

\* What the author's request has become is an exam that can be taken: the
\* script asks every question of the content, once and in order, and no more
\* of them than there are upload links; no question or card is blank, no
\* answer can outlast what the server takes; and if a moderator answered,
\* nothing the examiner says or shows had a word in it to be flagged for.
TestIsExaminable ==
    test # None =>
        /\ Ids(Answerable(Script)) = Ids(Questions(test))
        /\ IsInjective(Ids(Questions(test)))
        /\ Len(Questions(test)) \in 1..MaxUploadSlots
        /\ \A i \in DOMAIN Script :
             /\ Script[i].kind \in {"ask", "cue_card"} => Script[i].text # Empty
             /\ Script[i].id # None => HardLimit(Script[i]) <= MaxAnswerSeconds
             /\ checked => ~Rude(Script[i].text) /\ ~Rude(test.title)

\* No clip is taken for another's, and none for the answer to another question.
ClipsAreTheirOwn ==
    \A s \in submissions : \A i \in DOMAIN s.answers :
        /\ s.answers[i].key.user = s.user
        /\ s.answers[i].key \in DOMAIN store
        /\ store[s.answers[i].key] = s.answers[i].id

\* Whoever is logged in by the time the exam is handed in, and whatever
\* befell its uploads: a submission answers every question of the test once,
\* each with the clip that was recorded for it, which its submitter recorded
\* and can listen to; and the server has nothing to say against what the
\* page posts, unless it comes from another user than the recordings.
HandInIsWhole ==
    /\ ClipsAreTheirOwn
    /\ \A s \in submissions : /\ Ids(s.answers) = Ids(Questions(test))
                              /\ Recordings(s.user, s) = ToSet(s.answers)
    /\ UploadsSettled => Accepts(slots[1].user)

\* The recorder that has lost its microphone is waited for in vain.
Hung == phase = "running" /\ stage = "record" /\ ~mic

\* An exam that has begun ends: handed in, or lost with the candidate told.
ExamEnds == phase = "running" ~> Closed \/ Hung

=============================================================================
