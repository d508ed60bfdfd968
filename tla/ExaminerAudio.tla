--------------------------- MODULE ExaminerAudio ---------------------------
(***************************************************************************)
(* The examiner's voice: every API replica synthesises the script lines    *)
(* that have no recording yet, from a bounded queue with one worker, and   *)
(* all replicas share one object store.  A line's key is a hash of its     *)
(* text and voice, so a line is its key here.                              *)
(*                                                                         *)
(* A served script is a set of lines.  They are looked up, then filled in  *)
(* one by one, and one without a recording is                              *)
(* queued in two steps (pending.LoadOrStore, then the channel send) that   *)
(* interleave with the worker and with other requests.                     *)
(***************************************************************************)
EXTENDS Integers, Sequences, FiniteSets

CONSTANTS
    Replicas,    \* API processes
    Lines,       \* distinct script lines
    Requests,    \* concurrent Resolve calls
    QueueSize,   \* queueSize
    MaxFaults,   \* bound on crashes and object-store errors
    None         \* no line, no replica

ASSUME AudioAssumption ==
    /\ IsFiniteSet(Replicas)
    /\ None \notin Lines /\ None \notin Replicas
    /\ QueueSize \in Nat \ {0}
    /\ MaxFaults \in Nat

VARIABLES
    stored,   \* lines whose recording is in the object store
    known,    \* per replica, the sync.Map of lines seen in the store
    pending,  \* per replica, the sync.Map of lines queued or being made
    queue,    \* per replica, the channel of lines to synthesise
    synth,    \* per replica, the worker: where it is, and its line
    request,  \* per request: where it is, its replica, lines left and current line
    made,     \* per line, the recordings paid for
    faults    \* faults injected so far

audioVars == <<stored, known, pending, queue, synth, request, made, faults>>

IdleSynth == [pc |-> "idle", line |-> None]
IdleRequest == [pc |-> "idle", at |-> None, todo |-> {}, line |-> None]

SynthState == [pc: {"idle", "checking", "speaking", "storing", "releasing"},
               line: Lines \union {None}]
RequestState == [pc: {"idle", "filling", "claiming", "sending"}, at: Replicas \union {None},
                 todo: SUBSET Lines, line: Lines \union {None}]

Fault == faults < MaxFaults /\ faults' = faults + 1

Goto(r, pc) == synth' = [synth EXCEPT ![r].pc = pc]
NextLine(q) == request' = [request EXCEPT ![q].pc = "filling", ![q].line = None]

-----------------------------------------------------------------------------
(* Resolve and Prepare *)

Init ==
    /\ stored = {}
    /\ known = [r \in Replicas |-> {}]
    /\ pending = [r \in Replicas |-> {}]
    /\ queue = [r \in Replicas |-> <<>>]
    /\ synth = [r \in Replicas |-> IdleSynth]
    /\ request = [q \in Requests |-> IdleRequest]
    /\ made = [l \in Lines |-> 0]
    /\ faults = 0

\* A script has been served and its lookups are over.  They found some of
\* the stored lines: a line may have been stored after its lookup, or its
\* lookup have failed.
Resolve(q, r, script) ==
    /\ request[q].pc = "idle"
    /\ \E found \in SUBSET (script \intersect stored) :
          /\ known' = [known EXCEPT ![r] = @ \union found]
          /\ request' = [request EXCEPT
                ![q] = [pc |-> "filling", at |-> r, todo |-> script \ known'[r], line |-> None]]
    /\ UNCHANGED <<stored, pending, queue, synth, made, faults>>

\* A known line gets its link; any other one is to be enqueued.
Fill(q, l) ==
    /\ request[q].pc = "filling" /\ l \in request[q].todo
    /\ l \in known[request[q].at]
    /\ request' = [request EXCEPT ![q].todo = @ \ {l}]
    /\ UNCHANGED <<stored, known, pending, queue, synth, made, faults>>

Enqueue(q, l) ==
    /\ request[q].pc = "filling" /\ l \in request[q].todo
    /\ l \notin known[request[q].at]
    /\ request' = [request EXCEPT ![q].todo = @ \ {l}, ![q].pc = "claiming", ![q].line = l]
    /\ UNCHANGED <<stored, known, pending, queue, synth, made, faults>>

\* Mutant: the check for a duplicate and the mark are taken for two steps,
\* and only the check is made.
ClaimUnmarked(q) ==
    LET r == request[q].at IN
    /\ request[q].pc = "claiming"
    /\ IF request[q].line \in pending[r]
       THEN NextLine(q)
       ELSE request' = [request EXCEPT ![q].pc = "sending"]
    /\ UNCHANGED <<stored, known, pending, queue, synth, made, faults>>

\* enqueue, first step: pending.LoadOrStore lets one caller through.
ClaimLine(q) ==
    LET r == request[q].at
        l == request[q].line
    IN
    /\ request[q].pc = "claiming"
    /\ pending' = [pending EXCEPT ![r] = @ \union {l}]
    /\ IF l \in pending[r]
       THEN NextLine(q)
       ELSE request' = [request EXCEPT ![q].pc = "sending"]
    /\ UNCHANGED <<stored, known, queue, synth, made, faults>>

\* Mutant: a line that finds the queue full stays marked as pending.
SendOrForget(q) ==
    LET r == request[q].at IN
    /\ request[q].pc = "sending"
    /\ queue' = [queue EXCEPT ![r] = IF Len(@) < QueueSize THEN Append(@, request[q].line) ELSE @]
    /\ NextLine(q)
    /\ UNCHANGED <<stored, known, pending, synth, made, faults>>

\* Mutant: the channel has no bound.
SendUnbounded(q) ==
    /\ request[q].pc = "sending"
    /\ queue' = [queue EXCEPT ![request[q].at] = Append(@, request[q].line)]
    /\ NextLine(q)
    /\ UNCHANGED <<stored, known, pending, synth, made, faults>>

\* enqueue, second step: the line is sent, or dropped when the queue is full.
Send(q) ==
    LET r == request[q].at
        l == request[q].line
    IN
    /\ request[q].pc = "sending"
    /\ IF Len(queue[r]) < QueueSize
       THEN queue' = [queue EXCEPT ![r] = Append(@, l)] /\ UNCHANGED pending
       ELSE pending' = [pending EXCEPT ![r] = @ \ {l}] /\ UNCHANGED queue
    /\ NextLine(q)
    /\ UNCHANGED <<stored, known, synth, made, faults>>

Served(q) ==
    /\ request[q].pc = "filling" /\ request[q].todo = {}
    /\ request' = [request EXCEPT ![q] = IdleRequest]
    /\ UNCHANGED <<stored, known, pending, queue, synth, made, faults>>

-----------------------------------------------------------------------------
(* synthesise *)

Dequeue(r) ==
    /\ synth[r].pc = "idle" /\ queue[r] # <<>>
    /\ synth' = [synth EXCEPT ![r] = [pc |-> "checking", line |-> Head(queue[r])]]
    /\ queue' = [queue EXCEPT ![r] = Tail(@)]
    /\ UNCHANGED <<stored, known, pending, request, made, faults>>

\* Mutant: another replica's recording is not looked for.
SpeakUnchecked(r) ==
    /\ synth[r].pc = "checking"
    /\ Goto(r, "speaking")
    /\ UNCHANGED <<stored, known, pending, queue, request, made, faults>>

\* Another replica may have made the recording; an error of the lookup counts
\* as "not recorded".
CheckStore(r) ==
    LET l == synth[r].line IN
    /\ synth[r].pc = "checking"
    /\ \/ /\ l \in stored
          /\ known' = [known EXCEPT ![r] = @ \union {l}]
          /\ Goto(r, "releasing")
          /\ UNCHANGED faults
       \/ /\ (l \notin stored /\ UNCHANGED faults) \/ Fault
          /\ Goto(r, "speaking")
          /\ UNCHANGED known
    /\ UNCHANGED <<stored, pending, queue, request, made>>

Speak(r) ==
    /\ synth[r].pc = "speaking"
    /\ made' = [made EXCEPT ![synth[r].line] = @ + 1]
    /\ Goto(r, "storing")
    /\ UNCHANGED <<stored, known, pending, queue, request, faults>>

SpeakFails(r) ==
    /\ synth[r].pc = "speaking"
    /\ Goto(r, "releasing")
    /\ UNCHANGED <<stored, known, pending, queue, request, made, faults>>

\* Mutant: the line counts as recorded even if storing it failed.
PutUnchecked(r) ==
    LET l == synth[r].line IN
    /\ synth[r].pc = "storing"
    /\ (stored' = stored \union {l} /\ UNCHANGED faults) \/ (UNCHANGED stored /\ Fault)
    /\ known' = [known EXCEPT ![r] = @ \union {l}]
    /\ Goto(r, "releasing")
    /\ UNCHANGED <<pending, queue, request, made>>

\* The recording is stored, or the store reports an error, which may hide a
\* write that took effect.
Put(r) ==
    LET l == synth[r].line IN
    /\ synth[r].pc = "storing"
    /\ \/ /\ stored' = stored \union {l}
          /\ known' = [known EXCEPT ![r] = @ \union {l}]
          /\ UNCHANGED faults
       \/ /\ Fault /\ UNCHANGED known
          /\ stored' \in {stored, stored \union {l}}
    /\ Goto(r, "releasing")
    /\ UNCHANGED <<pending, queue, request, made>>

\* The deferred pending.Delete.
Release(r) ==
    /\ synth[r].pc = "releasing"
    /\ pending' = [pending EXCEPT ![r] = @ \ {synth[r].line}]
    /\ synth' = [synth EXCEPT ![r] = IdleSynth]
    /\ UNCHANGED <<stored, known, queue, request, made, faults>>

\* The process dies and is booted again: only the object store survives, with
\* the recording that was on its way to it if it got there.
Crash(r) ==
    /\ Fault
    /\ stored' \in {stored, stored \union {l \in {synth[r].line} : synth[r].pc = "storing"}}
    /\ known' = [known EXCEPT ![r] = {}]
    /\ pending' = [pending EXCEPT ![r] = {}]
    /\ queue' = [queue EXCEPT ![r] = <<>>]
    /\ synth' = [synth EXCEPT ![r] = IdleSynth]
    /\ request' = [q \in Requests |-> IF request[q].at = r THEN IdleRequest ELSE request[q]]
    /\ UNCHANGED made

RequestStep(q) ==
    \/ \E l \in Lines : Fill(q, l) \/ Enqueue(q, l)
    \/ ClaimLine(q) \/ Send(q) \/ Served(q)

SynthStep(r) ==
    Dequeue(r) \/ CheckStore(r) \/ Speak(r) \/ SpeakFails(r) \/ Put(r) \/ Release(r)

Next ==
    \/ \E q \in Requests, r \in Replicas, script \in SUBSET Lines \ {{}} : Resolve(q, r, script)
    \/ \E q \in Requests : RequestStep(q)
    \/ \E r \in Replicas : SynthStep(r) \/ Crash(r)

Spec == Init /\ [][Next]_audioVars

\* Goroutines are scheduled, every line keeps being served, and synthesis
\* does not fail every time it is tried.
Fairness ==
    /\ \A q \in Requests : WF_audioVars(RequestStep(q))
    /\ \A r \in Replicas : WF_audioVars(SynthStep(r)) /\ SF_audioVars(Speak(r))
    /\ \A l \in Lines : SF_audioVars(\E q \in Requests, r \in Replicas : Resolve(q, r, {l}))

FairSpec == Spec /\ Fairness

-----------------------------------------------------------------------------
(* Properties *)

\* Every map, queue, worker and request is in a state the code gives it, and
\* no queue holds more than queueSize lines.
TypeOK ==
    /\ stored \subseteq Lines
    /\ known \in [Replicas -> SUBSET Lines]
    /\ pending \in [Replicas -> SUBSET Lines]
    /\ queue \in [Replicas -> Seq(Lines)]
    /\ \A r \in Replicas : Len(queue[r]) <= QueueSize
    /\ synth \in [Replicas -> SynthState]
    /\ request \in [Requests -> RequestState]
    /\ made \in [Lines -> Nat]
    /\ faults \in 0..MaxFaults

\* Whoever has a line in hand on its way to a recording: a request about to
\* send it, a slot of the queue, or the worker.
Holders(r, l) ==
    {<<"request", q>> : q \in {p \in Requests :
        request[p].pc = "sending" /\ request[p].at = r /\ request[p].line = l}}
    \union {<<"queue", i>> : i \in {k \in DOMAIN queue[r] : queue[r][k] = l}}
    \union {<<"worker", w>> : w \in {v \in {r} : synth[v].line = l}}

\* The pending map tells the truth: a line marked in it is in exactly one
\* pair of hands, so it is neither made twice at once nor, left marked by
\* nobody, never made again; and an unmarked line is in nobody's.
PendingIsInHand ==
    \A r \in Replicas, l \in Lines :
        /\ l \in pending[r] <=> Holders(r, l) # {}
        /\ \A x, y \in Holders(r, l) : x = y

\* A link is only handed out for a recording that exists.
KnownIsStored == \A r \in Replicas : known[r] \subseteq stored

\* However requests, replicas and failures interleave, a line is paid for at
\* most once per replica, plus once per failure.
CostBounded == \A l \in Lines : made[l] <= Cardinality(Replicas) + faults

\* A line that keeps being served is recorded in the end, also when the queue
\* was full, a synthesis failed or a replica died.
EventuallyRecorded == \A l \in Lines : <>(l \in stored)

=============================================================================
