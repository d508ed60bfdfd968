------------------------ MODULE ExaminerAudioProofs ------------------------
(***************************************************************************)
(* Theorems about ExaminerAudio, for any number of replicas, lines and     *)
(* requests, and any queue size: links are only handed out for stored      *)
(* recordings, and the cost of a line is bounded.                          *)
(***************************************************************************)
EXTENDS ExaminerAudio, FiniteSetTheorems, TLAPS

\* A busy request runs on a replica, and has a line when it is about to claim
\* or send one; a worker has a line just when it is busy.
RequestOK(j) ==
    /\ j \in RequestState
    /\ j.pc # "idle" => j.at \in Replicas
    /\ j.pc \in {"claiming", "sending"} => j.line \in Lines

SynthOK(j) == j \in SynthState /\ (j.pc = "idle" <=> j.line = None)

TypeInv ==
    /\ TypeOK
    /\ \A q \in Requests : RequestOK(request[q])
    /\ \A r \in Replicas : SynthOK(synth[r])

LEMMA IdleOK == RequestOK(IdleRequest) /\ SynthOK(IdleSynth)
  BY AudioAssumption DEF RequestOK, SynthOK, IdleRequest, IdleSynth, RequestState, SynthState

LEMMA InitType == Init => TypeInv
  BY AudioAssumption, IdleOK DEF Init, TypeInv, TypeOK, RequestOK, SynthOK

\* Replacing one request's, or one worker's, state by a good one.
LEMMA RequestUpdate ==
    ASSUME TypeInv, NEW q \in Requests, NEW j, RequestOK(j), request' = [request EXCEPT ![q] = j]
    PROVE  request' \in [Requests -> RequestState] /\ \A p \in Requests : RequestOK(request'[p])
  BY DEF TypeInv, TypeOK, RequestOK

LEMMA SynthUpdate ==
    ASSUME TypeInv, NEW r \in Replicas, NEW j, SynthOK(j), synth' = [synth EXCEPT ![r] = j]
    PROVE  synth' \in [Replicas -> SynthState] /\ \A v \in Replicas : SynthOK(synth'[v])
  BY DEF TypeInv, TypeOK, SynthOK

\* A busy worker may take on any busy state, with the same line.
LEMMA GotoOK ==
    ASSUME TypeInv, NEW r \in Replicas, synth[r].pc # "idle",
           NEW pc \in {"checking", "speaking", "storing", "releasing"}, Goto(r, pc)
    PROVE  synth' \in [Replicas -> SynthState] /\ \A v \in Replicas : SynthOK(synth'[v])
<1> DEFINE j == [synth[r] EXCEPT !.pc = pc]
<1>1. SynthOK(synth[r]) /\ synth[r] \in SynthState
  BY DEF TypeInv, SynthOK
<1>2. j \in SynthState /\ j.pc = pc /\ j.line = synth[r].line
  BY <1>1 DEF SynthState
<1>3. synth' = [synth EXCEPT ![r] = j]
  BY DEF Goto
<1>. HIDE DEF j
<1>4. SynthOK(j)
  BY <1>1, <1>2 DEF SynthOK
<1>. QED
  BY <1>3, <1>4, SynthUpdate

LEMMA NextLineOK ==
    ASSUME TypeInv, NEW q \in Requests, request[q].pc # "idle", NextLine(q)
    PROVE  request' \in [Requests -> RequestState] /\ \A p \in Requests : RequestOK(request'[p])
<1> DEFINE j == [request[q] EXCEPT !.pc = "filling", !.line = None]
<1>1. request[q] \in RequestState /\ request[q].at \in Replicas
  BY DEF TypeInv, RequestOK
<1>2. j \in RequestState /\ j.pc = "filling" /\ j.at = request[q].at
  BY <1>1 DEF RequestState
<1>3. request' = [request EXCEPT ![q] = j]
  BY DEF NextLine
<1>. HIDE DEF j
<1>. QED
  BY <1>1, <1>2, <1>3, RequestUpdate DEF RequestOK

LEMMA FaultType == TypeInv /\ Fault => faults' \in 0..MaxFaults
  BY AudioAssumption DEF Fault, TypeInv, TypeOK

\* A replica comes to know one more line.
LEMMA GrowType ==
    ASSUME TypeInv, NEW r \in Replicas, NEW l \in Lines,
           known' = [known EXCEPT ![r] = @ \union {l}]
    PROVE  known' \in [Replicas -> SUBSET Lines]
<1>1. known \in [Replicas -> SUBSET Lines]
  BY DEF TypeInv, TypeOK
<1>. QED
  BY <1>1

\* Types after a step of a request, of a worker, and after a crash.
LEMMA ResolveType ==
    ASSUME TypeInv, NEW q \in Requests, NEW r \in Replicas, NEW script \in SUBSET Lines,
           Resolve(q, r, script)
    PROVE  TypeInv'
<1>1. PICK found \in SUBSET (script \intersect stored) :
         /\ known' = [known EXCEPT ![r] = @ \union found]
         /\ request' = [request EXCEPT
               ![q] = [pc |-> "filling", at |-> r, todo |-> script \ known'[r], line |-> None]]
  BY DEF Resolve
<1>2. known' \in [Replicas -> SUBSET Lines]
  BY <1>1 DEF TypeInv, TypeOK
<1>3. RequestOK([pc |-> "filling", at |-> r, todo |-> script \ known'[r], line |-> None])
  BY DEF RequestOK, RequestState
<1>. QED
  BY <1>1, <1>2, <1>3, RequestUpdate DEF Resolve, TypeInv, TypeOK

LEMMA RequestType ==
    ASSUME TypeInv, NEW q \in Requests, RequestStep(q)
    PROVE  TypeInv'
<1>0. request[q] \in RequestState /\ RequestOK(request[q]) /\ request \in [Requests -> RequestState]
  BY DEF TypeInv, TypeOK
<1>1. ASSUME NEW l \in Lines, Fill(q, l) PROVE TypeInv'
  <2> DEFINE j == [request[q] EXCEPT !.todo = @ \ {l}]
  <2>1. j \in RequestState /\ j.pc = request[q].pc /\ j.at = request[q].at /\ j.line = request[q].line
    BY <1>0 DEF RequestState
  <2>2. request' = [request EXCEPT ![q] = j]
    BY <1>1 DEF Fill
  <2>. HIDE DEF j
  <2>3. RequestOK(j)
    BY <1>0, <2>1 DEF RequestOK
  <2>. QED
    BY <1>1, <2>2, <2>3, RequestUpdate DEF Fill, TypeInv, TypeOK
<1>2. ASSUME NEW l \in Lines, Enqueue(q, l) PROVE TypeInv'
  <2> DEFINE j == [request[q] EXCEPT !.todo = @ \ {l}, !.pc = "claiming", !.line = l]
  <2>1. j \in RequestState /\ j.pc = "claiming" /\ j.at = request[q].at /\ j.line = l
    BY <1>0 DEF RequestState
  <2>2. request' = [request EXCEPT ![q] = j]
    BY <1>2 DEF Enqueue
  <2>3. request[q].at \in Replicas
    BY <1>0, <1>2 DEF Enqueue, RequestOK
  <2>. HIDE DEF j
  <2>4. RequestOK(j)
    BY <2>1, <2>3 DEF RequestOK
  <2>. QED
    BY <1>2, <2>2, <2>4, RequestUpdate DEF Enqueue, TypeInv, TypeOK
<1>3. CASE ClaimLine(q)
  <2> DEFINE j == [request[q] EXCEPT !.pc = "sending"]
  <2>0. request[q].at \in Replicas /\ request[q].line \in Lines
    BY <1>0, <1>3 DEF ClaimLine, RequestOK
  <2>1. pending' \in [Replicas -> SUBSET Lines]
    BY <1>3, <2>0 DEF ClaimLine, TypeInv, TypeOK
  <2>2. CASE NextLine(q)
    BY <1>3, <2>1, <2>2, NextLineOK DEF ClaimLine, TypeInv, TypeOK
  <2>3. CASE request' = [request EXCEPT ![q].pc = "sending"]
    <3>1. j \in RequestState /\ j.pc = "sending" /\ j.at = request[q].at /\ j.line = request[q].line
      BY <1>0 DEF RequestState
    <3>2. request' = [request EXCEPT ![q] = j]
      BY <2>3
    <3>. HIDE DEF j
    <3>3. RequestOK(j)
      BY <2>0, <3>1 DEF RequestOK
    <3>. QED
      BY <1>3, <2>1, <3>2, <3>3, RequestUpdate DEF ClaimLine, TypeInv, TypeOK
  <2>. QED
    BY <1>3, <2>2, <2>3 DEF ClaimLine
<1>4. CASE Send(q)
  <2> DEFINE r == request[q].at
             l == request[q].line
  <2>0. r \in Replicas /\ l \in Lines
    BY <1>0, <1>4 DEF Send, RequestOK
  <2>1. queue \in [Replicas -> Seq(Lines)] /\ pending \in [Replicas -> SUBSET Lines]
    BY DEF TypeInv, TypeOK
  <2>2. queue[r] \in Seq(Lines) /\ pending[r] \in SUBSET Lines
    BY <2>0, <2>1
  <2>3. Append(queue[r], l) \in Seq(Lines) /\ Len(Append(queue[r], l)) = Len(queue[r]) + 1
    BY <2>0, <2>2
  <2>4. pending' \in [Replicas -> SUBSET Lines]
    <3>1. pending' = pending \/ pending' = [pending EXCEPT ![r] = @ \ {l}]
      BY <1>4 DEF Send
    <3>. QED
      BY <2>1, <3>1
  <2>5. queue' \in [Replicas -> Seq(Lines)] /\ \A v \in Replicas : Len(queue'[v]) <= QueueSize
    <3>1. CASE queue' = queue
      BY <3>1 DEF TypeInv, TypeOK
    <3>2. CASE Len(queue[r]) < QueueSize /\ queue' = [queue EXCEPT ![r] = Append(@, l)]
      <4>1. queue' = [queue EXCEPT ![r] = Append(queue[r], l)]
        BY <3>2
      <4>2. Len(queue[r]) \in Nat /\ Len(queue[r]) + 1 <= QueueSize
        BY <2>2, <3>2, AudioAssumption
      <4>. QED
        BY <2>1, <2>3, <4>1, <4>2 DEF TypeInv, TypeOK
    <3>. QED
      BY <1>4, <3>1, <3>2 DEF Send
  <2>. QED
    BY <1>4, <2>4, <2>5, NextLineOK DEF Send, TypeInv, TypeOK
<1>5. CASE Served(q)
  BY <1>5, IdleOK, RequestUpdate DEF Served, TypeInv, TypeOK
<1>. QED
  BY <1>1, <1>2, <1>3, <1>4, <1>5 DEF RequestStep

LEMMA SynthType ==
    ASSUME TypeInv, NEW r \in Replicas, SynthStep(r)
    PROVE  TypeInv'
<1>0. synth[r].pc # "idle" => synth[r].line \in Lines
  BY DEF TypeInv, SynthOK, SynthState
<1>1. CASE Dequeue(r)
  <2>1. queue[r] \in Seq(Lines) /\ queue[r] # <<>> /\ Len(queue[r]) <= QueueSize
    BY <1>1 DEF Dequeue, TypeInv, TypeOK
  <2>2. /\ Head(queue[r]) \in Lines /\ Tail(queue[r]) \in Seq(Lines)
        /\ Len(Tail(queue[r])) <= QueueSize
    BY <2>1, AudioAssumption
  <2>3. queue' \in [Replicas -> Seq(Lines)] /\ \A v \in Replicas : Len(queue'[v]) <= QueueSize
    BY <1>1, <2>2 DEF Dequeue, TypeInv, TypeOK
  <2>4. SynthOK([pc |-> "checking", line |-> Head(queue[r])])
    BY <2>2, AudioAssumption DEF SynthOK, SynthState
  <2>. QED
    BY <1>1, <2>3, <2>4, SynthUpdate DEF Dequeue, TypeInv, TypeOK
<1>2. CASE CheckStore(r)
  <2>1. synth' \in [Replicas -> SynthState] /\ \A v \in Replicas : SynthOK(synth'[v])
    BY <1>2, GotoOK DEF CheckStore
  <2>2. known' \in [Replicas -> SUBSET Lines]
    BY <1>0, <1>2, GrowType DEF CheckStore, TypeInv, TypeOK
  <2>3. faults' \in 0..MaxFaults
    BY <1>2, FaultType DEF CheckStore, TypeInv, TypeOK
  <2>. QED
    BY <1>2, <2>1, <2>2, <2>3 DEF CheckStore, TypeInv, TypeOK
<1>3. CASE Speak(r)
  <2>1. synth' \in [Replicas -> SynthState] /\ \A v \in Replicas : SynthOK(synth'[v])
    BY <1>3, GotoOK DEF Speak
  <2>2. made' \in [Lines -> Nat]
    BY <1>0, <1>3 DEF Speak, TypeInv, TypeOK
  <2>. QED
    BY <1>3, <2>1, <2>2 DEF Speak, TypeInv, TypeOK
<1>4. CASE SpeakFails(r)
  BY <1>4, GotoOK DEF SpeakFails, TypeInv, TypeOK
<1>5. CASE Put(r)
  <2>1. synth' \in [Replicas -> SynthState] /\ \A v \in Replicas : SynthOK(synth'[v])
    BY <1>5, GotoOK DEF Put
  <2>2. known' \in [Replicas -> SUBSET Lines]
    BY <1>0, <1>5, GrowType DEF Put, TypeInv, TypeOK
  <2>3. faults' \in 0..MaxFaults
    BY <1>5, FaultType DEF Put, TypeInv, TypeOK
  <2>4. stored' \subseteq Lines
    BY <1>0, <1>5 DEF Put, TypeInv, TypeOK
  <2>. QED
    BY <1>5, <2>1, <2>2, <2>3, <2>4 DEF Put, TypeInv, TypeOK
<1>6. CASE Release(r)
  <2>1. pending' \in [Replicas -> SUBSET Lines]
    BY <1>6 DEF Release, TypeInv, TypeOK
  <2>. QED
    BY <1>6, <2>1, IdleOK, SynthUpdate DEF Release, TypeInv, TypeOK
<1>. QED
  BY <1>1, <1>2, <1>3, <1>4, <1>5, <1>6 DEF SynthStep

LEMMA CrashType == ASSUME TypeInv, NEW r \in Replicas, Crash(r) PROVE TypeInv'
<1>1. request' \in [Requests -> RequestState] /\ \A q \in Requests : RequestOK(request'[q])
  BY IdleOK DEF Crash, TypeInv, TypeOK, RequestOK
<1>2. synth' \in [Replicas -> SynthState] /\ \A v \in Replicas : SynthOK(synth'[v])
  BY IdleOK, SynthUpdate DEF Crash
<1>3. queue' \in [Replicas -> Seq(Lines)] /\ \A v \in Replicas : Len(queue'[v]) <= QueueSize
  BY AudioAssumption DEF Crash, TypeInv, TypeOK
<1>4. known' \in [Replicas -> SUBSET Lines] /\ pending' \in [Replicas -> SUBSET Lines]
  BY DEF Crash, TypeInv, TypeOK
<1>5. faults' \in 0..MaxFaults
  BY FaultType DEF Crash
<1>6. stored' \subseteq Lines
  <2>1. synth[r].pc = "storing" => synth[r].line \in Lines
    BY DEF TypeInv, SynthOK, SynthState
  <2>. QED
    BY <2>1 DEF Crash, TypeInv, TypeOK
<1>. QED
  BY <1>1, <1>2, <1>3, <1>4, <1>5, <1>6 DEF Crash, TypeInv, TypeOK

LEMMA NextType == TypeInv /\ [Next]_audioVars => TypeInv'
<1> SUFFICES ASSUME TypeInv, [Next]_audioVars PROVE TypeInv'
  OBVIOUS
<1>1. CASE UNCHANGED audioVars
  BY <1>1 DEF audioVars, TypeInv, TypeOK
<1>. QED
  BY <1>1, ResolveType, RequestType, SynthType, CrashType DEF Next

LEMMA TypeInvariant == Spec => []TypeInv
  BY InitType, NextType, PTL DEF Spec

\* Maps, queues, workers and requests are well typed, and no queue holds more
\* than queueSize lines.
THEOREM AudioTypeCorrect == Spec => []TypeOK
<1>1. TypeInv => TypeOK
  BY DEF TypeInv
<1>. QED
  BY <1>1, TypeInvariant, PTL

-----------------------------------------------------------------------------
(* Links *)

LEMMA NextKnown == TypeInv /\ KnownIsStored /\ [Next]_audioVars => KnownIsStored'
<1> SUFFICES ASSUME TypeInv, KnownIsStored, [Next]_audioVars PROVE KnownIsStored'
  OBVIOUS
<1>0. known \in [Replicas -> SUBSET Lines]
  BY DEF TypeInv, TypeOK
<1>1. ASSUME NEW q \in Requests, NEW r \in Replicas, NEW script \in SUBSET Lines, Resolve(q, r, script)
      PROVE  KnownIsStored'
  BY <1>0, <1>1 DEF Resolve, KnownIsStored
<1>2. ASSUME NEW r \in Replicas, SynthStep(r) \/ Crash(r) PROVE KnownIsStored'
  BY <1>0, <1>2
  DEF SynthStep, Dequeue, CheckStore, Speak, SpeakFails, Put, Release, Crash, KnownIsStored
<1>3. CASE UNCHANGED <<known, stored>>
  BY <1>3 DEF KnownIsStored
<1>. QED
  BY <1>1, <1>2, <1>3 DEF Next, RequestStep, Fill, Enqueue, ClaimLine, Send, Served, audioVars

\* No link is ever handed out for a recording that is not stored, on any
\* replica, after any crash: see KnownIsStored.
THEOREM LinksResolve == Spec => []KnownIsStored
<1>1. Init => KnownIsStored
  BY DEF Init, KnownIsStored
<1>. QED
  BY <1>1, NextKnown, TypeInvariant, PTL DEF Spec

-----------------------------------------------------------------------------
(* Cost *)

\* The workers, in states s, that are at one point of a line.
Storing(s, l) == {r \in Replicas : s[r].pc = "storing" /\ s[r].line = l}
Speaking(s, l) == {r \in Replicas : s[r].pc = "speaking" /\ s[r].line = l}

\* Before a line is stored, every recording paid for is in a worker's hands or
\* was lost to a fault; once it is, only those who had looked before may pay.
CostInv ==
    \A l \in Lines :
        /\ l \notin stored => made[l] <= faults + Cardinality(Storing(synth, l))
        /\ l \in stored => made[l] + Cardinality(Speaking(synth, l)) <= faults + Cardinality(Replicas)

LEMMA DisjointCounts ==
    ASSUME NEW S \in SUBSET Replicas, NEW T \in SUBSET Replicas, S \intersect T = {}
    PROVE  /\ IsFiniteSet(S) /\ Cardinality(S) \in Nat /\ Cardinality(T) \in Nat
           /\ Cardinality(Replicas) \in Nat
           /\ Cardinality(S) + Cardinality(T) <= Cardinality(Replicas)
<1>1. IsFiniteSet(S) /\ IsFiniteSet(T) /\ Cardinality(S) \in Nat /\ Cardinality(T) \in Nat
  BY AudioAssumption, FS_Subset, FS_CardinalityType
<1>2. Cardinality(Replicas) \in Nat
  BY AudioAssumption, FS_CardinalityType
<1>3. Cardinality(S \union T) <= Cardinality(Replicas)
  BY AudioAssumption, FS_Subset
<1>4. Cardinality(S \union T) = Cardinality(S) + Cardinality(T) - Cardinality(S \intersect T)
  BY <1>1, FS_Union
<1>5. Cardinality(S \intersect T) = 0
  BY FS_EmptySet
<1>. QED
  BY <1>1, <1>2, <1>3, <1>4, <1>5

LEMMA BusyCounts ==
    ASSUME NEW s, NEW l
    PROVE  /\ IsFiniteSet(Storing(s, l)) /\ IsFiniteSet(Speaking(s, l))
           /\ Cardinality(Storing(s, l)) \in Nat /\ Cardinality(Speaking(s, l)) \in Nat
           /\ Cardinality(Replicas) \in Nat
           /\ Cardinality(Storing(s, l)) + Cardinality(Speaking(s, l)) <= Cardinality(Replicas)
<1>1. /\ Storing(s, l) \in SUBSET Replicas /\ Speaking(s, l) \in SUBSET Replicas
      /\ Storing(s, l) \intersect Speaking(s, l) = {} /\ Speaking(s, l) \intersect Storing(s, l) = {}
  BY DEF Storing, Speaking
<1>. QED
  BY <1>1, DisjointCounts

\* A set of workers gains one, loses one or stays as it is.
LEMMA Moved ==
    ASSUME NEW S, NEW T, IsFiniteSet(S), NEW r
    PROVE  /\ T = S \union {r} /\ r \notin S => Cardinality(T) = Cardinality(S) + 1
           /\ T = S \ {r} /\ r \in S => Cardinality(T) = Cardinality(S) - 1
  BY FS_AddElement, FS_RemoveElement

LEMMA NextCost == TypeInv /\ CostInv /\ [Next]_audioVars => CostInv'
<1> SUFFICES ASSUME TypeInv, CostInv, [Next]_audioVars, NEW l \in Lines
             PROVE  /\ l \notin stored' => made'[l] <= faults' + Cardinality(Storing(synth', l))
                    /\ l \in stored' => made'[l] + Cardinality(Speaking(synth', l))
                                         <= faults' + Cardinality(Replicas)
  BY DEF CostInv
<1>. DEFINE A == Storing(synth, l)    A1 == Storing(synth', l)
            B == Speaking(synth, l)   B1 == Speaking(synth', l)
            N == Cardinality(Replicas)
            Goal == /\ l \notin stored' => made'[l] <= faults' + Cardinality(A1)
                    /\ l \in stored' => made'[l] + Cardinality(B1) <= faults' + N
<1>1. /\ IsFiniteSet(A) /\ IsFiniteSet(B) /\ Cardinality(A) \in Nat /\ Cardinality(B) \in Nat
      /\ N \in Nat /\ Cardinality(A) + Cardinality(B) <= N
  BY BusyCounts
<1>2. made[l] \in Nat /\ faults \in Nat /\ synth \in [Replicas -> SynthState]
  BY AudioAssumption DEF TypeInv, TypeOK
<1>3. /\ l \notin stored => made[l] <= faults + Cardinality(A)
      /\ l \in stored => made[l] + Cardinality(B) <= faults + N
  BY DEF CostInv
<1>4. CASE UNCHANGED <<stored, synth, made, faults>>
  BY <1>3, <1>4
<1>5. ASSUME NEW r \in Replicas, Dequeue(r) PROVE Goal
  <2>1. A1 = A /\ B1 = B
    BY <1>2, <1>5 DEF Dequeue, Storing, Speaking
  <2>2. UNCHANGED <<stored, made, faults>>
    BY <1>5 DEF Dequeue
  <2>. HIDE DEF A, A1, B, B1, N
  <2>. QED
    BY <1>3, <2>1, <2>2
<1>6. ASSUME NEW r \in Replicas, CheckStore(r) PROVE Goal
  <2>1. A1 = A /\ r \notin B
    BY <1>2, <1>6 DEF CheckStore, Goto, SynthState, Storing, Speaking
  <2>2. UNCHANGED <<stored, made>>
    BY <1>6 DEF CheckStore
  <2>3. \/ UNCHANGED faults /\ (B1 = B \/ l \notin stored)
        \/ faults' = faults + 1 /\ (B1 = B \/ B1 = B \union {r})
    BY <1>2, <1>6 DEF CheckStore, Fault, Goto, SynthState, Speaking
  <2>4. B1 = B \union {r} => Cardinality(B1) = Cardinality(B) + 1
    <3>. HIDE DEF A, A1, B, B1, N
    <3>. QED
      BY <1>1, <2>1, Moved
  <2>. HIDE DEF A, A1, B, B1, N
  <2>. QED
    BY <1>1, <1>2, <1>3, <2>1, <2>2, <2>3, <2>4
<1>7. ASSUME NEW r \in Replicas, Speak(r) PROVE Goal
  <2>1. UNCHANGED <<stored, faults>>
    BY <1>7 DEF Speak
  <2>2. CASE synth[r].line = l
    <3>1. r \notin A /\ A1 = A \union {r} /\ r \in B /\ B1 = B \ {r}
      BY <1>2, <1>7, <2>2 DEF Speak, Goto, SynthState, Storing, Speaking
    <3>2. made'[l] = made[l] + 1
      BY <1>7, <2>2 DEF Speak, TypeInv, TypeOK
    <3>. HIDE DEF A, A1, B, B1, N
    <3>3. Cardinality(A1) = Cardinality(A) + 1 /\ Cardinality(B1) = Cardinality(B) - 1
      BY <1>1, <3>1, Moved
    <3>. QED
      BY <1>1, <1>2, <1>3, <2>1, <3>2, <3>3
  <2>3. CASE synth[r].line # l
    <3>1. A1 = A /\ B1 = B
      BY <1>2, <1>7, <2>3 DEF Speak, Goto, SynthState, Storing, Speaking
    <3>2. made'[l] = made[l]
      BY <1>7, <2>3 DEF Speak, TypeInv, TypeOK
    <3>. HIDE DEF A, A1, B, B1, N
    <3>. QED
      BY <1>3, <2>1, <3>1, <3>2
  <2>. QED
    BY <2>2, <2>3
<1>8. ASSUME NEW r \in Replicas, SpeakFails(r) PROVE Goal
  <2>1. A1 = A /\ (B1 = B \/ (r \in B /\ B1 = B \ {r}))
    BY <1>2, <1>8 DEF SpeakFails, Goto, SynthState, Storing, Speaking
  <2>2. UNCHANGED <<stored, made, faults>>
    BY <1>8 DEF SpeakFails
  <2>. HIDE DEF A, A1, B, B1, N
  <2>3. Cardinality(B1) = Cardinality(B) \/ Cardinality(B1) = Cardinality(B) - 1
    BY <1>1, <2>1, Moved
  <2>. QED
    BY <1>1, <1>2, <1>3, <2>1, <2>2, <2>3
<1>9. ASSUME NEW r \in Replicas, Put(r) PROVE Goal
  <2>1. B1 = B
    BY <1>2, <1>9 DEF Put, Goto, SynthState, Speaking
  <2>2. IF synth[r].line = l THEN r \in A /\ A1 = A \ {r} ELSE A1 = A
    BY <1>2, <1>9 DEF Put, Goto, SynthState, Storing
  <2>3. /\ l \in stored => l \in stored'
        /\ synth[r].line # l => (l \in stored' <=> l \in stored)
        /\ UNCHANGED made
        /\ UNCHANGED faults \/ faults' = faults + 1
        /\ synth[r].line = l /\ l \notin stored' => faults' = faults + 1
    BY <1>9 DEF Put, Fault
  <2>. HIDE DEF A, A1, B, B1, N
  <2>4. synth[r].line = l => Cardinality(A1) = Cardinality(A) - 1
    BY <1>1, <2>2, Moved
  <2>. QED
    BY <1>1, <1>2, <1>3, <2>1, <2>2, <2>3, <2>4
<1>10. ASSUME NEW r \in Replicas, Release(r) PROVE Goal
  <2>1. A1 = A /\ B1 = B
    BY <1>2, <1>10 DEF Release, IdleSynth, Storing, Speaking
  <2>2. UNCHANGED <<stored, made, faults>>
    BY <1>10 DEF Release
  <2>. HIDE DEF A, A1, B, B1, N
  <2>. QED
    BY <1>3, <2>1, <2>2
<1>11. ASSUME NEW r \in Replicas, Crash(r) PROVE Goal
  <2>1. /\ A1 = A \/ (r \in A /\ A1 = A \ {r})
        /\ B1 = B \/ (r \in B /\ B1 = B \ {r})
    BY <1>2, <1>11 DEF Crash, IdleSynth, Storing, Speaking
  <2>2. /\ l \in stored => l \in stored'
        /\ UNCHANGED made
        /\ faults' = faults + 1
    BY <1>11 DEF Crash, Fault
  <2>. HIDE DEF A, A1, B, B1, N
  <2>3. /\ Cardinality(A1) = Cardinality(A) \/ Cardinality(A1) = Cardinality(A) - 1
        /\ Cardinality(B1) = Cardinality(B) \/ Cardinality(B1) = Cardinality(B) - 1
    BY <1>1, <2>1, Moved
  <2>. QED
    BY <1>1, <1>2, <1>3, <2>2, <2>3
<1>. QED
  BY <1>4, <1>5, <1>6, <1>7, <1>8, <1>9, <1>10, <1>11
  DEF Next, RequestStep, SynthStep, Resolve, Fill, Enqueue, ClaimLine, Send, Served, audioVars

\* A line costs at most one synthesis per replica, plus one per fault: see
\* CostBounded.
THEOREM CostIsBounded == Spec => []CostBounded
<1>1. Init => CostInv
  BY BusyCounts DEF Init, CostInv
<1>2. TypeInv /\ CostInv => CostBounded
  <2> SUFFICES ASSUME TypeInv, CostInv, NEW l \in Lines
               PROVE  made[l] <= Cardinality(Replicas) + faults
    BY DEF CostBounded
  <2>1. made[l] \in Nat /\ faults \in Nat
    BY AudioAssumption DEF TypeInv, TypeOK
  <2>2. /\ l \notin stored => made[l] <= faults + Cardinality(Storing(synth, l))
        /\ l \in stored => made[l] + Cardinality(Speaking(synth, l)) <= faults + Cardinality(Replicas)
    BY DEF CostInv
  <2>. QED
    BY <2>1, <2>2, BusyCounts
<1>. QED
  BY <1>1, <1>2, NextCost, TypeInvariant, PTL DEF Spec

-----------------------------------------------------------------------------
(* Hands *)

Sends(q, r, l) == request[q].pc = "sending" /\ request[q].at = r /\ request[q].line = l
InSlot(i, r, l) == i \in DOMAIN queue[r] /\ queue[r][i] = l

InRequest(r, l) == \E q \in Requests : Sends(q, r, l)
InQueue(r, l) == \E i \in DOMAIN queue[r] : InSlot(i, r, l)
InWorker(r, l) == synth[r].line = l

\* PendingIsInHand without the names of the hands.
Hands(r, l) ==
    /\ l \in pending[r] <=> InRequest(r, l) \/ InQueue(r, l) \/ InWorker(r, l)
    /\ ~(InRequest(r, l) /\ InQueue(r, l))
    /\ ~(InRequest(r, l) /\ InWorker(r, l))
    /\ ~(InQueue(r, l) /\ InWorker(r, l))
    /\ \A p, q \in Requests : Sends(p, r, l) /\ Sends(q, r, l) => p = q
    /\ \A i, k \in DOMAIN queue[r] : InSlot(i, r, l) /\ InSlot(k, r, l) => i = k

HandsInv == \A r \in Replicas, l \in Lines : Hands(r, l)

\* Nothing about l changes on r, as far as hands go.
LEMMA SameHands ==
    ASSUME NEW r, NEW l, Hands(r, l),
           \A q \in Requests : Sends(q, r, l)' <=> Sends(q, r, l),
           queue'[r] = queue[r], InWorker(r, l)' <=> InWorker(r, l),
           l \in pending'[r] <=> l \in pending[r]
    PROVE  Hands(r, l)'
BY DEF Hands, InRequest, InQueue, InSlot

\* A request that goes from one step to another, neither of them sending.
LEMMA NobodySends ==
    ASSUME TypeInv, HandsInv, NEW q \in Requests, request[q].pc # "sending",
           NEW j, j.pc # "sending", request' = [request EXCEPT ![q] = j],
           UNCHANGED <<queue, synth, pending>>
    PROVE  HandsInv'
<1>1. \A p \in Requests : IF p = q THEN request'[p] = j ELSE request'[p] = request[p]
  BY DEF TypeInv, TypeOK
<1>2. ASSUME NEW r \in Replicas, NEW l \in Lines PROVE Hands(r, l)'
  <2>1. \A p \in Requests : Sends(p, r, l)' <=> Sends(p, r, l)
    BY <1>1 DEF Sends
  <2>. QED
    BY <2>1, SameHands DEF HandsInv, InWorker
<1>. QED
  BY <1>2 DEF HandsInv

LEMMA ClaimHands ==
    ASSUME TypeInv, HandsInv, NEW q \in Requests, ClaimLine(q)
    PROVE  HandsInv'
<1>. DEFINE s == request[q].at
            m == request[q].line
<1>0. /\ s \in Replicas /\ m \in Lines /\ request[q].pc = "claiming"
      /\ request \in [Requests -> RequestState] /\ pending \in [Replicas -> SUBSET Lines]
  BY DEF ClaimLine, TypeInv, TypeOK, RequestOK
<1>1. CASE m \in pending[s]
  <2> DEFINE j == [request[q] EXCEPT !.pc = "filling", !.line = None]
  <2>1. request' = [request EXCEPT ![q] = j]
    BY <1>1 DEF ClaimLine, NextLine
  <2>2. j.pc # "sending"
    BY <1>0 DEF RequestState
  <2>3. UNCHANGED <<queue, synth, pending>>
    BY <1>0, <1>1 DEF ClaimLine
  <2>. HIDE DEF j
  <2>. QED
    BY <1>0, <2>1, <2>2, <2>3, NobodySends
<1>2. CASE m \notin pending[s]
  <2>1. request' = [request EXCEPT ![q].pc = "sending"]
    BY <1>2 DEF ClaimLine
  <2>2. \A p \in Requests \ {q} : request'[p] = request[p]
    BY <1>0, <2>1
  <2>3. request'[q].pc = "sending" /\ request'[q].at = s /\ request'[q].line = m
    BY <1>0, <2>1 DEF RequestState
  <2>4. pending' = [pending EXCEPT ![s] = @ \union {m}] /\ UNCHANGED <<queue, synth>>
    BY DEF ClaimLine
  <2>5. ASSUME NEW r \in Replicas, NEW l \in Lines PROVE Hands(r, l)'
    <3>1. Hands(r, l)
      BY DEF HandsInv
    <3>2. l \in pending'[r] <=> l \in pending[r] \/ (r = s /\ l = m)
      BY <1>0, <2>4
    <3>3. CASE r = s /\ l = m
      <4>1. ~InRequest(r, l) /\ ~InQueue(r, l) /\ ~InWorker(r, l)
        BY <1>2, <3>1, <3>3 DEF Hands
      <4>2. \A p \in Requests : Sends(p, r, l)' <=> p = q
        BY <2>2, <2>3, <3>3, <4>1 DEF Sends, InRequest
      <4>3. ~InQueue(r, l)' /\ ~InWorker(r, l)' /\ InRequest(r, l)'
        BY <2>4, <4>1, <4>2 DEF InQueue, InSlot, InWorker, InRequest
      <4>. QED
        BY <3>2, <3>3, <4>2, <4>3 DEF Hands, InQueue, InSlot
    <3>4. CASE ~(r = s /\ l = m)
      <4>1. \A p \in Requests : Sends(p, r, l)' <=> Sends(p, r, l)
        BY <1>0, <2>2, <2>3, <3>4 DEF Sends
      <4>. QED
        BY <2>4, <3>1, <3>2, <3>4, <4>1, SameHands DEF InWorker
    <3>. QED
      BY <3>3, <3>4
  <2>. QED
    BY <2>5 DEF HandsInv
<1>. QED
  BY <1>1, <1>2

LEMMA SendHands ==
    ASSUME TypeInv, HandsInv, NEW q \in Requests, Send(q)
    PROVE  HandsInv'
<1>. DEFINE s == request[q].at
            m == request[q].line
<1>0. /\ s \in Replicas /\ m \in Lines /\ request[q].pc = "sending"
      /\ request \in [Requests -> RequestState] /\ pending \in [Replicas -> SUBSET Lines]
      /\ queue \in [Replicas -> Seq(Lines)]
  BY DEF Send, TypeInv, TypeOK, RequestOK
<1>1. /\ request'[q].pc = "filling"
      /\ \A p \in Requests \ {q} : request'[p] = request[p]
      /\ UNCHANGED synth
  BY <1>0 DEF Send, NextLine, RequestState
<1>2. ASSUME NEW r \in Replicas, NEW l \in Lines PROVE Hands(r, l)'
  <2>1. Hands(r, l)
    BY DEF HandsInv
  <2>2. CASE r = s /\ l = m
    <3>1. Sends(q, r, l)
      BY <1>0, <2>2 DEF Sends
    <3>2. ~InQueue(r, l) /\ ~InWorker(r, l) /\ \A p \in Requests : Sends(p, r, l) => p = q
      BY <2>1, <3>1 DEF Hands, InRequest
    <3>3. \A p \in Requests : ~Sends(p, r, l)'
      BY <1>1, <3>2 DEF Sends
    <3>4. ~InRequest(r, l)' /\ ~InWorker(r, l)'
      BY <1>1, <3>2, <3>3 DEF InRequest, InWorker
    <3>5. CASE Len(queue[s]) < QueueSize
      <4>1. queue'[s] = Append(queue[s], m) /\ pending' = pending
        BY <1>0, <3>5 DEF Send
      <4>2. /\ DOMAIN queue'[s] = 1..Len(queue[s]) + 1 /\ DOMAIN queue[s] = 1..Len(queue[s])
            /\ Len(queue[s]) \in Nat
            /\ queue'[s][Len(queue[s]) + 1] = m
            /\ \A i \in DOMAIN queue[s] : queue'[s][i] = queue[s][i]
        BY <1>0, <4>1
      <4>3. \A i \in DOMAIN queue'[s] : queue'[s][i] = m <=> i = Len(queue[s]) + 1
        BY <2>2, <3>2, <4>2 DEF InQueue, InSlot
      <4>4. InQueue(r, l)'
        BY <2>2, <4>2 DEF InQueue, InSlot
      <4>5. l \in pending'[r]
        BY <2>1, <3>1, <4>1 DEF Hands, InRequest
      <4>. QED
        BY <2>2, <3>3, <3>4, <4>3, <4>4, <4>5 DEF Hands, InSlot
    <3>6. CASE ~(Len(queue[s]) < QueueSize)
      <4>1. pending' = [pending EXCEPT ![s] = @ \ {m}] /\ queue' = queue
        BY <3>6 DEF Send
      <4>2. l \notin pending'[r] /\ ~InQueue(r, l)'
        BY <1>0, <2>2, <3>2, <4>1 DEF InQueue, InSlot
      <4>. QED
        BY <3>3, <3>4, <4>2 DEF Hands, InQueue
    <3>. QED
      BY <3>5, <3>6
  <2>3. CASE ~(r = s /\ l = m)
    <3>1. \A p \in Requests : Sends(p, r, l)' <=> Sends(p, r, l)
      BY <1>0, <1>1, <2>3 DEF Sends
    <3>2. l \in pending'[r] <=> l \in pending[r]
      BY <1>0, <2>3 DEF Send
    <3>3. CASE queue'[r] = queue[r]
      BY <1>1, <2>1, <3>1, <3>2, <3>3, SameHands DEF InWorker
    <3>4. CASE queue'[r] # queue[r]
      <4>1. r = s /\ queue'[r] = Append(queue[r], m)
        BY <1>0, <3>4 DEF Send
      <4>2. /\ DOMAIN queue'[r] = 1..Len(queue[r]) + 1 /\ DOMAIN queue[r] = 1..Len(queue[r])
            /\ Len(queue[r]) \in Nat
            /\ queue'[r][Len(queue[r]) + 1] = m
            /\ \A i \in DOMAIN queue[r] : queue'[r][i] = queue[r][i]
        BY <1>0, <4>1
      <4>3. \A i : InSlot(i, r, l)' <=> InSlot(i, r, l)
        BY <2>3, <4>1, <4>2 DEF InSlot
      <4>4. InQueue(r, l)' <=> InQueue(r, l)
        BY <4>3 DEF InQueue, InSlot
      <4>5. (InRequest(r, l)' <=> InRequest(r, l)) /\ (InWorker(r, l)' <=> InWorker(r, l))
        BY <1>1, <3>1 DEF InRequest, InWorker
      <4>6. \A i, k \in DOMAIN queue'[r] : InSlot(i, r, l)' /\ InSlot(k, r, l)' => i = k
        BY <2>1, <4>3 DEF Hands, InSlot
      <4>. QED
        BY <2>1, <3>1, <3>2, <4>4, <4>5, <4>6 DEF Hands
    <3>. QED
      BY <3>3, <3>4
  <2>. QED
    BY <2>2, <2>3
<1>. QED
  BY <1>2 DEF HandsInv

LEMMA DequeueHands ==
    ASSUME TypeInv, HandsInv, NEW s \in Replicas, Dequeue(s)
    PROVE  HandsInv'
<1>. DEFINE m == Head(queue[s])
            n == Len(queue[s])
<1>0. /\ queue \in [Replicas -> Seq(Lines)] /\ queue[s] \in Seq(Lines) /\ queue[s] # <<>>
      /\ synth \in [Replicas -> SynthState] /\ synth[s].line = None
  BY DEF Dequeue, TypeInv, TypeOK, SynthOK
<1>1. /\ queue'[s] = Tail(queue[s]) /\ synth'[s].line = m
      /\ \A r \in Replicas \ {s} : queue'[r] = queue[r] /\ synth'[r] = synth[r]
      /\ UNCHANGED <<pending, request>>
  BY <1>0 DEF Dequeue
<1>2. /\ n \in Nat \ {0} /\ DOMAIN queue[s] = 1..n /\ queue[s][1] = m /\ m \in Lines
      /\ DOMAIN queue'[s] = 1..n - 1
      /\ \A i \in 1..n - 1 : queue'[s][i] = queue[s][i + 1]
  BY <1>0, <1>1
<1>. HIDE DEF m, n
<1>3. ASSUME NEW r \in Replicas, NEW l \in Lines PROVE Hands(r, l)'
  <2>1. Hands(r, l)
    BY DEF HandsInv
  <2>2. \A q \in Requests : Sends(q, r, l)' <=> Sends(q, r, l)
    BY <1>1 DEF Sends
  <2>3. CASE r # s
    BY <1>1, <2>1, <2>2, <2>3, SameHands DEF InWorker
  <2>4. CASE r = s
    <3>1. \A i : InSlot(i, r, l)' <=> i \in 1..n - 1 /\ InSlot(i + 1, r, l)
      BY <1>2, <2>4 DEF InSlot
    <3>2. \A i, k \in DOMAIN queue'[r] : InSlot(i, r, l)' /\ InSlot(k, r, l)' => i = k
      <4>1. SUFFICES ASSUME NEW i \in 1..n - 1, NEW k \in 1..n - 1,
                            InSlot(i + 1, r, l), InSlot(k + 1, r, l)
                     PROVE  i = k
        BY <1>2, <2>4, <3>1
      <4>2. i + 1 \in DOMAIN queue[r] /\ k + 1 \in DOMAIN queue[r]
        BY <4>1 DEF InSlot
      <4>3. i + 1 = k + 1
        BY <2>1, <4>1, <4>2 DEF Hands
      <4>. QED
        BY <4>3
    <3>3. InRequest(r, l)' <=> InRequest(r, l)
      BY <2>2 DEF InRequest
    <3>4. ~InWorker(r, l) /\ (InWorker(r, l)' <=> l = m)
      BY <1>0, <1>1, <2>4, AudioAssumption DEF InWorker
    <3>5. CASE l = m
      <4>1. InSlot(1, r, l) /\ 1 \in DOMAIN queue[r]
        BY <1>2, <2>4, <3>5 DEF InSlot
      <4>2. InQueue(r, l) /\ ~InRequest(r, l) /\ l \in pending[r]
        BY <2>1, <4>1 DEF Hands, InQueue
      <4>3. \A i \in 1..n - 1 : ~InSlot(i + 1, r, l)
        <5>1. ASSUME NEW i \in 1..n - 1, InSlot(i + 1, r, l) PROVE FALSE
          <6>1. i + 1 \in DOMAIN queue[r] /\ i + 1 # 1
            BY <1>2, <5>1 DEF InSlot
          <6>. QED
            BY <2>1, <4>1, <5>1, <6>1 DEF Hands
        <5>. QED
          BY <5>1
      <4>4. ~InQueue(r, l)'
        BY <3>1, <4>3 DEF InQueue
      <4>. QED
        BY <1>1, <2>1, <2>2, <3>2, <3>3, <3>4, <3>5, <4>2, <4>4 DEF Hands
    <3>6. CASE l # m
      <4>1. InQueue(r, l) => InQueue(r, l)'
        <5>1. SUFFICES ASSUME NEW i \in DOMAIN queue[r], InSlot(i, r, l) PROVE InQueue(r, l)'
          BY DEF InQueue
        <5>2. i \in 1..n /\ i # 1
          BY <1>2, <2>4, <3>6, <5>1 DEF InSlot
        <5>3. i - 1 \in 1..n - 1 /\ (i - 1) + 1 = i
          BY <1>2, <5>2
        <5>4. InSlot(i - 1, r, l)'
          BY <3>1, <5>1, <5>3
        <5>. QED
          BY <5>4 DEF InQueue, InSlot
      <4>2. InQueue(r, l)' => InQueue(r, l)
        BY <3>1 DEF InQueue, InSlot
      <4>. QED
        BY <1>1, <2>1, <2>2, <3>2, <3>3, <3>4, <3>6, <4>1, <4>2 DEF Hands
    <3>. QED
      BY <3>5, <3>6
  <2>. QED
    BY <2>3, <2>4
<1>. QED
  BY <1>3 DEF HandsInv

\* The worker keeps its line until it releases it.
LEMMA WorkerHands ==
    ASSUME TypeInv, HandsInv, NEW s \in Replicas,
           CheckStore(s) \/ Speak(s) \/ SpeakFails(s) \/ Put(s) \/ Release(s)
    PROVE  HandsInv'
<1>0. synth \in [Replicas -> SynthState] /\ pending \in [Replicas -> SUBSET Lines]
  BY DEF TypeInv, TypeOK
<1>1. UNCHANGED <<queue, request>> /\ \A r \in Replicas \ {s} : synth'[r] = synth[r]
  BY <1>0 DEF CheckStore, Speak, SpeakFails, Put, Release, Goto
<1>2. ASSUME NEW r \in Replicas, NEW l \in Lines PROVE Hands(r, l)'
  <2>1. Hands(r, l)
    BY DEF HandsInv
  <2>2. \A q \in Requests : Sends(q, r, l)' <=> Sends(q, r, l)
    BY <1>1 DEF Sends
  <2>3. CASE ~Release(s)
    <3>1. synth'[s].line = synth[s].line /\ pending' = pending
      BY <1>0, <2>3 DEF CheckStore, Speak, SpeakFails, Put, Goto, SynthState
    <3>2. InWorker(r, l)' <=> InWorker(r, l)
      BY <1>1, <3>1 DEF InWorker
    <3>. QED
      BY <1>1, <2>1, <2>2, <3>1, <3>2, SameHands
  <2>4. CASE Release(s)
    <3>1. /\ pending' = [pending EXCEPT ![s] = @ \ {synth[s].line}]
          /\ synth'[s].line = None
      BY <1>0, <2>4 DEF Release, IdleSynth
    <3>2. CASE r = s /\ l = synth[s].line
      <4>1. InWorker(r, l) /\ ~InWorker(r, l)' /\ l \notin pending'[r]
        BY <1>0, <3>1, <3>2, AudioAssumption DEF InWorker
      <4>2. ~InRequest(r, l) /\ ~InQueue(r, l)
        BY <2>1, <4>1 DEF Hands
      <4>3. ~InRequest(r, l)' /\ ~InQueue(r, l)'
        BY <1>1, <2>2, <4>2 DEF InRequest, InQueue, InSlot
      <4>. QED
        BY <4>1, <4>3 DEF Hands, InRequest, InQueue
    <3>3. CASE ~(r = s /\ l = synth[s].line)
      <4>1. (l \in pending'[r] <=> l \in pending[r]) /\ (InWorker(r, l)' <=> InWorker(r, l))
        BY <1>0, <1>1, <3>1, <3>3, AudioAssumption DEF InWorker
      <4>. QED
        BY <1>1, <2>1, <2>2, <4>1, SameHands
    <3>. QED
      BY <3>2, <3>3
  <2>. QED
    BY <2>3, <2>4
<1>. QED
  BY <1>2 DEF HandsInv

LEMMA CrashHands ==
    ASSUME TypeInv, HandsInv, NEW s \in Replicas, Crash(s)
    PROVE  HandsInv'
<1>1. /\ pending'[s] = {} /\ queue'[s] = <<>> /\ synth'[s].line = None
      /\ \A r \in Replicas \ {s} : /\ pending'[r] = pending[r]
                                   /\ queue'[r] = queue[r]
                                   /\ synth'[r] = synth[r]
  BY DEF Crash, TypeInv, TypeOK, IdleSynth
<1>2. \A q \in Requests : /\ request[q].at = s => request'[q].pc = "idle"
                          /\ request[q].at # s => request'[q] = request[q]
  BY DEF Crash, IdleRequest
<1>3. ASSUME NEW r \in Replicas, NEW l \in Lines PROVE Hands(r, l)'
  <2>1. Hands(r, l)
    BY DEF HandsInv
  <2>2. CASE r # s
    <3>1. \A q \in Requests : Sends(q, r, l)' <=> Sends(q, r, l)
      BY <1>2, <2>2 DEF Sends
    <3>. QED
      BY <1>1, <2>1, <2>2, <3>1, SameHands DEF InWorker
  <2>3. CASE r = s
    <3>1. \A q \in Requests : ~Sends(q, r, l)'
      BY <1>2, <2>3 DEF Sends
    <3>2. ~InWorker(r, l)' /\ l \notin pending'[r] /\ DOMAIN queue'[r] = {}
      BY <1>1, <2>3, AudioAssumption DEF InWorker
    <3>. QED
      BY <3>1, <3>2 DEF Hands, InRequest, InQueue
  <2>. QED
    BY <2>2, <2>3
<1>. QED
  BY <1>3 DEF HandsInv

LEMMA NextHands == TypeInv /\ HandsInv /\ [Next]_audioVars => HandsInv'
<1> SUFFICES ASSUME TypeInv, HandsInv, [Next]_audioVars PROVE HandsInv'
  OBVIOUS
<1>0. \A q \in Requests : request[q] \in RequestState
  BY DEF TypeInv, TypeOK
<1>1. CASE UNCHANGED audioVars
  BY <1>1 DEF audioVars, HandsInv, Hands, InRequest, InQueue, InWorker, Sends, InSlot
<1>2. ASSUME NEW q \in Requests, NEW r \in Replicas, NEW script \in SUBSET Lines, Resolve(q, r, script)
      PROVE  HandsInv'
  <2> DEFINE j == [pc |-> "filling", at |-> r, todo |-> script \ known'[r], line |-> None]
  <2>1. request' = [request EXCEPT ![q] = j] /\ request[q].pc = "idle"
        /\ UNCHANGED <<queue, synth, pending>>
    BY <1>2 DEF Resolve
  <2>2. j.pc = "filling"
    OBVIOUS
  <2>. HIDE DEF j
  <2>. QED
    BY <2>1, <2>2, NobodySends
<1>3. ASSUME NEW q \in Requests, RequestStep(q) PROVE HandsInv'
  <2>1. ASSUME NEW l \in Lines, Fill(q, l) \/ Enqueue(q, l) PROVE HandsInv'
    <3>1. request[q].pc # "sending" /\ UNCHANGED <<queue, synth, pending>>
      BY <2>1 DEF Fill, Enqueue
    <3>2. CASE Fill(q, l)
      <4> DEFINE j == [request[q] EXCEPT !.todo = @ \ {l}]
      <4>1. request' = [request EXCEPT ![q] = j]
        BY <3>2 DEF Fill
      <4>2. j.pc # "sending"
        BY <1>0, <3>1 DEF RequestState
      <4>. HIDE DEF j
      <4>. QED
        BY <3>1, <4>1, <4>2, NobodySends
    <3>3. CASE Enqueue(q, l)
      <4> DEFINE j == [request[q] EXCEPT !.todo = @ \ {l}, !.pc = "claiming", !.line = l]
      <4>1. request' = [request EXCEPT ![q] = j]
        BY <3>3 DEF Enqueue
      <4>2. j.pc # "sending"
        BY <1>0 DEF RequestState
      <4>. HIDE DEF j
      <4>. QED
        BY <3>1, <4>1, <4>2, NobodySends
    <3>. QED
      BY <2>1, <3>2, <3>3
  <2>2. CASE Served(q)
    <3>1. request' = [request EXCEPT ![q] = IdleRequest] /\ request[q].pc # "sending"
          /\ UNCHANGED <<queue, synth, pending>>
      BY <2>2 DEF Served
    <3>2. IdleRequest.pc # "sending"
      BY DEF IdleRequest
    <3>. QED
      BY <3>1, <3>2, NobodySends
  <2>. QED
    BY <1>3, <2>1, <2>2, ClaimHands, SendHands DEF RequestStep
<1>4. ASSUME NEW r \in Replicas, SynthStep(r) PROVE HandsInv'
  BY <1>4, DequeueHands, WorkerHands DEF SynthStep
<1>. QED
  BY <1>1, <1>2, <1>3, <1>4, CrashHands DEF Next

\* The pending map tells the truth, on every replica and at every moment: see
\* PendingIsInHand.
THEOREM PendingIsTrue == Spec => []PendingIsInHand
<1>1. Init => HandsInv
  BY AudioAssumption DEF Init, HandsInv, Hands, InRequest, InQueue, InWorker, Sends, InSlot,
     IdleRequest, IdleSynth
<1>2. HandsInv => PendingIsInHand
  <2> SUFFICES ASSUME HandsInv, NEW r \in Replicas, NEW l \in Lines
               PROVE  /\ l \in pending[r] <=> Holders(r, l) # {}
                      /\ \A x, y \in Holders(r, l) : x = y
    BY DEF PendingIsInHand
  <2>1. Hands(r, l)
    BY DEF HandsInv
  <2>2. \A x : x \in Holders(r, l) <=>
           \/ \E q \in Requests : Sends(q, r, l) /\ x = <<"request", q>>
           \/ \E i \in DOMAIN queue[r] : InSlot(i, r, l) /\ x = <<"queue", i>>
           \/ InWorker(r, l) /\ x = <<"worker", r>>
    BY DEF Holders, Sends, InSlot, InWorker
  <2>3. Holders(r, l) # {} <=> InRequest(r, l) \/ InQueue(r, l) \/ InWorker(r, l)
    BY <2>2 DEF InRequest, InQueue
  <2>4. ASSUME NEW x \in Holders(r, l), NEW y \in Holders(r, l) PROVE x = y
    BY <2>1, <2>2 DEF Hands, InRequest, InQueue
  <2>. QED
    BY <2>1, <2>3, <2>4 DEF Hands
<1>. QED
  BY <1>1, <1>2, NextHands, TypeInvariant, PTL DEF Spec

=============================================================================
