------------------------- MODULE SpeakingExamProofs -------------------------
(***************************************************************************)
(* What SpeakingExam guarantees for contents of any length, any bank of    *)
(* official tests and any number of users, whatever fails meanwhile: what  *)
(* is composed can be taken, and what is handed in is whole.               *)
(*                                                                         *)
(* The first half is about the script as a function of the content: what   *)
(* normalising, validating and moderating a content says of each line that *)
(* is built from it.  The second half is the inductive invariant ExamInv.  *)
(***************************************************************************)
EXTENDS SpeakingExam, Sums, TLAPS

-----------------------------------------------------------------------------
(* Sequences *)

LEMMA NoneLeft ==
    ASSUME NEW V, NEW s \in Seq(V)
    PROVE  s = <<>> <=> Len(s) = 0
OBVIOUS

LEMMA OntoNothing ==
    ASSUME NEW V, NEW s \in Seq(V)
    PROVE  <<>> \o s = s
OBVIOUS

LEMMA LenOfFunction ==
    ASSUME NEW V, NEW n \in Nat, NEW f \in [1..n -> V]
    PROVE  f \in Seq(V) /\ Len(f) = n /\ (n = 0 => f = <<>>)
OBVIOUS

\* A sequence of sequences is flattened one after the other.
LEMMA Flattening ==
    ASSUME NEW V, NEW n \in Nat, NEW ss \in [1..n -> Seq(V)]
    PROVE  \E f \in [0..n -> Seq(V)] :
              /\ f[0] = <<>> /\ \A i \in 1..n : f[i] = f[i - 1] \o ss[i]
              /\ FlattenSeq(ss) = f[n]
<1> DEFINE IsFlat(h) == h = [i \in 1..n |-> IF i = 1 THEN ss[i] ELSE h[i - 1] \o ss[i]]
<1>1. Len(ss) = n /\ (n = 0 => ss = <<>>)
  <2>1. PICK W : W = Seq(V)  OBVIOUS
  <2>2. ss \in [1..n -> W]  BY <2>1
  <2> QED  BY <2>2, LenOfFunction
<1>2. \A i \in 1..n : ss[i] \in Seq(V)  OBVIOUS
<1>3. PICK g \in [0..n -> Seq(V)] : g[0] = <<>> /\ \A i \in 1..n : g[i] = g[i - 1] \o ss[i]
  <2> DEFINE longer == [i \in Nat |-> [s \in Seq(V) |-> IF i \in 1..n THEN s \o ss[i] ELSE s]]
  <2>1. PICK step \in [Nat -> [Seq(V) -> Seq(V)]] : step = longer
    <3>1. longer \in [Nat -> [Seq(V) -> Seq(V)]]  BY <1>2
    <3> QED  BY <3>1
  <2> HIDE DEF longer
  <2>2. PICK base \in Seq(V) : base = <<>>
    <3>1. <<>> \in Seq(V)  OBVIOUS
    <3> QED  BY <3>1
  <2>3. PICK h : Stepwise(Seq(V), base, step, n, h)  BY StepByStep
  <2>5. h \in [0..n -> Seq(V)] /\ h[0] = base /\ \A i \in 1..n : h[i] = step[i][h[i - 1]]  BY <2>3 DEF Stepwise
  <2>6. h \in [0..n -> Seq(V)] /\ h[0] = <<>>  BY <2>2, <2>5
  <2>7. ASSUME NEW i \in 1..n PROVE h[i] = h[i - 1] \o ss[i]
    <3>1. i \in Nat /\ i - 1 \in 0..n  OBVIOUS
    <3>2. h[i - 1] \in Seq(V)  BY <2>6, <3>1
    <3>3. step[i][h[i - 1]] = h[i - 1] \o ss[i]  BY <2>1, <3>1, <3>2 DEF longer
    <3> QED  BY <2>5, <3>3
  <2> QED  BY <2>6, <2>7
<1>4. CASE n = 0
  <2>1. ss = <<>>  BY <1>1, <1>4
  <2>2. FlattenSeq(ss) = <<>>  BY <1>1, <1>4, <2>1 DEF FlattenSeq
  <2> QED  BY <1>1, <1>3, <1>4, <2>2
<1>5. CASE n # 0
  <2> DEFINE k == [i \in 1..n |-> g[i]]
  <2>1. ASSUME NEW i \in 1..n PROVE k[i] = IF i = 1 THEN ss[i] ELSE k[i - 1] \o ss[i]
    <3>1. CASE i = 1
      <4>1. g[1] = ss[1]
        <5>0. i - 1 = 0 /\ ss[i] \in Seq(V)  BY <1>2, <3>1
        <5>1. g[i] = g[i - 1] \o ss[i]  BY <1>3, Zenon
        <5>2. g[i] = <<>> \o ss[i]  BY <1>3, <5>0, <5>1
        <5> QED  BY <3>1, <5>0, <5>2, OntoNothing
      <4> QED  BY <3>1, <4>1
    <3>2. CASE i # 1
      <4>1. i - 1 \in 1..n  BY <3>2
      <4> QED  BY <1>3, <3>2, <4>1
    <3> QED  BY <3>1, <3>2
  <2>2. k = [i \in 1..n |-> k[i]]  OBVIOUS
  <2>3. k = [i \in 1..n |-> IF i = 1 THEN ss[i] ELSE k[i - 1] \o ss[i]]
    <3> HIDE DEF k
    <3> QED  BY <2>1, <2>2
  <2>4. \E h : IsFlat(h)  BY <1>1, <2>3
  <2> DEFINE flatten == CHOOSE h : IsFlat(h)
  <2>5. IsFlat(flatten)
    <3> HIDE DEF IsFlat
    <3> QED  BY <2>4
  <2>6. FlattenSeq(ss) = flatten[n]  BY <1>1, <1>5 DEF FlattenSeq
  <2> HIDE DEF flatten
  <2>7. \A i \in 1..n : flatten[i] = IF i = 1 THEN ss[i] ELSE flatten[i - 1] \o ss[i]  BY <1>1, <2>5
  <2> DEFINE P == {i \in 0..n : i = 0 \/ flatten[i] = g[i]}
  <2>8. ASSUME NEW i \in 1..n, i - 1 \in P PROVE i \in P
    <3>1. CASE i = 1
      <4>1. flatten[1] = ss[1]  BY <1>5, <2>7
      <4>2. g[1] = ss[1]
        <5>0. i - 1 = 0 /\ ss[i] \in Seq(V)  BY <1>2, <3>1
        <5>1. g[i] = g[i - 1] \o ss[i]  BY <1>3, Zenon
        <5>2. g[i] = <<>> \o ss[i]  BY <1>3, <5>0, <5>1
        <5> QED  BY <3>1, <5>0, <5>2, OntoNothing
      <4> QED  BY <3>1, <4>1, <4>2
    <3>2. CASE i # 1
      <4>1. i - 1 # 0  BY <3>2
      <4>2. flatten[i - 1] = g[i - 1]  BY <2>8, <4>1
      <4>3. g[i] = g[i - 1] \o ss[i]  BY <1>3, Zenon
      <4>4. flatten[i] = flatten[i - 1] \o ss[i]  BY <2>7, <3>2, Zenon
      <4>5. i \in 0..n  OBVIOUS
      <4> QED  BY <4>2, <4>3, <4>4, <4>5
    <3> QED  BY <3>1, <3>2
  <2>9. \A i \in 0..n : i \in P
    <3>1. 0 \in P  OBVIOUS
    <3> HIDE DEF P
    <3> QED  BY <2>8, <3>1, UpTo
  <2>10. flatten[n] = g[n]  BY <1>5, <2>9
  <2> QED  BY <1>1, <1>3, <2>6, <2>10
<1> QED  BY <1>4, <1>5

LEMMA AskingOn ==
    ASSUME NEW V, NEW s \in Seq(V)
    PROVE  /\ Asked(s, 0) = <<>>
           /\ \A i \in 1..Len(s) :
                Asked(s, i) = IF s[i].id # None THEN Append(Asked(s, i - 1), s[i]) ELSE Asked(s, i - 1)
           /\ \A i \in 0..Len(s) : Asked(s, i) \in Seq(V)
<1>1. PICK n \in Nat : n = Len(s)  OBVIOUS
<1> DEFINE More(i, q) == IF s[i].id # None THEN Append(q, s[i]) ELSE q
           IsAsked(h) == h = [i \in 0..n |-> IF i = 0 THEN <<>> ELSE More(i, h[i - 1])]
<1>2. ASSUME NEW i \in 1..n, NEW q \in Seq(V) PROVE More(i, q) \in Seq(V)
  <2>1. s[i] \in V  BY <1>1
  <2> QED  BY <2>1
<1>3. \A h, i : More(i, h[i - 1]) = IF s[i].id # None THEN Append(h[i - 1], s[i]) ELSE h[i - 1]  OBVIOUS
<1> HIDE DEF More
<1>4. PICK g \in [0..n -> Seq(V)] : g[0] = <<>> /\ \A i \in 1..n : g[i] = More(i, g[i - 1])
  <2> DEFINE longer == [i \in Nat |-> [q \in Seq(V) |-> IF i \in 1..n THEN More(i, q) ELSE q]]
  <2>1. PICK step \in [Nat -> [Seq(V) -> Seq(V)]] : step = longer
    <3>1. longer \in [Nat -> [Seq(V) -> Seq(V)]]  BY <1>2
    <3> QED  BY <3>1
  <2> HIDE DEF longer
  <2>2. PICK base \in Seq(V) : base = <<>>
    <3>1. <<>> \in Seq(V)  OBVIOUS
    <3> QED  BY <3>1
  <2>3. PICK h : Stepwise(Seq(V), base, step, n, h)  BY StepByStep
  <2>4. h \in [0..n -> Seq(V)] /\ h[0] = base /\ \A i \in 1..n : h[i] = step[i][h[i - 1]]  BY <2>3 DEF Stepwise
  <2>5. ASSUME NEW i \in 1..n PROVE h[i] = More(i, h[i - 1])
    <3>1. i \in Nat /\ i - 1 \in 0..n  OBVIOUS
    <3>2. h[i - 1] \in Seq(V)  BY <2>4, <3>1
    <3>3. step[i][h[i - 1]] = More(i, h[i - 1])  BY <2>1, <3>1, <3>2 DEF longer
    <3> QED  BY <2>4, <3>3
  <2> QED  BY <2>2, <2>4, <2>5
<1>5. \E h : IsAsked(h)
  <2>1. ASSUME NEW i \in 0..n PROVE g[i] = IF i = 0 THEN <<>> ELSE More(i, g[i - 1])
    <3>1. CASE i = 0  BY <1>4, <3>1
    <3>2. CASE i # 0
      <4>1. i \in 1..n  BY <3>2
      <4> QED  BY <1>4, <3>2, <4>1
    <3> QED  BY <3>1, <3>2
  <2>2. g = [i \in 0..n |-> g[i]]  BY <1>4
  <2>3. g = [i \in 0..n |-> IF i = 0 THEN <<>> ELSE More(i, g[i - 1])]  BY <2>1, <2>2
  <2> QED  BY <2>3
<1> DEFINE asked == CHOOSE h : IsAsked(h)
<1>6. IsAsked(asked)
  <2> HIDE DEF IsAsked
  <2> QED  BY <1>5
<1>7. \A i : Asked(s, i) = asked[i]  BY <1>1 DEF Asked, More
<1> HIDE DEF asked
<1>8. asked[0] = <<>> /\ \A i \in 1..n : asked[i] = More(i, asked[i - 1])
  <2>1. \A i \in 1..n : i \in 0..n /\ i # 0  OBVIOUS
  <2>2. 0 \in 0..n  OBVIOUS
  <2> QED  BY <1>6, <2>1, <2>2
<1>9. \A i \in 0..n : asked[i] \in Seq(V)
  <2>1. asked[0] \in Seq(V)
    <3>1. <<>> \in Seq(V)  OBVIOUS
    <3> QED  BY <1>8, <3>1
  <2>2. \A i \in 1..n : asked[i - 1] \in Seq(V) => asked[i] \in Seq(V)  BY <1>2, <1>8
  <2>3. PICK W : W = Seq(V)  OBVIOUS
  <2>4. asked[0] \in W /\ \A i \in 1..n : asked[i - 1] \in W => asked[i] \in W  BY <2>1, <2>2, <2>3
  <2>5. \A i \in 0..n : asked[i] \in W
    <3> HIDE <2>3
    <3> QED  BY <2>4, HandedOn
  <2> QED  BY <2>3, <2>5
<1>10. \A i \in 1..n : Asked(s, i) = IF s[i].id # None THEN Append(Asked(s, i - 1), s[i]) ELSE Asked(s, i - 1)
  <2> SUFFICES ASSUME NEW i \in 1..n
               PROVE  Asked(s, i) = IF s[i].id # None THEN Append(Asked(s, i - 1), s[i]) ELSE Asked(s, i - 1)
    OBVIOUS
  <2>1. Asked(s, i) = More(i, asked[i - 1]) /\ Asked(s, i - 1) = asked[i - 1]  BY <1>7, <1>8
  <2> QED  BY <1>3, <2>1
<1> QED  BY <1>1, <1>7, <1>8, <1>9, <1>10

LEMMA TailOf ==
    ASSUME NEW V, NEW s \in Seq(V), s # <<>>
    PROVE  /\ Tail(s) \in Seq(V) /\ Len(Tail(s)) = Len(s) - 1 /\ Head(s) = s[1]
           /\ \A k \in 1..Len(s) - 1 : Tail(s)[k] = s[k + 1]
OBVIOUS

LEMMA Joined ==
    ASSUME NEW V, NEW s \in Seq(V), NEW t \in Seq(V)
    PROVE  /\ s \o t \in Seq(V) /\ Len(s \o t) = Len(s) + Len(t)
           /\ \A i \in 1..Len(s) : (s \o t)[i] = s[i]
           /\ \A i \in 1..Len(t) : (s \o t)[Len(s) + i] = t[i]
OBVIOUS

LEMMA JoinIsAssociative ==
    ASSUME NEW V, NEW s \in Seq(V), NEW t \in Seq(V), NEW x \in V
    PROVE  s \o Append(t, x) = Append(s \o t, x) /\ s \o <<>> = s
OBVIOUS

\* The questions of two scripts on end.
LEMMA AskedOfBoth ==
    ASSUME NEW V, NEW s \in Seq(V), NEW t \in Seq(V)
    PROVE  Answerable(s \o t) = Answerable(s) \o Answerable(t)
<1> DEFINE u == s \o t
<1>1. PICK m \in Nat, n \in Nat : m = Len(s) /\ n = Len(t)  OBVIOUS
<1>2. u \in Seq(V) /\ Len(u) = m + n /\ (\A i \in 1..m : u[i] = s[i]) /\ \A i \in 1..n : u[m + i] = t[i]
  BY <1>1, Joined
<1> HIDE DEF u
<1>3. /\ Asked(u, 0) = <<>>
      /\ \A i \in 1..m + n :
           Asked(u, i) = IF u[i].id # None THEN Append(Asked(u, i - 1), u[i]) ELSE Asked(u, i - 1)
      /\ \A i \in 0..m + n : Asked(u, i) \in Seq(V)
  BY <1>2, AskingOn, Zenon
<1>4. /\ Asked(s, 0) = <<>>
      /\ \A i \in 1..m : Asked(s, i) = IF s[i].id # None THEN Append(Asked(s, i - 1), s[i]) ELSE Asked(s, i - 1)
      /\ \A i \in 0..m : Asked(s, i) \in Seq(V)
  BY <1>1, AskingOn, Zenon
<1>5. /\ Asked(t, 0) = <<>>
      /\ \A i \in 1..n : Asked(t, i) = IF t[i].id # None THEN Append(Asked(t, i - 1), t[i]) ELSE Asked(t, i - 1)
      /\ \A i \in 0..n : Asked(t, i) \in Seq(V)
  BY <1>1, AskingOn, Zenon
<1>6. \A i \in 0..m : Asked(u, i) = Asked(s, i)
  <2> DEFINE P == {i \in 0..m : Asked(u, i) = Asked(s, i)}
  <2>1. 0 \in P  BY <1>3, <1>4
  <2>2. ASSUME NEW i \in 1..m, i - 1 \in P PROVE i \in P
    <3>1. i \in 1..m + n /\ i \in 0..m /\ u[i] = s[i] /\ Asked(u, i - 1) = Asked(s, i - 1)  BY <1>2, <2>2
    <3>2. Asked(u, i) = IF u[i].id # None THEN Append(Asked(u, i - 1), u[i]) ELSE Asked(u, i - 1)  BY <1>3, <3>1
    <3>3. Asked(s, i) = IF s[i].id # None THEN Append(Asked(s, i - 1), s[i]) ELSE Asked(s, i - 1)  BY <1>4
    <3>4. CASE s[i].id # None
      <4>1. Asked(u, i) = Append(Asked(u, i - 1), u[i])  BY <3>1, <3>2, <3>4
      <4>2. Asked(s, i) = Append(Asked(s, i - 1), s[i])  BY <3>3, <3>4
      <4>3. Asked(u, i) = Asked(s, i)  BY <3>1, <4>1, <4>2, Zenon
      <4> QED  BY <3>1, <4>3
    <3>5. CASE s[i].id = None
      <4>1. Asked(u, i) = Asked(u, i - 1) /\ Asked(s, i) = Asked(s, i - 1)  BY <3>1, <3>2, <3>3, <3>5
      <4> QED  BY <3>1, <4>1
    <3> QED  BY <3>4, <3>5
  <2>3. \A i \in 0..m : i \in P
    <3> HIDE DEF P
    <3> QED  BY <2>1, <2>2, UpTo
  <2> QED  BY <2>3
<1> DEFINE a == Asked(s, m)
<1>7. a \in Seq(V)  BY <1>4
<1> HIDE DEF a
<1>8. \A i \in 0..n : Asked(u, m + i) = a \o Asked(t, i)
  <2> DEFINE P == {i \in 0..n : Asked(u, m + i) = a \o Asked(t, i)}
  <2>1. 0 \in P
    <3>1. Asked(u, m + 0) = a  BY <1>6 DEF a
    <3>2. a \o Asked(t, 0) = a  BY <1>5, <1>7
    <3> QED  BY <3>1, <3>2
  <2>2. ASSUME NEW i \in 1..n, i - 1 \in P PROVE i \in P
    <3>0. Asked(u, m + (i - 1)) = a \o Asked(t, i - 1)  BY <2>2
    <3>1. m + i \in 1..m + n /\ i \in 0..n /\ i - 1 \in 0..n /\ u[m + i] = t[i] /\ (m + i) - 1 = m + (i - 1)
      BY <1>2
    <3>2. Asked(u, m + i) = IF t[i].id # None THEN Append(a \o Asked(t, i - 1), t[i]) ELSE a \o Asked(t, i - 1)
      <4>1. Asked(u, m + i) = IF u[m + i].id # None THEN Append(Asked(u, (m + i) - 1), u[m + i])
                                                    ELSE Asked(u, (m + i) - 1)
        BY <1>3, <3>1
      <4> QED  BY <3>0, <3>1, <4>1
    <3>3. Asked(t, i) = IF t[i].id # None THEN Append(Asked(t, i - 1), t[i]) ELSE Asked(t, i - 1)  BY <1>5
    <3>4. Asked(t, i - 1) \in Seq(V) /\ t[i] \in V  BY <1>1, <1>5, <3>1
    <3>5. a \o Append(Asked(t, i - 1), t[i]) = Append(a \o Asked(t, i - 1), t[i])  BY <1>7, <3>4, JoinIsAssociative
    <3> QED  BY <3>1, <3>2, <3>3, <3>5
  <2>3. \A i \in 0..n : i \in P
    <3> HIDE DEF P
    <3> QED  BY <2>1, <2>2, UpTo
  <2> QED  BY <2>3
<1>9. Asked(u, m + n) = a \o Asked(t, n)  BY <1>8
<1> QED  BY <1>1, <1>2, <1>9 DEF Answerable, a, u

\* Lines without a question, and lines that all have one.
LEMMA AskedOfNone ==
    ASSUME NEW V, NEW s \in Seq(V), \A i \in 1..Len(s) : s[i].id = None
    PROVE  Answerable(s) = <<>>
<1>1. PICK n \in Nat : n = Len(s)  OBVIOUS
<1>2. /\ Asked(s, 0) = <<>>
      /\ \A i \in 1..n : Asked(s, i) = IF s[i].id # None THEN Append(Asked(s, i - 1), s[i]) ELSE Asked(s, i - 1)
  BY <1>1, AskingOn, Zenon
<1> DEFINE P == {i \in 0..n : Asked(s, i) = <<>>}
<1>3. 0 \in P  BY <1>2
<1>4. ASSUME NEW i \in 1..n, i - 1 \in P PROVE i \in P
  <2>1. Asked(s, i - 1) = <<>> /\ s[i].id = None  BY <1>1, <1>4
  <2> QED  BY <1>2, <2>1
<1>5. \A i \in 0..n : i \in P
  <2> HIDE DEF P
  <2> QED  BY <1>3, <1>4, UpTo
<1> QED  BY <1>1, <1>5 DEF Answerable

LEMMA AskedOfAll ==
    ASSUME NEW V, NEW s \in Seq(V), \A i \in 1..Len(s) : s[i].id # None
    PROVE  Answerable(s) = s
<1>1. PICK n \in Nat : n = Len(s)  OBVIOUS
<1>2. /\ Asked(s, 0) = <<>>
      /\ \A i \in 1..n : Asked(s, i) = IF s[i].id # None THEN Append(Asked(s, i - 1), s[i]) ELSE Asked(s, i - 1)
      /\ \A i \in 0..n : Asked(s, i) \in Seq(V)
  BY <1>1, AskingOn, Zenon
<1> DEFINE P == {i \in 0..n : Len(Asked(s, i)) = i /\ \A j \in 1..i : Asked(s, i)[j] = s[j]}
<1>3. 0 \in P  BY <1>2
<1>4. ASSUME NEW i \in 1..n, i - 1 \in P PROVE i \in P
  <2>1. Asked(s, i) = Append(Asked(s, i - 1), s[i])  BY <1>1, <1>2
  <2>2. i - 1 \in 0..n /\ i \in 0..n /\ s[i] \in V  BY <1>1
  <2>3. Asked(s, i - 1) \in Seq(V)  BY <1>2, <2>2
  <2> DEFINE q == Asked(s, i - 1)
  <2>4. Len(q) = i - 1 /\ \A j \in 1..i - 1 : q[j] = s[j]  BY <1>4
  <2> HIDE DEF q
  <2>5. Len(Append(q, s[i])) = i /\ \A j \in 1..i : Append(q, s[i])[j] = s[j]
    <3>1. q \in Seq(V)  BY <2>3 DEF q
    <3>2. Len(Append(q, s[i])) = i  BY <2>2, <2>4, <3>1
    <3>3. ASSUME NEW j \in 1..i PROVE Append(q, s[i])[j] = s[j]
      <4>1. CASE j = i  BY <2>2, <2>4, <3>1, <4>1
      <4>2. CASE j # i
        <5>1. j \in 1..i - 1  BY <4>2
        <5> QED  BY <2>2, <2>4, <3>1, <5>1
      <4> QED  BY <4>1, <4>2
    <3> QED  BY <3>2, <3>3
  <2> QED  BY <2>1, <2>2, <2>5 DEF q
<1>5. \A i \in 0..n : i \in P
  <2> HIDE DEF P
  <2> QED  BY <1>3, <1>4, UpTo
<1>6. Asked(s, n) \in Seq(V) /\ Len(Asked(s, n)) = n /\ \A j \in 1..n : Asked(s, n)[j] = s[j]  BY <1>2, <1>5
<1> QED  BY <1>1, <1>6 DEF Answerable

-----------------------------------------------------------------------------
(* Texts *)

\* What has no word to be flagged for still has none.
StaysDecent(s, t) == t \in Text /\ (~Rude(s) => ~Rude(t))

LEMMA PartOfText ==
    ASSUME NEW s \in Text, NEW i \in 1..Len(s), NEW j \in i - 1..Len(s)
    PROVE  StaysDecent(s, SubSeq(s, i, j)) /\ Len(SubSeq(s, i, j)) = j - i + 1
<1> DEFINE t == SubSeq(s, i, j)
<1>1. s \in Seq(Words)  BY DEF Text
<1>2. t \in Seq(Words) /\ Len(t) = j - i + 1 /\ \A k \in 1..j - i + 1 : t[k] = s[i + k - 1]  BY <1>1
<1>3. DOMAIN t = 1..j - i + 1  BY <1>1, <1>2
<1> HIDE DEF t
<1>4. ASSUME NEW k \in DOMAIN t PROVE i + k - 1 \in DOMAIN s /\ t[k] = s[i + k - 1]
  BY <1>1, <1>2, <1>3
<1>5. ToSet(t) \subseteq ToSet(s)  BY <1>4 DEF ToSet
<1> QED  BY <1>2, <1>5 DEF StaysDecent, Rude, Text, t

LEMMA NothingIsDecent ==
    Empty \in Text /\ ~Rude(Empty) /\ Len(Empty) = 0
<1>1. Empty \in Seq(Words) /\ DOMAIN Empty = {} /\ Len(Empty) = 0  BY DEF Empty
<1>2. ToSet(Empty) = {}  BY <1>1 DEF ToSet
<1> QED  BY <1>1, <1>2 DEF Rude, Text

LEMMA Trimmed ==
    ASSUME NEW s \in Text
    PROVE  StaysDecent(s, TrimSpace(s))
<1> DEFINE words == {i \in DOMAIN s : s[i] # Space}
<1>1. s \in Seq(Words)  BY DEF Text
<1>2. PICK n \in Nat : n = Len(s) /\ DOMAIN s = 1..n  BY <1>1
<1>3. CASE words = {}
  <2>1. TrimSpace(s) = Empty  BY <1>3 DEF TrimSpace
  <2> QED  BY <2>1, NothingIsDecent DEF StaysDecent
<1>4. CASE words # {}
  <2>1. TrimSpace(s) = SubSeq(s, Min(words), Max(words))  BY <1>4 DEF TrimSpace
  <2>2. words \in SUBSET (1..n) /\ words \in SUBSET (0..n) /\ words \in SUBSET Nat  BY <1>2
  <2> HIDE DEF words
  <2>3. \E i \in words : \A j \in words : i <= j  BY <1>4, <2>2, LeastNumber
  <2>4. \E i \in words : \A j \in words : j <= i  BY <1>2, <1>4, <2>2, GreatestNumber
  <2>5. Min(words) \in words /\ \A j \in words : Min(words) <= j  BY <2>3 DEF Min
  <2>6. \E i \in words : \A j \in words : i >= j  BY <2>2, <2>4
  <2>7. Max(words) \in words  BY <2>6 DEF Max
  <2>8. PICK a \in 1..n, b \in 1..n : a = Min(words) /\ b = Max(words) /\ a <= b
    BY <2>2, <2>5, <2>7
  <2>9. a \in 1..Len(s) /\ b \in a - 1..Len(s)  BY <1>2, <2>8
  <2>10. StaysDecent(s, SubSeq(s, a, b))  BY <2>9, PartOfText
  <2> QED  BY <2>1, <2>8, <2>10
<1> QED  BY <1>3, <1>4

LEMMA BothDecent ==
    ASSUME NEW s \in Text, NEW t \in Text
    PROVE  /\ s \o t \in Text /\ Len(s \o t) = Len(s) + Len(t)
           /\ ~Rude(s) /\ ~Rude(t) => ~Rude(s \o t)
<1>1. s \in Seq(Words) /\ t \in Seq(Words)  BY DEF Text
<1>2. PICK m \in Nat, n \in Nat : m = Len(s) /\ n = Len(t) /\ DOMAIN s = 1..m /\ DOMAIN t = 1..n  BY <1>1
<1> DEFINE u == s \o t
<1>3. u \in Seq(Words) /\ Len(u) = m + n /\ (\A i \in 1..m : u[i] = s[i]) /\ \A i \in 1..n : u[m + i] = t[i]
  BY <1>1, <1>2, Joined
<1> HIDE DEF u
<1>4. ASSUME NEW k \in DOMAIN u PROVE u[k] \in ToSet(s) \cup ToSet(t)
  <2>1. k \in 1..m + n  BY <1>3
  <2>2. CASE k <= m
    <3>1. k \in DOMAIN s /\ u[k] = s[k]  BY <1>2, <1>3, <2>1, <2>2
    <3> QED  BY <3>1 DEF ToSet
  <2>3. CASE ~(k <= m)
    <3>1. k - m \in 1..n /\ m + (k - m) = k  BY <2>1, <2>3
    <3>2. k - m \in DOMAIN t /\ u[k] = t[k - m]
      <4>1. u[m + (k - m)] = t[k - m]  BY <1>3, <3>1
      <4> QED  BY <1>2, <3>1, <4>1
    <3> QED  BY <3>2 DEF ToSet
  <2> QED  BY <2>2, <2>3
<1>5. ToSet(u) \subseteq ToSet(s) \cup ToSet(t)  BY <1>4 DEF ToSet
<1> QED  BY <1>2, <1>3, <1>5 DEF Rude, Text, u

LEMMA WithoutDot ==
    ASSUME NEW s \in Text
    PROVE  StaysDecent(s, TrimDot(s))
<1>1. s \in Seq(Words) /\ Len(s) \in Nat  BY DEF Text
<1>2. CASE s # Empty /\ Last(s) = "."
  <2>1. TrimDot(s) = SubSeq(s, 1, Len(s) - 1)  BY <1>2 DEF TrimDot, Front
  <2>2. Len(s) # 0  BY <1>1, <1>2 DEF Empty
  <2>3. 1 \in 1..Len(s) /\ Len(s) - 1 \in 1 - 1..Len(s)  BY <1>1, <2>2
  <2> QED  BY <2>1, <2>3, PartOfText
<1>3. CASE ~(s # Empty /\ Last(s) = ".")
  <2>1. TrimDot(s) = s  BY <1>3 DEF TrimDot
  <2> QED  BY <2>1 DEF StaysDecent
<1> QED  BY <1>2, <1>3

LEMMA Lowered ==
    ASSUME NEW s \in Text
    PROVE  StaysDecent(s, LowerFirst(s))
<1>1. s \in Seq(Words)  BY DEF Text
<1>2. CASE s = Empty  BY <1>2 DEF LowerFirst, StaysDecent
<1>3. CASE s # Empty
  <2>1. PICK n \in Nat : n = Len(s) /\ n # 0 /\ DOMAIN s = 1..n  BY <1>1, <1>3 DEF Empty
  <2>2. PICK w : w = Lower(s[1])  OBVIOUS
  <2> DEFINE t == Tail(s)
  <2>3. t \in Seq(Words) /\ Len(t) = n - 1 /\ Head(s) = s[1] /\ \A k \in 1..n - 1 : t[k] = s[k + 1]
    BY <1>1, <1>3, <2>1, TailOf DEF Empty
  <2>4. LowerFirst(s) = <<w>> \o t  BY <1>3, <2>2, <2>3 DEF LowerFirst
  <2> HIDE DEF t
  <2>5. w \in Words /\ (w = s[1] \/ w = "a")  BY <1>1, <2>1, <2>2 DEF Lower, Words
  <2>6. t \in Text /\ (~Rude(s) => ~Rude(t))
    <3>1. DOMAIN t = 1..n - 1  BY <2>1, <2>3
    <3>2. \A k \in DOMAIN t : k + 1 \in DOMAIN s /\ t[k] = s[k + 1]  BY <2>1, <2>3, <3>1
    <3>3. ToSet(t) \subseteq ToSet(s)  BY <3>2 DEF ToSet
    <3> QED  BY <2>3, <3>3 DEF Rude, Text
  <2>7. <<w>> \in Text /\ (~Rude(s) => ~Rude(<<w>>))
    <3>1. <<w>> \in Seq(Words)  BY <2>5
    <3>2. ToSet(<<w>>) = {w}  BY DEF ToSet
    <3>3. s[1] \in ToSet(s)  BY <2>1 DEF ToSet
    <3> QED  BY <2>5, <3>1, <3>2, <3>3 DEF Rude, Text
  <2>8. PICK v \in Text : v = <<w>>  BY <2>7
  <2>9. v \o t \in Text /\ (~Rude(v) /\ ~Rude(t) => ~Rude(v \o t))  BY <2>6, <2>8, BothDecent
  <2> QED  BY <2>4, <2>6, <2>7, <2>8, <2>9 DEF StaysDecent
<1> QED  BY <1>2, <1>3

LEMMA SubjectOfTopic ==
    ASSUME NEW topic \in Text
    PROVE  StaysDecent(topic, Part2Subject(topic))
<1>1. PICK t : t = TrimDot(TrimSpace(topic))  OBVIOUS
<1>2. StaysDecent(topic, t)
  <2>1. StaysDecent(topic, TrimSpace(topic))  BY Trimmed
  <2>2. TrimSpace(topic) \in Text  BY <2>1 DEF StaysDecent
  <2>3. StaysDecent(TrimSpace(topic), TrimDot(TrimSpace(topic)))  BY <2>2, WithoutDot
  <2> QED  BY <1>1, <2>1, <2>3 DEF StaysDecent
<1>3. t \in Text  BY <1>2 DEF StaysDecent
<1>4. \/ Part2Subject(topic) = LowerFirst(t)
      \/ \E lead \in Leads : IsPrefix(lead, t) /\ Part2Subject(topic) = SubSeq(t, Len(lead) + 1, Len(t))
  <2> DEFINE cut == {SubSeq(t, Len(lead) + 1, Len(t)) : lead \in {l \in Leads : IsPrefix(l, t)}}
  <2>1. Part2Subject(topic) = IF cut = {} THEN LowerFirst(t) ELSE CHOOSE rest \in cut : TRUE
    BY <1>1 DEF Part2Subject
  <2>2. CASE cut # {}
    <3>1. (CHOOSE rest \in cut : TRUE) \in cut  BY <2>2
    <3> QED  BY <2>1, <2>2, <3>1
  <2> QED  BY <2>1, <2>2
<1>5. CASE Part2Subject(topic) = LowerFirst(t)
  <2>1. StaysDecent(t, LowerFirst(t))  BY <1>3, Lowered
  <2> QED  BY <1>2, <1>5, <2>1 DEF StaysDecent
<1>6. CASE \E lead \in Leads : IsPrefix(lead, t) /\ Part2Subject(topic) = SubSeq(t, Len(lead) + 1, Len(t))
  <2>1. PICK lead \in Leads : IsPrefix(lead, t) /\ Part2Subject(topic) = SubSeq(t, Len(lead) + 1, Len(t))  BY <1>6
  <2>2. Len(lead) \in Nat /\ Len(lead) > 0  BY DEF Leads
  <2>3. Len(t) \in Nat /\ Len(lead) <= Len(t) /\ t \in Seq(Words)  BY <1>3, <2>1 DEF Text, IsPrefix
  <2>4. CASE Len(lead) = Len(t)
    <3>1. SubSeq(t, Len(lead) + 1, Len(t)) = <<>>  BY <2>2, <2>3, <2>4
    <3>2. <<>> \in Text /\ ~Rude(<<>>)  BY DEF Text, Rude, ToSet
    <3> QED  BY <2>1, <3>1, <3>2 DEF StaysDecent
  <2>5. CASE Len(lead) # Len(t)
    <3>1. Len(lead) + 1 \in 1..Len(t) /\ Len(t) \in (Len(lead) + 1) - 1..Len(t)  BY <2>2, <2>3, <2>5
    <3>2. StaysDecent(t, SubSeq(t, Len(lead) + 1, Len(t)))  BY <1>3, <3>1, PartOfText
    <3> QED  BY <1>2, <2>1, <3>2 DEF StaysDecent
  <2> QED  BY <2>4, <2>5
<1> QED  BY <1>4, <1>5, <1>6

\* Texts on end.
LEMMA AllDecent ==
    ASSUME NEW n \in Nat, NEW texts \in [1..n -> Text]
    PROVE  /\ FlattenSeq(texts) \in Text
           /\ (\A i \in 1..n : ~Rude(texts[i])) => ~Rude(FlattenSeq(texts))
<1>1. PICK f \in [0..n -> Seq(Words)] :
          /\ f[0] = <<>> /\ \A i \in 1..n : f[i] = f[i - 1] \o texts[i]
          /\ FlattenSeq(texts) = f[n]
  <2>1. texts \in [1..n -> Seq(Words)]  BY DEF Text
  <2> QED  BY <2>1, Flattening
<1>2. \A i \in 0..n : f[i] \in Text  BY <1>1 DEF Text
<1>3. ASSUME \A i \in 1..n : ~Rude(texts[i]) PROVE ~Rude(f[n])
  <2> DEFINE P == {i \in 0..n : ~Rude(f[i])}
  <2>1. 0 \in P  BY <1>1, NothingIsDecent DEF Empty
  <2>2. ASSUME NEW i \in 1..n, i - 1 \in P PROVE i \in P
    <3>1. i \in 0..n /\ i - 1 \in 0..n /\ ~Rude(f[i - 1]) /\ ~Rude(texts[i])  BY <1>3, <2>2
    <3>2. f[i - 1] \in Text /\ texts[i] \in Text  BY <1>2, <3>1
    <3>3. ~Rude(f[i - 1] \o texts[i])  BY <3>1, <3>2, BothDecent
    <3> QED  BY <1>1, <3>1, <3>3
  <2>3. \A i \in 0..n : i \in P
    <3> HIDE DEF P
    <3> QED  BY <2>1, <2>2, UpTo
  <2> QED  BY <2>3
<1> QED  BY <1>1, <1>2, <1>3

-----------------------------------------------------------------------------
(* Normalised contents *)

Asking == [id : QuestionIds, text : Text]
Topical == [topic : Text, questions : Seq(Asking)]

Shape1(p) ==
    /\ p.topics \in Seq(Topical)
    /\ \A t \in 1..Len(p.topics) : \A i \in 1..Len(p.topics[t].questions) :
          p.topics[t].questions[i].id = <<1, t, i>>

Shape2(p) ==
    /\ p.id = << 2 >> /\ p.topic \in Text /\ p.explain \in Text
    /\ p.bullets \in Seq(Text)
    /\ p.followUps \in Seq(Asking)
    /\ \A i \in 1..Len(p.followUps) : p.followUps[i].id = <<2, i>>

Shape3(p) ==
    /\ p.theme \in Text
    /\ p.questions \in Seq(Asking)
    /\ \A i \in 1..Len(p.questions) : p.questions[i].id = <<3, i>>

Shaped(c) ==
    /\ c.title \in Text
    /\ Has(c.part1) => Shape1(c.part1)
    /\ Has(c.part2) => Shape2(c.part2)
    /\ Has(c.part3) => Shape3(c.part3)

LEMMA SameElements ==
    ASSUME NEW V, NEW s \in Seq(V), NEW t \in Seq(V), Len(s) = Len(t), \A i \in 1..Len(s) : s[i] = t[i]
    PROVE  s = t
OBVIOUS

LEMMA Appended ==
    ASSUME NEW V, NEW s \in Seq(V), NEW x \in V
    PROVE  /\ Append(s, x) \in Seq(V) /\ Len(Append(s, x)) = Len(s) + 1
           /\ \A i \in 1..Len(s) : Append(s, x)[i] = s[i]
           /\ Append(s, x)[Len(s) + 1] = x
OBVIOUS

LEMMA NumberInTopic ==
    ASSUME NEW t \in Nat, NEW i \in Nat
    PROVE  Append(<<1, t>>, i) = <<1, t, i>>
<1>1. PICK p \in Seq(Nat) : p = <<1, t>> /\ Len(p) = 2 /\ p[1] = 1 /\ p[2] = t
  <2>1. <<1, t>> \in Seq(Nat)  OBVIOUS
  <2> QED  BY <2>1
<1>2. PICK u \in Seq(Nat) : u = <<1, t, i>> /\ Len(u) = 3 /\ u[1] = 1 /\ u[2] = t /\ u[3] = i
  <2>1. <<1, t, i>> \in Seq(Nat)  OBVIOUS
  <2> QED  BY <2>1
<1>3. PICK s \in Seq(Nat) : s = Append(p, i)  BY Appended, Zenon
<1>4. Len(s) = 3 /\ (\A k \in 1..2 : s[k] = p[k]) /\ s[3] = i  BY <1>1, <1>3
<1>5. s[1] = 1 /\ s[2] = t  BY <1>1, <1>4
<1>6. \A k \in 1..Len(s) : k = 1 \/ k = 2 \/ k = 3  BY <1>4
<1>7. \A k \in 1..Len(s) : s[k] = u[k]  BY <1>2, <1>4, <1>5, <1>6
<1>8. s = u
  <2>1. Len(s) = Len(u)  BY <1>2, <1>4
  <2> QED  BY <1>7, <2>1, SameElements
<1> QED  BY <1>1, <1>2, <1>3, <1>8, Zenon

LEMMA NumberInPart ==
    ASSUME NEW part \in Nat, NEW i \in Nat
    PROVE  Append(<<part>>, i) = <<part, i>> /\ <<part>> \in Seq(Nat)
<1>0. <<part>> \in Seq(Nat)  OBVIOUS
<1>1. PICK p \in Seq(Nat) : p = <<part>> /\ Len(p) = 1 /\ p[1] = part  BY <1>0
<1>2. PICK u \in Seq(Nat) : u = <<part, i>> /\ Len(u) = 2 /\ u[1] = part /\ u[2] = i
  <2>1. <<part, i>> \in Seq(Nat)  OBVIOUS
  <2> QED  BY <2>1
<1>3. PICK s \in Seq(Nat) : s = Append(p, i)  BY Appended, Zenon
<1>4. Len(s) = 2 /\ (\A k \in 1..1 : s[k] = p[k]) /\ s[2] = i  BY <1>1, <1>3
<1>5. s[1] = part  BY <1>1, <1>4
<1>6. \A k \in 1..Len(s) : k = 1 \/ k = 2  BY <1>4
<1>7. \A k \in 1..Len(s) : s[k] = u[k]  BY <1>2, <1>4, <1>5, <1>6
<1>8. s = u
  <2>1. Len(s) = Len(u)  BY <1>2, <1>4
  <2> QED  BY <1>7, <2>1, SameElements
<1>9. Append(<<part>>, i) = <<part, i>>  BY <1>1, <1>2, <1>3, <1>8, Zenon
<1> QED  BY <1>0, <1>9

LEMMA NumberedShape ==
    ASSUME NEW qs \in Seq(Prompt), NEW prefix \in QuestionIds
    PROVE  /\ Numbered(qs, prefix) \in Seq(Asking) /\ Len(Numbered(qs, prefix)) = Len(qs)
           /\ \A i \in 1..Len(qs) : Numbered(qs, prefix)[i].id = Append(prefix, i)
<1>1. PICK n \in Nat : n = Len(qs) /\ DOMAIN qs = 1..n  OBVIOUS
<1> DEFINE a == [i \in 1..n |-> [id |-> Append(prefix, i), text |-> TrimSpace(qs[i].text)]]
<1>2. Numbered(qs, prefix) = a  BY <1>1 DEF Numbered
<1>3. ASSUME NEW i \in 1..n PROVE [id |-> Append(prefix, i), text |-> TrimSpace(qs[i].text)] \in Asking
  <2>1. qs[i] \in Prompt  BY <1>1
  <2>2. qs[i].text \in Text  BY <2>1 DEF Prompt
  <2>3. TrimSpace(qs[i].text) \in Text  BY <2>2, Trimmed DEF StaysDecent
  <2>4. Append(prefix, i) \in QuestionIds
    <3>1. i \in Nat  OBVIOUS
    <3> QED  BY <3>1 DEF QuestionIds
  <2> QED  BY <2>3, <2>4 DEF Asking
<1>4. a \in [1..n -> Asking]  BY <1>3
<1>5. \A i \in 1..n : a[i].id = Append(prefix, i)  OBVIOUS
<1> HIDE DEF a
<1>6. a \in Seq(Asking) /\ Len(a) = n  BY <1>4, LenOfFunction
<1> QED  BY <1>1, <1>2, <1>5, <1>6

LEMMA Normal1 ==
    ASSUME NEW p \in SpeakingPart1
    PROVE  Shape1(NormalPart1(p))
<1> DEFINE Given == [topic : Text, questions : Seq(Prompt)]
<1>1. p.topics \in Seq(Given)  BY DEF SpeakingPart1
<1>2. PICK n \in Nat : n = Len(p.topics) /\ DOMAIN p.topics = 1..n
  <2> HIDE DEF Given
  <2> QED  BY <1>1
<1> DEFINE T(t) == [topic |-> TrimSpace(p.topics[t].topic), questions |-> Numbered(p.topics[t].questions, <<1, t>>)]
           a == [t \in 1..n |-> T(t)]
<1>3. NormalPart1(p).topics = a  BY <1>2 DEF NormalPart1
<1>4. ASSUME NEW t \in 1..n
      PROVE  T(t) \in Topical /\ \A i \in 1..Len(T(t).questions) : T(t).questions[i].id = <<1, t, i>>
  <2>1. p.topics[t] \in Given
    <3> HIDE DEF Given
    <3> QED  BY <1>1, <1>2
  <2>2. PICK qs \in Seq(Prompt) : qs = p.topics[t].questions  BY <2>1
  <2>3. TrimSpace(p.topics[t].topic) \in Text  BY <2>1, Trimmed DEF StaysDecent
  <2>4. t \in Nat /\ <<1, t>> \in QuestionIds  BY DEF QuestionIds
  <2>5. PICK prefix \in QuestionIds : prefix = <<1, t>>  BY <2>4
  <2>6. PICK ns : ns = Numbered(qs, prefix)  OBVIOUS
  <2>7. ns \in Seq(Asking) /\ Len(ns) = Len(qs) /\ \A i \in 1..Len(qs) : ns[i].id = Append(prefix, i)
    BY <2>6, NumberedShape
  <2>8. \A i \in 1..Len(ns) : ns[i].id = <<1, t, i>>
    <3>1. ASSUME NEW i \in 1..Len(ns) PROVE ns[i].id = <<1, t, i>>
      <4>1. ns[i].id = Append(prefix, i) /\ i \in Nat  BY <2>7
      <4>2. Append(<<1, t>>, i) = <<1, t, i>>  BY <2>4, <4>1, NumberInTopic
      <4> QED  BY <2>5, <4>1, <4>2
    <3> QED  BY <3>1
  <2>9. T(t) = [topic |-> TrimSpace(p.topics[t].topic), questions |-> ns]  BY <2>2, <2>5, <2>6
  <2>10. T(t).questions = ns  BY <2>9
  <2>11. T(t) \in Topical  BY <2>3, <2>7, <2>9 DEF Topical
  <2> QED  BY <2>8, <2>10, <2>11
<1> HIDE DEF T
<1>5. a \in [1..n -> Topical] /\ \A t \in 1..n : a[t] = T(t)  BY <1>4
<1> HIDE DEF a
<1>6. a \in Seq(Topical) /\ Len(a) = n  BY <1>5, LenOfFunction
<1> QED  BY <1>3, <1>4, <1>5, <1>6 DEF Shape1

LEMMA InOnePart ==
    ASSUME NEW qs \in Seq(Prompt), NEW part \in Nat
    PROVE  /\ Numbered(qs, <<part>>) \in Seq(Asking)
           /\ \A i \in 1..Len(Numbered(qs, <<part>>)) : Numbered(qs, <<part>>)[i].id = <<part, i>>
<1>1. PICK prefix \in QuestionIds : prefix = <<part>>  BY NumberInPart DEF QuestionIds
<1>2. /\ Numbered(qs, prefix) \in Seq(Asking) /\ Len(Numbered(qs, prefix)) = Len(qs)
      /\ \A i \in 1..Len(qs) : Numbered(qs, prefix)[i].id = Append(prefix, i)
  BY NumberedShape
<1>3. ASSUME NEW i \in 1..Len(qs) PROVE Append(prefix, i) = <<part, i>>
  <2>1. i \in Nat  OBVIOUS
  <2> QED  BY <1>1, <2>1, NumberInPart
<1> QED  BY <1>1, <1>2, <1>3

LEMMA Normal2 ==
    ASSUME NEW p \in SpeakingPart2
    PROVE  Shape2(NormalPart2(p))
<1>1. /\ p.topic \in Text /\ p.explain \in Text /\ p.bullets \in Seq(Text) /\ p.followUps \in Seq(Prompt)
  BY DEF SpeakingPart2
<1>2. TrimSpace(p.topic) \in Text /\ TrimSpace(p.explain) \in Text  BY <1>1, Trimmed DEF StaysDecent
<1>3. [i \in DOMAIN p.bullets |-> TrimSpace(p.bullets[i])] \in Seq(Text)
  <2>1. PICK n \in Nat : n = Len(p.bullets) /\ DOMAIN p.bullets = 1..n  BY <1>1
  <2>2. PICK a : a = [i \in 1..n |-> TrimSpace(p.bullets[i])]  OBVIOUS
  <2>3. \A i \in 1..n : p.bullets[i] \in Text  BY <1>1, <2>1
  <2>4. a \in [1..n -> Text]  BY <2>2, <2>3, Trimmed DEF StaysDecent
  <2>5. a \in Seq(Text)  BY <2>4, LenOfFunction
  <2> QED  BY <2>1, <2>2, <2>5
<1>4. PICK fs : fs = Numbered(p.followUps, << 2 >>)  OBVIOUS
<1>5. fs \in Seq(Asking) /\ \A i \in 1..Len(fs) : fs[i].id = <<2, i>>  BY <1>1, <1>4, InOnePart
<1>6. /\ NormalPart2(p).id = << 2 >> /\ NormalPart2(p).topic = TrimSpace(p.topic)
      /\ NormalPart2(p).explain = TrimSpace(p.explain)
      /\ NormalPart2(p).bullets = [i \in DOMAIN p.bullets |-> TrimSpace(p.bullets[i])]
      /\ NormalPart2(p).followUps = fs
  BY <1>4 DEF NormalPart2
<1> QED  BY <1>2, <1>3, <1>5, <1>6 DEF Shape2

LEMMA Normal3 ==
    ASSUME NEW p \in SpeakingPart3
    PROVE  Shape3(NormalPart3(p))
<1>1. p.theme \in Text /\ p.questions \in Seq(Prompt)  BY DEF SpeakingPart3
<1>2. TrimSpace(p.theme) \in Text  BY <1>1, Trimmed DEF StaysDecent
<1>3. PICK qs : qs = Numbered(p.questions, << 3 >>)  OBVIOUS
<1>4. qs \in Seq(Asking) /\ \A i \in 1..Len(qs) : qs[i].id = <<3, i>>  BY <1>1, <1>3, InOnePart
<1>5. NormalPart3(p).theme = TrimSpace(p.theme) /\ NormalPart3(p).questions = qs  BY <1>3 DEF NormalPart3
<1> QED  BY <1>2, <1>4, <1>5 DEF Shape3

LEMMA NormalShape ==
    ASSUME NEW c, c.title \in Text, c.part1 \in SpeakingPart1 \cup {None}, c.part2 \in SpeakingPart2 \cup {None},
           c.part3 \in SpeakingPart3 \cup {None}
    PROVE  Shaped(Normalize(c))
<1> DEFINE d == Normalize(c)
<1>1. /\ d.title = TrimSpace(c.title)
      /\ (Has(c.part1) => d.part1 = NormalPart1(c.part1)) /\ (~Has(c.part1) => d.part1 = None)
      /\ (Has(c.part2) => d.part2 = NormalPart2(c.part2)) /\ (~Has(c.part2) => d.part2 = None)
      /\ (Has(c.part3) => d.part3 = NormalPart3(c.part3)) /\ (~Has(c.part3) => d.part3 = None)
  BY DEF Normalize
<1> HIDE DEF d
<1>2. d.title \in Text  BY <1>1, Trimmed DEF StaysDecent
<1>3. Has(d.part1) => Shape1(d.part1)  BY <1>1, Normal1 DEF Has
<1>4. Has(d.part2) => Shape2(d.part2)  BY <1>1, Normal2 DEF Has
<1>5. Has(d.part3) => Shape3(d.part3)  BY <1>1, Normal3 DEF Has
<1> QED  BY <1>2, <1>3, <1>4, <1>5 DEF Shaped, d

-----------------------------------------------------------------------------
(* Lines *)

Identity == QuestionIds \cup {None}

LEMMA Identified ==
    ASSUME NEW V, NEW s \in Seq(V), \A v \in V : v.id \in Identity
    PROVE  Ids(s) \in Seq(Identity) /\ Len(Ids(s)) = Len(s) /\ \A i \in 1..Len(s) : Ids(s)[i] = s[i].id
<1>1. PICK n \in Nat : n = Len(s) /\ DOMAIN s = 1..n  OBVIOUS
<1>2. PICK f : f = [i \in 1..n |-> s[i].id]  OBVIOUS
<1>3. \A i \in 1..n : s[i].id \in Identity  BY <1>1
<1>4. f \in [1..n -> Identity]  BY <1>2, <1>3
<1>5. f \in Seq(Identity) /\ Len(f) = n  BY <1>4, LenOfFunction
<1>6. Ids(s) = f  BY <1>1, <1>2 DEF Ids
<1> QED  BY <1>1, <1>2, <1>5, <1>6

LEMMA IdsOfBoth ==
    ASSUME NEW V, NEW s \in Seq(V), NEW t \in Seq(V), \A v \in V : v.id \in Identity
    PROVE  Ids(s \o t) = Ids(s) \o Ids(t)
<1>1. PICK m \in Nat, n \in Nat : m = Len(s) /\ n = Len(t)  OBVIOUS
<1>2. PICK u \in Seq(V) : /\ u = s \o t /\ Len(u) = m + n
                          /\ (\A i \in 1..m : u[i] = s[i]) /\ (\A i \in 1..n : u[m + i] = t[i])
  <2>1. /\ s \o t \in Seq(V) /\ Len(s \o t) = Len(s) + Len(t)
        /\ \A i \in 1..Len(s) : (s \o t)[i] = s[i]
        /\ \A i \in 1..Len(t) : (s \o t)[Len(s) + i] = t[i]
    BY Joined
  <2> QED  BY <1>1, <2>1, Zenon
<1>3. PICK a \in Seq(Identity) : a = Ids(s) /\ Len(a) = m /\ \A i \in 1..m : a[i] = s[i].id  BY <1>1, Identified
<1>4. PICK b \in Seq(Identity) : b = Ids(t) /\ Len(b) = n /\ \A i \in 1..n : b[i] = t[i].id  BY <1>1, Identified
<1>5. PICK c \in Seq(Identity) : c = Ids(u) /\ Len(c) = m + n /\ \A i \in 1..m + n : c[i] = u[i].id  BY <1>2, Identified
<1>6. PICK d \in Seq(Identity) : /\ d = a \o b /\ Len(d) = m + n
                                 /\ (\A i \in 1..m : d[i] = a[i]) /\ (\A i \in 1..n : d[m + i] = b[i])
  <2>1. /\ a \o b \in Seq(Identity) /\ Len(a \o b) = Len(a) + Len(b)
        /\ \A i \in 1..Len(a) : (a \o b)[i] = a[i]
        /\ \A i \in 1..Len(b) : (a \o b)[Len(a) + i] = b[i]
    BY Joined
  <2> QED  BY <1>3, <1>4, <2>1, Zenon
<1>7. ASSUME NEW i \in 1..m + n PROVE c[i] = d[i]
  <2>1. CASE i <= m
    <3>1. i \in 1..m  BY <2>1
    <3>2. c[i] = u[i].id /\ u[i] = s[i] /\ d[i] = a[i] /\ a[i] = s[i].id  BY <1>2, <1>3, <1>5, <1>6, <3>1
    <3> QED  BY <3>2
  <2>2. CASE ~(i <= m)
    <3>1. PICK j \in 1..n : i = m + j
      <4>1. i - m \in 1..n /\ i = m + (i - m)  BY <2>2
      <4> QED  BY <4>1
    <3>2. c[i] = u[i].id /\ u[i] = t[j] /\ d[i] = b[j] /\ b[j] = t[j].id  BY <1>2, <1>4, <1>5, <1>6, <3>1
    <3> QED  BY <3>2
  <2> QED  BY <2>1, <2>2
<1>8. c = d
  <2>1. Len(c) = Len(d) /\ \A i \in 1..Len(c) : c[i] = d[i]  BY <1>5, <1>6, <1>7
  <2> QED  BY <2>1, SameElements
<1> QED  BY <1>2, <1>3, <1>4, <1>5, <1>6, <1>8

LEMMA AnswerableOf ==
    ASSUME NEW V, NEW s \in Seq(V)
    PROVE  Answerable(s) \in Seq(V)
<1>1. PICK n \in Nat : n = Len(s)  OBVIOUS
<1>2. \A i \in 0..n : Asked(s, i) \in Seq(V)  BY <1>1, AskingOn, Zenon
<1>3. n \in 0..n  OBVIOUS
<1> QED  BY <1>1, <1>2, <1>3 DEF Answerable

\* The questions a script asks.
Asks(s) == Ids(Answerable(s))

LEMMA AsksOfBoth ==
    ASSUME NEW V, NEW s \in Seq(V), NEW t \in Seq(V), \A v \in V : v.id \in Identity
    PROVE  Asks(s \o t) = Asks(s) \o Asks(t) /\ Asks(s) \in Seq(Identity)
<1>1. PICK a \in Seq(V) : a = Answerable(s)  BY AnswerableOf
<1>2. PICK b \in Seq(V) : b = Answerable(t)  BY AnswerableOf
<1>3. Answerable(s \o t) = a \o b  BY <1>1, <1>2, AskedOfBoth
<1>4. Ids(a \o b) = Ids(a) \o Ids(b)  BY IdsOfBoth
<1>5. Ids(a) \in Seq(Identity)  BY Identified
<1> QED  BY <1>1, <1>2, <1>3, <1>4, <1>5 DEF Asks

LEMMA AsksNothing ==
    ASSUME NEW V, NEW s \in Seq(V), \A i \in 1..Len(s) : s[i].id = None
    PROVE  Asks(s) = <<>>
<1>1. Answerable(s) = <<>>  BY AskedOfNone
<1>2. Ids(<<>>) = <<>>  BY DEF Ids
<1> QED  BY <1>1, <1>2 DEF Asks

LEMMA AsksAll ==
    ASSUME NEW V, NEW s \in Seq(V), \A i \in 1..Len(s) : s[i].id # None
    PROVE  Asks(s) = Ids(s)
<1>1. Answerable(s) = s  BY AskedOfAll
<1> QED  BY <1>1 DEF Asks

\* A line that can be played, and that was moderated where it had to be.
Line == [kind : {"say", "ask", "cue_card", "long_turn"}, part : 1..3, text : Text, id : Identity, seconds : Nat]
Playable(decent) ==
    {l \in Line : /\ l.kind \in {"ask", "cue_card"} => l.text # Empty
                  /\ l.kind \in {"ask", "long_turn"} => l.id # None /\ Durations(l) \subseteq 1..MaxAnswerSeconds
                  /\ l.kind \notin {"ask", "long_turn"} => l.id = None
                  /\ decent => ~Rude(l.text)}

LEMMA PlayableIsIdentified ==
    ASSUME NEW decent
    PROVE  \A l \in Playable(decent) : l.id \in Identity
BY DEF Playable, Line

LEMMA Said ==
    ASSUME NEW decent \in BOOLEAN, NEW part \in 1..3, NEW text \in Text, decent => ~Rude(text)
    PROVE  Say(part, text) \in Playable(decent) /\ Say(part, text).id = None
BY DEF Say, Playable, Line, Identity

LEMMA OneLine ==
    ASSUME NEW V, NEW x \in V
    PROVE  <<x>> \in Seq(V) /\ Len(<<x>>) = 1 /\ <<x>>[1] = x
OBVIOUS

LEMMA SaidAlone ==
    ASSUME NEW decent \in BOOLEAN, NEW part \in 1..3, NEW text \in Text, decent => ~Rude(text)
    PROVE  <<Say(part, text)>> \in Seq(Playable(decent)) /\ Asks(<<Say(part, text)>>) = <<>>
<1>1. PICK l \in Playable(decent) : l = Say(part, text) /\ l.id = None  BY Said
<1>2. PICK s \in Seq(Playable(decent)) : s = <<l>> /\ Len(s) = 1 /\ s[1] = l  BY OneLine
<1>3. \A i \in 1..Len(s) : s[i].id = None  BY <1>1, <1>2
<1>4. Asks(s) = <<>>  BY <1>3, AsksNothing
<1> QED  BY <1>1, <1>2, <1>4

\* Questions that can be asked.
Fit(qs, decent) ==
    \A i \in 1..Len(qs) : qs[i].text # Empty /\ (decent => ~Rude(qs[i].text))

LEMMA Limits ==
    /\ {MinAnswerSeconds, 30 + SoftLimitGrace} \subseteq 1..MaxAnswerSeconds
    /\ {MinAnswerSeconds, 60 + SoftLimitGrace} \subseteq 1..MaxAnswerSeconds
    /\ {MinAnswerSeconds, 120} \subseteq 1..MaxAnswerSeconds
    /\ MaxAnswerSeconds \in Nat /\ MinAnswerSeconds \in Nat /\ SoftLimitGrace \in Nat
BY ExamAssumption

LEMMA AskedAll ==
    ASSUME NEW decent \in BOOLEAN, NEW part \in 1..3, NEW seconds \in {30, 60}, NEW qs \in Seq(Asking), Fit(qs, decent)
    PROVE  Ask(part, seconds, qs) \in Seq(Playable(decent)) /\ Asks(Ask(part, seconds, qs)) = Ids(qs)
<1>1. PICK n \in Nat : n = Len(qs) /\ DOMAIN qs = 1..n  OBVIOUS
<1> DEFINE L(i) == [kind |-> "ask", part |-> part, text |-> qs[i].text, id |-> qs[i].id, seconds |-> seconds]
<1>2. PICK f : f = [i \in 1..n |-> L(i)]  OBVIOUS
<1>3. Ask(part, seconds, qs) = f  BY <1>1, <1>2 DEF Ask
<1>4. ASSUME NEW i \in 1..n PROVE L(i) \in Playable(decent) /\ L(i).id # None /\ L(i).id = qs[i].id
  <2>1. qs[i] \in Asking  BY <1>1
  <2>2. PICK text \in Text, id \in QuestionIds : text = qs[i].text /\ id = qs[i].id  BY <2>1 DEF Asking
  <2>3. PICK l : l = [kind |-> "ask", part |-> part, text |-> text, id |-> id, seconds |-> seconds]  OBVIOUS
  <2>4. L(i) = l  BY <2>2, <2>3
  <2>5. l \in Line /\ l.kind = "ask" /\ l.id = id /\ l.seconds = seconds /\ l.text = text
    BY <2>3 DEF Line, Identity
  <2>6. id # None  BY ContentAssumption
  <2>7. text # Empty /\ (decent => ~Rude(text))  BY <1>1, <2>2 DEF Fit
  <2>8. Durations(l) \subseteq 1..MaxAnswerSeconds
    <3>1. Durations(l) = {MinAnswerSeconds, seconds + SoftLimitGrace}  BY <2>5 DEF Durations, HardLimit
    <3> QED  BY <3>1, Limits
  <2>9. l \in Playable(decent)  BY <2>5, <2>6, <2>7, <2>8 DEF Playable
  <2> QED  BY <2>2, <2>4, <2>5, <2>6, <2>9
<1> HIDE DEF L
<1>5. f \in [1..n -> Playable(decent)] /\ \A i \in 1..n : f[i] = L(i)  BY <1>2, <1>4
<1>6. f \in Seq(Playable(decent)) /\ Len(f) = n  BY <1>5, LenOfFunction
<1>7. \A i \in 1..Len(f) : f[i].id # None  BY <1>4, <1>5, <1>6
<1>8. Asks(f) = Ids(f)  BY <1>6, <1>7, AsksAll
<1>9. Ids(f) = Ids(qs)
  <2>1. DOMAIN f = 1..n /\ \A i \in 1..n : f[i].id = qs[i].id  BY <1>4, <1>5
  <2> QED  BY <1>1, <2>1 DEF Ids
<1> QED  BY <1>3, <1>6, <1>8, <1>9

-----------------------------------------------------------------------------
(* Parts *)

LEMMA IdsInPart ==
    ASSUME NEW V, NEW qs \in Seq(V), NEW part
    PROVE  Ids(InPart(part, qs)) = Ids(qs)
<1>1. DOMAIN InPart(part, qs) = DOMAIN qs /\ \A i \in DOMAIN qs : InPart(part, qs)[i].id = qs[i].id  BY DEF InPart
<1> QED  BY <1>1 DEF Ids

LEMMA SaidThenAsked ==
    ASSUME NEW decent \in BOOLEAN, NEW part \in 1..3, NEW text \in Text, decent => ~Rude(text),
           NEW seconds \in {30, 60}, NEW qs \in Seq(Asking), Fit(qs, decent)
    PROVE  /\ <<Say(part, text)>> \o Ask(part, seconds, qs) \in Seq(Playable(decent))
           /\ Asks(<<Say(part, text)>> \o Ask(part, seconds, qs)) = Ids(qs)
<1>1. PICK a \in Seq(Playable(decent)) : a = <<Say(part, text)>> /\ Asks(a) = <<>>  BY SaidAlone
<1>2. PICK b \in Seq(Playable(decent)) : b = Ask(part, seconds, qs) /\ Asks(b) = Ids(qs)  BY AskedAll
<1>3. a \o b \in Seq(Playable(decent))  BY Joined
<1>4. Asks(a \o b) = Asks(a) \o Asks(b) /\ Asks(b) \in Seq(Identity)  BY PlayableIsIdentified, AsksOfBoth
<1>5. <<>> \o Asks(b) = Asks(b)  BY <1>4, OntoNothing
<1> QED  BY <1>1, <1>2, <1>3, <1>4, <1>5

Fit1(p, decent) ==
    \A t \in 1..Len(p.topics) : (decent => ~Rude(p.topics[t].topic)) /\ Fit(p.topics[t].questions, decent)

LEMMA TopicalQuestions ==
    ASSUME NEW p, Shape1(p)
    PROVE  /\ Len(p.topics) \in Nat /\ DOMAIN p.topics = 1..Len(p.topics)
           /\ \A t \in 1..Len(p.topics) : p.topics[t].topic \in Text /\ p.topics[t].questions \in Seq(Asking)
<1>1. p.topics \in Seq(Topical)  BY DEF Shape1
<1>2. Len(p.topics) \in Nat /\ DOMAIN p.topics = 1..Len(p.topics)  BY <1>1
<1>3. ASSUME NEW t \in 1..Len(p.topics)
      PROVE  p.topics[t].topic \in Text /\ p.topics[t].questions \in Seq(Asking)
  <2>1. p.topics[t] \in Topical  BY <1>1, <1>2
  <2> QED  BY <2>1 DEF Topical
<1> QED  BY <1>2, <1>3

LEMMA FirstPartAsks ==
    ASSUME NEW decent \in BOOLEAN, NEW p, Shape1(p), Fit1(p, decent)
    PROVE  /\ Interview(p) \in Seq(Playable(decent))
           /\ Asks(Interview(p)) = Ids(InPart(1, Part1Questions(p)))
           /\ Part1Questions(p) \in Seq(Asking)
<1> DEFINE V == Playable(decent)
           L(t) == <<Say(1, LowerFirst(TrimDot(p.topics[t].topic)))>> \o Ask(1, 30, p.topics[t].questions)
<1>1. PICK n \in Nat : n = Len(p.topics) /\ DOMAIN p.topics = 1..n  BY TopicalQuestions
<1>2. ASSUME NEW t \in 1..n
      PROVE  /\ p.topics[t].questions \in Seq(Asking)
             /\ L(t) \in Seq(V) /\ Asks(L(t)) = Ids(p.topics[t].questions)
  <2>1. PICK qs \in Seq(Asking), topic \in Text : qs = p.topics[t].questions /\ topic = p.topics[t].topic
    BY <1>1, TopicalQuestions
  <2>2. (decent => ~Rude(topic)) /\ Fit(qs, decent)  BY <1>1, <2>1 DEF Fit1
  <2>3. PICK text \in Text : text = LowerFirst(TrimDot(topic)) /\ (decent => ~Rude(text))
    <3>1. PICK s \in Text : s = TrimDot(topic) /\ (~Rude(topic) => ~Rude(s))  BY WithoutDot DEF StaysDecent
    <3>2. LowerFirst(s) \in Text /\ (~Rude(s) => ~Rude(LowerFirst(s)))  BY Lowered DEF StaysDecent
    <3> QED  BY <2>2, <3>1, <3>2
  <2>4. /\ <<Say(1, text)>> \o Ask(1, 30, qs) \in Seq(V)
        /\ Asks(<<Say(1, text)>> \o Ask(1, 30, qs)) = Ids(qs)
    <3> HIDE DEF L
    <3>1. 1 \in 1..3 /\ 30 \in {30, 60}  OBVIOUS
    <3> QED  BY <2>2, <2>3, <3>1, SaidThenAsked
  <2>5. L(t) = <<Say(1, text)>> \o Ask(1, 30, qs)  BY <2>1, <2>3
  <2> HIDE DEF L
  <2> QED  BY <2>1, <2>4, <2>5
<1> HIDE DEF L, V
<1>3. PICK lss : lss = [t \in 1..n |-> L(t)]  OBVIOUS
<1>4. PICK qss : qss = [t \in 1..n |-> p.topics[t].questions]  OBVIOUS
<1>5. lss \in [1..n -> Seq(V)] /\ qss \in [1..n -> Seq(Asking)]
  <2>1. PICK W : W = Seq(V)  OBVIOUS
  <2>2. lss \in [1..n -> W]  BY <1>2, <1>3, <2>1
  <2>3. PICK X : X = Seq(Asking)  OBVIOUS
  <2>4. qss \in [1..n -> X]  BY <1>2, <1>4, <2>3
  <2> QED  BY <2>1, <2>2, <2>3, <2>4
<1>6. PICK f \in [0..n -> Seq(V)] : /\ f[0] = <<>> /\ \A i \in 1..n : f[i] = f[i - 1] \o lss[i]
                                    /\ FlattenSeq(lss) = f[n]
  BY <1>5, Flattening
<1>7. PICK g \in [0..n -> Seq(Asking)] : /\ g[0] = <<>> /\ \A i \in 1..n : g[i] = g[i - 1] \o qss[i]
                                         /\ FlattenSeq(qss) = g[n]
  BY <1>5, Flattening
<1>8. \A v \in V : v.id \in Identity  BY PlayableIsIdentified DEF V
<1>9. \A v \in Asking : v.id \in Identity  BY DEF Asking, Identity
<1>10. \A i \in 0..n : Asks(f[i]) = Ids(g[i])
  <2> DEFINE P == {i \in 0..n : Asks(f[i]) = Ids(g[i])}
  <2>1. 0 \in P
    <3>1. PICK none \in Seq(V) : none = f[0]  OBVIOUS
    <3>2. none = <<>> /\ Len(none) = 0  BY <1>6, <3>1
    <3>3. Asks(none) = <<>>
      <4>1. \A i \in 1..Len(none) : none[i].id = None  BY <3>2
      <4> QED  BY <4>1, AsksNothing
    <3>4. Ids(g[0]) = <<>>  BY <1>7 DEF Ids
    <3> QED  BY <3>1, <3>3, <3>4
  <2>2. ASSUME NEW i \in 1..n, i - 1 \in P PROVE i \in P
    <3>1. i - 1 \in 0..n /\ i \in 0..n /\ Asks(f[i - 1]) = Ids(g[i - 1])  BY <2>2
    <3>2. PICK a \in Seq(V), b \in Seq(V) : a = f[i - 1] /\ b = lss[i]  BY <1>5, <3>1
    <3>3. PICK c \in Seq(Asking), d \in Seq(Asking) : c = g[i - 1] /\ d = qss[i]  BY <1>5, <3>1
    <3>4. Asks(a \o b) = Asks(a) \o Asks(b)  BY <1>8, AsksOfBoth
    <3>5. Ids(c \o d) = Ids(c) \o Ids(d)  BY <1>9, IdsOfBoth
    <3>6. Asks(b) = Ids(d)  BY <1>2, <1>3, <1>4, <3>2, <3>3
    <3>7. f[i] = a \o b  BY <1>6, <3>2
    <3>8. g[i] = c \o d  BY <1>7, <3>3
    <3>9. Asks(f[i]) = Ids(g[i])  BY <3>1, <3>2, <3>3, <3>4, <3>5, <3>6, <3>7, <3>8, Zenon
    <3> QED  BY <3>1, <3>9
  <2>3. \A i \in 0..n : i \in P
    <3> HIDE DEF P
    <3> QED  BY <2>1, <2>2, UpTo
  <2> QED  BY <2>3
<1>11. PICK qs \in Seq(Asking) : qs = Part1Questions(p) /\ qs = g[n]
  <2>1. Part1Questions(p) = FlattenSeq(qss)  BY <1>1, <1>4 DEF Part1Questions
  <2>2. g[n] \in Seq(Asking)  OBVIOUS
  <2> QED  BY <1>7, <2>1, <2>2
<1>12. PICK ls \in Seq(V) : ls = FlattenSeq(lss) /\ Asks(ls) = Ids(qs)
  <2>1. f[n] \in Seq(V)  OBVIOUS
  <2> QED  BY <1>6, <1>10, <1>11, <2>1
<1>13. PICK intro \in Seq(V) : intro = <<Say(1, Empty)>> /\ Asks(intro) = <<>>
  <2>1. 1 \in 1..3 /\ Empty \in Text /\ (decent => ~Rude(Empty))  BY NothingIsDecent
  <2> QED  BY <2>1, SaidAlone DEF V
<1>14. Interview(p) = intro \o ls  BY <1>1, <1>3, <1>12, <1>13 DEF Interview, L
<1>15. intro \o ls \in Seq(V)  BY Joined
<1>16. Asks(intro \o ls) = Asks(intro) \o Asks(ls) /\ Asks(ls) \in Seq(Identity)  BY <1>8, AsksOfBoth
<1>17. <<>> \o Asks(ls) = Asks(ls)  BY <1>16, OntoNothing
<1>18. Ids(InPart(1, qs)) = Ids(qs)  BY IdsInPart
<1> QED  BY <1>11, <1>12, <1>13, <1>14, <1>15, <1>16, <1>17, <1>18 DEF V

Posed == [id : QuestionIds, part : 1..3, text : Text]

LEMMA InPartPosed ==
    ASSUME NEW qs \in Seq(Asking), NEW part \in 1..3
    PROVE  InPart(part, qs) \in Seq(Posed) /\ Len(InPart(part, qs)) = Len(qs)
<1>1. PICK n \in Nat : n = Len(qs) /\ DOMAIN qs = 1..n  OBVIOUS
<1>2. PICK f : f = [i \in 1..n |-> [id |-> qs[i].id, part |-> part, text |-> qs[i].text]]  OBVIOUS
<1>3. ASSUME NEW i \in 1..n PROVE [id |-> qs[i].id, part |-> part, text |-> qs[i].text] \in Posed
  <2>1. qs[i] \in Asking  BY <1>1
  <2> QED  BY <2>1 DEF Asking, Posed
<1>4. f \in [1..n -> Posed]  BY <1>2, <1>3
<1>5. f \in Seq(Posed) /\ Len(f) = n  BY <1>4, LenOfFunction
<1> QED  BY <1>1, <1>2, <1>5 DEF InPart

LEMMA PosedIsIdentified == \A q \in Posed : q.id \in Identity
BY DEF Posed, Identity

Fit2(p, decent) ==
    /\ p.topic # Empty
    /\ Fit(p.followUps, decent)
    /\ decent => ~Rude(p.topic) /\ ~Rude(p.explain) /\ \A i \in 1..Len(p.bullets) : ~Rude(p.bullets[i])

LEMMA CardText ==
    ASSUME NEW decent \in BOOLEAN, NEW p, Shape2(p), Fit2(p, decent)
    PROVE  CueCardText(p) \in Text /\ CueCardText(p) # Empty /\ (decent => ~Rude(CueCardText(p)))
<1>1. PICK topic \in Text, explain \in Text : topic = p.topic /\ explain = p.explain  BY DEF Shape2
<1>2. PICK bullets : bullets = p.bullets  OBVIOUS
<1>3. bullets \in Seq(Text)  BY <1>2 DEF Shape2
<1>4. PICK n \in Nat : n = Len(bullets) /\ DOMAIN bullets = 1..n /\ bullets \in [1..n -> Text]  BY <1>3
<1>5. PICK middle \in Text : middle = FlattenSeq(bullets) /\ ((\A i \in 1..n : ~Rude(bullets[i])) => ~Rude(middle))
  BY <1>4, AllDecent
<1>6. PICK front \in Text : /\ front = topic \o middle /\ Len(front) = Len(topic) + Len(middle)
                            /\ (~Rude(topic) /\ ~Rude(middle) => ~Rude(front))
  BY BothDecent
<1>7. PICK card \in Text : /\ card = front \o explain /\ Len(card) = Len(front) + Len(explain)
                           /\ (~Rude(front) /\ ~Rude(explain) => ~Rude(card))
  BY BothDecent
<1>8. CueCardText(p) = card  BY <1>1, <1>2, <1>5, <1>6, <1>7 DEF CueCardText
<1>9. card # Empty
  <2>1. topic # Empty  BY <1>1 DEF Fit2
  <2>2. topic \in Seq(Words) /\ Len(topic) \in Nat /\ Len(middle) \in Nat /\ Len(explain) \in Nat  BY DEF Text
  <2>3. Len(topic) # 0  BY <2>1, <2>2, NoneLeft DEF Empty
  <2>4. Len(card) # 0  BY <1>6, <1>7, <2>2, <2>3
  <2> QED  BY <2>4, NothingIsDecent
<1>10. decent => ~Rude(card)
  <2> SUFFICES ASSUME decent PROVE ~Rude(card)  OBVIOUS
  <2>1. ~Rude(topic) /\ ~Rude(explain) /\ \A i \in 1..n : ~Rude(bullets[i])  BY <1>1, <1>2, <1>4 DEF Fit2
  <2> QED  BY <1>5, <1>6, <1>7, <2>1
<1> QED  BY <1>8, <1>9, <1>10

TurnLines(card, id) ==
    <<Say(2, Empty),
      [kind |-> "cue_card", part |-> 2, text |-> card, id |-> None, seconds |-> 60],
      [kind |-> "long_turn", part |-> 2, text |-> Empty, id |-> id, seconds |-> 120],
      Say(2, Empty)>>

LEMMA LongTurnLines ==
    ASSUME NEW decent \in BOOLEAN, NEW card \in Text, card # Empty, decent => ~Rude(card), NEW id \in QuestionIds
    PROVE  TurnLines(card, id) \in Seq(Playable(decent)) /\ Asks(TurnLines(card, id)) = <<id>>
<1> DEFINE V == Playable(decent)
<1>1. PICK a \in V : a = Say(2, Empty) /\ a.id = None
  <2>1. 2 \in 1..3 /\ Empty \in Text /\ (decent => ~Rude(Empty))  BY NothingIsDecent
  <2> QED  BY <2>1, Said
<1>2. PICK b \in V : b = [kind |-> "cue_card", part |-> 2, text |-> card, id |-> None, seconds |-> 60] /\ b.id = None
  <2>1. PICK l : l = [kind |-> "cue_card", part |-> 2, text |-> card, id |-> None, seconds |-> 60]  OBVIOUS
  <2>2. l \in Line /\ l.kind = "cue_card" /\ l.id = None /\ l.text = card  BY <2>1 DEF Line, Identity
  <2> QED  BY <2>1, <2>2 DEF Playable
<1>3. PICK c \in V : c = [kind |-> "long_turn", part |-> 2, text |-> Empty, id |-> id, seconds |-> 120] /\ c.id = id
  <2>1. PICK l : l = [kind |-> "long_turn", part |-> 2, text |-> Empty, id |-> id, seconds |-> 120]  OBVIOUS
  <2>2. l \in Line /\ l.kind = "long_turn" /\ l.id = id /\ l.text = Empty /\ l.seconds = 120
    BY <2>1, NothingIsDecent DEF Line, Identity
  <2>3. Durations(l) = {MinAnswerSeconds, 120}  BY <2>2 DEF Durations, HardLimit
  <2>4. id # None  BY ContentAssumption
  <2> QED  BY <2>1, <2>2, <2>3, <2>4, Limits, NothingIsDecent DEF Playable
<1>4. id # None  BY ContentAssumption
<1> HIDE DEF V
<1>5. PICK s \in Seq(V) : s = <<a, b, c, a>> /\ Len(s) = 4 /\ s[1] = a /\ s[2] = b /\ s[3] = c /\ s[4] = a
  <2>1. <<a, b, c, a>> \in Seq(V)  OBVIOUS
  <2> QED  BY <2>1
<1>6. /\ Asked(s, 0) = <<>>
      /\ \A i \in 1..4 : Asked(s, i) = IF s[i].id # None THEN Append(Asked(s, i - 1), s[i]) ELSE Asked(s, i - 1)
  BY <1>5, AskingOn, Zenon
<1>7. /\ Asked(s, 1) = Asked(s, 0) /\ Asked(s, 2) = Asked(s, 1)
      /\ Asked(s, 3) = Append(Asked(s, 2), s[3]) /\ Asked(s, 4) = Asked(s, 3)
  <2>1. 1 \in 1..4 /\ 1 - 1 = 0 /\ 2 \in 1..4 /\ 2 - 1 = 1 /\ 3 \in 1..4 /\ 3 - 1 = 2 /\ 4 \in 1..4 /\ 4 - 1 = 3  OBVIOUS
  <2>2. s[1].id = None /\ s[2].id = None /\ s[3].id # None /\ s[4].id = None  BY <1>1, <1>2, <1>3, <1>4, <1>5
  <2> HIDE <1>5
  <2>3. Asked(s, 1) = Asked(s, 0)  BY <1>6, <2>1, <2>2
  <2>4. Asked(s, 2) = Asked(s, 1)  BY <1>6, <2>1, <2>2
  <2>5. Asked(s, 3) = Append(Asked(s, 2), s[3])  BY <1>6, <2>1, <2>2
  <2>6. Asked(s, 4) = Asked(s, 3)  BY <1>6, <2>1, <2>2
  <2> QED  BY <2>3, <2>4, <2>5, <2>6
<1>8. Answerable(s) = Append(<<>>, c)  BY <1>5, <1>6, <1>7 DEF Answerable
<1>9. PICK q \in Seq(V) : q = Append(<<>>, c) /\ Len(q) = 1 /\ q[1] = c
  <2>1. <<>> \in Seq(V)  OBVIOUS
  <2>2. PICK e \in Seq(V) : e = <<>> /\ Len(e) = 0  BY <2>1
  <2>3. PICK q \in Seq(V) : q = Append(e, c)  BY Appended, Zenon
  <2>4. Len(q) = 1 /\ q[1] = c  BY <2>2, <2>3
  <2> QED  BY <2>2, <2>3, <2>4
<1>10. Ids(q) = <<id>>
  <2>1. DOMAIN q = 1..1  BY <1>9
  <2>2. Ids(q) = [i \in 1..1 |-> q[i].id]  BY <2>1 DEF Ids
  <2>3. \A i \in 1..1 : q[i].id = id  BY <1>3, <1>9
  <2>4. Ids(q) = [i \in 1..1 |-> id]  BY <2>2, <2>3
  <2>5. <<id>> = [i \in 1..1 |-> id]  OBVIOUS
  <2> QED  BY <2>4, <2>5
<1>11. Asks(s) = <<id>>  BY <1>8, <1>9, <1>10 DEF Asks
<1>12. TurnLines(card, id) = s  BY <1>1, <1>2, <1>3, <1>5 DEF TurnLines
<1> QED  BY <1>5, <1>11, <1>12 DEF V

CardAndMore(p) == <<[id |-> p.id, part |-> 2, text |-> CueCardText(p)]>> \o InPart(2, p.followUps)

LEMMA SecondPartAsks ==
    ASSUME NEW decent \in BOOLEAN, NEW p, Shape2(p), Fit2(p, decent)
    PROVE  /\ LongTurn(p) \in Seq(Playable(decent))
           /\ CardAndMore(p) \in Seq(Posed)
           /\ Asks(LongTurn(p)) = Ids(CardAndMore(p))
<1> DEFINE V == Playable(decent)
<1>1. PICK card \in Text : card = CueCardText(p) /\ card # Empty /\ (decent => ~Rude(card))  BY CardText
<1>2. PICK id \in QuestionIds : id = p.id
  <2>1. << 2 >> \in QuestionIds  BY NumberInPart DEF QuestionIds
  <2> QED  BY <2>1 DEF Shape2
<1>3. PICK fs \in Seq(Asking) : fs = p.followUps /\ Fit(fs, decent)  BY DEF Shape2, Fit2
<1> HIDE DEF V
<1>4. PICK s \in Seq(V) : s = TurnLines(card, id) /\ Asks(s) = <<id>>  BY <1>1, LongTurnLines DEF V
<1>5. PICK t \in Seq(V) : t = Ask(2, 30, fs) /\ Asks(t) = Ids(fs)
  <2>1. 2 \in 1..3 /\ 30 \in {30, 60}  OBVIOUS
  <2> QED  BY <1>3, <2>1, AskedAll DEF V
<1>6. LongTurn(p) = s \o t  BY <1>1, <1>2, <1>3, <1>4, <1>5 DEF LongTurn, TurnLines
<1>7. s \o t \in Seq(V)  BY Joined
<1>8. \A v \in V : v.id \in Identity  BY PlayableIsIdentified DEF V
<1>9. Asks(s \o t) = Asks(s) \o Asks(t)  BY <1>8, AsksOfBoth
<1>10. PICK q \in Posed : q = [id |-> id, part |-> 2, text |-> card] /\ q.id = id
  <2>1. PICK q : q = [id |-> id, part |-> 2, text |-> card]  OBVIOUS
  <2>2. 2 \in 1..3  OBVIOUS
  <2>3. q \in Posed  BY <2>1, <2>2 DEF Posed
  <2> QED  BY <2>1, <2>3
<1>11. PICK a \in Seq(Posed) : a = <<q>> /\ Len(a) = 1 /\ a[1] = q  BY OneLine
<1>12. PICK b \in Seq(Posed) : b = InPart(2, fs)
  <2>1. 2 \in 1..3  OBVIOUS
  <2> QED  BY <2>1, InPartPosed
<1>13. CardAndMore(p) = a \o b  BY <1>1, <1>2, <1>3, <1>10, <1>11, <1>12 DEF CardAndMore
<1>14. a \o b \in Seq(Posed)  BY Joined
<1>15. Ids(a \o b) = Ids(a) \o Ids(b)  BY PosedIsIdentified, IdsOfBoth
<1>16. Ids(a) = <<id>>
  <2>1. Ids(a) = [i \in 1..1 |-> a[i].id]
    <3>1. DOMAIN a = 1..1  BY <1>11
    <3> QED  BY <3>1 DEF Ids
  <2>2. \A i \in 1..1 : a[i].id = id  BY <1>10, <1>11
  <2>3. Ids(a) = [i \in 1..1 |-> id]  BY <2>1, <2>2
  <2>4. <<id>> = [i \in 1..1 |-> id]  OBVIOUS
  <2> QED  BY <2>3, <2>4
<1>17. Ids(b) = Ids(fs)  BY <1>12, IdsInPart
<1>18. Asks(LongTurn(p)) = Ids(CardAndMore(p))
  <2>1. Asks(LongTurn(p)) = <<id>> \o Ids(fs)  BY <1>4, <1>5, <1>6, <1>9, Zenon
  <2>2. Ids(CardAndMore(p)) = <<id>> \o Ids(fs)  BY <1>13, <1>15, <1>16, <1>17, Zenon
  <2> QED  BY <2>1, <2>2, Zenon
<1> QED  BY <1>6, <1>7, <1>13, <1>14, <1>18 DEF V

Fit3(p, decent) == Fit(p.questions, decent) /\ (decent => ~Rude(p.theme))

LEMMA ThirdPartAsks ==
    ASSUME NEW decent \in BOOLEAN, NEW c, Shape3(c.part3), Fit3(c.part3, decent),
           Has(c.part2) => c.part2.topic \in Text /\ (decent => ~Rude(c.part2.topic))
    PROVE  /\ Discussion(c) \in Seq(Playable(decent))
           /\ InPart(3, c.part3.questions) \in Seq(Posed)
           /\ Asks(Discussion(c)) = Ids(InPart(3, c.part3.questions))
<1>1. PICK qs \in Seq(Asking) : qs = c.part3.questions /\ Fit(qs, decent)  BY DEF Shape3, Fit3
<1>2. PICK text \in Text :
          /\ text = IF Has(c.part2) THEN Part2Subject(c.part2.topic) ELSE LowerFirst(TrimDot(c.part3.theme))
          /\ decent => ~Rude(text)
  <2>1. CASE Has(c.part2)
    <3>1. PICK topic \in Text : topic = c.part2.topic /\ (decent => ~Rude(topic))  BY <2>1
    <3>2. Part2Subject(topic) \in Text /\ (~Rude(topic) => ~Rude(Part2Subject(topic)))  BY SubjectOfTopic DEF StaysDecent
    <3> QED  BY <2>1, <3>1, <3>2
  <2>2. CASE ~Has(c.part2)
    <3>1. PICK theme \in Text : theme = c.part3.theme /\ (decent => ~Rude(theme))  BY DEF Shape3, Fit3
    <3>2. PICK s \in Text : s = TrimDot(theme) /\ (~Rude(theme) => ~Rude(s))  BY WithoutDot DEF StaysDecent
    <3>3. LowerFirst(s) \in Text /\ (~Rude(s) => ~Rude(LowerFirst(s)))  BY Lowered DEF StaysDecent
    <3> QED  BY <2>2, <3>1, <3>2, <3>3
  <2> QED  BY <2>1, <2>2
<1>3. Discussion(c) = <<Say(3, text)>> \o Ask(3, 60, qs)  BY <1>1, <1>2 DEF Discussion
<1>4. 3 \in 1..3 /\ 60 \in {30, 60}  OBVIOUS
<1>5. /\ <<Say(3, text)>> \o Ask(3, 60, qs) \in Seq(Playable(decent))
      /\ Asks(<<Say(3, text)>> \o Ask(3, 60, qs)) = Ids(qs)
  BY <1>1, <1>2, <1>4, SaidThenAsked
<1>6. InPart(3, qs) \in Seq(Posed) /\ Ids(InPart(3, qs)) = Ids(qs)  BY <1>4, InPartPosed, IdsInPart
<1> QED  BY <1>1, <1>3, <1>5, <1>6

-----------------------------------------------------------------------------
(* Scripts *)

Fits(c, decent) ==
    /\ Has(c.part1) => Fit1(c.part1, decent)
    /\ Has(c.part2) => Fit2(c.part2, decent)
    /\ Has(c.part3) => Fit3(c.part3, decent)

LEMMA ScriptAsks ==
    ASSUME NEW decent \in BOOLEAN, NEW c, Shaped(c), Fits(c, decent)
    PROVE  /\ Build(c) \in Seq(Playable(decent))
           /\ Questions(c) \in Seq(Posed)
           /\ Asks(Build(c)) = Ids(Questions(c))
<1> DEFINE V == Playable(decent)
<1>0. PICK noLine \in Seq(V), noQuestion \in Seq(Posed) : noLine = <<>> /\ noQuestion = <<>> /\ Asks(noLine) = <<>> /\ Ids(noQuestion) = <<>>
  <2> HIDE DEF V
  <2>1. PICK noLine \in Seq(V) : noLine = <<>> /\ Len(noLine) = 0
    <3>1. <<>> \in Seq(V)  OBVIOUS
    <3> QED  BY <3>1
  <2>2. PICK noQuestion \in Seq(Posed) : noQuestion = <<>>
    <3>1. <<>> \in Seq(Posed)  OBVIOUS
    <3> QED  BY <3>1
  <2>3. Asks(noLine) = <<>>
    <3>1. \A i \in 1..Len(noLine) : noLine[i].id = None  BY <2>1
    <3> QED  BY <3>1, AsksNothing
  <2>4. Ids(noQuestion) = <<>>  BY <2>2 DEF Ids
  <2> QED  BY <2>1, <2>2, <2>3, <2>4
<1>1. PICK l1 \in Seq(V), q1 \in Seq(Posed) :
          /\ l1 = (IF Has(c.part1) THEN Interview(c.part1) ELSE <<>>)
          /\ q1 = (IF Has(c.part1) THEN InPart(1, Part1Questions(c.part1)) ELSE <<>>)
          /\ Asks(l1) = Ids(q1)
  <2>1. CASE Has(c.part1)
    <3>1. Shape1(c.part1) /\ Fit1(c.part1, decent)  BY <2>1 DEF Shaped, Fits
    <3>2. /\ Interview(c.part1) \in Seq(V) /\ Part1Questions(c.part1) \in Seq(Asking)
          /\ Asks(Interview(c.part1)) = Ids(InPart(1, Part1Questions(c.part1)))
      BY <3>1, FirstPartAsks
    <3>3. InPart(1, Part1Questions(c.part1)) \in Seq(Posed)
      <4>1. 1 \in 1..3  OBVIOUS
      <4> QED  BY <3>2, <4>1, InPartPosed
    <3> HIDE DEF V
    <3> QED  BY <2>1, <3>2, <3>3
  <2>2. CASE ~Has(c.part1)
    <3> HIDE DEF V
    <3> QED  BY <1>0, <2>2
  <2> QED  BY <2>1, <2>2
<1>2. PICK l2 \in Seq(V), q2 \in Seq(Posed) :
          /\ l2 = (IF Has(c.part2) THEN LongTurn(c.part2) ELSE <<>>)
          /\ q2 = (IF Has(c.part2) THEN CardAndMore(c.part2) ELSE <<>>)
          /\ Asks(l2) = Ids(q2)
  <2>1. CASE Has(c.part2)
    <3>1. Shape2(c.part2) /\ Fit2(c.part2, decent)  BY <2>1 DEF Shaped, Fits
    <3>2. /\ LongTurn(c.part2) \in Seq(V) /\ CardAndMore(c.part2) \in Seq(Posed)
          /\ Asks(LongTurn(c.part2)) = Ids(CardAndMore(c.part2))
      BY <3>1, SecondPartAsks
    <3> HIDE DEF V
    <3> QED  BY <2>1, <3>2
  <2>2. CASE ~Has(c.part2)
    <3> HIDE DEF V
    <3> QED  BY <1>0, <2>2
  <2> QED  BY <2>1, <2>2
<1>3. PICK l3 \in Seq(V), q3 \in Seq(Posed) :
          /\ l3 = (IF Has(c.part3) THEN Discussion(c) ELSE <<>>)
          /\ q3 = (IF Has(c.part3) THEN InPart(3, c.part3.questions) ELSE <<>>)
          /\ Asks(l3) = Ids(q3)
  <2>1. CASE Has(c.part3)
    <3>1. Shape3(c.part3) /\ Fit3(c.part3, decent)  BY <2>1 DEF Shaped, Fits
    <3>2. Has(c.part2) => c.part2.topic \in Text /\ (decent => ~Rude(c.part2.topic))
      BY DEF Shaped, Fits, Shape2, Fit2
    <3>3. /\ Discussion(c) \in Seq(V) /\ InPart(3, c.part3.questions) \in Seq(Posed)
          /\ Asks(Discussion(c)) = Ids(InPart(3, c.part3.questions))
      BY <3>1, <3>2, ThirdPartAsks
    <3> HIDE DEF V
    <3> QED  BY <2>1, <3>3
  <2>2. CASE ~Has(c.part3)
    <3> HIDE DEF V
    <3> QED  BY <1>0, <2>2
  <2> QED  BY <2>1, <2>2
<1>4. PICK intro \in Seq(V) : intro = <<Say(FirstPart(c), Empty)>> /\ Asks(intro) = <<>> /\ Len(intro) = 1
  <2>1. FirstPart(c) \in 1..3 /\ Empty \in Text /\ (decent => ~Rude(Empty))  BY NothingIsDecent DEF FirstPart
  <2>2. PICK intro \in Seq(V) : intro = <<Say(FirstPart(c), Empty)>> /\ Asks(intro) = <<>>  BY <2>1, SaidAlone
  <2>3. Len(intro) = 1  BY <2>2
  <2> QED  BY <2>2, <2>3
<1>5. \A v \in V : v.id \in Identity  BY PlayableIsIdentified
<1>6. ASSUME NEW v \in V PROVE v.part \in 1..3  BY DEF Playable, Line
<1> HIDE DEF V
<1>7. PICK s1 \in Seq(V) : s1 = intro \o l1 /\ Asks(s1) = Ids(q1) /\ Len(s1) > 0
  <2>1. intro \o l1 \in Seq(V) /\ Len(intro \o l1) = Len(intro) + Len(l1)  BY Joined
  <2>2. Asks(intro \o l1) = Asks(intro) \o Asks(l1) /\ Asks(l1) \in Seq(Identity)  BY <1>5, AsksOfBoth
  <2>3. <<>> \o Asks(l1) = Asks(l1)  BY <2>2, OntoNothing
  <2>4. Len(l1) \in Nat  OBVIOUS
  <2>5. Asks(intro \o l1) = Ids(q1)  BY <1>1, <1>4, <2>2, <2>3, Zenon
  <2>6. Len(intro \o l1) > 0  BY <1>4, <2>1, <2>4
  <2> QED  BY <2>1, <2>5, <2>6, Zenon
<1>8. PICK s2 \in Seq(V), p2 \in Seq(Posed) : s2 = s1 \o l2 /\ p2 = q1 \o q2 /\ Asks(s2) = Ids(p2) /\ Len(s2) > 0
  <2>1. s1 \o l2 \in Seq(V) /\ Len(s1 \o l2) = Len(s1) + Len(l2) /\ q1 \o q2 \in Seq(Posed)  BY Joined
  <2>2. Asks(s1 \o l2) = Asks(s1) \o Asks(l2)  BY <1>5, AsksOfBoth
  <2>3. Ids(q1 \o q2) = Ids(q1) \o Ids(q2)  BY PosedIsIdentified, IdsOfBoth
  <2>4. Len(l2) \in Nat /\ Len(s1) \in Nat  OBVIOUS
  <2>5. Asks(s1 \o l2) = Ids(q1 \o q2)  BY <1>2, <1>7, <2>2, <2>3, Zenon
  <2>6. Len(s1 \o l2) > 0  BY <1>7, <2>1, <2>4
  <2> QED  BY <2>1, <2>5, <2>6, Zenon
<1>9. PICK s3 \in Seq(V), p3 \in Seq(Posed) : s3 = s2 \o l3 /\ p3 = p2 \o q3 /\ Asks(s3) = Ids(p3) /\ Len(s3) > 0
  <2>1. s2 \o l3 \in Seq(V) /\ Len(s2 \o l3) = Len(s2) + Len(l3) /\ p2 \o q3 \in Seq(Posed)  BY Joined
  <2>2. Asks(s2 \o l3) = Asks(s2) \o Asks(l3)  BY <1>5, AsksOfBoth
  <2>3. Ids(p2 \o q3) = Ids(p2) \o Ids(q3)  BY PosedIsIdentified, IdsOfBoth
  <2>4. Len(l3) \in Nat /\ Len(s2) \in Nat  OBVIOUS
  <2>5. Asks(s2 \o l3) = Ids(p2 \o q3)  BY <1>3, <1>8, <2>2, <2>3, Zenon
  <2>6. Len(s2 \o l3) > 0  BY <1>8, <2>1, <2>4
  <2> QED  BY <2>1, <2>5, <2>6, Zenon
<1>10. Questions(c) = p3  BY <1>1, <1>2, <1>3, <1>8, <1>9 DEF Questions, CardAndMore
<1>11. PICK x \in V : x = Say(Last(s3).part, Empty) /\ x.id = None
  <2>1. Last(s3) \in V  BY <1>9 DEF Last
  <2>2. Last(s3).part \in 1..3  BY <1>6, <2>1
  <2>3. Empty \in Text /\ (decent => ~Rude(Empty))  BY NothingIsDecent
  <2> QED  BY <2>2, <2>3, Said DEF V
<1>12. Build(c) = Append(s3, x)  BY <1>1, <1>2, <1>3, <1>4, <1>7, <1>8, <1>9, <1>11 DEF Build
<1>13. PICK end \in Seq(V) : end = <<x>> /\ Asks(end) = <<>>
  <2>1. PICK end \in Seq(V) : end = <<x>> /\ Len(end) = 1 /\ end[1] = x  BY OneLine
  <2>2. \A i \in 1..Len(end) : end[i].id = None  BY <1>11, <2>1
  <2>3. Asks(end) = <<>>  BY <2>2, AsksNothing
  <2> QED  BY <2>1, <2>3
<1>14. Append(s3, x) = s3 \o end  BY <1>13
<1>15. Asks(s3 \o end) = Asks(s3) \o Asks(end) /\ Asks(s3) \in Seq(Identity)  BY <1>5, AsksOfBoth
<1>16. Asks(s3) \o <<>> = Asks(s3)  BY <1>15
<1>17. Append(s3, x) \in Seq(V)  OBVIOUS
<1> QED  BY <1>9, <1>10, <1>12, <1>13, <1>14, <1>15, <1>16, <1>17 DEF V

-----------------------------------------------------------------------------
(* Each question once *)

Apart(s) == \A i, j \in 1..Len(s) : s[i].id = s[j].id => i = j
Among(s, A) == \A i \in 1..Len(s) : s[i].id \in A

LEMMA ApartTogether ==
    ASSUME NEW V, NEW s \in Seq(V), NEW t \in Seq(V), NEW A, NEW B, A \cap B = {},
           Apart(s), Apart(t), Among(s, A), Among(t, B)
    PROVE  Apart(s \o t) /\ Among(s \o t, A \cup B)
<1>1. PICK m \in Nat, n \in Nat : m = Len(s) /\ n = Len(t)  OBVIOUS
<1>2. PICK u \in Seq(V) : /\ u = s \o t /\ Len(u) = m + n
                          /\ (\A i \in 1..m : u[i] = s[i]) /\ (\A i \in 1..n : u[m + i] = t[i])
  <2>1. /\ s \o t \in Seq(V) /\ Len(s \o t) = Len(s) + Len(t)
        /\ \A i \in 1..Len(s) : (s \o t)[i] = s[i]
        /\ \A i \in 1..Len(t) : (s \o t)[Len(s) + i] = t[i]
    BY Joined
  <2> QED  BY <1>1, <2>1, Zenon
<1>3. ASSUME NEW i \in 1..m + n
      PROVE  \/ i \in 1..m /\ u[i] = s[i] /\ u[i].id \in A
             \/ \E k \in 1..n : i = m + k /\ u[i] = t[k] /\ u[i].id \in B
  <2>1. CASE i <= m
    <3>1. i \in 1..m  BY <2>1
    <3>2. u[i] = s[i] /\ s[i].id \in A  BY <1>1, <1>2, <3>1 DEF Among
    <3> QED  BY <3>1, <3>2
  <2>2. CASE ~(i <= m)
    <3>1. PICK k \in 1..n : i = m + k
      <4>1. i - m \in 1..n /\ i = m + (i - m)  BY <2>2
      <4> QED  BY <4>1
    <3>2. u[m + k] = t[k] /\ t[k].id \in B  BY <1>1, <1>2, <3>1 DEF Among
    <3> QED  BY <3>1, <3>2
  <2> QED  BY <2>1, <2>2
<1>4. ASSUME NEW i \in 1..m + n, NEW j \in 1..m + n, u[i].id = u[j].id PROVE i = j
  <2>1. CASE u[i].id \in A
    <3>1. u[i].id \notin B /\ u[j].id \notin B  BY <1>4, <2>1
    <3>2. i \in 1..m /\ u[i] = s[i] /\ j \in 1..m /\ u[j] = s[j]  BY <1>3, <3>1
    <3> QED  BY <1>1, <1>4, <3>2 DEF Apart
  <2>2. CASE u[i].id \notin A
    <3>1. PICK k \in 1..n : i = m + k /\ u[i] = t[k]  BY <1>3, <2>2
    <3>2. PICK l \in 1..n : j = m + l /\ u[j] = t[l]  BY <1>3, <1>4, <2>2
    <3>3. k = l  BY <1>1, <1>4, <3>1, <3>2 DEF Apart
    <3> QED  BY <3>1, <3>2, <3>3
  <2> QED  BY <2>1, <2>2
<1>5. \A i \in 1..m + n : u[i].id \in A \cup B  BY <1>3
<1>6. Apart(u)  BY <1>2, <1>4 DEF Apart
<1>7. Among(u, A \cup B)  BY <1>2, <1>5 DEF Among
<1> QED  BY <1>2, <1>6, <1>7

LEMMA SameIds ==
    ASSUME NEW V, NEW qs \in Seq(V), NEW part
    PROVE  /\ Apart(qs) => Apart(InPart(part, qs))
           /\ \A A : Among(qs, A) => Among(InPart(part, qs), A)
<1>1. PICK n \in Nat : n = Len(qs) /\ DOMAIN qs = 1..n  OBVIOUS
<1>2. PICK f : f = [i \in 1..n |-> [id |-> qs[i].id, part |-> part, text |-> qs[i].text]]  OBVIOUS
<1>3. InPart(part, qs) = f  BY <1>1, <1>2 DEF InPart
<1>4. Len(f) = n /\ \A i \in 1..n : f[i].id = qs[i].id  BY <1>2
<1> QED  BY <1>1, <1>3, <1>4 DEF Apart, Among

\* The ids of a part begin with its number.
IdsOfPart(part) == {id \in QuestionIds : id[1] = part}

LEMMA FirstPartApart ==
    ASSUME NEW p, Shape1(p)
    PROVE  Apart(Part1Questions(p)) /\ Among(Part1Questions(p), IdsOfPart(1)) /\ Part1Questions(p) \in Seq(Asking)
<1>1. PICK n \in Nat : n = Len(p.topics) /\ DOMAIN p.topics = 1..n  BY TopicalQuestions
<1> DEFINE OfTopic(t) == {id \in IdsOfPart(1) : id[2] = t}
           UpToTopic(t) == {id \in IdsOfPart(1) : id[2] \in 1..t}
<1>2. ASSUME NEW t \in 1..n
      PROVE  /\ p.topics[t].questions \in Seq(Asking)
             /\ Apart(p.topics[t].questions) /\ Among(p.topics[t].questions, OfTopic(t))
  <2>1. PICK qs \in Seq(Asking) : qs = p.topics[t].questions  BY <1>1, TopicalQuestions
  <2>2. \A i \in 1..Len(qs) : qs[i].id = <<1, t, i>>  BY <1>1, <2>1 DEF Shape1
  <2>3. Apart(qs)  BY <2>2 DEF Apart
  <2>4. ASSUME NEW i \in 1..Len(qs) PROVE qs[i].id \in OfTopic(t)
    <3>1. qs[i] \in Asking  OBVIOUS
    <3>2. qs[i].id \in QuestionIds  BY <3>1 DEF Asking
    <3>3. qs[i].id[1] = 1 /\ qs[i].id[2] = t  BY <2>2
    <3> QED  BY <3>2, <3>3 DEF IdsOfPart
  <2>5. Among(qs, OfTopic(t))  BY <2>4 DEF Among
  <2> QED  BY <2>1, <2>3, <2>5
<1>3. PICK qss : qss = [t \in 1..n |-> p.topics[t].questions]  OBVIOUS
<1>4. qss \in [1..n -> Seq(Asking)]
  <2>1. PICK X : X = Seq(Asking)  OBVIOUS
  <2>2. qss \in [1..n -> X]  BY <1>2, <1>3, <2>1
  <2> QED  BY <2>1, <2>2
<1>5. PICK g \in [0..n -> Seq(Asking)] : /\ g[0] = <<>> /\ \A i \in 1..n : g[i] = g[i - 1] \o qss[i]
                                         /\ FlattenSeq(qss) = g[n]
  BY <1>4, Flattening
<1>6. \A i \in 0..n : Apart(g[i]) /\ Among(g[i], UpToTopic(i))
  <2> DEFINE P == {i \in 0..n : Apart(g[i]) /\ Among(g[i], UpToTopic(i))}
  <2>1. 0 \in P
    <3>1. Len(g[0]) = 0  BY <1>5
    <3> QED  BY <3>1 DEF Apart, Among
  <2>2. ASSUME NEW i \in 1..n, i - 1 \in P PROVE i \in P
    <3>1. i - 1 \in 0..n /\ i \in 0..n /\ Apart(g[i - 1]) /\ Among(g[i - 1], UpToTopic(i - 1))
      <4> HIDE DEF UpToTopic
      <4> QED  BY <2>2
    <3>2. PICK a \in Seq(Asking), b \in Seq(Asking) : a = g[i - 1] /\ b = qss[i]  BY <1>4, <3>1
    <3>3. Apart(b) /\ Among(b, OfTopic(i))  BY <1>2, <1>3, <3>2
    <3>4. UpToTopic(i - 1) \cap OfTopic(i) = {}  OBVIOUS
    <3>5. UpToTopic(i) = UpToTopic(i - 1) \cup OfTopic(i)  OBVIOUS
    <3> HIDE DEF UpToTopic, OfTopic
    <3>6. Apart(a \o b) /\ Among(a \o b, UpToTopic(i - 1) \cup OfTopic(i))
      BY <3>1, <3>2, <3>3, <3>4, ApartTogether
    <3>7. g[i] = a \o b  BY <1>5, <3>2
    <3> QED  BY <3>1, <3>5, <3>6, <3>7
  <2>3. \A i \in 0..n : i \in P
    <3> HIDE DEF P
    <3> QED  BY <2>1, <2>2, UpTo
  <2> QED  BY <2>3
<1>7. Part1Questions(p) = g[n]  BY <1>1, <1>3, <1>5 DEF Part1Questions
<1>8. PICK qs \in Seq(Asking) : qs = g[n]  OBVIOUS
<1>9. Apart(qs) /\ Among(qs, UpToTopic(n))
  <2> HIDE DEF UpToTopic
  <2> QED  BY <1>6, <1>8
<1>10. Among(qs, IdsOfPart(1))
  <2>1. UpToTopic(n) \subseteq IdsOfPart(1)  OBVIOUS
  <2> HIDE DEF UpToTopic
  <2> QED  BY <1>9, <2>1 DEF Among
<1> QED  BY <1>7, <1>8, <1>9, <1>10

LEMMA SecondPartApart ==
    ASSUME NEW p, Shape2(p), CueCardText(p) \in Text
    PROVE  /\ Apart(CardAndMore(p)) /\ Among(CardAndMore(p), IdsOfPart(2))
           /\ CardAndMore(p) \in Seq(Posed) /\ Len(CardAndMore(p)) = Len(p.followUps) + 1
<1> DEFINE V == Posed
<1>1. PICK fs \in Seq(Asking) : fs = p.followUps /\ \A i \in 1..Len(fs) : fs[i].id = <<2, i>>  BY DEF Shape2
<1>2. PICK q \in V : q = [id |-> p.id, part |-> 2, text |-> CueCardText(p)] /\ q.id = << 2 >>
  <2>1. p.id = << 2 >> /\ << 2 >> \in QuestionIds  BY NumberInPart DEF QuestionIds, Shape2
  <2>2. PICK q : q = [id |-> p.id, part |-> 2, text |-> CueCardText(p)]  OBVIOUS
  <2>3. 2 \in 1..3  OBVIOUS
  <2>4. q \in Posed  BY <2>1, <2>2, <2>3 DEF Posed
  <2> QED  BY <2>1, <2>2, <2>4
<1>3. PICK b \in Seq(V) : b = InPart(2, fs) /\ Len(b) = Len(fs)
  <2>1. 2 \in 1..3  OBVIOUS
  <2> QED  BY <2>1, InPartPosed
<1>4. PICK a \in Seq(V) : a = <<q>> /\ Len(a) = 1 /\ a[1] = q  BY OneLine
<1>5. CardAndMore(p) = a \o b  BY <1>1, <1>2, <1>3, <1>4 DEF CardAndMore
<1> DEFINE More == {<<2, i>> : i \in Nat}
<1>6. Apart(a) /\ Among(a, {<< 2 >>})
  <2>1. \A i \in 1..Len(a) : i = 1  BY <1>4
  <2> QED  BY <1>2, <1>4, <2>1 DEF Apart, Among
<1>7. Apart(b) /\ Among(b, More)
  <2>1. Apart(fs)  BY <1>1 DEF Apart
  <2>2. ASSUME NEW i \in 1..Len(fs) PROVE fs[i].id \in More
    <3>1. i \in Nat  OBVIOUS
    <3> QED  BY <1>1, <3>1
  <2>3. Among(fs, More)  BY <2>2 DEF Among
  <2> HIDE DEF More
  <2> QED  BY <1>3, <2>1, <2>3, SameIds
<1>8. {<< 2 >>} \cap More = {}
  <2>1. \A i \in Nat : <<2, i>> # << 2 >>
    <3>1. Len(<< 2 >>) = 1 /\ \A i \in Nat : Len(<<2, i>>) = 2  OBVIOUS
    <3> QED  BY <3>1
  <2> QED  BY <2>1
<1>9. {<< 2 >>} \cup More \subseteq IdsOfPart(2)
  <2>1. << 2 >> \in QuestionIds /\ << 2 >>[1] = 2  BY NumberInPart DEF QuestionIds
  <2>2. \A i \in Nat : <<2, i>> \in QuestionIds /\ <<2, i>>[1] = 2  BY DEF QuestionIds
  <2> QED  BY <2>1, <2>2 DEF IdsOfPart
<1> HIDE DEF More
<1>10. Apart(a \o b) /\ Among(a \o b, {<< 2 >>} \cup More)  BY <1>6, <1>7, <1>8, ApartTogether
<1>11. a \o b \in Seq(V) /\ Len(a \o b) = Len(a) + Len(b)  BY Joined
<1>12. Len(a \o b) = Len(fs) + 1  BY <1>3, <1>4, <1>11
<1>13. Among(a \o b, IdsOfPart(2))  BY <1>9, <1>10 DEF Among
<1> QED  BY <1>1, <1>5, <1>10, <1>11, <1>12, <1>13

LEMMA ThirdPartApart ==
    ASSUME NEW p, Shape3(p)
    PROVE  Apart(InPart(3, p.questions)) /\ Among(InPart(3, p.questions), IdsOfPart(3))
<1>1. PICK qs \in Seq(Asking) : qs = p.questions /\ \A i \in 1..Len(qs) : qs[i].id = <<3, i>>  BY DEF Shape3
<1>2. Apart(qs)  BY <1>1 DEF Apart
<1>3. Among(qs, IdsOfPart(3))
  <2>1. ASSUME NEW i \in 1..Len(qs) PROVE qs[i].id \in IdsOfPart(3)
    <3>1. qs[i] \in Asking  OBVIOUS
    <3>2. qs[i].id \in QuestionIds  BY <3>1 DEF Asking
    <3> QED  BY <1>1, <3>2 DEF IdsOfPart
  <2> QED  BY <2>1 DEF Among
<1> QED  BY <1>1, <1>2, <1>3, SameIds


LEMMA QuestionsApart ==
    ASSUME NEW c, Shaped(c), Has(c.part2) => CueCardText(c.part2) \in Text
    PROVE  /\ IsInjective(Ids(Questions(c)))
           /\ Len(Questions(c)) = (IF Has(c.part1) THEN Len(Part1Questions(c.part1)) ELSE 0)
                                  + (IF Has(c.part2) THEN Len(c.part2.followUps) + 1 ELSE 0)
                                  + (IF Has(c.part3) THEN Len(c.part3.questions) ELSE 0)
<1>1. PICK q1 \in Seq(Posed) :
          /\ q1 = (IF Has(c.part1) THEN InPart(1, Part1Questions(c.part1)) ELSE <<>>)
          /\ Apart(q1) /\ Among(q1, IdsOfPart(1))
          /\ Len(q1) = IF Has(c.part1) THEN Len(Part1Questions(c.part1)) ELSE 0
  <2>1. CASE Has(c.part1)
    <3>1. PICK qs \in Seq(Asking) : qs = Part1Questions(c.part1) /\ Apart(qs) /\ Among(qs, IdsOfPart(1))
      BY <2>1, FirstPartApart DEF Shaped
    <3>2. 1 \in 1..3  OBVIOUS
    <3>3. InPart(1, qs) \in Seq(Posed) /\ Len(InPart(1, qs)) = Len(qs)  BY <3>2, InPartPosed
    <3>4. Apart(InPart(1, qs)) /\ Among(InPart(1, qs), IdsOfPart(1))  BY <3>1, SameIds
    <3> QED  BY <2>1, <3>1, <3>3, <3>4
  <2>2. CASE ~Has(c.part1)
    <3>1. <<>> \in Seq(Posed)  OBVIOUS
    <3>2. PICK e \in Seq(Posed) : e = <<>> /\ Len(e) = 0  BY <3>1
    <3>3. Apart(e) /\ Among(e, IdsOfPart(1))  BY <3>2 DEF Apart, Among
    <3>4. e = IF Has(c.part1) THEN InPart(1, Part1Questions(c.part1)) ELSE <<>>  BY <2>2, <3>2, Zenon
    <3>5. Len(e) = 0  BY <3>2
    <3>6. Len(e) = IF Has(c.part1) THEN Len(Part1Questions(c.part1)) ELSE 0  BY <2>2, <3>5
    <3> QED  BY <3>3, <3>4, <3>6, Zenon
  <2> QED  BY <2>1, <2>2
<1>2. PICK q2 \in Seq(Posed) :
          /\ q2 = (IF Has(c.part2) THEN CardAndMore(c.part2) ELSE <<>>)
          /\ Apart(q2) /\ Among(q2, IdsOfPart(2))
          /\ Len(q2) = IF Has(c.part2) THEN Len(c.part2.followUps) + 1 ELSE 0
  <2>1. CASE Has(c.part2)
    <3>1. /\ Apart(CardAndMore(c.part2)) /\ Among(CardAndMore(c.part2), IdsOfPart(2))
          /\ CardAndMore(c.part2) \in Seq(Posed) /\ Len(CardAndMore(c.part2)) = Len(c.part2.followUps) + 1
      BY <2>1, SecondPartApart DEF Shaped
    <3> QED  BY <2>1, <3>1
  <2>2. CASE ~Has(c.part2)
    <3>1. <<>> \in Seq(Posed)  OBVIOUS
    <3>2. PICK e \in Seq(Posed) : e = <<>> /\ Len(e) = 0  BY <3>1
    <3>3. Apart(e) /\ Among(e, IdsOfPart(2))  BY <3>2 DEF Apart, Among
    <3>4. e = IF Has(c.part2) THEN CardAndMore(c.part2) ELSE <<>>  BY <2>2, <3>2, Zenon
    <3>5. Len(e) = 0  BY <3>2
    <3>6. Len(e) = IF Has(c.part2) THEN Len(c.part2.followUps) + 1 ELSE 0  BY <2>2, <3>5
    <3> QED  BY <3>3, <3>4, <3>6, Zenon
  <2> QED  BY <2>1, <2>2
<1>3. PICK q3 \in Seq(Posed) :
          /\ q3 = (IF Has(c.part3) THEN InPart(3, c.part3.questions) ELSE <<>>)
          /\ Apart(q3) /\ Among(q3, IdsOfPart(3))
          /\ Len(q3) = IF Has(c.part3) THEN Len(c.part3.questions) ELSE 0
  <2>1. CASE Has(c.part3)
    <3>1. PICK qs \in Seq(Asking) : qs = c.part3.questions  BY <2>1 DEF Shaped, Shape3
    <3>2. 3 \in 1..3  OBVIOUS
    <3>3. InPart(3, qs) \in Seq(Posed) /\ Len(InPart(3, qs)) = Len(qs)  BY <3>2, InPartPosed
    <3>4. Apart(InPart(3, qs)) /\ Among(InPart(3, qs), IdsOfPart(3))  BY <2>1, <3>1, ThirdPartApart DEF Shaped
    <3> QED  BY <2>1, <3>1, <3>3, <3>4
  <2>2. CASE ~Has(c.part3)
    <3>1. <<>> \in Seq(Posed)  OBVIOUS
    <3>2. PICK e \in Seq(Posed) : e = <<>> /\ Len(e) = 0  BY <3>1
    <3>3. Apart(e) /\ Among(e, IdsOfPart(3))  BY <3>2 DEF Apart, Among
    <3>4. e = IF Has(c.part3) THEN InPart(3, c.part3.questions) ELSE <<>>  BY <2>2, <3>2, Zenon
    <3>5. Len(e) = 0  BY <3>2
    <3>6. Len(e) = IF Has(c.part3) THEN Len(c.part3.questions) ELSE 0  BY <2>2, <3>5
    <3> QED  BY <3>3, <3>4, <3>6, Zenon
  <2> QED  BY <2>1, <2>2
<1>4. /\ IdsOfPart(1) \cap IdsOfPart(2) = {}
      /\ (IdsOfPart(1) \cup IdsOfPart(2)) \cap IdsOfPart(3) = {}
  BY DEF IdsOfPart
<1>5. PICK q12 \in Seq(Posed) : /\ q12 = q1 \o q2 /\ Len(q12) = Len(q1) + Len(q2)
                               /\ Apart(q12) /\ Among(q12, IdsOfPart(1) \cup IdsOfPart(2))
  <2>1. q1 \o q2 \in Seq(Posed) /\ Len(q1 \o q2) = Len(q1) + Len(q2)  BY Joined
  <2>2. Apart(q1 \o q2) /\ Among(q1 \o q2, IdsOfPart(1) \cup IdsOfPart(2))  BY <1>1, <1>2, <1>4, ApartTogether
  <2> QED  BY <2>1, <2>2
<1>6. PICK q \in Seq(Posed) : q = q12 \o q3 /\ Len(q) = Len(q12) + Len(q3) /\ Apart(q)
  <2>1. q12 \o q3 \in Seq(Posed) /\ Len(q12 \o q3) = Len(q12) + Len(q3)  BY Joined
  <2>2. Apart(q12 \o q3)  BY <1>3, <1>4, <1>5, ApartTogether
  <2> QED  BY <2>1, <2>2
<1>7. Questions(c) = q  BY <1>1, <1>2, <1>3, <1>5, <1>6 DEF Questions, CardAndMore
<1>8. IsInjective(Ids(q))
  <2>1. PICK n \in Nat : n = Len(q) /\ DOMAIN q = 1..n  OBVIOUS
  <2>2. PICK f \in Seq(Identity) : f = Ids(q) /\ Len(f) = n /\ \A i \in 1..n : f[i] = q[i].id
    BY <2>1, PosedIsIdentified, Identified
  <2>3. DOMAIN f = 1..n  BY <2>2
  <2>4. \A i, j \in 1..n : q[i].id = q[j].id => i = j  BY <1>6, <2>1 DEF Apart
  <2>5. ASSUME NEW i \in DOMAIN f, NEW j \in DOMAIN f, f[i] = f[j] PROVE i = j
    <3>1. i \in 1..n /\ j \in 1..n  BY <2>3
    <3>2. q[i].id = q[j].id  BY <2>2, <2>5, <3>1
    <3> QED  BY <2>4, <3>1, <3>2
  <2> QED  BY <2>2, <2>5 DEF IsInjective
<1>9. Len(q) = Len(q1) + Len(q2) + Len(q3)  BY <1>5, <1>6
<1>10. Len(Questions(c)) = Len(q1) + Len(q2) + Len(q3)  BY <1>7, <1>9
<1> QED  BY <1>1, <1>2, <1>3, <1>7, <1>8, <1>10

-----------------------------------------------------------------------------
(* What validation is good for *)

Clean1(p) ==
    \A t \in 1..Len(p.topics) :
        /\ ~Rude(p.topics[t].topic)
        /\ \A i \in 1..Len(p.topics[t].questions) : ~Rude(p.topics[t].questions[i].text)
Clean2(p) ==
    /\ ~Rude(p.topic) /\ ~Rude(p.explain)
    /\ \A i \in 1..Len(p.bullets) : ~Rude(p.bullets[i])
    /\ \A i \in 1..Len(p.followUps) : ~Rude(p.followUps[i].text)
Clean3(p) == ~Rude(p.theme) /\ \A i \in 1..Len(p.questions) : ~Rude(p.questions[i].text)

Clean(c) ==
    /\ ~Rude(c.title)
    /\ Has(c.part1) => Clean1(c.part1)
    /\ Has(c.part2) => Clean2(c.part2)
    /\ Has(c.part3) => Clean3(c.part3)

LEMMA AskedFit ==
    ASSUME NEW decent \in BOOLEAN, NEW V, NEW qs \in Seq(V), AllAsk(qs),
           decent => \A i \in 1..Len(qs) : ~Rude(qs[i].text)
    PROVE  Fit(qs, decent)
<1>1. DOMAIN qs = 1..Len(qs)  OBVIOUS
<1> QED  BY <1>1 DEF Fit, AllAsk, TextOK

LEMMA ValidFits ==
    ASSUME NEW decent \in BOOLEAN, NEW c, Shaped(c), Valid(c), decent => Clean(c)
    PROVE  Fits(c, decent)
<1>1. ASSUME Has(c.part1) PROVE Fit1(c.part1, decent)
  <2> DEFINE p == c.part1
  <2>1. Shape1(p) /\ Part1OK(p) /\ (decent => Clean1(p))  BY <1>1 DEF Shaped, Valid, Clean
  <2> HIDE DEF p
  <2>2. ASSUME NEW t \in 1..Len(p.topics)
        PROVE  (decent => ~Rude(p.topics[t].topic)) /\ Fit(p.topics[t].questions, decent)
    <3>1. t \in DOMAIN p.topics  BY <2>1, TopicalQuestions
    <3>2. PICK qs \in Seq(Asking) : qs = p.topics[t].questions  BY <2>1, TopicalQuestions
    <3>3. AllAsk(qs)  BY <2>1, <3>1, <3>2 DEF Part1OK
    <3>4. decent => \A i \in 1..Len(qs) : ~Rude(qs[i].text)  BY <2>1, <3>2 DEF Clean1
    <3>5. Fit(qs, decent)  BY <3>3, <3>4, AskedFit
    <3> QED  BY <2>1, <3>2, <3>5 DEF Clean1
  <2>3. Fit1(p, decent)  BY <2>2 DEF Fit1
  <2> QED  BY <2>3 DEF p
<1>2. ASSUME Has(c.part2) PROVE Fit2(c.part2, decent)
  <2> DEFINE p == c.part2
  <2>1. Shape2(p) /\ Part2OK(p) /\ (decent => Clean2(p))  BY <1>2 DEF Shaped, Valid, Clean
  <2> HIDE DEF p
  <2>2. PICK qs \in Seq(Asking) : qs = p.followUps  BY <2>1 DEF Shape2
  <2>3. AllAsk(qs)  BY <2>1, <2>2 DEF Part2OK
  <2>4. decent => \A i \in 1..Len(qs) : ~Rude(qs[i].text)  BY <2>1, <2>2 DEF Clean2
  <2>5. Fit(qs, decent)  BY <2>3, <2>4, AskedFit
  <2>6. p.topic # Empty  BY <2>1 DEF Part2OK, TextOK
  <2>7. Fit2(p, decent)  BY <2>1, <2>2, <2>5, <2>6 DEF Fit2, Clean2
  <2> QED  BY <2>7 DEF p
<1>3. ASSUME Has(c.part3) PROVE Fit3(c.part3, decent)
  <2> DEFINE p == c.part3
  <2>1. Shape3(p) /\ Part3OK(p, ~Has(c.part2)) /\ (decent => Clean3(p))  BY <1>3 DEF Shaped, Valid, Clean
  <2> HIDE DEF p
  <2>2. PICK qs \in Seq(Asking) : qs = p.questions  BY <2>1 DEF Shape3
  <2>3. AllAsk(qs)  BY <2>1, <2>2 DEF Part3OK
  <2>4. decent => \A i \in 1..Len(qs) : ~Rude(qs[i].text)  BY <2>1, <2>2 DEF Clean3
  <2>5. Fit(qs, decent)  BY <2>3, <2>4, AskedFit
  <2>6. Fit3(p, decent)  BY <2>1, <2>2, <2>5 DEF Fit3, Clean3
  <2> QED  BY <2>6 DEF p
<1> QED  BY <1>1, <1>2, <1>3 DEF Fits

LEMMA CardIsText ==
    ASSUME NEW c, Shaped(c), Valid(c), Has(c.part2)
    PROVE  CueCardText(c.part2) \in Text
<1>1. FALSE \in BOOLEAN /\ (FALSE => Clean(c))  OBVIOUS
<1>2. Fits(c, FALSE)  BY <1>1, ValidFits
<1>3. Shape2(c.part2) /\ Fit2(c.part2, FALSE)  BY <1>2 DEF Shaped, Fits
<1> QED  BY <1>1, <1>3, CardText

LEMMA EnoughSlots ==
    ASSUME NEW c, Shaped(c), Valid(c)
    PROVE  Len(Questions(c)) \in 1..MaxUploadSlots
<1>1. PICK n1 : n1 = IF Has(c.part1) THEN Len(Part1Questions(c.part1)) ELSE 0  OBVIOUS
<1>2. PICK n2 : n2 = IF Has(c.part2) THEN Len(c.part2.followUps) + 1 ELSE 0  OBVIOUS
<1>3. PICK n3 : n3 = IF Has(c.part3) THEN Len(c.part3.questions) ELSE 0  OBVIOUS
<1>4. Len(Questions(c)) = n1 + n2 + n3  BY <1>1, <1>2, <1>3, CardIsText, QuestionsApart
<1>5. /\ MaxPart1Questions \in Nat /\ MaxPart2FollowUps \in Nat /\ MaxPart3Questions \in Nat
      /\ MinPart1Questions \in 1..MaxPart1Questions /\ MinPart3Questions \in 1..MaxPart3Questions
      /\ MaxUploadSlots \in Nat
      /\ MaxPart1Questions + 1 + MaxPart2FollowUps + MaxPart3Questions <= MaxUploadSlots
  BY ContentAssumption, ExamAssumption
<1>6. n1 \in 0..MaxPart1Questions /\ (Has(c.part1) => n1 > 0)
  <2>1. Has(c.part1) => Len(Part1Questions(c.part1)) \in MinPart1Questions..MaxPart1Questions  BY DEF Valid, Part1OK
  <2> QED  BY <1>1, <1>5, <2>1
<1>7. n2 \in 0..MaxPart2FollowUps + 1 /\ (Has(c.part2) => n2 > 0)
  <2>1. Has(c.part2) => Len(c.part2.followUps) <= MaxPart2FollowUps  BY DEF Valid, Part2OK
  <2>2. Has(c.part2) => Len(c.part2.followUps) \in Nat  BY DEF Shaped, Shape2
  <2> QED  BY <1>2, <1>5, <2>1, <2>2
<1>8. n3 \in 0..MaxPart3Questions /\ (Has(c.part3) => n3 > 0)
  <2>1. Has(c.part3) => Len(c.part3.questions) \in MinPart3Questions..MaxPart3Questions  BY DEF Valid, Part3OK
  <2> QED  BY <1>3, <1>5, <2>1
<1>9. Has(c.part1) \/ Has(c.part2) \/ Has(c.part3)  BY DEF Valid, Mode
<1> QED  BY <1>4, <1>5, <1>6, <1>7, <1>8, <1>9

\* A content that passes validation makes an exam that can be taken.
LEMMA ValidIsExaminable ==
    ASSUME NEW decent \in BOOLEAN, NEW c, Shaped(c), Valid(c), decent => Clean(c)
    PROVE  /\ Build(c) \in Seq(Playable(decent))
           /\ Questions(c) \in Seq(Posed)
           /\ Ids(Answerable(Build(c))) = Ids(Questions(c))
           /\ IsInjective(Ids(Questions(c)))
           /\ Len(Questions(c)) \in 1..MaxUploadSlots
<1>1. Fits(c, decent)  BY ValidFits
<1>2. IsInjective(Ids(Questions(c)))  BY CardIsText, QuestionsApart
<1> QED  BY <1>1, <1>2, ScriptAsks, EnoughSlots DEF Asks

LEMMA PlayableLines ==
    ASSUME NEW decent \in BOOLEAN, NEW s \in Seq(Playable(decent))
    PROVE  \A i \in DOMAIN s :
             /\ s[i].kind \in {"ask", "cue_card"} => s[i].text # Empty
             /\ s[i].id # None => HardLimit(s[i]) <= MaxAnswerSeconds
             /\ decent => ~Rude(s[i].text)
<1> SUFFICES ASSUME NEW i \in DOMAIN s
             PROVE  /\ s[i].kind \in {"ask", "cue_card"} => s[i].text # Empty
                    /\ s[i].id # None => HardLimit(s[i]) <= MaxAnswerSeconds
                    /\ decent => ~Rude(s[i].text)
  OBVIOUS
<1>1. PICK l \in Playable(decent) : l = s[i]  OBVIOUS
<1>2. l.id # None => HardLimit(l) \in 1..MaxAnswerSeconds
  <2>1. l.id # None => Durations(l) \subseteq 1..MaxAnswerSeconds  BY DEF Playable
  <2> QED  BY <2>1 DEF Durations
<1> QED  BY <1>1, <1>2, Limits DEF Playable

-----------------------------------------------------------------------------
(* What moderation is good for *)

LEMMA MembersOfBoth ==
    ASSUME NEW V, NEW s \in Seq(V), NEW t \in Seq(V)
    PROVE  ToSet(s) \cup ToSet(t) \subseteq ToSet(s \o t)
<1>1. PICK m \in Nat, n \in Nat : m = Len(s) /\ n = Len(t) /\ DOMAIN s = 1..m /\ DOMAIN t = 1..n  OBVIOUS
<1>2. PICK u \in Seq(V) : /\ u = s \o t /\ Len(u) = m + n
                          /\ (\A i \in 1..m : u[i] = s[i]) /\ (\A i \in 1..n : u[m + i] = t[i])
  <2>1. /\ s \o t \in Seq(V) /\ Len(s \o t) = Len(s) + Len(t)
        /\ \A i \in 1..Len(s) : (s \o t)[i] = s[i]
        /\ \A i \in 1..Len(t) : (s \o t)[Len(s) + i] = t[i]
    BY Joined
  <2> QED  BY <1>1, <2>1, Zenon
<1>3. DOMAIN u = 1..m + n  BY <1>2
<1>4. ASSUME NEW i \in DOMAIN s PROVE s[i] \in ToSet(u)
  <2>1. i \in DOMAIN u /\ u[i] = s[i]  BY <1>1, <1>2, <1>3
  <2> QED  BY <2>1 DEF ToSet
<1>5. ASSUME NEW i \in DOMAIN t PROVE t[i] \in ToSet(u)
  <2>1. m + i \in DOMAIN u /\ u[m + i] = t[i]  BY <1>1, <1>2, <1>3
  <2> QED  BY <2>1 DEF ToSet
<1>6. ASSUME NEW x, x \in ToSet(s) \/ x \in ToSet(t) PROVE x \in ToSet(u)
  <2>1. CASE x \in ToSet(s)
    <3>1. PICK i \in DOMAIN s : x = s[i]  BY <2>1 DEF ToSet
    <3> QED  BY <1>4, <3>1
  <2>2. CASE x \in ToSet(t)
    <3>1. PICK i \in DOMAIN t : x = t[i]  BY <2>2 DEF ToSet
    <3> QED  BY <1>5, <3>1
  <2> QED  BY <1>6, <2>1, <2>2
<1> QED  BY <1>2, <1>6

LEMMA MembersOfAll ==
    ASSUME NEW V, NEW n \in Nat, NEW ss \in [1..n -> Seq(V)], NEW t \in 1..n
    PROVE  ToSet(ss[t]) \subseteq ToSet(FlattenSeq(ss))
<1>1. PICK f \in [0..n -> Seq(V)] : /\ f[0] = <<>> /\ \A i \in 1..n : f[i] = f[i - 1] \o ss[i]
                                    /\ FlattenSeq(ss) = f[n]
  BY Flattening
<1> DEFINE P == {i \in 0..n : i >= t => ToSet(ss[t]) \subseteq ToSet(f[i])}
<1>2. 0 \in P  OBVIOUS
<1>3. ASSUME NEW i \in 1..n, i - 1 \in P PROVE i \in P
  <2>1. i - 1 \in 0..n /\ i \in 0..n /\ (i - 1 >= t => ToSet(ss[t]) \subseteq ToSet(f[i - 1]))  BY <1>3
  <2>2. PICK a \in Seq(V), b \in Seq(V) : a = f[i - 1] /\ b = ss[i]  BY <2>1
  <2>3. ToSet(a) \cup ToSet(b) \subseteq ToSet(a \o b)  BY MembersOfBoth
  <2>4. f[i] = a \o b  BY <1>1, <2>2
  <2>5. i >= t => i = t \/ i - 1 >= t  OBVIOUS
  <2>6. i >= t => ToSet(ss[t]) \subseteq ToSet(f[i])
    <3>1. CASE i = t
      <4>1. ToSet(ss[t]) = ToSet(b)  BY <2>2, <3>1, Zenon
      <4>2. ToSet(f[i]) = ToSet(a \o b)  BY <2>4, Zenon
      <4> QED  BY <2>3, <4>1, <4>2, Zenon
    <3>2. CASE i - 1 >= t
      <4>1. ToSet(ss[t]) \subseteq ToSet(a)  BY <2>1, <2>2, <3>2, Zenon
      <4>2. ToSet(f[i]) = ToSet(a \o b)  BY <2>4, Zenon
      <4> QED  BY <2>3, <4>1, <4>2, Zenon
    <3> QED  BY <2>5, <3>1, <3>2
  <2> QED  BY <2>1, <2>6
<1>4. \A i \in 0..n : i \in P
  <2> HIDE DEF P
  <2> QED  BY <1>2, <1>3, UpTo
<1>5. n \in P  BY <1>4
<1> QED  BY <1>1, <1>5

LEMMA CardTyped ==
    ASSUME NEW p, Shape2(p)
    PROVE  CueCardText(p) \in Text
<1>1. PICK topic \in Text, explain \in Text : topic = p.topic /\ explain = p.explain  BY DEF Shape2
<1>2. PICK bullets \in Seq(Text) : bullets = p.bullets  BY DEF Shape2
<1>3. PICK n \in Nat : n = Len(bullets) /\ bullets \in [1..n -> Text]  OBVIOUS
<1>4. PICK middle \in Text : middle = FlattenSeq(bullets)  BY <1>3, AllDecent
<1>5. PICK front \in Text : front = topic \o middle  BY BothDecent
<1>6. front \o explain \in Text  BY BothDecent
<1> QED  BY <1>1, <1>2, <1>4, <1>5, <1>6 DEF CueCardText

\* The questions of each part are among the questions.
LEMMA QuestionsOfParts ==
    ASSUME NEW c, Shaped(c)
    PROVE  /\ Has(c.part1) => ToSet(InPart(1, Part1Questions(c.part1))) \subseteq ToSet(Questions(c))
           /\ Has(c.part2) => ToSet(InPart(2, c.part2.followUps)) \subseteq ToSet(Questions(c))
           /\ Has(c.part3) => ToSet(InPart(3, c.part3.questions)) \subseteq ToSet(Questions(c))
<1>0. 1 \in 1..3 /\ 2 \in 1..3 /\ 3 \in 1..3 /\ <<>> \in Seq(Posed)  OBVIOUS
<1>1. PICK q1 \in Seq(Posed) : q1 = IF Has(c.part1) THEN InPart(1, Part1Questions(c.part1)) ELSE <<>>
  <2>1. Has(c.part1) => InPart(1, Part1Questions(c.part1)) \in Seq(Posed)
    BY <1>0, FirstPartApart, InPartPosed DEF Shaped
  <2> QED  BY <1>0, <2>1
<1>2. ASSUME Has(c.part2) PROVE \E q \in Posed : q = [id |-> c.part2.id, part |-> 2, text |-> CueCardText(c.part2)]
  <2>1. Shape2(c.part2)  BY <1>2 DEF Shaped
  <2>2. CueCardText(c.part2) \in Text  BY <2>1, CardTyped
  <2>3. c.part2.id = << 2 >> /\ << 2 >> \in QuestionIds  BY <2>1, NumberInPart DEF Shape2, QuestionIds
  <2> QED  BY <1>0, <2>2, <2>3 DEF Posed
<1>3. ASSUME Has(c.part2)
      PROVE  \E a \in Seq(Posed), b \in Seq(Posed) :
                a = <<[id |-> c.part2.id, part |-> 2, text |-> CueCardText(c.part2)]>> /\ b = InPart(2, c.part2.followUps)
  <2>1. PICK q \in Posed : q = [id |-> c.part2.id, part |-> 2, text |-> CueCardText(c.part2)]  BY <1>2, <1>3
  <2>2. PICK a \in Seq(Posed) : a = <<q>>  BY OneLine
  <2>3. PICK fs \in Seq(Asking) : fs = c.part2.followUps  BY <1>3 DEF Shaped, Shape2
  <2>4. InPart(2, fs) \in Seq(Posed)  BY <1>0, InPartPosed
  <2> QED  BY <2>1, <2>2, <2>3, <2>4
<1>4. PICK q2 \in Seq(Posed) : /\ q2 = IF Has(c.part2) THEN CardAndMore(c.part2) ELSE <<>>
                               /\ Has(c.part2) => ToSet(InPart(2, c.part2.followUps)) \subseteq ToSet(q2)
  <2>1. CASE Has(c.part2)
    <3>1. PICK a \in Seq(Posed), b \in Seq(Posed) :
             a = <<[id |-> c.part2.id, part |-> 2, text |-> CueCardText(c.part2)]>> /\ b = InPart(2, c.part2.followUps)
      BY <1>3, <2>1
    <3>2. CardAndMore(c.part2) = a \o b  BY <3>1 DEF CardAndMore
    <3>3. a \o b \in Seq(Posed)  BY Joined
    <3>4. ToSet(b) \subseteq ToSet(a \o b)  BY MembersOfBoth
    <3> QED  BY <2>1, <3>1, <3>2, <3>3, <3>4, Zenon
  <2>2. CASE ~Has(c.part2)  BY <1>0, <2>2
  <2> QED  BY <2>1, <2>2
<1>5. PICK q3 \in Seq(Posed) : q3 = IF Has(c.part3) THEN InPart(3, c.part3.questions) ELSE <<>>
  <2>1. Has(c.part3) => c.part3.questions \in Seq(Asking)  BY DEF Shaped, Shape3
  <2>2. Has(c.part3) => InPart(3, c.part3.questions) \in Seq(Posed)  BY <1>0, <2>1, InPartPosed
  <2> QED  BY <1>0, <2>2
<1>6. Questions(c) = q1 \o q2 \o q3  BY <1>1, <1>4, <1>5 DEF Questions, CardAndMore
<1>7. PICK q12 \in Seq(Posed) : q12 = q1 \o q2  BY Joined
<1>8. ToSet(q1) \cup ToSet(q2) \subseteq ToSet(q12)  BY <1>7, MembersOfBoth
<1>9. ToSet(q12) \cup ToSet(q3) \subseteq ToSet(q12 \o q3)  BY MembersOfBoth
<1>10. Questions(c) = q12 \o q3  BY <1>6, <1>7
<1>11. ToSet(q1) \subseteq ToSet(Questions(c)) /\ ToSet(q2) \subseteq ToSet(Questions(c)) /\ ToSet(q3) \subseteq ToSet(Questions(c))
  BY <1>8, <1>9, <1>10
<1>12. Has(c.part1) => ToSet(InPart(1, Part1Questions(c.part1))) = ToSet(q1)  BY <1>1, Zenon
<1>13. Has(c.part3) => ToSet(InPart(3, c.part3.questions)) = ToSet(q3)  BY <1>5, Zenon
<1> QED  BY <1>4, <1>11, <1>12, <1>13

\* The texts a moderator sees are all there are.
LEMMA AllTextsAreAll ==
    ASSUME NEW c, Shaped(c), \A text \in AllTexts(c) : ~Rude(text)
    PROVE  Clean(c)
<1> DEFINE All == UNION {{c.title}, Prompts(c),
           IF Has(c.part1) THEN Topics(c.part1) ELSE {},
           IF Has(c.part2) THEN {c.part2.topic, c.part2.explain} \cup ToSet(c.part2.bullets) ELSE {},
           IF Has(c.part3) THEN {c.part3.theme} ELSE {}}
<1>0. AllTexts(c) = All \ {Empty}  BY DEF AllTexts
<1>1. ASSUME NEW text \in All PROVE ~Rude(text)
  <2> HIDE DEF All
  <2>1. text = Empty \/ text \in AllTexts(c)  BY <1>0
  <2> QED  BY <2>1, NothingIsDecent
<1>2. ~Rude(c.title)  BY <1>1
<1>3. \A text \in Prompts(c) : ~Rude(text)  BY <1>1
<1>4. Has(c.part1) => \A text \in Topics(c.part1) : ~Rude(text)  BY <1>1
<1>5. Has(c.part2) => /\ ~Rude(c.part2.topic) /\ ~Rude(c.part2.explain)
                      /\ \A text \in ToSet(c.part2.bullets) : ~Rude(text)
  BY <1>1
<1>6. Has(c.part3) => ~Rude(c.part3.theme)  BY <1>1
<1> HIDE <1>1
<1> HIDE DEF All
<1>7. ASSUME NEW q \in ToSet(Questions(c)), q.id # << 2 >> PROVE ~Rude(q.text)
  <2>1. q.text \in Prompts(c)  BY <1>7 DEF Prompts
  <2> QED  BY <1>3, <2>1
<1>8. ASSUME NEW qs \in Seq(Asking), NEW part, ToSet(InPart(part, qs)) \subseteq ToSet(Questions(c)),
             NEW i \in 1..Len(qs), qs[i].id # << 2 >>
      PROVE  ~Rude(qs[i].text)
  <2>1. i \in DOMAIN qs /\ i \in DOMAIN InPart(part, qs)  BY DEF InPart
  <2>2. InPart(part, qs)[i].id = qs[i].id /\ InPart(part, qs)[i].text = qs[i].text  BY <2>1 DEF InPart
  <2>3. InPart(part, qs)[i] \in ToSet(Questions(c))  BY <1>8, <2>1 DEF ToSet
  <2> QED  BY <1>7, <1>8, <2>2, <2>3
<1>9. ASSUME Has(c.part1) PROVE Clean1(c.part1)
  <2> DEFINE p == c.part1
  <2>1. Shape1(p)  BY <1>9 DEF Shaped
  <2>2. PICK all \in Seq(Asking) : all = Part1Questions(p)  BY <2>1, FirstPartApart
  <2>3. ToSet(InPart(1, all)) \subseteq ToSet(Questions(c))  BY <1>9, <2>2, QuestionsOfParts
  <2>4. PICK n \in Nat : n = Len(p.topics) /\ DOMAIN p.topics = 1..n  BY <2>1, TopicalQuestions
  <2>5. PICK qss : qss = [t \in 1..n |-> p.topics[t].questions]  OBVIOUS
  <2>6. qss \in [1..n -> Seq(Asking)]
    <3>1. PICK X : X = Seq(Asking)  OBVIOUS
    <3>2. qss \in [1..n -> X]  BY <2>1, <2>4, <2>5, <3>1, TopicalQuestions
    <3> QED  BY <3>1, <3>2
  <2>7. all = FlattenSeq(qss)  BY <2>2, <2>4, <2>5 DEF Part1Questions
  <2>8. ASSUME NEW t \in 1..n PROVE ~Rude(p.topics[t].topic)
    <3>1. p.topics[t].topic \in Topics(p)  BY <2>4 DEF Topics
    <3> QED  BY <1>4, <1>9, <3>1
  <2>9. ASSUME NEW t \in 1..n, NEW i \in 1..Len(p.topics[t].questions) PROVE ~Rude(p.topics[t].questions[i].text)
    <3>1. PICK qs \in Seq(Asking) : qs = p.topics[t].questions /\ qs = qss[t]  BY <2>5, <2>6
    <3>2. qs[i].id = <<1, t, i>> /\ i \in DOMAIN qs
      <4>1. i \in 1..Len(qs)  BY <3>1
      <4>2. p.topics[t].questions[i].id = <<1, t, i>>  BY <2>1, <2>4 DEF Shape1
      <4> QED  BY <3>1, <4>1, <4>2
    <3>3. ToSet(qs) \subseteq ToSet(all)  BY <2>6, <2>7, <3>1, MembersOfAll
    <3>4. PICK k \in DOMAIN all : all[k] = qs[i]
      <4>1. qs[i] \in ToSet(all)  BY <3>2, <3>3 DEF ToSet
      <4> QED  BY <4>1 DEF ToSet
    <3>5. k \in 1..Len(all)  OBVIOUS
    <3>6. all[k].id # << 2 >>
      <4>1. all[k].id[1] = 1 /\ << 2 >>[1] = 2  BY <3>2, <3>4
      <4> QED  BY <4>1
    <3>7. ~Rude(all[k].text)  BY <1>8, <2>3, <3>5, <3>6
    <3> QED  BY <3>1, <3>4, <3>7
  <2> QED  BY <2>4, <2>8, <2>9 DEF Clean1
<1>10. ASSUME Has(c.part2) PROVE Clean2(c.part2)
  <2> DEFINE p == c.part2
  <2>1. Shape2(p)  BY <1>10 DEF Shaped
  <2>2. PICK fs \in Seq(Asking) : fs = p.followUps /\ \A i \in 1..Len(fs) : fs[i].id = <<2, i>>  BY <2>1 DEF Shape2
  <2>3. ToSet(InPart(2, fs)) \subseteq ToSet(Questions(c))  BY <1>10, <2>2, QuestionsOfParts
  <2>4. ASSUME NEW i \in 1..Len(fs) PROVE ~Rude(fs[i].text)
    <3>1. fs[i].id # << 2 >>
      <4>1. Len(<< 2 >>) = 1 /\ Len(<<2, i>>) = 2  OBVIOUS
      <4> QED  BY <2>2, <4>1
    <3> QED  BY <1>8, <2>3, <3>1
  <2>5. ASSUME NEW i \in 1..Len(p.bullets) PROVE ~Rude(p.bullets[i])
    <3>1. PICK bullets \in Seq(Text) : bullets = p.bullets  BY <2>1 DEF Shape2
    <3>2. i \in DOMAIN bullets  BY <3>1
    <3>3. p.bullets[i] \in ToSet(p.bullets)  BY <3>1, <3>2 DEF ToSet
    <3> QED  BY <1>5, <1>10, <3>3
  <2> QED  BY <1>5, <1>10, <2>2, <2>4, <2>5 DEF Clean2
<1>11. ASSUME Has(c.part3) PROVE Clean3(c.part3)
  <2> DEFINE p == c.part3
  <2>1. Shape3(p)  BY <1>11 DEF Shaped
  <2>2. PICK qs \in Seq(Asking) : qs = p.questions /\ \A i \in 1..Len(qs) : qs[i].id = <<3, i>>  BY <2>1 DEF Shape3
  <2>3. ToSet(InPart(3, qs)) \subseteq ToSet(Questions(c))  BY <1>11, <2>2, QuestionsOfParts
  <2>4. ASSUME NEW i \in 1..Len(qs) PROVE ~Rude(qs[i].text)
    <3>1. qs[i].id # << 2 >>
      <4>1. qs[i].id[1] = 3 /\ << 2 >>[1] = 2  BY <2>2
      <4> QED  BY <4>1
    <3> QED  BY <1>8, <2>3, <3>1
  <2> QED  BY <1>6, <1>11, <2>2, <2>4 DEF Clean3
<1> QED  BY <1>2, <1>9, <1>10, <1>11 DEF Clean

-----------------------------------------------------------------------------
(* Composing *)

LEMMA NumberedDecently ==
    ASSUME NEW qs \in Seq(Prompt), NEW part \in Nat, \A i \in 1..Len(qs) : ~Rude(qs[i].text)
    PROVE  LET ns == Numbered(qs, <<part>>) IN \A i \in 1..Len(ns) : ~Rude(ns[i].text)
<1>1. PICK n \in Nat : n = Len(qs) /\ DOMAIN qs = 1..n  OBVIOUS
<1>2. PICK ns : ns = Numbered(qs, <<part>>)  OBVIOUS
<1>3. ns = [i \in 1..n |-> [id |-> Append(<<part>>, i), text |-> TrimSpace(qs[i].text)]]  BY <1>1, <1>2 DEF Numbered
<1>4. Len(ns) = n /\ \A i \in 1..n : ns[i].text = TrimSpace(qs[i].text)  BY <1>3
<1>5. ASSUME NEW i \in 1..n PROVE ~Rude(ns[i].text)
  <2>1. qs[i] \in Prompt /\ ~Rude(qs[i].text)  BY <1>1
  <2>2. qs[i].text \in Text  BY <2>1 DEF Prompt
  <2>3. ~Rude(TrimSpace(qs[i].text))  BY <2>1, <2>2, Trimmed DEF StaysDecent
  <2> QED  BY <1>4, <2>3
<1> QED  BY <1>2, <1>4, <1>5

\* Normalising the parts of an official test once more leaves them clean.
LEMMA Normal1Clean ==
    ASSUME NEW p \in SpeakingPart1, Clean1(p)
    PROVE  Clean1(NormalPart1(p))
<1> DEFINE Given == [topic : Text, questions : Seq(Prompt)]
<1>1. p.topics \in Seq(Given)  BY DEF SpeakingPart1
<1>2. PICK n \in Nat : n = Len(p.topics) /\ DOMAIN p.topics = 1..n
  <2> HIDE DEF Given
  <2> QED  BY <1>1
<1>3. PICK a : a = [t \in 1..n |-> [topic |-> TrimSpace(p.topics[t].topic),
                                    questions |-> Numbered(p.topics[t].questions, <<1, t>>)]]
  OBVIOUS
<1>4. NormalPart1(p).topics = a  BY <1>2, <1>3 DEF NormalPart1
<1>5. Len(a) = n /\ \A t \in 1..n : /\ a[t].topic = TrimSpace(p.topics[t].topic)
                                     /\ a[t].questions = Numbered(p.topics[t].questions, <<1, t>>)
  BY <1>3
<1>6. ASSUME NEW t \in 1..n
      PROVE ~Rude(a[t].topic) /\ \A i \in 1..Len(a[t].questions) : ~Rude(a[t].questions[i].text)
  <2>1. p.topics[t] \in Given
    <3> HIDE DEF Given
    <3> QED  BY <1>1, <1>2
  <2>2. PICK qs \in Seq(Prompt) : qs = p.topics[t].questions  BY <2>1
  <2>3. ~Rude(p.topics[t].topic) /\ \A i \in 1..Len(qs) : ~Rude(qs[i].text)  BY <1>2, <2>2 DEF Clean1
  <2>4. ~Rude(TrimSpace(p.topics[t].topic))  BY <2>1, <2>3, Trimmed DEF StaysDecent
  <2>5. PICK m \in Nat : m = Len(qs) /\ DOMAIN qs = 1..m  OBVIOUS
  <2>6. a[t].questions = [i \in 1..m |-> [id |-> Append(<<1, t>>, i), text |-> TrimSpace(qs[i].text)]]
    BY <1>5, <2>2, <2>5 DEF Numbered
  <2>7. Len(a[t].questions) = m /\ \A i \in 1..m : a[t].questions[i].text = TrimSpace(qs[i].text)  BY <2>6
  <2>8. ASSUME NEW i \in 1..m PROVE ~Rude(a[t].questions[i].text)
    <3>1. qs[i] \in Prompt /\ ~Rude(qs[i].text)  BY <2>3, <2>5
    <3>2. qs[i].text \in Text  BY <3>1 DEF Prompt
    <3>3. ~Rude(TrimSpace(qs[i].text))  BY <3>1, <3>2, Trimmed DEF StaysDecent
    <3> QED  BY <2>7, <3>3
  <2> QED  BY <1>5, <2>4, <2>7, <2>8
<1> QED  BY <1>4, <1>5, <1>6 DEF Clean1

LEMMA Normal2Clean ==
    ASSUME NEW p \in SpeakingPart2, Clean2(p)
    PROVE  Clean2(NormalPart2(p))
<1>1. /\ p.topic \in Text /\ p.explain \in Text /\ p.bullets \in Seq(Text) /\ p.followUps \in Seq(Prompt)
  BY DEF SpeakingPart2
<1>2. /\ NormalPart2(p).topic = TrimSpace(p.topic)
      /\ NormalPart2(p).explain = TrimSpace(p.explain)
      /\ NormalPart2(p).bullets = [i \in DOMAIN p.bullets |-> TrimSpace(p.bullets[i])]
      /\ NormalPart2(p).followUps = Numbered(p.followUps, << 2 >>)
  BY DEF NormalPart2
<1>3. ~Rude(TrimSpace(p.topic)) /\ ~Rude(TrimSpace(p.explain))  BY <1>1, Trimmed DEF StaysDecent, Clean2
<1>4. PICK n \in Nat : n = Len(p.bullets) /\ DOMAIN p.bullets = 1..n  BY <1>1
<1>5. Len(NormalPart2(p).bullets) = n /\ \A i \in 1..n : NormalPart2(p).bullets[i] = TrimSpace(p.bullets[i])
  BY <1>2, <1>4
<1>6. ASSUME NEW i \in 1..n PROVE ~Rude(NormalPart2(p).bullets[i])
  <2>1. p.bullets[i] \in Text /\ ~Rude(p.bullets[i])  BY <1>1, <1>4 DEF Clean2
  <2> QED  BY <1>5, <2>1, Trimmed DEF StaysDecent
<1>7. \A i \in 1..Len(NormalPart2(p).followUps) : ~Rude(NormalPart2(p).followUps[i].text)
  <2>1. PICK qs \in Seq(Prompt) : qs = p.followUps /\ \A i \in 1..Len(qs) : ~Rude(qs[i].text)  BY <1>1 DEF Clean2
  <2>2. \A i \in 1..Len(Numbered(qs, << 2 >>)) : ~Rude(Numbered(qs, << 2 >>)[i].text)  BY <2>1, NumberedDecently
  <2> QED  BY <1>2, <2>1, <2>2
<1> QED  BY <1>2, <1>3, <1>5, <1>6, <1>7 DEF Clean2

LEMMA Normal3Clean ==
    ASSUME NEW p \in SpeakingPart3, Clean3(p)
    PROVE  Clean3(NormalPart3(p))
<1>1. p.theme \in Text /\ p.questions \in Seq(Prompt)  BY DEF SpeakingPart3
<1>2. NormalPart3(p).theme = TrimSpace(p.theme) /\ NormalPart3(p).questions = Numbered(p.questions, << 3 >>)
  BY DEF NormalPart3
<1>3. ~Rude(TrimSpace(p.theme))  BY <1>1, Trimmed DEF StaysDecent, Clean3
<1>4. PICK qs \in Seq(Prompt) : qs = p.questions /\ \A i \in 1..Len(qs) : ~Rude(qs[i].text)  BY <1>1 DEF Clean3
<1>5. \A i \in 1..Len(Numbered(qs, << 3 >>)) : ~Rude(Numbered(qs, << 3 >>)[i].text)  BY <1>4, NumberedDecently
<1> QED  BY <1>2, <1>3, <1>4, <1>5 DEF Clean3

LEMMA BankIsSound ==
    ASSUME NEW b \in DOMAIN Bank
    PROVE  /\ Bank[b] \in Contents /\ Shaped(Bank[b]) /\ Valid(Bank[b]) /\ Clean(Bank[b])
<1>1. PICK c \in Contents : c = Bank[b]  BY BankAssumption
<1>2. Valid(c) /\ c = Normalize(c) /\ \A text \in AllTexts(c) : ~Rude(text)  BY <1>1, BankAssumption
<1>3. Shaped(Normalize(c))  BY NormalShape DEF Contents
<1>4. Shaped(c)  BY <1>2, <1>3
<1>5. Clean(c)  BY <1>2, <1>4, AllTextsAreAll
<1> QED  BY <1>1, <1>2, <1>4, <1>5

\* The part another follows on from.
LEMMA BankPart3Sound ==
    ASSUME NEW b \in DOMAIN Bank, Has(BankPart3(Bank[b]))
    PROVE  BankPart3(Bank[b]) \in SpeakingPart3 /\ Clean3(BankPart3(Bank[b]))
<1>1. PICK c \in Contents : c = Bank[b] /\ Shaped(c) /\ Clean(c)  BY BankIsSound
<1>2. CASE Has(c.part3) /\ c.part3.theme = Empty /\ Has(c.part2)
  <2>1. PICK theme : theme = Part2Subject(c.part2.topic)  OBVIOUS
  <2>2. theme \in Text /\ ~Rude(theme)
    <3>1. c.part2.topic \in Text /\ ~Rude(c.part2.topic)  BY <1>1, <1>2 DEF Shaped, Shape2, Clean, Clean2
    <3> QED  BY <2>1, <3>1, SubjectOfTopic DEF StaysDecent
  <2>3. PICK p \in SpeakingPart3 : p = c.part3 /\ Clean3(p)  BY <1>1, <1>2 DEF Contents, Has, Clean
  <2>4. BankPart3(c) = [p EXCEPT !.theme = theme]  BY <1>2, <2>1, <2>3 DEF BankPart3
  <2>5. [p EXCEPT !.theme = theme] \in SpeakingPart3  BY <2>2, <2>3 DEF SpeakingPart3
  <2>6. [p EXCEPT !.theme = theme].theme = theme /\ [p EXCEPT !.theme = theme].questions = p.questions
    BY <2>3 DEF SpeakingPart3
  <2>7. Clean3([p EXCEPT !.theme = theme])  BY <2>2, <2>3, <2>6 DEF Clean3
  <2> QED  BY <1>1, <2>4, <2>5, <2>7
<1>3. CASE ~(Has(c.part3) /\ c.part3.theme = Empty /\ Has(c.part2))
  <2>1. BankPart3(c) = c.part3  BY <1>3 DEF BankPart3
  <2> QED  BY <1>1, <2>1 DEF Contents, Has, Clean
<1> QED  BY <1>2, <1>3

LEMMA ComposedIsSound ==
    ASSUME NEW req \in Requests, SourcesOK(req)
    PROVE  Shaped(Composed(req)) /\ (~Flagged(req) => Clean(Composed(req)))
<1>1. ASSUME NEW part \in 1..3
      PROVE  /\ ~Has(req.parts[part]) => Picked(req.parts[part], part) = None
             /\ Has(req.parts[part]) => Has(Picked(req.parts[part], part))
             /\ FromBank(req.parts[part]) => req.parts[part].bank \in DOMAIN Bank
             /\ (Has(req.parts[part]) /\ ~FromBank(req.parts[part])) =>
                    /\ Picked(req.parts[part], part) = req.parts[part].custom
                    /\ Picked(req.parts[part], part) \in
                         CASE part = 1 -> SpeakingPart1 [] part = 2 -> SpeakingPart2 [] part = 3 -> SpeakingPart3
  <2>1. SourceOK(req.parts[part]) /\ (Has(req.parts[part]) => Has(Picked(req.parts[part], part)))
    BY DEF SourcesOK
  <2>2. ~Has(req.parts[part]) => Picked(req.parts[part], part) = None  BY DEF Picked
  <2>3. FromBank(req.parts[part]) => req.parts[part].bank \in DOMAIN Bank  BY <2>1 DEF SourceOK, FromBank
  <2>4. ASSUME Has(req.parts[part]), ~FromBank(req.parts[part])
        PROVE  /\ Picked(req.parts[part], part) = req.parts[part].custom
               /\ Picked(req.parts[part], part) \in
                    CASE part = 1 -> SpeakingPart1 [] part = 2 -> SpeakingPart2 [] part = 3 -> SpeakingPart3
    <3>1. Picked(req.parts[part], part) = req.parts[part].custom  BY <2>4 DEF Picked
    <3>2. req.parts[part].custom # None  BY <2>1, <2>4, <3>1 DEF Has
    <3>3. req.parts[part].custom \in {None} \cup
            (CASE part = 1 -> SpeakingPart1 [] part = 2 -> SpeakingPart2 [] part = 3 -> SpeakingPart3)
      BY <2>4, ExamAssumption
    <3> QED  BY <3>1, <3>2, <3>3
  <2> QED  BY <2>1, <2>2, <2>3, <2>4
<1>2. PICK p1 : p1 = Picked(req.parts[1], 1)  OBVIOUS
<1>3. PICK p2 : p2 = Picked(req.parts[2], 2)  OBVIOUS
<1>4. PICK p3 : p3 = Picked(req.parts[3], 3)  OBVIOUS
<1>5. /\ p1 \in SpeakingPart1 \cup {None}
      /\ FromBank(req.parts[1]) /\ Has(p1) => Clean1(p1)
      /\ (~FromBank(req.parts[1]) /\ Has(p1)) => Has(req.parts[1])
  <2>1. CASE FromBank(req.parts[1])
    <3>1. p1 = Bank[req.parts[1].bank].part1  BY <1>2, <2>1 DEF FromBank, Picked
    <3>2. req.parts[1].bank \in DOMAIN Bank  BY <1>1, <2>1
    <3> QED  BY <2>1, <3>1, <3>2, BankIsSound DEF Contents, Clean
  <2>2. CASE ~FromBank(req.parts[1])
    <3>1. 1 \in 1..3  OBVIOUS
    <3> QED  BY <1>1, <1>2, <2>2, <3>1 DEF Has
  <2> QED  BY <2>1, <2>2
<1>6. /\ p2 \in SpeakingPart2 \cup {None}
      /\ FromBank(req.parts[2]) /\ Has(p2) => Clean2(p2)
      /\ (~FromBank(req.parts[2]) /\ Has(p2)) => Has(req.parts[2])
  <2>1. CASE FromBank(req.parts[2])
    <3>1. p2 = Bank[req.parts[2].bank].part2  BY <1>3, <2>1 DEF FromBank, Picked
    <3>2. req.parts[2].bank \in DOMAIN Bank  BY <1>1, <2>1
    <3> QED  BY <2>1, <3>1, <3>2, BankIsSound DEF Contents, Clean
  <2>2. CASE ~FromBank(req.parts[2])
    <3>1. 2 \in 1..3  OBVIOUS
    <3> QED  BY <1>1, <1>3, <2>2, <3>1 DEF Has
  <2> QED  BY <2>1, <2>2
<1>7. /\ p3 \in SpeakingPart3 \cup {None}
      /\ FromBank(req.parts[3]) /\ Has(p3) => Clean3(p3)
      /\ (~FromBank(req.parts[3]) /\ Has(p3)) => Has(req.parts[3])
  <2>1. CASE FromBank(req.parts[3])
    <3>1. p3 = BankPart3(Bank[req.parts[3].bank])  BY <1>4, <2>1 DEF FromBank, Picked
    <3>2. req.parts[3].bank \in DOMAIN Bank  BY <1>1, <2>1
    <3>3. Has(p3) => p3 \in SpeakingPart3 /\ Clean3(p3)  BY <3>1, <3>2, BankPart3Sound
    <3> QED  BY <2>1, <3>3 DEF Has
  <2>2. CASE ~FromBank(req.parts[3])
    <3>1. 3 \in 1..3  OBVIOUS
    <3> QED  BY <1>1, <1>4, <2>2, <3>1 DEF Has
  <2> QED  BY <2>1, <2>2
<1>8. PICK c : c = [title |-> req.title, part1 |-> p1, part2 |-> p2, part3 |-> p3]  OBVIOUS
<1>9. Composed(req) = Normalize(c)  BY <1>2, <1>3, <1>4, <1>8 DEF Composed
<1>10. req.title \in Text  BY ExamAssumption
<1>11. Shaped(Normalize(c))
  <2>1. c.title = req.title /\ c.part1 = p1 /\ c.part2 = p2 /\ c.part3 = p3  BY <1>8
  <2> QED  BY <1>5, <1>6, <1>7, <1>10, <2>1, NormalShape
<1>12. ASSUME ~Flagged(req) PROVE Clean(Normalize(c))
  <2> DEFINE mine(part) == IF FromBank(req.parts[part]) THEN None ELSE Picked(req.parts[part], part)
  <2>1. PICK own : own = [title |-> Empty, part1 |-> mine(1), part2 |-> mine(2), part3 |-> mine(3)]  OBVIOUS
  <2>2. Own(req) = Normalize(own)  BY <2>1 DEF Own
  <2>3. \A text \in AllTexts(Normalize(own)) \cup ({Normalize(c).title} \ {Empty}) : ~Rude(text)
    BY <1>9, <1>12, <2>2 DEF Flagged, Moderated
  <2>4. Clean(Normalize(own))
    <3>1. own.title = Empty /\ own.part1 = mine(1) /\ own.part2 = mine(2) /\ own.part3 = mine(3)  BY <2>1
    <3>2. /\ own.part1 \in SpeakingPart1 \cup {None} /\ own.part2 \in SpeakingPart2 \cup {None}
          /\ own.part3 \in SpeakingPart3 \cup {None}
      BY <1>2, <1>3, <1>4, <1>5, <1>6, <1>7, <3>1
    <3>3. Shaped(Normalize(own))  BY <3>1, <3>2, NothingIsDecent, NormalShape
    <3> QED  BY <2>3, <3>3, AllTextsAreAll
  <2>5. ~Rude(Normalize(c).title)  BY <2>3, NothingIsDecent
  <2>6. /\ Normalize(c).part1 = IF Has(p1) THEN NormalPart1(p1) ELSE None
        /\ Normalize(c).part2 = IF Has(p2) THEN NormalPart2(p2) ELSE None
        /\ Normalize(c).part3 = IF Has(p3) THEN NormalPart3(p3) ELSE None
    BY <1>8 DEF Normalize
  <2>7. /\ Normalize(own).part1 = IF Has(mine(1)) THEN NormalPart1(mine(1)) ELSE None
        /\ Normalize(own).part2 = IF Has(mine(2)) THEN NormalPart2(mine(2)) ELSE None
        /\ Normalize(own).part3 = IF Has(mine(3)) THEN NormalPart3(mine(3)) ELSE None
    BY <2>1 DEF Normalize
  <2>8. Has(Normalize(c).part1) => Clean1(Normalize(c).part1)
    <3>1. CASE FromBank(req.parts[1])  BY <1>5, <2>6, <3>1, Normal1Clean DEF Has
    <3>2. CASE ~FromBank(req.parts[1])
      <4>1. mine(1) = p1  BY <1>2, <3>2
      <4>2. Normalize(own).part1 = Normalize(c).part1  BY <2>6, <2>7, <4>1
      <4> QED  BY <2>4, <4>2 DEF Clean
    <3> QED  BY <3>1, <3>2
  <2>9. Has(Normalize(c).part2) => Clean2(Normalize(c).part2)
    <3>1. CASE FromBank(req.parts[2])  BY <1>6, <2>6, <3>1, Normal2Clean DEF Has
    <3>2. CASE ~FromBank(req.parts[2])
      <4>1. mine(2) = p2  BY <1>3, <3>2
      <4>2. Normalize(own).part2 = Normalize(c).part2  BY <2>6, <2>7, <4>1
      <4> QED  BY <2>4, <4>2 DEF Clean
    <3> QED  BY <3>1, <3>2
  <2>10. Has(Normalize(c).part3) => Clean3(Normalize(c).part3)
    <3>1. CASE FromBank(req.parts[3])  BY <1>7, <2>6, <3>1, Normal3Clean DEF Has
    <3>2. CASE ~FromBank(req.parts[3])
      <4>1. mine(3) = p3  BY <1>4, <3>2
      <4>2. Normalize(own).part3 = Normalize(c).part3  BY <2>6, <2>7, <4>1
      <4> QED  BY <2>4, <4>2 DEF Clean
    <3> QED  BY <3>1, <3>2
  <2> QED  BY <2>5, <2>8, <2>9, <2>10 DEF Clean
<1> QED  BY <1>9, <1>11, <1>12

-----------------------------------------------------------------------------
(* What is composed can be taken *)

\* The test there is has been normalised and validated, and what was moderated
\* is clean.
TestInv ==
    /\ draft \in Requests \cup {None}
    /\ checked \in BOOLEAN
    /\ test # None => /\ Shaped(test) /\ Valid(test)
                      /\ checked => Clean(test)

LEMMA InitTest == Init => TestInv
BY DEF Init, TestInv

LEMMA ComposeTest ==
    ASSUME TestInv, NEW answered \in BOOLEAN, Compose(answered)
    PROVE  TestInv'
<1>1. draft \in Requests /\ draft' = None  BY DEF TestInv, Compose
<1>2. CASE SourcesOK(draft) /\ Valid(Composed(draft)) /\ ~(answered /\ Flagged(draft))
  <2>1. test' = Composed(draft) /\ checked' = answered  BY <1>2 DEF Compose
  <2>2. Shaped(Composed(draft)) /\ (~Flagged(draft) => Clean(Composed(draft)))  BY <1>1, <1>2, ComposedIsSound
  <2>3. Shaped(test') /\ Valid(test') /\ (checked' => Clean(test'))  BY <1>2, <2>1, <2>2, Zenon
  <2> QED  BY <1>1, <2>1, <2>3 DEF TestInv
<1>3. CASE ~(SourcesOK(draft) /\ Valid(Composed(draft)) /\ ~(answered /\ Flagged(draft)))
  <2>1. test' = test /\ checked' = checked  BY <1>3 DEF Compose
  <2> QED  BY <1>1, <2>1 DEF TestInv
<1> QED  BY <1>2, <1>3

LEMMA ChooseTest ==
    ASSUME TestInv, NEW b \in DOMAIN Bank, Choose(b)
    PROVE  TestInv'
<1>1. test' = Bank[b] /\ draft' = None /\ checked' = checked  BY DEF Choose
<1>2. Shaped(test') /\ Valid(test') /\ Clean(test')  BY <1>1, BankIsSound
<1> QED  BY <1>1, <1>2 DEF TestInv

\* Only the author's steps touch the test.
LEMMA OthersKeepTest ==
    ASSUME [Next]_vars
    PROVE  \/ \E answered \in BOOLEAN : Compose(answered)
           \/ \E b \in DOMAIN Bank : Choose(b)
           \/ UNCHANGED composeVars
<1>1. CASE OpenPage \/ Begin  BY <1>1 DEF OpenPage, Begin
<1>2. CASE LineOver \/ SkipIntro  BY <1>2 DEF LineOver, SkipIntro, Spoken, PrepOver, AnswerOver
<1>3. CASE \E i \in DOMAIN upload : UploadSettles(i)  BY <1>3 DEF UploadSettles, UploadFails, UploadArrives
<1>4. CASE LoseExam \/ HandIn  BY <1>4 DEF LoseExam, HandIn
<1>5. CASE Answered \/ RequestThrows  BY <1>5 DEF Answered, RequestThrows, GetScript, GetSlots, Submit
<1>6. CASE Refreshing \/ SessionEnds  BY <1>6 DEF Refreshing, SessionEnds
<1>7. CASE PageGone \/ MicrophoneEnds  BY <1>7 DEF PageGone, MicrophoneEnds
<1>8. CASE LinksExpire \/ InOtherTabs  BY <1>8 DEF LinksExpire, InOtherTabs
<1>9. CASE UNCHANGED vars  BY <1>9 DEF vars
<1> QED  BY <1>1, <1>2, <1>3, <1>4, <1>5, <1>6, <1>7, <1>8, <1>9 DEF Next

LEMMA NextTest == TestInv /\ [Next]_vars => TestInv'
<1> SUFFICES ASSUME TestInv, [Next]_vars PROVE TestInv'  OBVIOUS
<1>1. ASSUME UNCHANGED composeVars PROVE TestInv'
  <2>1. draft' = draft /\ checked' = checked /\ test' = test  BY <1>1 DEF composeVars
  <2> QED  BY <2>1 DEF TestInv
<1> QED  BY <1>1, ComposeTest, ChooseTest, OthersKeepTest

LEMMA TestInvariant == Spec => []TestInv
BY InitTest, NextTest, PTL DEF Spec

LEMMA TestInvExaminable == TestInv => TestIsExaminable
<1> SUFFICES ASSUME TestInv, test # None PROVE TestIsExaminable  BY DEF TestIsExaminable
<1>1. checked \in BOOLEAN /\ Shaped(test) /\ Valid(test) /\ (checked => Clean(test))  BY DEF TestInv
<1>2. PICK s \in Seq(Playable(checked)) : s = Build(test)
  BY <1>1, ValidIsExaminable
<1>3. /\ Ids(Answerable(Build(test))) = Ids(Questions(test))
      /\ IsInjective(Ids(Questions(test)))
      /\ Len(Questions(test)) \in 1..MaxUploadSlots
  BY <1>1, ValidIsExaminable
<1>4. \A i \in DOMAIN s :
         /\ s[i].kind \in {"ask", "cue_card"} => s[i].text # Empty
         /\ s[i].id # None => HardLimit(s[i]) <= MaxAnswerSeconds
         /\ checked => ~Rude(s[i].text)
  BY <1>1, PlayableLines
<1>5. checked => ~Rude(test.title)  BY <1>1 DEF Clean
<1> QED  BY <1>2, <1>3, <1>4, <1>5 DEF TestIsExaminable, Script

\* Whatever an author asks for, of whatever length: a composition that is not
\* refused, and every official test, is an exam that can be taken
\* (speaking_content.go, script.go of the examiner and custom.go together).
THEOREM ComposedCanBeTaken == Spec => []TestIsExaminable
BY TestInvariant, TestInvExaminable, PTL

-----------------------------------------------------------------------------
(* Playing a script *)

\* A line with a question is asked, any other passed by.
LEMMA PlayedOn ==
    ASSUME NEW decent, NEW s \in Seq(Playable(decent)), NEW i \in 1..Len(s)
    PROVE  /\ s[i].kind \in {"ask", "long_turn"} =>
                /\ Asked(s, i) = Append(Asked(s, i - 1), s[i])
                /\ s[i].id \in QuestionIds /\ s[i] \in Playable(decent)
                /\ Durations(s[i]) \subseteq 1..MaxAnswerSeconds
           /\ s[i].kind \notin {"ask", "long_turn"} => Asked(s, i) = Asked(s, i - 1)
<1>1. PICK l \in Playable(decent) : l = s[i]  OBVIOUS
<1>2. Asked(s, i) = IF l.id # None THEN Append(Asked(s, i - 1), l) ELSE Asked(s, i - 1)
  <2>1. \A k \in 1..Len(s) : Asked(s, k) = IF s[k].id # None THEN Append(Asked(s, k - 1), s[k]) ELSE Asked(s, k - 1)
    BY AskingOn, Zenon
  <2> QED  BY <1>1, <2>1
<1>3. l.id \in Identity  BY PlayableIsIdentified
<1>4. CASE l.kind \in {"ask", "long_turn"}
  <2>1. l.id # None /\ Durations(l) \subseteq 1..MaxAnswerSeconds  BY <1>4 DEF Playable
  <2>2. l.id \in QuestionIds  BY <1>3, <2>1 DEF Identity
  <2> QED  BY <1>1, <1>2, <1>4, <2>1, <2>2
<1>5. CASE l.kind \notin {"ask", "long_turn"}
  <2>1. l.id = None  BY <1>5 DEF Playable
  <2> QED  BY <1>1, <1>2, <1>5, <2>1
<1> QED  BY <1>1, <1>4, <1>5

\* What the examiner only says asks nothing.
LEMMA SaidOver ==
    ASSUME NEW decent, NEW s \in Seq(Playable(decent)), NEW m \in 0..Len(s), NEW n \in m..Len(s),
           \A k \in m + 1..n : s[k].kind = "say"
    PROVE  Asked(s, n) = Asked(s, m)
<1> DEFINE P == {i \in 0..n - m : Asked(s, m + i) = Asked(s, m)}
<1>1. n - m \in Nat /\ Len(s) \in Nat  OBVIOUS
<1>2. 0 \in P  BY <1>1
<1>3. ASSUME NEW i \in 1..n - m, i - 1 \in P PROVE i \in P
  <2>1. m + i \in 1..Len(s) /\ m + i \in m + 1..n /\ (m + i) - 1 = m + (i - 1)  BY <1>1
  <2>2. s[m + i].kind = "say"  BY <2>1
  <2>3. s[m + i].kind \notin {"ask", "long_turn"} => Asked(s, m + i) = Asked(s, (m + i) - 1)  BY <2>1, PlayedOn
  <2>4. Asked(s, m + (i - 1)) = Asked(s, m)  BY <1>3
  <2>5. Asked(s, m + i) = Asked(s, m)  BY <2>1, <2>2, <2>3, <2>4
  <2> QED  BY <1>1, <2>5
<1>4. \A i \in 0..n - m : i \in P
  <2> HIDE DEF P
  <2> QED  BY <1>1, <1>2, <1>3, UpTo
<1>5. n - m \in 0..n - m /\ m + (n - m) = n  BY <1>1
<1>6. n - m \in P  BY <1>4, <1>5
<1> QED  BY <1>5, <1>6

\* There is a slot for every question that is still to come.
LEMMA AskedGrow ==
    ASSUME NEW V, NEW s \in Seq(V)
    PROVE  \A m \in 0..Len(s) : Len(Asked(s, m)) \in Nat /\ Len(Asked(s, m)) <= Len(Answerable(s))
<1>1. PICK n \in Nat : n = Len(s)  OBVIOUS
<1>2. PICK f : f = [i \in 0..n |-> Len(Asked(s, i))]  OBVIOUS
<1>3. \A i \in 0..n : Asked(s, i) \in Seq(V)  BY <1>1, AskingOn, Zenon
<1>4. \A i \in 0..n : f[i] \in Nat /\ f[i] = Len(Asked(s, i))  BY <1>2, <1>3
<1>5. ASSUME NEW i \in 1..n PROVE f[i - 1] <= f[i]
  <2>1. \A k \in 1..n : Asked(s, k) = IF s[k].id # None THEN Append(Asked(s, k - 1), s[k]) ELSE Asked(s, k - 1)
    BY <1>1, AskingOn, Zenon
  <2>2. i - 1 \in 0..n /\ i \in 0..n /\ s[i] \in V  BY <1>1
  <2>3. PICK q \in Seq(V) : q = Asked(s, i - 1)  BY <1>3, <2>2
  <2>4. Asked(s, i) = q \/ Asked(s, i) = Append(q, s[i])  BY <2>1, <2>3
  <2>5. Len(Append(q, s[i])) = Len(q) + 1  BY <2>2, Appended
  <2>6. f[i - 1] = Len(q) /\ (f[i] = Len(q) \/ f[i] = Len(Append(q, s[i])))  BY <1>4, <2>2, <2>3, <2>4
  <2>7. Len(q) \in Nat  OBVIOUS
  <2> QED  BY <2>5, <2>6, <2>7
<1> SUFFICES ASSUME NEW m \in 0..n PROVE f[m] <= f[n]
  <2>1. n \in 0..n  OBVIOUS
  <2> QED  BY <1>1, <1>4, <2>1 DEF Answerable
<1> DEFINE P == {i \in 0..n : m <= i => f[m] <= f[i]}
<1>6. 0 \in P  BY <1>4
<1>7. ASSUME NEW i \in 1..n, i - 1 \in P PROVE i \in P
  <2>1. f[i - 1] <= f[i] /\ f[i - 1] \in Nat /\ f[i] \in Nat /\ f[m] \in Nat /\ i \in 0..n  BY <1>4, <1>5
  <2>2. CASE m = i  BY <2>1, <2>2
  <2>3. CASE m # i
    <3>1. m <= i - 1 => f[m] <= f[i - 1]  BY <1>7
    <3>2. m <= i => m <= i - 1  BY <2>3
    <3> QED  BY <2>1, <3>1, <3>2
  <2> QED  BY <2>2, <2>3
<1>8. \A i \in 0..n : i \in P
  <2> HIDE DEF P
  <2> QED  BY <1>6, <1>7, UpTo
<1>9. n \in P  BY <1>8
<1> QED  BY <1>9

LEMMA IdsOfMore ==
    ASSUME NEW V, NEW s \in Seq(V), NEW x \in V, \A v \in V : v.id \in Identity
    PROVE  Ids(Append(s, x)) = Append(Ids(s), x.id)
<1>1. PICK e \in Seq(V) : e = <<x>> /\ Len(e) = 1 /\ e[1] = x  BY OneLine
<1>2. Append(s, x) = s \o e  BY <1>1
<1>3. Ids(s \o e) = Ids(s) \o Ids(e)  BY IdsOfBoth
<1>4. Ids(s) \in Seq(Identity)  BY Identified
<1>5. Ids(e) = <<x.id>>
  <2>1. DOMAIN e = 1..1  BY <1>1
  <2>2. Ids(e) = [i \in 1..1 |-> e[i].id]  BY <2>1 DEF Ids
  <2>3. \A i \in 1..1 : e[i].id = x.id  BY <1>1
  <2>4. Ids(e) = [i \in 1..1 |-> x.id]  BY <2>2, <2>3
  <2>5. <<x.id>> = [i \in 1..1 |-> x.id]  OBVIOUS
  <2> QED  BY <2>4, <2>5
<1>6. x.id \in Identity  OBVIOUS
<1>7. PICK ids \in Seq(Identity) : ids = Ids(s)  BY <1>4
<1>8. ids \o <<x.id>> = Append(ids, x.id)  BY <1>6, <1>7
<1> QED  BY <1>2, <1>3, <1>5, <1>7, <1>8, Zenon

\* The test that is sat.
Sittable(decent, s) ==
    /\ s \in Seq(Playable(decent))
    /\ Questions(test) \in Seq(Posed)
    /\ Ids(Answerable(s)) = Ids(Questions(test))
    /\ IsInjective(Ids(Questions(test)))
    /\ Len(Questions(test)) \in 1..MaxUploadSlots
    /\ Len(Answerable(s)) = Len(Questions(test))

LEMMA TestIsSittable ==
    ASSUME TestInv, test # None
    PROVE  Sittable(checked, Script) /\ checked \in BOOLEAN /\ Len(Script) > 0
<1>1. checked \in BOOLEAN /\ Shaped(test) /\ Valid(test) /\ (checked => Clean(test))  BY DEF TestInv
<1>2. /\ Build(test) \in Seq(Playable(checked))
      /\ Questions(test) \in Seq(Posed)
      /\ Ids(Answerable(Build(test))) = Ids(Questions(test))
      /\ IsInjective(Ids(Questions(test)))
      /\ Len(Questions(test)) \in 1..MaxUploadSlots
  BY <1>1, ValidIsExaminable
<1>3. PICK s \in Seq(Playable(checked)) : s = Build(test)  BY <1>2
<1>4. PICK a \in Seq(Playable(checked)) : a = Answerable(s)  BY AnswerableOf
<1>5. PICK qs \in Seq(Posed) : qs = Questions(test)  BY <1>2
<1>6. Len(Ids(a)) = Len(a)  BY PlayableIsIdentified, Identified
<1>7. Len(Ids(qs)) = Len(qs)  BY PosedIsIdentified, Identified
<1>8. Len(a) = Len(qs)  BY <1>2, <1>3, <1>4, <1>5, <1>6, <1>7
<1>9. Len(s) > 0
  <2>1. Len(a) \in 1..MaxUploadSlots  BY <1>2, <1>5, <1>8
  <2>2. Len(a) > 0  BY <2>1, ExamAssumption
  <2>3. ASSUME Len(s) = 0 PROVE FALSE
    <3>1. \A i \in 1..Len(s) : s[i].id = None  BY <2>3
    <3>2. a = <<>>  BY <1>4, <3>1, AskedOfNone
    <3>3. Len(a) = 0  BY <3>2
    <3> QED  BY <2>2, <3>3
  <2>4. Len(s) \in Nat  OBVIOUS
  <2> QED  BY <2>3, <2>4
<1> QED  BY <1>1, <1>2, <1>3, <1>4, <1>5, <1>8, <1>9 DEF Sittable, Script

-----------------------------------------------------------------------------
(* The session *)

Token == [user : Users, fresh : BOOLEAN]
Access == Token \cup {Nobody}
Requested == [op : {"none", "script", "slots", "submit"}, at : {"idle", "sent", "refreshing"},
              token : Access \cup Users, retry : BOOLEAN]

\* A request that is under way carries a token, or nobody's.
SessionInv ==
    /\ access \in Access /\ refresh \in Users \cup {Nobody} /\ request \in Requested
    /\ request.at = "sent" => request.token \in Access
    /\ request.at = "refreshing" => request.token \in Users
    /\ request.at # "idle" => request.op # "none"

LEMMA IdleRequest == Idle \in Requested /\ Idle.op = "none" /\ Idle.at = "idle"
BY DEF Idle, Requested, Access

LEMMA InitSessionInv == ASSUME NEW u \in Users, InitSession(u) PROVE SessionInv
BY IdleRequest DEF InitSession, SessionInv, Access, Token

LEMMA Sending ==
    ASSUME SessionInv, NEW op \in {"script", "slots", "submit"}, Send(op)
    PROVE  SessionInv' /\ request'.op = op
<1>1. /\ request' = [op |-> op, at |-> "sent", token |-> access, retry |-> TRUE]
      /\ access' = access /\ refresh' = refresh
  BY DEF Send
<1>2. access \in Access /\ refresh \in Users \cup {Nobody}  BY DEF SessionInv
<1>3. /\ request'.op = op /\ request'.at = "sent" /\ request'.token = access
  BY <1>1
<1>4. request' \in Requested  BY <1>1, <1>2 DEF Requested
<1> QED  BY <1>1, <1>2, <1>3, <1>4 DEF SessionInv

LEMMA Ending ==
    ASSUME SessionInv, Over \/ ForceLogout
    PROVE  SessionInv' /\ request'.op = "none"
<1>1. request' = Idle /\ access' \in {access, Nobody} /\ refresh' \in {refresh, Nobody}  BY DEF Over, ForceLogout
<1>2. access' \in Access /\ refresh' \in Users \cup {Nobody}  BY <1>1 DEF SessionInv, Access
<1> QED  BY <1>1, <1>2, IdleRequest DEF SessionInv

LEMMA AskingRefresh ==
    ASSUME SessionInv, AskRefresh
    PROVE  SessionInv' /\ request'.op = request.op
<1>1. /\ request' = [request EXCEPT !.at = "refreshing", !.token = refresh]
      /\ access' = access /\ refresh' = refresh /\ refresh # Nobody
  BY DEF AskRefresh
<1>2. access \in Access /\ refresh \in Users /\ request \in Requested  BY <1>1 DEF SessionInv
<1>3. /\ request' \in Requested /\ request'.op = request.op
      /\ request'.at = "refreshing" /\ request'.token = refresh
  BY <1>1, <1>2 DEF Requested
<1>4. request.op # "none"  BY DEF AskRefresh, Sent, SessionInv
<1> QED  BY <1>1, <1>2, <1>3, <1>4 DEF SessionInv

LEMMA RefreshEnds ==
    ASSUME SessionInv, Refreshed
    PROVE  SessionInv' /\ request'.op = request.op
<1>1. PICK t \in Token :
        /\ access' = t /\ refresh' = t.user /\ t.user \in Users
        /\ request' = [request EXCEPT !.at = "sent", !.token = t, !.retry = FALSE]
  <2>1. request.token \in Users  BY DEF SessionInv, Refreshed
  <2>2. PICK t \in Token : t = [user |-> request.token, fresh |-> TRUE]  BY <2>1 DEF Token
  <2> QED  BY <2>1, <2>2 DEF Refreshed
<1>2. request \in Requested /\ t \in Access  BY DEF SessionInv, Access
<1>3. /\ request' \in Requested /\ request'.op = request.op
      /\ request'.at = "sent" /\ request'.token = t
  BY <1>1, <1>2 DEF Requested
<1>4. request.op # "none"  BY DEF Refreshed, SessionInv
<1> QED  BY <1>1, <1>2, <1>3, <1>4 DEF SessionInv

LEMMA Expiring ==
    ASSUME SessionInv, AccessExpires
    PROVE  SessionInv' /\ request'.op = request.op
<1>1. access \in Token /\ request \in Requested /\ refresh' = refresh /\ refresh \in Users \cup {Nobody}
  BY DEF SessionInv, AccessExpires, Access
<1>2. access' \in Access
  <2>1. access' = [access EXCEPT !.fresh = FALSE]  BY DEF AccessExpires
  <2> QED  BY <1>1, <2>1 DEF Token, Access
<1>3. CASE Sent /\ request.token # Nobody
  <2>1. request.at = "sent"  BY <1>3 DEF Sent
  <2>2. PICK t \in Token : t = request.token  BY <1>3, <2>1 DEF SessionInv, Access
  <2>3. request' = [request EXCEPT !.token = [request.token EXCEPT !.fresh = FALSE]]
    BY <1>1, <1>3 DEF AccessExpires, Requested
  <2>4. PICK u \in Token : u = [t EXCEPT !.fresh = FALSE]  BY DEF Token
  <2>5. request' = [request EXCEPT !.token = u] /\ u \in Access  BY <2>2, <2>3, <2>4 DEF Access
  <2>6. /\ request' \in Requested /\ request'.op = request.op
        /\ request'.at = "sent" /\ request'.token = u
    BY <1>1, <2>1, <2>5 DEF Requested
  <2>7. request.op # "none"  BY <2>1 DEF SessionInv
  <2> QED  BY <1>1, <1>2, <2>5, <2>6, <2>7 DEF SessionInv
<1>4. CASE ~(Sent /\ request.token # Nobody)
  <2>1. request' = request  BY <1>4 DEF AccessExpires
  <2> QED  BY <1>1, <1>2, <2>1 DEF SessionInv
<1> QED  BY <1>3, <1>4

LEMMA Elsewhere ==
    ASSUME SessionInv, Meanwhile
    PROVE  SessionInv' /\ request'.op = request.op
<1>1. CASE AccessExpires  BY <1>1, Expiring
<1>2. CASE LogOutElsewhere  BY <1>2 DEF LogOutElsewhere, SessionInv, Access
<1>3. ASSUME NEW u \in Users, LogInElsewhere(u) PROVE SessionInv' /\ request'.op = request.op
  <2>1. [user |-> u, fresh |-> TRUE] \in Access  BY DEF Access, Token
  <2> QED  BY <1>3, <2>1 DEF LogInElsewhere, SessionInv
<1> QED  BY <1>1, <1>2, <1>3 DEF Meanwhile

LEMMA SessionKept ==
    ASSUME SessionInv, UNCHANGED sessionVars
    PROVE  SessionInv' /\ request' = request
BY DEF SessionInv, sessionVars

\* Who a request that is answered is from.
LEMMA Authorizing ==
    ASSUME SessionInv, Sent, Authorized
    PROVE  request.token.user \in Users
BY DEF SessionInv, Sent, Authorized, Access, Token

-----------------------------------------------------------------------------
(* The exam and its hand-in *)

\* From the second phase on there is a test; the first ones have no answers.
Early == {"writing", "rejected", "loading", "ready"}
PhaseInv ==
    /\ phase \notin {"writing", "rejected"} => test # None
    /\ phase \in Early => answers = <<>> /\ upload = <<>>

\* What a request that is under way is for.
RequestInv ==
    /\ request.op = "script" => phase = "loading"
    /\ request.op = "slots" => phase = "ready"
    /\ request.op = "submit" => phase = "submitting" /\ \A i \in DOMAIN upload : upload[i] = Stored

\* The line that is played, and what it may be doing.
LineInv ==
    /\ phase = "running" => /\ line \in 1..Len(Script)
                            /\ stage = "record" => Script[line].kind \in {"ask", "long_turn"}
                            /\ stage = "prep" => Script[line].kind = "cue_card"
    /\ phase = "submitting" => line = Len(Script) + 1

\* An answer to each question so far, the i-th in the i-th slot, and what has
\* been stored is what was recorded.
Key == [user : Users, number : Nat]
Answer == [id : QuestionIds, key : Key, seconds : 1..MaxAnswerSeconds]
AnswersInv ==
    OnPage =>
        /\ Ids(answers) = Ids(Asked(Script, line - 1))
        /\ answers \in Seq(Answer)
        /\ \E u \in Users : slots = UploadSlots(u, Len(Answerable(Script)))
        /\ \A i \in 1..Len(answers) : answers[i].key = slots[i]
        /\ upload \in Seq(0..UploadTries + 1) /\ Len(upload) = Len(answers)
        /\ \A i \in 1..Len(answers) : upload[i] = Stored =>
             answers[i].key \in DOMAIN store /\ store[answers[i].key] = answers[i].id

HandedInv ==
    /\ submissions # {} => Closed
    /\ ClipsAreTheirOwn
    /\ \A s \in submissions : /\ Ids(s.answers) = Ids(Questions(test))
                              /\ Recordings(s.user, s) = ToSet(s.answers)

ExamInv == TestInv /\ SessionInv /\ PhaseInv /\ RequestInv /\ LineInv /\ AnswersInv /\ HandedInv

LEMMA InitExam == Init => ExamInv
<1> SUFFICES ASSUME Init PROVE ExamInv  OBVIOUS
<1>1. TestInv  BY InitTest
<1>2. SessionInv  BY InitSessionInv, ExamAssumption DEF Init
<1>3. request.op = "none"  BY IdleRequest DEF Init, InitSession
<1>4. PhaseInv /\ RequestInv /\ LineInv /\ AnswersInv
  BY <1>3 DEF Init, PhaseInv, RequestInv, LineInv, AnswersInv, OnPage
<1>5. HandedInv  BY DEF Init, HandedInv, ClipsAreTheirOwn
<1> QED  BY <1>1, <1>2, <1>4, <1>5 DEF ExamInv

\* A step that leaves test, line, answers and clips as they are.
LEMMA ExamStays ==
    ASSUME ExamInv, UNCHANGED <<composeVars, line, stage, slots, answers, upload, store, submissions>>,
           OnPage' => phase' = phase, Closed => Closed',
           phase' \notin {"writing", "rejected"} => test # None,
           phase' \in Early => phase \in Early
    PROVE  TestInv' /\ PhaseInv' /\ LineInv' /\ AnswersInv' /\ HandedInv'
<1>1. /\ draft' = draft /\ checked' = checked /\ test' = test /\ Script' = Script
      /\ line' = line /\ stage' = stage /\ slots' = slots /\ answers' = answers /\ upload' = upload
      /\ store' = store /\ submissions' = submissions
  BY DEF composeVars, Script
<1>2. TestInv'  BY <1>1 DEF ExamInv, TestInv
<1>3. PhaseInv'  BY <1>1 DEF ExamInv, PhaseInv
<1>4. LineInv'
  <2>1. phase' \in {"running", "submitting"} => phase' = phase  BY DEF OnPage
  <2> QED  BY <1>1, <2>1 DEF ExamInv, LineInv
<1>5. AnswersInv'
  <2>1. SUFFICES ASSUME OnPage' PROVE AnswersInv'  BY DEF AnswersInv
  <2>2. OnPage  BY <2>1 DEF OnPage
  <2> QED  BY <1>1, <2>2 DEF ExamInv, AnswersInv
<1>6. HandedInv'
  <2>1. ClipsAreTheirOwn'  BY <1>1 DEF ExamInv, HandedInv, ClipsAreTheirOwn
  <2>2. submissions' # {} => Closed'  BY <1>1 DEF ExamInv, HandedInv
  <2>3. ASSUME NEW s \in submissions
        PROVE  Ids(s.answers) = Ids(Questions(test)) /\ Recordings(s.user, s) = ToSet(s.answers)
    BY DEF ExamInv, HandedInv
  <2> QED  BY <1>1, <2>1, <2>2, <2>3 DEF HandedInv
<1> QED  BY <1>2, <1>3, <1>4, <1>5, <1>6

-----------------------------------------------------------------------------
(* Before the exam *)

LEMMA ComposeExam ==
    ASSUME ExamInv, (\E answered \in BOOLEAN : Compose(answered)) \/ (\E b \in DOMAIN Bank : Choose(b))
    PROVE  ExamInv'
<1>1. /\ phase = "writing" /\ phase' \in {"writing", "rejected"}
      /\ UNCHANGED <<examVars, submissions, sessionVars>>
  BY DEF Compose, Choose
<1>2. TestInv'  BY ComposeTest, ChooseTest DEF ExamInv
<1>3. SessionInv' /\ request' = request  BY <1>1, SessionKept DEF ExamInv
<1>4. answers' = answers /\ upload' = upload /\ submissions' = submissions  BY <1>1 DEF examVars
<1>5. PhaseInv'  BY <1>1, <1>4 DEF ExamInv, PhaseInv, Early
<1>6. RequestInv'  BY <1>1, <1>3 DEF ExamInv, RequestInv
<1>7. LineInv' /\ AnswersInv'  BY <1>1 DEF LineInv, AnswersInv, OnPage
<1>8. HandedInv'
  <2>1. submissions = {}  BY <1>1 DEF ExamInv, HandedInv, Closed
  <2> QED  BY <1>4, <2>1 DEF HandedInv, ClipsAreTheirOwn
<1> QED  BY <1>2, <1>3, <1>5, <1>6, <1>7, <1>8 DEF ExamInv

LEMMA OpenPageExam == ASSUME ExamInv, OpenPage PROVE ExamInv'
<1>1. /\ phase = "writing" /\ phase' = "loading" /\ test # None
      /\ UNCHANGED <<composeVars, examVars, submissions>>
  BY DEF OpenPage
<1>2. SessionInv' /\ request'.op = "script"
  <2>1. Send("script") /\ "script" \in {"script", "slots", "submit"}  BY DEF OpenPage
  <2> QED  BY <2>1, Sending DEF ExamInv
<1>3. RequestInv'  BY <1>1, <1>2 DEF RequestInv
<1>4. TestInv' /\ PhaseInv' /\ LineInv' /\ AnswersInv' /\ HandedInv'
  <2>1. ~OnPage' /\ ~Closed /\ phase \in Early  BY <1>1 DEF OnPage, Closed, Early
  <2> QED  BY <1>1, <2>1, ExamStays DEF examVars
<1> QED  BY <1>2, <1>3, <1>4 DEF ExamInv

LEMMA GetScriptExam == ASSUME ExamInv, GetScript PROVE ExamInv'
<1>1. /\ phase' \in {"ready", "failed"} /\ request.op = "script"
      /\ UNCHANGED <<composeVars, examVars, submissions>>
  BY DEF GetScript
<1>2. phase = "loading" /\ test # None  BY <1>1 DEF ExamInv, RequestInv, PhaseInv
<1>3. SessionInv' /\ request'.op = "none"  BY Ending DEF ExamInv, GetScript
<1>4. RequestInv'  BY <1>3 DEF RequestInv
<1>5. TestInv' /\ PhaseInv' /\ LineInv' /\ AnswersInv' /\ HandedInv'
  <2>1. ~OnPage' /\ ~Closed /\ phase \in Early  BY <1>1, <1>2 DEF OnPage, Closed, Early
  <2> QED  BY <1>1, <1>2, <2>1, ExamStays DEF examVars
<1> QED  BY <1>3, <1>4, <1>5 DEF ExamInv

LEMMA BeginExam == ASSUME ExamInv, Begin PROVE ExamInv'
<1>1. /\ phase = "ready" /\ phase' = phase
      /\ UNCHANGED <<composeVars, line, stage, slots, answers, upload, store, submissions>>
  BY DEF Begin
<1>2. SessionInv' /\ request'.op = "slots"
  <2>1. Send("slots") /\ "slots" \in {"script", "slots", "submit"}  BY DEF Begin
  <2> QED  BY <2>1, Sending DEF ExamInv
<1>3. RequestInv'  BY <1>1, <1>2 DEF RequestInv
<1>4. TestInv' /\ PhaseInv' /\ LineInv' /\ AnswersInv' /\ HandedInv'
  <2>1. test # None /\ ~Closed /\ (Closed => Closed')  BY <1>1 DEF ExamInv, PhaseInv, Closed
  <2> QED  BY <1>1, <2>1, ExamStays
<1> QED  BY <1>2, <1>3, <1>4 DEF ExamInv

-----------------------------------------------------------------------------
(* The exam goes on *)

LEMMA NothingAnswered ==
    /\ <<>> \in Seq(Answer) /\ Len(<<>>) = 0
    /\ <<>> \in Seq(0..UploadTries + 1)
    /\ Ids(<<>>) = <<>>
<1>1. Ids(<<>>) = <<>>  BY DEF Ids
<1> QED  BY <1>1

LEMMA GetSlotsExam == ASSUME ExamInv, GetSlots PROVE ExamInv'
<1> DEFINE n == Len(Answerable(Script))
           u == request.token.user
<1>1. /\ request.op = "slots" /\ Sent /\ Authorized /\ Over
      /\ slots' = UploadSlots(u, n)
      /\ UNCHANGED <<composeVars, mic, answers, upload, store, submissions>>
  BY DEF GetSlots
<1>2. phase = "ready" /\ test # None /\ answers = <<>> /\ upload = <<>>
  BY <1>1 DEF ExamInv, RequestInv, PhaseInv, Early
<1>3. SessionInv' /\ request'.op = "none"  BY <1>1, Ending DEF ExamInv
<1>4. RequestInv'  BY <1>3 DEF RequestInv
<1>5. u \in Users  BY <1>1, Authorizing DEF ExamInv
<1>6. submissions = {}  BY <1>2 DEF ExamInv, HandedInv, Closed
<1>7. test' = test /\ Script' = Script /\ answers' = answers /\ upload' = upload /\ submissions' = submissions
  BY <1>1 DEF composeVars, Script
<1>8. TestInv'  BY <1>1 DEF ExamInv, TestInv, composeVars
<1>9. phase' = "ready" \/ (phase' = "running" /\ line' = 1 /\ stage' = "speak")
  BY <1>2 DEF GetSlots
<1>10. PhaseInv'  BY <1>2, <1>7, <1>9 DEF PhaseInv
<1>11. HandedInv'  BY <1>6, <1>7 DEF HandedInv, ClipsAreTheirOwn
<1>12. PICK s \in Seq(Playable(checked)) : s = Script /\ Len(s) > 0
  BY <1>2, TestIsSittable DEF ExamInv, Sittable
<1>13. LineInv'
  <2>1. 1 \in 1..Len(s)  BY <1>12
  <2> QED  BY <1>7, <1>9, <1>12, <2>1 DEF LineInv
<1>14. AnswersInv'
  <2>1. SUFFICES ASSUME line' = 1 PROVE AnswersInv'  BY <1>9 DEF AnswersInv, OnPage
  <2>2. Ids(answers') = Ids(Asked(Script', line' - 1))
    <3>1. Asked(s, 0) = <<>>  BY AskingOn, Zenon
    <3>2. line' - 1 = 0  BY <2>1
    <3> QED  BY <1>2, <1>7, <1>12, <3>1, <3>2
  <2>3. \E v \in Users : slots' = UploadSlots(v, Len(Answerable(Script')))  BY <1>1, <1>5, <1>7
  <2>4. \A i \in 1..Len(answers') : FALSE  BY <1>2, <1>7
  <2>5. answers' \in Seq(Answer) /\ upload' \in Seq(0..UploadTries + 1) /\ Len(upload') = Len(answers')
    BY <1>2, <1>7, NothingAnswered
  <2> QED  BY <2>2, <2>3, <2>4, <2>5 DEF AnswersInv
<1> QED  BY <1>3, <1>4, <1>8, <1>10, <1>11, <1>13, <1>14 DEF ExamInv

LEMMA LineGoesOn ==
    ASSUME NEW n \in line + 1..Len(Script) + 1, line \in 1..Len(Script), Len(Script) \in Nat, Goto(n), test' = test
    PROVE  LineInv' /\ OnPage' /\ Script' = Script
<1>1. Script' = Script  BY DEF Script
<1>2. line' = n /\ stage' = "speak"  BY DEF Goto
<1>3. CASE n > Len(Script)
  <2>1. phase' = "submitting" /\ n = Len(Script) + 1  BY <1>3 DEF Goto
  <2> QED  BY <1>1, <1>2, <2>1 DEF LineInv, OnPage
<1>4. CASE ~(n > Len(Script))
  <2>1. phase' = "running" /\ n \in 1..Len(Script)  BY <1>4 DEF Goto
  <2> QED  BY <1>1, <1>2, <2>1 DEF LineInv, OnPage
<1> QED  BY <1>3, <1>4

\* A step of the exam changes neither the test nor the session, and nothing is
\* handed in yet.
LEMMA InExam ==
    ASSUME ExamInv, phase = "running", UNCHANGED <<composeVars, submissions, sessionVars>>
    PROVE  /\ TestInv' /\ SessionInv' /\ RequestInv' /\ HandedInv'
           /\ test' = test /\ test # None /\ Script' = Script
           /\ phase' \notin Early => PhaseInv'
<1>1. submissions = {}  BY DEF ExamInv, HandedInv, Closed
<1>2. SessionInv' /\ request' = request  BY SessionKept DEF ExamInv
<1>3. /\ draft' = draft /\ checked' = checked /\ test' = test /\ submissions' = submissions
  BY DEF composeVars
<1>4. request.op \notin {"script", "slots", "submit"}  BY DEF ExamInv, RequestInv
<1>5. test # None  BY DEF ExamInv, PhaseInv
<1> QED  BY <1>1, <1>2, <1>3, <1>4, <1>5 DEF ExamInv, TestInv, RequestInv, HandedInv, ClipsAreTheirOwn, PhaseInv, Script

\* A line without a question is over.
LEMMA PassesOn ==
    ASSUME ExamInv, phase = "running", NEW n \in line + 1..Len(Script) + 1, Goto(n),
           Asked(Script, n - 1) = Asked(Script, line - 1),
           UNCHANGED <<composeVars, slots, answers, upload, store, submissions, sessionVars>>
    PROVE  ExamInv'
<1>1. /\ TestInv' /\ SessionInv' /\ RequestInv' /\ HandedInv'
      /\ test' = test /\ test # None /\ Script' = Script
      /\ phase' \notin Early => PhaseInv'
  BY InExam
<1>2. line \in 1..Len(Script)  BY DEF ExamInv, LineInv
<1>3. Len(Script) \in Nat  BY <1>1, TestIsSittable DEF ExamInv, Sittable
<1>4. LineInv' /\ OnPage'  BY <1>1, <1>2, <1>3, LineGoesOn
<1>5. PhaseInv'  BY <1>1, <1>4 DEF OnPage, Early
<1>6. line' = n  BY DEF Goto
<1>7. AnswersInv'
  <2>1. OnPage  BY DEF OnPage
  <2> QED  BY <1>1, <1>6, <2>1 DEF ExamInv, AnswersInv
<1> QED  BY <1>1, <1>4, <1>5, <1>7 DEF ExamInv

LEMMA SpokenExam == ASSUME ExamInv, Spoken PROVE ExamInv'
<1>1. /\ phase = "running" /\ stage = "speak"
      /\ UNCHANGED <<composeVars, slots, answers, upload, store, submissions, sessionVars>>
  BY DEF Spoken, Speaking
<1>2. /\ TestInv' /\ SessionInv' /\ RequestInv' /\ HandedInv'
      /\ test' = test /\ test # None /\ Script' = Script
      /\ phase' \notin Early => PhaseInv'
  BY <1>1, InExam
<1>3. PICK s \in Seq(Playable(checked)) : s = Script  BY <1>2, TestIsSittable DEF ExamInv, Sittable
<1>4. line \in 1..Len(s)  BY <1>1, <1>3 DEF ExamInv, LineInv
<1>5. CASE Script[line].kind = "say"
  <2>1. Goto(line + 1)  BY <1>5 DEF Spoken
  <2>2. line + 1 \in line + 1..Len(Script) + 1 /\ (line + 1) - 1 = line  BY <1>3, <1>4
  <2>3. s[line].kind \notin {"ask", "long_turn"}  BY <1>3, <1>5
  <2>4. Asked(Script, (line + 1) - 1) = Asked(Script, line - 1)  BY <1>3, <1>4, <2>2, <2>3, PlayedOn
  <2> QED  BY <1>1, <2>1, <2>2, <2>4, PassesOn
<1>6. CASE Script[line].kind # "say"
  <2>1. line' = line /\ (phase' = phase \/ phase' = "failed")
    <3>1. s[line].kind \in {"say", "ask", "cue_card", "long_turn"}
      <4>1. s[line] \in Playable(checked)  BY <1>4
      <4> QED  BY <4>1 DEF Playable, Line
    <3> QED  BY <1>3, <1>6, <3>1 DEF Spoken, Failed
  <2>2. phase' = phase => \/ stage' = "record" /\ Script[line].kind \in {"ask", "long_turn"}
                          \/ stage' = "prep" /\ Script[line].kind = "cue_card"
    <3>1. s[line].kind \in {"say", "ask", "cue_card", "long_turn"}
      <4>1. s[line] \in Playable(checked)  BY <1>4
      <4> QED  BY <4>1 DEF Playable, Line
    <3> QED  BY <1>1, <1>3, <1>6, <3>1 DEF Spoken, Failed
  <2>3. LineInv'  BY <1>1, <1>2, <1>3, <1>4, <2>1, <2>2 DEF LineInv
  <2>4. AnswersInv'
    <3>1. OnPage  BY <1>1 DEF OnPage
    <3> QED  BY <1>1, <1>2, <2>1, <3>1 DEF ExamInv, AnswersInv
  <2>5. PhaseInv'  BY <1>1, <1>2, <2>1 DEF Early
  <2> QED  BY <1>2, <2>3, <2>4, <2>5 DEF ExamInv
<1> QED  BY <1>5, <1>6

LEMMA PrepOverExam == ASSUME ExamInv, PrepOver PROVE ExamInv'
<1>1. /\ phase = "running" /\ stage = "prep" /\ Goto(line + 1)
      /\ UNCHANGED <<composeVars, slots, answers, upload, store, submissions, sessionVars>>
  BY DEF PrepOver
<1>2. test # None  BY <1>1, InExam
<1>3. PICK s \in Seq(Playable(checked)) : s = Script  BY <1>2, TestIsSittable DEF ExamInv, Sittable
<1>4. line \in 1..Len(s) /\ s[line].kind = "cue_card"  BY <1>1, <1>3 DEF ExamInv, LineInv
<1>5. line + 1 \in line + 1..Len(Script) + 1 /\ (line + 1) - 1 = line  BY <1>3, <1>4
<1>6. Asked(Script, (line + 1) - 1) = Asked(Script, line - 1)  BY <1>3, <1>4, <1>5, PlayedOn
<1> QED  BY <1>1, <1>5, <1>6, PassesOn

LEMMA SkipIntroExam == ASSUME ExamInv, SkipIntro PROVE ExamInv'
<1> DEFINE T == {n \in line + 1..Len(Script) : Script[n].kind # "say"} \cup {Len(Script) + 1}
<1>1. /\ phase = "running" /\ stage = "speak" /\ Script[line].kind = "say" /\ Goto(Min(T))
      /\ UNCHANGED <<composeVars, slots, answers, upload, store, submissions, sessionVars>>
  BY DEF SkipIntro, Speaking
<1>2. test # None  BY <1>1, InExam
<1>3. PICK s \in Seq(Playable(checked)) : s = Script  BY <1>2, TestIsSittable DEF ExamInv, Sittable
<1>4. line \in 1..Len(s) /\ Len(s) \in Nat /\ Len(Script) = Len(s)  BY <1>1, <1>3 DEF ExamInv, LineInv
<1>5. T \in SUBSET Nat /\ T # {}  BY <1>4
<1>6. Min(T) \in T /\ \A m \in T : Min(T) <= m
  <2> HIDE DEF T
  <2>1. \E n \in T : \A m \in T : n <= m  BY <1>5, LeastNumber
  <2> QED  BY <2>1 DEF Min
<1>7. PICK n \in line + 1..Len(Script) + 1 : n = Min(T)
  <2>1. ASSUME NEW n \in T PROVE n \in line + 1..Len(Script) + 1  BY <1>4
  <2> HIDE DEF T
  <2> QED  BY <1>6, <2>1
<1>8. \A k \in line + 1..n - 1 : s[k].kind = "say"
  <2> SUFFICES ASSUME NEW k \in line + 1..n - 1, s[k].kind # "say" PROVE FALSE  OBVIOUS
  <2>1. k \in line + 1..Len(Script) /\ k < n  BY <1>4, <1>7
  <2>2. k \in T  BY <1>3, <2>1
  <2>3. n <= k  BY <1>6, <1>7, <2>2
  <2> QED  BY <1>4, <1>7, <2>1, <2>3
<1>9. \A k \in (line - 1) + 1..n - 1 : s[k].kind = "say"
  <2> SUFFICES ASSUME NEW k \in (line - 1) + 1..n - 1 PROVE s[k].kind = "say"  OBVIOUS
  <2>1. k = line \/ k \in line + 1..n - 1  BY <1>4
  <2> QED  BY <1>1, <1>3, <1>8, <2>1
<1>10. line - 1 \in 0..Len(s) /\ n - 1 \in line - 1..Len(s)  BY <1>4, <1>7
<1>11. Asked(s, n - 1) = Asked(s, line - 1)  BY <1>9, <1>10, SaidOver
<1>12. Goto(n)  BY <1>1, <1>7
<1> HIDE DEF T
<1> QED  BY <1>1, <1>3, <1>11, <1>12, PassesOn

-----------------------------------------------------------------------------
(* An answer *)

LEMMA AnswerIsIdentified == \A a \in Answer : a.id \in Identity
BY DEF Answer, Identity

LEMMA SlotsOf ==
    ASSUME NEW u \in Users, NEW n \in 1..MaxUploadSlots
    PROVE  /\ UploadSlots(u, n) = [i \in 1..n |-> [user |-> u, number |-> i]]
           /\ \A i \in 1..n : /\ UploadSlots(u, n)[i] \in Key
                              /\ UploadSlots(u, n)[i].user = u /\ UploadSlots(u, n)[i].number = i
<1>1. UploadSlots(u, n) = [i \in 1..n |-> [user |-> u, number |-> i]]  BY DEF UploadSlots
<1>2. MaxUploadSlots \in Nat  BY ExamAssumption
<1> QED  BY <1>1, <1>2 DEF Key

LEMMA AnswerOverExam ==
    ASSUME ExamInv, phase = "running", stage = "record",
           NEW seconds \in Durations(Script[line]), AnswerOver(seconds)
    PROVE  ExamInv'
<1>1. /\ Goto(line + 1) /\ upload' = Append(upload, 1)
      /\ UNCHANGED <<composeVars, submissions, sessionVars>> /\ slots' = slots /\ store' = store
      /\ answers' = Append(answers, [id |-> Script[line].id, key |-> slots[Len(answers) + 1], seconds |-> seconds])
  BY DEF AnswerOver
<1>2. /\ TestInv' /\ SessionInv' /\ RequestInv' /\ HandedInv'
      /\ test' = test /\ test # None /\ Script' = Script
      /\ phase' \notin Early => PhaseInv'
  BY <1>1, InExam
<1>3. Sittable(checked, Script)  BY <1>2, TestIsSittable DEF ExamInv
<1>4. PICK s \in Seq(Playable(checked)), n \in 1..MaxUploadSlots : s = Script /\ n = Len(Answerable(s))
  BY <1>3 DEF Sittable
<1>5. line \in 1..Len(s) /\ s[line].kind \in {"ask", "long_turn"}  BY <1>4 DEF ExamInv, LineInv
<1>6. PICK l \in Playable(checked) : l = s[line]  BY <1>5
<1>7. Asked(s, line) = Append(Asked(s, line - 1), l) /\ l.id \in QuestionIds /\ Durations(l) \subseteq 1..MaxAnswerSeconds
  BY <1>5, <1>6, PlayedOn
<1>8. PICK q \in Seq(Playable(checked)) : q = Asked(s, line - 1)
  <2>1. \A i \in 0..Len(s) : Asked(s, i) \in Seq(Playable(checked))  BY AskingOn, Zenon
  <2>2. line - 1 \in 0..Len(s)  BY <1>5
  <2> QED  BY <2>1, <2>2
<1>9. /\ Ids(answers) = Ids(q) /\ answers \in Seq(Answer)
      /\ \E u \in Users : slots = UploadSlots(u, n)
      /\ \A i \in 1..Len(answers) : answers[i].key = slots[i]
      /\ upload \in Seq(0..UploadTries + 1) /\ Len(upload) = Len(answers)
      /\ \A i \in 1..Len(answers) : upload[i] = Stored =>
             answers[i].key \in DOMAIN store /\ store[answers[i].key] = answers[i].id
  <2>1. OnPage  BY DEF OnPage
  <2> QED  BY <1>4, <1>8, <2>1 DEF ExamInv, AnswersInv
<1>10. PICK u \in Users : slots = UploadSlots(u, n)  BY <1>9
<1>11. PICK k \in Nat : k = Len(answers) /\ k = Len(q)
  <2>1. Len(Ids(answers)) = Len(answers)  BY <1>9, AnswerIsIdentified, Identified
  <2>2. Len(Ids(q)) = Len(q)  BY PlayableIsIdentified, Identified
  <2>3. Len(q) = Len(answers)  BY <1>9, <2>1, <2>2
  <2> QED  BY <2>3
<1>12. k + 1 \in 1..n
  <2>1. Len(Append(q, l)) = k + 1  BY <1>11, Appended
  <2>2. line \in 0..Len(s)  BY <1>5
  <2>3. Len(Asked(s, line)) <= Len(Answerable(s))  BY <2>2, AskedGrow
  <2>4. k + 1 <= n  BY <1>4, <1>7, <1>8, <2>1, <2>3
  <2> QED  BY <2>4
<1>13. slots[k + 1] \in Key  BY <1>10, <1>12, SlotsOf
<1>14. PICK x \in Answer : x = [id |-> l.id, key |-> slots[k + 1], seconds |-> seconds] /\ x.id = l.id /\ x.key = slots[k + 1]
  <2>1. PICK x : x = [id |-> l.id, key |-> slots[k + 1], seconds |-> seconds]  OBVIOUS
  <2>2. seconds \in 1..MaxAnswerSeconds  BY <1>4, <1>6, <1>7
  <2>3. x \in Answer  BY <1>7, <1>13, <2>1, <2>2 DEF Answer
  <2> QED  BY <2>1, <2>3
<1>15. PICK as \in Seq(Answer) :
          as = answers' /\ as = Append(answers, x) /\ Len(as) = k + 1
          /\ (\A i \in 1..k : as[i] = answers[i]) /\ as[k + 1] = x
  <2>1. answers' = Append(answers, x)  BY <1>1, <1>4, <1>6, <1>11, <1>14
  <2>2. PICK old \in Seq(Answer) : old = answers /\ Len(old) = k  BY <1>9, <1>11
  <2>3. /\ Append(old, x) \in Seq(Answer) /\ Len(Append(old, x)) = Len(old) + 1
        /\ \A i \in 1..Len(old) : Append(old, x)[i] = old[i]
        /\ Append(old, x)[Len(old) + 1] = x
    BY Appended
  <2> QED  BY <2>1, <2>2, <2>3
<1>16. PICK us \in Seq(0..UploadTries + 1) :
          us = upload' /\ Len(us) = k + 1 /\ (\A i \in 1..k : us[i] = upload[i]) /\ us[k + 1] = 1
  <2>1. 1 \in 0..UploadTries + 1  BY ExamAssumption
  <2>2. PICK old \in Seq(0..UploadTries + 1) : old = upload /\ Len(old) = k  BY <1>9, <1>11
  <2>3. /\ Append(old, 1) \in Seq(0..UploadTries + 1) /\ Len(Append(old, 1)) = Len(old) + 1
        /\ \A i \in 1..Len(old) : Append(old, 1)[i] = old[i]
        /\ Append(old, 1)[Len(old) + 1] = 1
    BY <2>1, Appended
  <2> QED  BY <1>1, <2>2, <2>3
<1>17. line' = line + 1 /\ line' - 1 = line  BY <1>1, <1>5 DEF Goto
<1>18. Ids(as) = Ids(Asked(s, line))
  <2>1. Ids(Append(answers, x)) = Append(Ids(answers), x.id)  BY <1>9, AnswerIsIdentified, IdsOfMore
  <2>2. Ids(Append(q, l)) = Append(Ids(q), l.id)  BY PlayableIsIdentified, IdsOfMore
  <2> QED  BY <1>7, <1>8, <1>9, <1>14, <1>15, <2>1, <2>2, Zenon
<1>19. \A i \in 1..k + 1 : as[i].key = slots[i]
  <2> SUFFICES ASSUME NEW i \in 1..k + 1 PROVE as[i].key = slots[i]  OBVIOUS
  <2>1. CASE i = k + 1  BY <1>14, <1>15, <2>1
  <2>2. CASE i # k + 1
    <3>1. i \in 1..k  BY <2>2
    <3> QED  BY <1>9, <1>11, <1>15, <3>1
  <2> QED  BY <2>1, <2>2
<1>20. ASSUME NEW i \in 1..k + 1, us[i] = Stored
       PROVE  as[i].key \in DOMAIN store /\ store[as[i].key] = as[i].id
  <2>1. i # k + 1  BY <1>16, <1>20 DEF Stored
  <2>2. i \in 1..k  BY <2>1
  <2>3. us[i] = upload[i] /\ as[i] = answers[i]  BY <1>15, <1>16, <2>2
  <2> QED  BY <1>9, <1>11, <1>20, <2>2, <2>3
<1>21. AnswersInv'
  <2>1. Ids(answers') = Ids(Asked(Script', line' - 1))  BY <1>2, <1>4, <1>15, <1>17, <1>18
  <2>2. \E v \in Users : slots' = UploadSlots(v, Len(Answerable(Script')))  BY <1>1, <1>2, <1>4, <1>10
  <2>3. \A i \in 1..Len(answers') : answers'[i].key = slots'[i]  BY <1>1, <1>15, <1>19
  <2>4. \A i \in 1..Len(answers') : upload'[i] = Stored =>
             answers'[i].key \in DOMAIN store' /\ store'[answers'[i].key] = answers'[i].id
    BY <1>1, <1>15, <1>16, <1>20
  <2>5. answers' \in Seq(Answer) /\ upload' \in Seq(0..UploadTries + 1) /\ Len(upload') = Len(answers')
    BY <1>15, <1>16
  <2>6. Stored' = Stored  BY DEF Stored
  <2> QED  BY <2>1, <2>2, <2>3, <2>4, <2>5, <2>6 DEF AnswersInv
<1>22. LineInv' /\ OnPage'
  <2>1. line + 1 \in line + 1..Len(Script) + 1 /\ line \in 1..Len(Script) /\ Len(Script) \in Nat  BY <1>4, <1>5
  <2> QED  BY <1>1, <1>2, <2>1, LineGoesOn
<1>23. PhaseInv'  BY <1>2, <1>22 DEF OnPage, Early
<1> QED  BY <1>2, <1>21, <1>22, <1>23 DEF ExamInv

-----------------------------------------------------------------------------
(* Uploads *)

LEMMA Replaced ==
    ASSUME NEW V, NEW s \in Seq(V), NEW i \in 1..Len(s), NEW x \in V
    PROVE  /\ [s EXCEPT ![i] = x] \in Seq(V) /\ Len([s EXCEPT ![i] = x]) = Len(s)
           /\ [s EXCEPT ![i] = x][i] = x
           /\ \A j \in 1..Len(s) : j # i => [s EXCEPT ![i] = x][j] = s[j]
OBVIOUS

LEMMA UploadExam ==
    ASSUME ExamInv, NEW i \in DOMAIN upload, UploadSettles(i)
    PROVE  ExamInv'
<1>1. /\ Attempting(i)
      /\ UNCHANGED <<composeVars, phase, line, stage, slots, answers, submissions, sessionVars>>
  BY DEF UploadSettles, UploadFails, UploadArrives
<1>2. OnPage /\ upload[i] \in 1..UploadTries  BY <1>1 DEF Attempting
<1>3. test # None /\ submissions = {}  BY <1>2 DEF OnPage, ExamInv, PhaseInv, HandedInv, Closed
<1>4. PICK n \in 1..MaxUploadSlots : n = Len(Answerable(Script))
  <2>1. Sittable(checked, Script)  BY <1>3, TestIsSittable DEF ExamInv
  <2> QED  BY <2>1 DEF Sittable
<1>5. /\ Ids(answers) = Ids(Asked(Script, line - 1))
      /\ answers \in Seq(Answer)
      /\ \E u \in Users : slots = UploadSlots(u, n)
      /\ \A j \in 1..Len(answers) : answers[j].key = slots[j]
      /\ upload \in Seq(0..UploadTries + 1) /\ Len(upload) = Len(answers)
      /\ \A j \in 1..Len(answers) : upload[j] = Stored =>
             answers[j].key \in DOMAIN store /\ store[answers[j].key] = answers[j].id
  BY <1>2, <1>4 DEF ExamInv, AnswersInv
<1>6. PICK u \in Users : slots = UploadSlots(u, n)  BY <1>5
<1>7. i \in 1..Len(answers)  BY <1>5
<1>8. PICK v \in 0..UploadTries + 1 :
         /\ upload' = [upload EXCEPT ![i] = v]
         /\ v # Stored => store' = store \/ UploadArrives(i, FALSE)
         /\ v = Stored => UploadArrives(i, TRUE)
  <2>1. upload[i] + 1 \in 0..UploadTries + 1 /\ upload[i] + 1 # Stored /\ Stored \in 0..UploadTries + 1
    BY <1>2, ExamAssumption DEF Stored
  <2>2. CASE UploadFails(i)
    <3>1. upload' = [upload EXCEPT ![i] = upload[i] + 1] /\ store' = store  BY <2>2 DEF UploadFails, AttemptFails
    <3> QED  BY <2>1, <3>1
  <2>3. CASE UploadArrives(i, TRUE)
    <3>1. upload' = [upload EXCEPT ![i] = Stored]  BY <2>3 DEF UploadArrives
    <3> QED  BY <2>1, <2>3, <3>1
  <2>4. CASE UploadArrives(i, FALSE)
    <3>1. upload' = [upload EXCEPT ![i] = upload[i] + 1]  BY <2>4 DEF UploadArrives, AttemptFails
    <3> QED  BY <2>1, <2>4, <3>1
  <2> QED  BY <2>2, <2>3, <2>4 DEF UploadSettles
<1>9. PICK us \in Seq(0..UploadTries + 1) :
         /\ us = upload' /\ Len(us) = Len(answers) /\ us[i] = v
         /\ \A j \in 1..Len(answers) : j # i => us[j] = upload[j]
  <2>1. PICK old \in Seq(0..UploadTries + 1) : old = upload /\ Len(old) = Len(answers)  BY <1>5
  <2>2. PICK k \in 1..Len(old) : k = i  BY <1>7, <2>1
  <2>3. /\ [old EXCEPT ![k] = v] \in Seq(0..UploadTries + 1) /\ Len([old EXCEPT ![k] = v]) = Len(old)
        /\ [old EXCEPT ![k] = v][k] = v
        /\ \A j \in 1..Len(old) : j # k => [old EXCEPT ![k] = v][j] = old[j]
    BY Replaced
  <2> QED  BY <1>8, <2>1, <2>2, <2>3
\* The clip goes under the key of this answer, and no other answer has it.
<1>10. ASSUME NEW j \in 1..Len(answers), j # i
       PROVE  answers[j].key # answers[i].key
  <2>1. i \in 1..n /\ j \in 1..n
    <3>1. PICK m \in Nat : m = Len(answers) /\ m <= n
      <4>1. Len(Ids(answers)) = Len(answers)  BY <1>5, AnswerIsIdentified, Identified
      <4>2. PICK s \in Seq(Playable(checked)) : s = Script /\ line \in 1..Len(s) + 1
        <5>1. Sittable(checked, Script)  BY <1>3, TestIsSittable DEF ExamInv
        <5>2. PICK s \in Seq(Playable(checked)) : s = Script  BY <5>1 DEF Sittable
        <5>3. line \in 1..Len(s) \/ line = Len(s) + 1  BY <1>2, <5>2 DEF OnPage, ExamInv, LineInv
        <5>4. line \in 1..Len(s) + 1  BY <5>3
        <5> QED  BY <5>2, <5>4
      <4>3. line - 1 \in 0..Len(s)  BY <4>2
      <4>4. Len(Asked(s, line - 1)) <= Len(Answerable(s))  BY <4>3, AskedGrow
      <4>5. Asked(s, line - 1) \in Seq(Playable(checked))
        <5>1. \A l \in 0..Len(s) : Asked(s, l) \in Seq(Playable(checked))  BY AskingOn, Zenon
        <5> QED  BY <4>3, <5>1
      <4>6. Len(Ids(Asked(s, line - 1))) = Len(Asked(s, line - 1))  BY <4>5, PlayableIsIdentified, Identified
      <4>7. Len(answers) <= n  BY <1>4, <1>5, <4>1, <4>2, <4>4, <4>6
      <4> QED  BY <1>5, <4>7
    <3> QED  BY <1>7, <3>1
  <2>2. slots[i].number = i /\ slots[j].number = j  BY <1>6, <2>1, SlotsOf
  <2> QED  BY <1>5, <1>7, <1>10, <2>2
<1>11. ASSUME NEW heard \in BOOLEAN, UploadArrives(i, heard)
       PROVE  /\ answers[i].key \in DOMAIN store' /\ store'[answers[i].key] = answers[i].id
              /\ \A j \in 1..Len(answers) : j # i /\ answers[j].key \in DOMAIN store =>
                   answers[j].key \in DOMAIN store' /\ store'[answers[j].key] = store[answers[j].key]
  <2>1. store' = [k \in DOMAIN store \cup {answers[i].key} |->
                    IF k = answers[i].key THEN answers[i].id ELSE store[k]]
    BY <1>11 DEF UploadArrives
  <2>2. answers[i].key \in DOMAIN store' /\ store'[answers[i].key] = answers[i].id  BY <2>1
  <2>3. ASSUME NEW j \in 1..Len(answers), j # i, answers[j].key \in DOMAIN store
        PROVE  answers[j].key \in DOMAIN store' /\ store'[answers[j].key] = store[answers[j].key]
    <3>1. answers[j].key # answers[i].key  BY <1>10, <2>3
    <3> QED  BY <2>1, <2>3, <3>1
  <2> QED  BY <2>2, <2>3
<1>12. ASSUME NEW j \in 1..Len(answers), us[j] = Stored
       PROVE  answers[j].key \in DOMAIN store' /\ store'[answers[j].key] = answers[j].id
  <2>1. TRUE \in BOOLEAN /\ FALSE \in BOOLEAN  OBVIOUS
  <2>2. CASE j = i
    <3>1. UploadArrives(i, TRUE)  BY <1>8, <1>9, <1>12, <2>2
    <3> QED  BY <1>11, <2>1, <2>2, <3>1
  <2>3. CASE j # i
    <3>1. answers[j].key \in DOMAIN store /\ store[answers[j].key] = answers[j].id  BY <1>5, <1>9, <1>12, <2>3
    <3>2. store' = store \/ UploadArrives(i, TRUE) \/ UploadArrives(i, FALSE)  BY <1>8
    <3>3. answers[j].key \in DOMAIN store' /\ store'[answers[j].key] = store[answers[j].key]
      BY <1>11, <2>1, <2>3, <3>1, <3>2
    <3> QED  BY <3>1, <3>3
  <2> QED  BY <2>2, <2>3
<1>13. /\ test' = test /\ Script' = Script /\ line' = line /\ stage' = stage /\ phase' = phase
       /\ slots' = slots /\ answers' = answers /\ submissions' = submissions
       /\ draft' = draft /\ checked' = checked
  BY <1>1 DEF composeVars, Script
<1>14. AnswersInv'
  <2>1. Stored' = Stored  BY DEF Stored
  <2>2. Ids(answers') = Ids(Asked(Script', line' - 1)) /\ answers' \in Seq(Answer)  BY <1>5, <1>13
  <2>3. \E w \in Users : slots' = UploadSlots(w, Len(Answerable(Script')))  BY <1>4, <1>6, <1>13
  <2>4. \A j \in 1..Len(answers') : answers'[j].key = slots'[j]  BY <1>5, <1>13
  <2>5. upload' \in Seq(0..UploadTries + 1) /\ Len(upload') = Len(answers')  BY <1>9, <1>13
  <2>6. \A j \in 1..Len(answers') : upload'[j] = Stored =>
             answers'[j].key \in DOMAIN store' /\ store'[answers'[j].key] = answers'[j].id
    BY <1>9, <1>12, <1>13
  <2> QED  BY <2>1, <2>2, <2>3, <2>4, <2>5, <2>6 DEF AnswersInv
<1>15. SessionInv' /\ request' = request  BY <1>1, SessionKept DEF ExamInv
<1>16. RequestInv'
  <2>1. upload[i] # Stored  BY <1>2 DEF Stored
  <2>2. request.op \notin {"script", "slots", "submit"}  BY <1>2, <2>1 DEF OnPage, ExamInv, RequestInv
  <2> QED  BY <1>15, <2>2 DEF RequestInv
<1>17. TestInv' /\ LineInv'  BY <1>13 DEF ExamInv, TestInv, LineInv
<1>18. PhaseInv'  BY <1>2, <1>3, <1>13 DEF PhaseInv, OnPage, Early
<1>19. HandedInv'  BY <1>3, <1>13 DEF HandedInv, ClipsAreTheirOwn
<1> QED  BY <1>14, <1>15, <1>16, <1>17, <1>18, <1>19 DEF ExamInv

-----------------------------------------------------------------------------
(* The hand-in *)

LEMMA Members ==
    ASSUME NEW V, NEW s \in Seq(V)
    PROVE  \A k \in 1..Len(s) : s[k] \in V
OBVIOUS

\* What there is when the last line has been played.
LEMMA AllAnswered ==
    ASSUME ExamInv, phase = "submitting"
    PROVE  /\ test # None /\ submissions = {}
           /\ Ids(answers) = Ids(Questions(test)) /\ IsInjective(Ids(Questions(test)))
           /\ Questions(test) \in Seq(Posed) /\ Len(answers) = Len(Questions(test))
           /\ answers \in Seq(Answer) /\ Len(answers) > 0
           /\ \E u \in Users : slots[1].user = u /\ \A i \in 1..Len(answers) : answers[i].key.user = u
           /\ upload \in Seq(0..UploadTries + 1) /\ Len(upload) = Len(answers)
           /\ \A i \in 1..Len(answers) : upload[i] = Stored =>
                answers[i].key \in DOMAIN store /\ store[answers[i].key] = answers[i].id
<1>1. test # None /\ submissions = {}  BY DEF ExamInv, PhaseInv, HandedInv, Closed
<1>2. Sittable(checked, Script)  BY <1>1, TestIsSittable DEF ExamInv
<1>3. PICK s \in Seq(Playable(checked)), n \in 1..MaxUploadSlots :
          s = Script /\ n = Len(Answerable(s)) /\ n = Len(Questions(test)) /\ line = Len(s) + 1
  <2>1. line = Len(Script) + 1  BY DEF ExamInv, LineInv
  <2> QED  BY <1>2, <2>1 DEF Sittable
<1>4. /\ Ids(answers) = Ids(Asked(Script, line - 1))
      /\ answers \in Seq(Answer)
      /\ \E u \in Users : slots = UploadSlots(u, n)
      /\ \A j \in 1..Len(answers) : answers[j].key = slots[j]
      /\ upload \in Seq(0..UploadTries + 1) /\ Len(upload) = Len(answers)
      /\ \A j \in 1..Len(answers) : upload[j] = Stored =>
             answers[j].key \in DOMAIN store /\ store[answers[j].key] = answers[j].id
  <2>1. OnPage  BY DEF OnPage
  <2> QED  BY <1>3, <2>1 DEF ExamInv, AnswersInv
<1>5. Ids(answers) = Ids(Questions(test)) /\ IsInjective(Ids(Questions(test))) /\ Questions(test) \in Seq(Posed)
  <2>1. line - 1 = Len(s)  BY <1>3
  <2>2. Asked(Script, line - 1) = Answerable(s)  BY <1>3, <2>1 DEF Answerable
  <2> QED  BY <1>2, <1>3, <1>4, <2>2 DEF Sittable
<1>6. Len(answers) = n
  <2>1. Len(Ids(answers)) = Len(answers)  BY <1>4, AnswerIsIdentified, Identified
  <2>2. Len(Ids(Questions(test))) = Len(Questions(test))  BY <1>5, PosedIsIdentified, Identified
  <2> QED  BY <1>3, <1>5, <2>1, <2>2
<1>7. n > 0  BY ExamAssumption
<1>8. PICK u \in Users : slots = UploadSlots(u, n)  BY <1>4
<1>9. 1 \in 1..n  BY <1>7
<1>10. slots[1].user = u /\ \A i \in 1..n : slots[i].user = u  BY <1>8, <1>9, SlotsOf
<1>11. \A i \in 1..Len(answers) : answers[i].key.user = u  BY <1>4, <1>6, <1>10
<1>12. \E v \in Users : slots[1].user = v /\ \A i \in 1..Len(answers) : answers[i].key.user = v  BY <1>10, <1>11
<1>13. Len(answers) > 0 /\ Len(answers) = Len(Questions(test))  BY <1>3, <1>6, <1>7
<1> QED  BY <1>1, <1>4, <1>5, <1>12, <1>13, Zenon

\* The server has nothing to say against it.
LEMMA WholeIsAccepted ==
    ASSUME ExamInv, phase = "submitting"
    PROVE  Accepts(slots[1].user)
<1>1. /\ Ids(answers) = Ids(Questions(test)) /\ IsInjective(Ids(Questions(test)))
      /\ Questions(test) \in Seq(Posed) /\ Len(answers) = Len(Questions(test))
      /\ answers \in Seq(Answer) /\ Len(answers) > 0
      /\ \E u \in Users : slots[1].user = u /\ \A i \in 1..Len(answers) : answers[i].key.user = u
  BY AllAnswered
<1>2. PICK as \in Seq(Answer), qs \in Seq(Posed), n \in Nat :
        as = answers /\ qs = Questions(test) /\ n = Len(as) /\ n = Len(qs)
  BY <1>1
<1>3. DOMAIN as = 1..n /\ DOMAIN qs = 1..n /\ as # <<>>  BY <1>1, <1>2
<1>4. \A i \in 1..n : Ids(as)[i] = as[i].id  BY <1>2, AnswerIsIdentified, Identified
<1>5. Len(Ids(qs)) = n /\ Ids(qs) \in Seq(Identity) /\ \A i \in 1..n : Ids(qs)[i] = qs[i].id
  BY <1>2, PosedIsIdentified, Identified
<1>6. \A i \in 1..n : as[i].id = qs[i].id  BY <1>1, <1>2, <1>4, <1>5
<1>7. \A i \in 1..n : as[i].id \in {q.id : q \in ToSet(qs)}
  <2>1. \A i \in 1..n : qs[i] \in ToSet(qs)  BY <1>3 DEF ToSet
  <2> QED  BY <1>6, <2>1
<1>8. ASSUME NEW i \in 1..n, NEW j \in 1..i - 1, as[j].id = as[i].id PROVE FALSE
  <2>1. j \in 1..n /\ j # i  BY <1>8
  <2>2. Ids(qs)[i] = Ids(qs)[j]  BY <1>5, <1>6, <1>8, <2>1
  <2>3. i \in DOMAIN Ids(qs) /\ j \in DOMAIN Ids(qs)  BY <1>5, <2>1
  <2>4. IsInjective(Ids(qs))  BY <1>1, <1>2
  <2> QED  BY <2>1, <2>2, <2>3, <2>4 DEF IsInjective
<1>9. \A i \in 1..n : as[i].key.user = slots[1].user  BY <1>1, <1>2
<1>10. ASSUME NEW i \in 1..n PROVE as[i].seconds \in 1..MaxAnswerSeconds
  <2>1. \A k \in 1..Len(as) : as[k] \in Answer  BY Members
  <2>2. as[i] \in Answer  BY <1>2, <2>1
  <2> QED  BY <2>2 DEF Answer
<1>11. ASSUME NEW i \in DOMAIN answers
       PROVE  /\ answers[i].id \in {q.id : q \in ToSet(Questions(test))}
              /\ \A j \in 1..i - 1 : answers[j].id # answers[i].id
              /\ answers[i].key.user = slots[1].user
              /\ answers[i].seconds \in 1..MaxAnswerSeconds
  <2>1. i \in 1..n  BY <1>2, <1>3
  <2> QED  BY <1>2, <1>7, <1>8, <1>9, <1>10, <2>1
<1>12. answers # <<>>  BY <1>2, <1>3
<1> QED  BY <1>11, <1>12 DEF Accepts

LEMMA SubmitExam == ASSUME ExamInv, NEW heard \in BOOLEAN, Submit(heard) PROVE ExamInv'
<1> DEFINE user == request.token.user
<1>1. /\ request.op = "submit" /\ Over
      /\ UNCHANGED <<composeVars, examVars>>
      /\ phase' \in {"submitted", "failed", "refused"}
  BY DEF Submit
<1>2. phase = "submitting" /\ \A i \in DOMAIN upload : upload[i] = Stored  BY <1>1 DEF ExamInv, RequestInv
<1>3. /\ test # None /\ submissions = {}
      /\ Ids(answers) = Ids(Questions(test))
      /\ answers \in Seq(Answer)
      /\ upload \in Seq(0..UploadTries + 1) /\ Len(upload) = Len(answers)
      /\ \A i \in 1..Len(answers) : upload[i] = Stored =>
           answers[i].key \in DOMAIN store /\ store[answers[i].key] = answers[i].id
  BY <1>2, AllAnswered
<1>4. SessionInv' /\ request'.op = "none"  BY <1>1, Ending DEF ExamInv
<1>5. RequestInv'  BY <1>4 DEF RequestInv
<1>6. /\ test' = test /\ draft' = draft /\ checked' = checked
      /\ answers' = answers /\ upload' = upload /\ store' = store
  BY <1>1 DEF composeVars, examVars
<1>7. TestInv' /\ PhaseInv'  BY <1>1, <1>3, <1>6 DEF ExamInv, TestInv, PhaseInv, Early
<1>8. LineInv' /\ AnswersInv'  BY <1>1 DEF LineInv, AnswersInv, OnPage
<1>9. Closed'  BY <1>1 DEF Closed
<1>10. CASE submissions' = submissions
  <2>1. HandedInv'  BY <1>3, <1>9, <1>10 DEF HandedInv, ClipsAreTheirOwn
  <2> QED  BY <1>4, <1>5, <1>7, <1>8, <2>1 DEF ExamInv
<1>11. CASE submissions' # submissions
  <2>1. Accepts(user) /\ submissions' = submissions \cup {[user |-> user, answers |-> answers]}
    BY <1>11 DEF Submit
  <2>2. PICK s : s = [user |-> user, answers |-> answers] /\ s.user = user /\ s.answers = answers
    <3> HIDE DEF user
    <3>1. PICK s : s = [user |-> user, answers |-> answers]  OBVIOUS
    <3>2. s.user = user /\ s.answers = answers  BY <3>1
    <3> QED  BY <3>1, <3>2
  <2>3. submissions' = {s}  BY <1>3, <2>1, <2>2
  <2>4. \A i \in DOMAIN answers : answers[i].key.user = user  BY <2>1 DEF Accepts
  <2>5. \A i \in DOMAIN answers : answers[i].key \in DOMAIN store /\ store[answers[i].key] = answers[i].id
    <3>1. DOMAIN answers = 1..Len(answers) /\ DOMAIN upload = 1..Len(answers)  BY <1>3
    <3> QED  BY <1>2, <1>3, <3>1
  <2>6. Recordings(s.user, s) = ToSet(s.answers)
    <3>1. {i \in DOMAIN s.answers : s.answers[i].key.user = s.user} = DOMAIN s.answers  BY <2>2, <2>4
    <3>2. Recordings(s.user, s) = {s.answers[i] : i \in DOMAIN s.answers}  BY <3>1 DEF Recordings
    <3> QED  BY <3>2 DEF ToSet
  <2>7. ClipsAreTheirOwn'  BY <1>6, <2>2, <2>3, <2>4, <2>5 DEF ClipsAreTheirOwn
  <2>8. Ids(s.answers) = Ids(Questions(test))  BY <1>3, <2>2
  <2>9. \A r \in submissions' : Ids(r.answers) = Ids(Questions(test)) /\ Recordings(r.user, r) = ToSet(r.answers)
    BY <2>3, <2>6, <2>8
  <2>10. HandedInv'  BY <1>6, <1>9, <2>7, <2>9 DEF HandedInv
  <2> QED  BY <1>4, <1>5, <1>7, <1>8, <2>10 DEF ExamInv
<1> QED  BY <1>10, <1>11

LEMMA HandInExam == ASSUME ExamInv, HandIn PROVE ExamInv'
<1>1. /\ phase = "submitting" /\ phase' = phase /\ UNCHANGED <<composeVars, examVars, submissions>>
      /\ \A i \in DOMAIN upload : upload[i] = Stored
  BY DEF HandIn, UploadsSettled, AnyUploadFailed
<1>2. SessionInv' /\ request'.op = "submit"
  <2>1. Send("submit") /\ "submit" \in {"script", "slots", "submit"}  BY DEF HandIn
  <2> QED  BY <2>1, Sending DEF ExamInv
<1>3. upload' = upload /\ Stored' = Stored  BY <1>1 DEF examVars, Stored
<1>4. RequestInv'  BY <1>1, <1>2, <1>3 DEF RequestInv
<1>5. TestInv' /\ PhaseInv' /\ LineInv' /\ AnswersInv' /\ HandedInv'
  <2>1. test # None /\ ~Closed /\ phase \notin Early  BY <1>1 DEF ExamInv, PhaseInv, Closed, Early
  <2> QED  BY <1>1, <2>1, ExamStays DEF examVars
<1> QED  BY <1>2, <1>4, <1>5 DEF ExamInv

-----------------------------------------------------------------------------
(* What may go wrong *)

\* What leaves the exam as it is, and the request for what it was for.
LEMMA RequestStays ==
    ASSUME ExamInv, SessionInv', request'.op = request.op, phase' = phase,
           UNCHANGED <<composeVars, line, stage, slots, answers, upload, store, submissions>>
    PROVE  ExamInv'
<1>1. TestInv' /\ PhaseInv' /\ LineInv' /\ AnswersInv' /\ HandedInv'
  <2>1. (Closed => Closed') /\ (phase' \notin {"writing", "rejected"} => test # None)
    BY DEF Closed, ExamInv, PhaseInv
  <2> QED  BY <2>1, ExamStays
<1>2. upload' = upload /\ Stored' = Stored  BY DEF Stored
<1>3. RequestInv'  BY <1>2 DEF ExamInv, RequestInv
<1> QED  BY <1>1, <1>3 DEF ExamInv

\* The page is gone, or has failed.
LEMMA PageCloses ==
    ASSUME ExamInv, phase \notin {"writing", "rejected"}, phase' \in {"failed", "left"}, SessionInv', request'.op = "none",
           UNCHANGED <<composeVars, line, stage, slots, answers, upload, store, submissions>>
    PROVE  ExamInv'
<1>1. TestInv' /\ PhaseInv' /\ LineInv' /\ AnswersInv' /\ HandedInv'
  <2>1. ~OnPage' /\ Closed' /\ test # None /\ phase' \notin Early  BY DEF OnPage, Closed, ExamInv, PhaseInv, Early
  <2> QED  BY <2>1, ExamStays
<1>2. RequestInv'  BY DEF RequestInv
<1> QED  BY <1>1, <1>2 DEF ExamInv

\* A request that is under way is one of the page.
LEMMA RequestsOfPage ==
    ASSUME ExamInv, request.at # "idle"
    PROVE  phase \in {"loading", "ready", "submitting"}
BY DEF ExamInv, SessionInv, RequestInv, Requested

LEMMA RequestThrowsExam == ASSUME ExamInv, RequestThrows PROVE ExamInv'
<1>1. /\ Sent /\ Over /\ UNCHANGED <<composeVars, examVars, submissions>>
      /\ phase' = IF request.op = "slots" THEN "ready" ELSE "failed"
  BY DEF RequestThrows
<1>2. UNCHANGED <<composeVars, line, stage, slots, answers, upload, store, submissions>>  BY <1>1 DEF examVars
<1>3. SessionInv' /\ request'.op = "none"  BY <1>1, Ending DEF ExamInv
<1>4. phase \in {"loading", "ready", "submitting"}  BY <1>1, RequestsOfPage DEF Sent
<1>5. CASE request.op = "slots"
  <2>1. phase = "ready" /\ phase' = "ready"  BY <1>1, <1>5 DEF ExamInv, RequestInv
  <2>2. ~OnPage' /\ ~Closed /\ test # None /\ phase \in Early  BY <2>1 DEF OnPage, Closed, ExamInv, PhaseInv, Early
  <2>3. TestInv' /\ PhaseInv' /\ LineInv' /\ AnswersInv' /\ HandedInv'  BY <1>2, <2>2, ExamStays
  <2>4. RequestInv'  BY <1>3 DEF RequestInv
  <2> QED  BY <1>3, <2>3, <2>4 DEF ExamInv
<1>6. CASE request.op # "slots"
  <2>1. phase' \in {"failed", "left"} /\ phase \notin {"writing", "rejected"}  BY <1>1, <1>4, <1>6
  <2> QED  BY <1>2, <1>3, <2>1, PageCloses
<1> QED  BY <1>5, <1>6

LEMMA RefreshingExam == ASSUME ExamInv, Refreshing PROVE ExamInv'
<1>1. /\ AskRefresh \/ Refreshed
      /\ phase' = phase /\ UNCHANGED <<composeVars, line, stage, slots, answers, upload, store, submissions>>
  BY DEF Refreshing, examVars
<1>2. SessionInv' /\ request'.op = request.op  BY <1>1, AskingRefresh, RefreshEnds DEF ExamInv
<1> QED  BY <1>1, <1>2, RequestStays

LEMMA SessionEndsExam == ASSUME ExamInv, SessionEnds PROVE ExamInv'
<1>1. /\ ForceLogout /\ request.at # "idle" /\ phase' \in {"failed", "left"}
      /\ UNCHANGED <<composeVars, line, stage, slots, answers, upload, store, submissions>>
  BY DEF SessionEnds, CannotRefresh, RefreshFails, Sent, examVars
<1>2. SessionInv' /\ request'.op = "none"  BY <1>1, Ending DEF ExamInv
<1>3. phase \notin {"writing", "rejected"}  BY <1>1, RequestsOfPage
<1> QED  BY <1>1, <1>2, <1>3, PageCloses

LEMMA PageGoneExam == ASSUME ExamInv, PageGone PROVE ExamInv'
<1>1. /\ phase' \in {"failed", "left"} /\ phase \notin {"writing", "rejected"}
      /\ ForceLogout \/ Over
      /\ UNCHANGED <<composeVars, line, stage, slots, answers, upload, store, submissions>>
  BY DEF PageGone, OnPage, examVars
<1>2. SessionInv' /\ request'.op = "none"  BY <1>1, Ending DEF ExamInv
<1> QED  BY <1>1, <1>2, PageCloses

LEMMA InOtherTabsExam == ASSUME ExamInv, InOtherTabs PROVE ExamInv'
<1>1. /\ Meanwhile /\ phase' = phase
      /\ UNCHANGED <<composeVars, line, stage, slots, answers, upload, store, submissions>>
  BY DEF InOtherTabs, examVars
<1>2. SessionInv' /\ request'.op = request.op  BY <1>1, Elsewhere DEF ExamInv
<1> QED  BY <1>1, <1>2, RequestStays

\* The microphone and the links are nothing the hand-in rests on.
LEMMA MicOrLinksExam == ASSUME ExamInv, MicrophoneEnds \/ LinksExpire \/ UNCHANGED vars PROVE ExamInv'
<1>1. /\ phase' = phase /\ UNCHANGED sessionVars
      /\ UNCHANGED <<composeVars, line, stage, slots, answers, upload, store, submissions>>
  BY DEF MicrophoneEnds, LinksExpire, vars, examVars
<1>2. SessionInv' /\ request'.op = request.op  BY <1>1, SessionKept DEF ExamInv
<1> QED  BY <1>1, <1>2, RequestStays

LEMMA LoseExamExam == ASSUME ExamInv, LoseExam PROVE ExamInv'
<1>1. /\ phase = "submitting" /\ phase' \in {"failed", "left"} /\ phase \notin {"writing", "rejected"}
      /\ request = Idle /\ UNCHANGED sessionVars
      /\ UNCHANGED <<composeVars, line, stage, slots, answers, upload, store, submissions>>
  BY DEF LoseExam, UploadsSettled, Failed, examVars
<1>2. SessionInv' /\ request' = request  BY <1>1, SessionKept DEF ExamInv
<1>3. request'.op = "none"  BY <1>1, <1>2, IdleRequest
<1> QED  BY <1>1, <1>2, <1>3, PageCloses

-----------------------------------------------------------------------------

LEMMA NextExam == ExamInv /\ [Next]_vars => ExamInv'
<1> SUFFICES ASSUME ExamInv, [Next]_vars PROVE ExamInv'  OBVIOUS
<1>1. CASE (\E answered \in BOOLEAN : Compose(answered)) \/ (\E b \in DOMAIN Bank : Choose(b))
  BY <1>1, ComposeExam
<1>2. CASE OpenPage \/ Begin  BY <1>2, OpenPageExam, BeginExam
<1>3. CASE LineOver
  <2>1. CASE Spoken \/ PrepOver  BY <2>1, SpokenExam, PrepOverExam
  <2>2. ASSUME phase = "running", stage = "record", NEW s \in Durations(Script[line]), AnswerOver(s) PROVE ExamInv'
    BY <2>2, AnswerOverExam
  <2> QED  BY <1>3, <2>1, <2>2 DEF LineOver
<1>4. CASE SkipIntro  BY <1>4, SkipIntroExam
<1>5. CASE \E i \in DOMAIN upload : UploadSettles(i)  BY <1>5, UploadExam
<1>6. CASE LoseExam \/ HandIn  BY <1>6, LoseExamExam, HandInExam
<1>7. CASE Answered  BY <1>7, GetScriptExam, GetSlotsExam, SubmitExam DEF Answered
<1>8. CASE RequestThrows \/ Refreshing \/ SessionEnds  BY <1>8, RequestThrowsExam, RefreshingExam, SessionEndsExam
<1>9. CASE PageGone \/ InOtherTabs  BY <1>9, PageGoneExam, InOtherTabsExam
<1>10. CASE MicrophoneEnds \/ LinksExpire \/ UNCHANGED vars  BY <1>10, MicOrLinksExam
<1> QED  BY <1>1, <1>2, <1>3, <1>4, <1>5, <1>6, <1>7, <1>8, <1>9, <1>10 DEF Next

LEMMA ExamInvariant == Spec => []ExamInv
BY InitExam, NextExam, PTL DEF Spec

LEMMA ExamInvWhole == ExamInv => HandInIsWhole
<1> SUFFICES ASSUME ExamInv PROVE HandInIsWhole  OBVIOUS
<1>1. /\ ClipsAreTheirOwn
      /\ \A s \in submissions : /\ Ids(s.answers) = Ids(Questions(test))
                                /\ Recordings(s.user, s) = ToSet(s.answers)
  BY DEF ExamInv, HandedInv
<1>2. UploadsSettled => Accepts(slots[1].user)  BY WholeIsAccepted DEF UploadsSettled
<1> QED  BY <1>1, <1>2 DEF HandInIsWhole

\* However long the test, whoever logs in or out in other tabs, and whatever
\* becomes of links, tokens, requests, uploads and the microphone meanwhile:
\* what is handed in answers every question of the test once, with the clip
\* recorded for it, and the server finds nothing wrong with it
\* (SpeakingAttemptPage.jsx, api.js and speaking_submission.go together).
THEOREM SubmissionIsWhole == Spec => []HandInIsWhole
BY ExamInvariant, ExamInvWhole, PTL

=============================================================================
