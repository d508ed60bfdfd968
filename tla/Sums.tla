-------------------------------- MODULE Sums --------------------------------
(***************************************************************************)
(* Facts about sums over finite sets, which marks, numbers of questions    *)
(* and XP are: what an element adds, bounds, and sums that count.  The     *)
(* sums are those of module Functions, and the induction they need is the  *)
(* choice of a smallest counterexample.                                    *)
(***************************************************************************)
EXTENDS Integers, FiniteSets, Functions, FiniteSetTheorems, WellFoundedInduction, TLAPS

-----------------------------------------------------------------------------
(* Smallest elements *)

LEMMA LeastNumber ==
    ASSUME NEW T \in SUBSET Nat, T # {}
    PROVE  \E n \in T : \A m \in T : n <= m
<1> DEFINE R == {ss \in Nat \X Nat : ss[1] < ss[2]}
<1>1. IsWellFoundedOn(R, Nat)
  BY NatLessThanWellFounded DEF OpToRel
<1>2. PICK n \in T : \A m \in T : ~ (<<m, n>> \in R)
  BY <1>1, WFMin
<1>3. ASSUME NEW m \in T PROVE n <= m
  <2>1. n \in Nat /\ m \in Nat  OBVIOUS
  <2>2. SUFFICES ASSUME m < n PROVE FALSE  BY <2>1
  <2>3. <<m, n>> \in Nat \X Nat /\ <<m, n>>[1] = m /\ <<m, n>>[2] = n  BY <2>1
  <2>4. <<m, n>> \in R  BY <2>2, <2>3
  <2> QED  BY <1>2, <2>4
<1> QED  BY <1>3

LEMMA CountingUp ==
    ASSUME NEW P \in SUBSET Nat, 0 \in P, \A n \in P : n + 1 \in P
    PROVE  P = Nat
<1> SUFFICES ASSUME Nat \ P # {} PROVE FALSE  OBVIOUS
<1>1. PICK n \in Nat \ P : \A m \in Nat \ P : n <= m  BY LeastNumber
<1>2. n # 0 /\ n - 1 \in Nat /\ ~(n <= n - 1)  BY <1>1
<1>3. n - 1 \in P  BY <1>1, <1>2
<1> QED  BY <1>1, <1>2, <1>3

LEMMA GreatestNumber ==
    ASSUME NEW n \in Nat, NEW T \in SUBSET (0..n), T # {}
    PROVE  \E g \in T : \A m \in T : m <= g
<1> DEFINE U == {k \in Nat : n - k \in T}
<1>1. PICK t \in T : TRUE  OBVIOUS
<1>2. n - t \in Nat /\ n - (n - t) = t  OBVIOUS
<1>3. U \in SUBSET Nat /\ U # {}  BY <1>2
<1>4. PICK k \in U : \A l \in U : k <= l
  <2> HIDE DEF U
  <2> QED  BY <1>3, LeastNumber
<1>5. ASSUME NEW m \in T PROVE m <= n - k
  <2>1. n - m \in Nat /\ n - (n - m) = m  OBVIOUS
  <2>2. k <= n - m  BY <1>4, <2>1
  <2> QED  BY <1>4, <2>2
<1> QED  BY <1>4, <1>5

\* What holds of 0 and is handed on holds up to n.
LEMMA HandedOn ==
    ASSUME NEW n \in Nat, NEW f, NEW V, f[0] \in V,
           \A i \in 1..n : f[i - 1] \in V => f[i] \in V
    PROVE  \A i \in 0..n : f[i] \in V
<1> DEFINE P == {i \in Nat : i <= n => f[i] \in V}
<1>1. 0 \in P  OBVIOUS
<1>2. ASSUME NEW i \in P PROVE i + 1 \in P
  <2>1. i \in Nat /\ (i + 1) - 1 = i  OBVIOUS
  <2>2. CASE i + 1 <= n
    <3>1. f[i] \in V /\ i + 1 \in 1..n  BY <2>1, <2>2
    <3> QED  BY <2>1, <3>1
  <2>3. CASE ~(i + 1 <= n)  BY <2>1, <2>3
  <2> QED  BY <2>2, <2>3
<1>3. P = Nat
  <2> HIDE DEF P
  <2>1. P \in SUBSET Nat  BY DEF P
  <2> QED  BY <1>1, <1>2, <2>1, CountingUp
<1> QED  BY <1>3

LEMMA UpTo ==
    ASSUME NEW n \in Nat, NEW P, 0 \in P, \A i \in 1..n : i - 1 \in P => i \in P
    PROVE  \A i \in 0..n : i \in P
<1> DEFINE id == [i \in 0..n |-> i]
<1>1. id[0] \in P /\ \A i \in 1..n : id[i - 1] \in P => id[i] \in P  OBVIOUS
<1>2. \A i \in 0..n : id[i] \in P
  <2> HIDE DEF id
  <2> QED  BY <1>1, HandedOn
<1> QED  BY <1>2

\* Each value made from the one before it.
Stepwise(V, base, step, n, h) ==
    h \in [0..n -> V] /\ h[0] = base /\ \A i \in 1..n : h[i] = step[i][h[i - 1]]

LEMMA StepByStep ==
    ASSUME NEW V, NEW base \in V, NEW step \in [Nat -> [V -> V]], NEW n \in Nat
    PROVE  \E h : Stepwise(V, base, step, n, h)
<1> SUFFICES \E h \in [0..n -> V] : h[0] = base /\ \A i \in 1..n : h[i] = step[i][h[i - 1]]
  BY DEF Stepwise
<1> DEFINE Made(m, h) == h[0] = base /\ \A i \in 1..m : h[i] = step[i][h[i - 1]]
           P == {m \in Nat : \E h \in [0..m -> V] : Made(m, h)}
<1>1. 0 \in P
  <2>1. Made(0, [i \in 0..0 |-> base]) /\ [i \in 0..0 |-> base] \in [0..0 -> V]  OBVIOUS
  <2> QED  BY <2>1
<1>2. ASSUME NEW m \in P PROVE m + 1 \in P
  <2>1. PICK h \in [0..m -> V] : Made(m, h)  OBVIOUS
  <2> DEFINE g == [i \in 0..m + 1 |-> IF i = m + 1 THEN step[m + 1][h[m]] ELSE h[i]]
  <2>2. m \in Nat /\ m + 1 \in Nat /\ h[m] \in V  OBVIOUS
  <2>3. step[m + 1][h[m]] \in V  BY <2>2
  <2>4. \A i \in 0..m + 1 : i # m + 1 => i \in 0..m  BY <2>2
  <2>5. g \in [0..m + 1 -> V]  BY <2>3, <2>4
  <2>6. g[0] = base
    <3>1. 0 \in 0..m + 1 /\ 0 # m + 1  BY <2>2
    <3> QED  BY <2>1, <3>1
  <2>7. ASSUME NEW i \in 1..m + 1 PROVE g[i] = step[i][g[i - 1]]
    <3>1. /\ i \in 0..m + 1 /\ i - 1 \in 0..m + 1 /\ i - 1 # m + 1
          /\ (i # m + 1 => i \in 1..m) /\ (i = m + 1 => i - 1 = m)
      BY <2>2
    <3>2. g[i - 1] = h[i - 1]  BY <3>1
    <3>3. CASE i = m + 1  BY <3>1, <3>2, <3>3
    <3>4. CASE i # m + 1  BY <2>1, <3>1, <3>2, <3>4
    <3> QED  BY <3>3, <3>4
  <2>8. Made(m + 1, g)  BY <2>6, <2>7
  <2> HIDE DEF Made, g
  <2> QED  BY <2>2, <2>5, <2>8
<1>3. P = Nat
  <2> HIDE DEF P
  <2>1. P \in SUBSET Nat  BY DEF P
  <2> QED  BY <1>1, <1>2, <2>1, CountingUp
<1> QED  BY <1>3

LEMMA SmallestSet ==
    ASSUME NEW S, IsFiniteSet(S), NEW T \in SUBSET SUBSET S, T # {}
    PROVE  \E X \in T : \A Y \in T : Y \subseteq X => Y = X
<1>1. FiniteSubsetsOf(S) = SUBSET S
  BY FS_FiniteSubsetsOfFinite
<1>2. IsWellFoundedOn(StrictSubsetOrdering(S), SUBSET S)
  BY <1>1, FS_StrictSubsetOrderingWellFounded
<1>3. \E x \in T : \A y \in T : ~ (<<y, x>> \in StrictSubsetOrdering(S))
  BY <1>2, WFMin
<1> QED  BY <1>3 DEF StrictSubsetOrdering

\* What the empty set has, and any set that is one element from having it,
\* every finite set has.
LEMMA AddingElements ==
    ASSUME NEW S, IsFiniteSet(S), NEW P \in SUBSET SUBSET S, {} \in P,
           \A X \in SUBSET S : (X # {} /\ \A x \in X : X \ {x} \in P) => X \in P
    PROVE  P = SUBSET S
<1> SUFFICES ASSUME (SUBSET S) \ P # {} PROVE FALSE  OBVIOUS
<1> DEFINE T == (SUBSET S) \ P
<1>1. PICK X \in T : \A Y \in T : Y \subseteq X => Y = X
  <2>1. T \in SUBSET SUBSET S /\ T # {}  OBVIOUS
  <2> HIDE DEF T
  <2> QED  BY <2>1, SmallestSet
<1>2. \A x \in X : X \ {x} \in P  BY <1>1
<1>3. X # {}  BY <1>1
<1> QED  BY <1>1, <1>2, <1>3

-----------------------------------------------------------------------------
(* The recursion of a sum *)

Chosen(s) == CHOOSE x \in s : TRUE

\* h sums w over each set of D.
Adds(w, D, h) == h = [s \in D |-> IF s = {} THEN 0 ELSE w[Chosen(s)] + h[s \ {Chosen(s)}]]

Recursion(w, S) == CHOOSE h : Adds(w, SUBSET S, h)

LEMMA SumIsRecursion ==
    ASSUME NEW w, NEW S
    PROVE  SumFunctionOnSet(w, S) = Recursion(w, S)[S]
BY DEF SumFunctionOnSet, FoldFunctionOnSet, MapThenFoldSet, Recursion, Adds, Chosen

LEMMA ChosenIsElement ==
    ASSUME NEW s, s # {}
    PROVE  Chosen(s) \in s
BY DEF Chosen

\* There is such a recursion: by the size of the sets.
LEMMA RecursionExists ==
    ASSUME NEW w, NEW S, IsFiniteSet(S)
    PROVE  Adds(w, SUBSET S, Recursion(w, S))
<1> DEFINE Sets(n) == {s \in SUBSET S : Cardinality(s) <= n}
           P == {n \in Nat : \E h : Adds(w, Sets(n), h)}
<1>0. \A s \in SUBSET S : IsFiniteSet(s) /\ Cardinality(s) \in Nat /\ Cardinality(s) <= Cardinality(S)
  BY FS_Subset, FS_CardinalityType
<1>1. 0 \in P
  <2>1. \A s \in Sets(0) : s = {}  BY <1>0, FS_EmptySet
  <2>2. Adds(w, Sets(0), [s \in Sets(0) |-> 0])  BY <2>1 DEF Adds
  <2> QED  BY <2>2
<1>2. ASSUME NEW n \in P PROVE n + 1 \in P
  <2>1. PICK h : Adds(w, Sets(n), h)  BY <1>2
  <2> DEFINE g == [s \in Sets(n + 1) |-> IF s = {} THEN 0 ELSE w[Chosen(s)] + h[s \ {Chosen(s)}]]
  <2>2. ASSUME NEW s \in Sets(n + 1), s # {}
        PROVE  s \ {Chosen(s)} \in Sets(n)
    <3>1. Chosen(s) \in s  BY <2>2, ChosenIsElement
    <3>2. Cardinality(s \ {Chosen(s)}) = Cardinality(s) - 1
      BY <1>0, <3>1, FS_RemoveElement
    <3>3. n \in Nat /\ Cardinality(s) \in Nat /\ Cardinality(s) <= n + 1  BY <1>0, <1>2
    <3> QED  BY <3>2, <3>3
  <2>3. Sets(n) \subseteq Sets(n + 1)  BY <1>0, <1>2
  <2>4. \A s \in Sets(n) : g[s] = h[s]
    BY <2>1, <2>3 DEF Adds
  <2>5. Adds(w, Sets(n + 1), g)
    <3>1. ASSUME NEW s \in Sets(n + 1)
          PROVE  g[s] = IF s = {} THEN 0 ELSE w[Chosen(s)] + g[s \ {Chosen(s)}]
      BY <2>2, <2>4
    <3> HIDE DEF Sets
    <3>2. g = [s \in Sets(n + 1) |-> g[s]]  OBVIOUS
    <3> HIDE DEF g
    <3>3. g = [s \in Sets(n + 1) |-> IF s = {} THEN 0 ELSE w[Chosen(s)] + g[s \ {Chosen(s)}]]
      BY <3>1, <3>2
    <3> QED  BY <3>3 DEF Adds
  <2>6. n + 1 \in Nat  BY <1>2
  <2> QED  BY <2>5, <2>6
<1>3. P = Nat
  <2> HIDE DEF P
  <2>1. P \in SUBSET Nat  BY DEF P
  <2> QED  BY <1>1, <1>2, <2>1, CountingUp
<1>4. \E h : Adds(w, Sets(Cardinality(S)), h)
  <2>1. Cardinality(S) \in P  BY <1>0, <1>3
  <2> QED  BY <2>1
<1>5. Sets(Cardinality(S)) = SUBSET S  BY <1>0
<1> QED  BY <1>4, <1>5 DEF Recursion

-----------------------------------------------------------------------------
(* Sums *)

Sum(w, S) == SumFunctionOnSet(w, S)

\* What the recursion for a set says of a smaller one.
LEMMA RecursionIsSum ==
    ASSUME NEW w, NEW S, IsFiniteSet(S)
    PROVE  \A T \in SUBSET S : Recursion(w, S)[T] = Sum(w, T)
<1> DEFINE P == {T \in SUBSET S : \A U \in SUBSET S : T \subseteq U => Recursion(w, U)[T] = Sum(w, T)}
<1>0. ASSUME NEW U \in SUBSET S
      PROVE  Adds(w, SUBSET U, Recursion(w, U))
  BY RecursionExists, FS_Subset
<1>1. ASSUME NEW U \in SUBSET S, NEW T \in SUBSET U
      PROVE  Recursion(w, U)[T] = IF T = {} THEN 0 ELSE w[Chosen(T)] + Recursion(w, U)[T \ {Chosen(T)}]
  BY <1>0, <1>1 DEF Adds
<1>2. {} \in P
  <2>1. \A U \in SUBSET S : Recursion(w, U)[{}] = 0  BY <1>1
  <2>2. Sum(w, {}) = 0  BY <2>1, SumIsRecursion DEF Sum
  <2> QED  BY <2>1, <2>2
<1>3. ASSUME NEW T \in SUBSET S, T # {}, \A x \in T : T \ {x} \in P
      PROVE  T \in P
  <2> DEFINE x == Chosen(T)
  <2>1. x \in T  BY <1>3, ChosenIsElement
  <2>2. ASSUME NEW U \in SUBSET S, T \subseteq U
        PROVE  Recursion(w, U)[T] = w[x] + Sum(w, T \ {x})
    <3>1. Recursion(w, U)[T] = w[x] + Recursion(w, U)[T \ {x}]  BY <1>1, <1>3, <2>2
    <3>2. Recursion(w, U)[T \ {x}] = Sum(w, T \ {x})  BY <1>3, <2>1, <2>2
    <3> QED  BY <3>1, <3>2
  <2>3. Sum(w, T) = w[x] + Sum(w, T \ {x})  BY <2>2, SumIsRecursion DEF Sum
  <2> QED  BY <2>2, <2>3
<1>4. P = SUBSET S
  <2> HIDE DEF P
  <2>1. P \in SUBSET SUBSET S  BY DEF P
  <2> QED  BY <1>2, <1>3, <2>1, AddingElements
<1> QED  BY <1>4

LEMMA SumSplits ==
    ASSUME NEW w, NEW S, IsFiniteSet(S)
    PROVE  Sum(w, S) = IF S = {} THEN 0 ELSE w[Chosen(S)] + Sum(w, S \ {Chosen(S)})
<1>1. Adds(w, SUBSET S, Recursion(w, S))  BY RecursionExists
<1>2. Recursion(w, S)[S] = IF S = {} THEN 0 ELSE w[Chosen(S)] + Recursion(w, S)[S \ {Chosen(S)}]
  BY <1>1 DEF Adds
<1>3. S \ {Chosen(S)} \in SUBSET S  OBVIOUS
<1>4. Recursion(w, S)[S \ {Chosen(S)}] = Sum(w, S \ {Chosen(S)})  BY <1>3, RecursionIsSum
<1>5. Recursion(w, S)[S] = Sum(w, S)  BY RecursionIsSum
<1> QED  BY <1>2, <1>4, <1>5

\* A sum of integers is one, and so is a sum of natural numbers.
LEMMA SumType ==
    ASSUME NEW S, IsFiniteSet(S), NEW w, \A x \in S : w[x] \in Int
    PROVE  /\ Sum(w, S) \in Int
           /\ (\A x \in S : w[x] \in Nat) => Sum(w, S) \in Nat
<1> DEFINE P == {T \in SUBSET S : /\ Sum(w, T) \in Int
                                  /\ (\A x \in S : w[x] \in Nat) => Sum(w, T) \in Nat}
<1>1. {} \in P
  <2>1. Sum(w, {}) = 0  BY SumSplits, FS_EmptySet
  <2> QED  BY <2>1
<1>2. ASSUME NEW T \in SUBSET S, T # {}, \A x \in T : T \ {x} \in P
      PROVE  T \in P
  <2>1. IsFiniteSet(T)  BY FS_Subset
  <2>2. Chosen(T) \in T  BY <1>2, ChosenIsElement
  <2>3. Sum(w, T) = w[Chosen(T)] + Sum(w, T \ {Chosen(T)})  BY <1>2, <2>1, SumSplits
  <2> QED  BY <1>2, <2>2, <2>3
<1>3. P = SUBSET S
  <2> HIDE DEF P
  <2>1. P \in SUBSET SUBSET S  BY DEF P
  <2> QED  BY <1>1, <1>2, <2>1, AddingElements
<1> QED  BY <1>3

\* An element adds what it is worth, whichever it is.
LEMMA SumOfElement ==
    ASSUME NEW S, IsFiniteSet(S), NEW w, \A x \in S : w[x] \in Int, NEW e \in S
    PROVE  Sum(w, S) = w[e] + Sum(w, S \ {e})
<1> DEFINE P == {T \in SUBSET S : \A x \in T : Sum(w, T) = w[x] + Sum(w, T \ {x})}
<1>0. \A T \in SUBSET S : IsFiniteSet(T) /\ Sum(w, T) \in Int
  <2> SUFFICES ASSUME NEW T \in SUBSET S PROVE IsFiniteSet(T) /\ Sum(w, T) \in Int  OBVIOUS
  <2>1. IsFiniteSet(T)  BY FS_Subset
  <2> QED  BY <2>1, SumType
<1>1. {} \in P  OBVIOUS
<1>2. ASSUME NEW T \in SUBSET S, T # {}, \A x \in T : T \ {x} \in P
      PROVE  T \in P
  <2> SUFFICES ASSUME NEW x \in T PROVE Sum(w, T) = w[x] + Sum(w, T \ {x})  OBVIOUS
  <2> DEFINE c == Chosen(T)
  <2>1. c \in T /\ Sum(w, T) = w[c] + Sum(w, T \ {c})  BY <1>0, <1>2, ChosenIsElement, SumSplits
  <2>2. CASE x = c  BY <2>1, <2>2
  <2>3. CASE x # c
    <3>1. Sum(w, T \ {c}) = w[x] + Sum(w, (T \ {c}) \ {x})  BY <1>2, <2>1, <2>3
    <3>2. Sum(w, T \ {x}) = w[c] + Sum(w, (T \ {x}) \ {c})  BY <1>2, <2>1, <2>3
    <3>3. (T \ {c}) \ {x} = (T \ {x}) \ {c}  OBVIOUS
    <3>4. w[c] \in Int /\ w[x] \in Int /\ Sum(w, (T \ {x}) \ {c}) \in Int  BY <1>0, <2>1
    <3> HIDE DEF c, P
    <3>5. Sum(w, T) = w[c] + (w[x] + Sum(w, (T \ {x}) \ {c}))  BY <2>1, <3>1, <3>3
    <3> QED  BY <3>2, <3>4, <3>5
  <2> QED  BY <2>2, <2>3
<1>3. P = SUBSET S
  <2> HIDE DEF P
  <2>1. P \in SUBSET SUBSET S  BY DEF P
  <2> QED  BY <1>1, <1>2, <2>1, AddingElements
<1> QED  BY <1>3

\* A new element adds what it is worth.
LEMMA SumGrows ==
    ASSUME NEW S, IsFiniteSet(S), NEW e, e \notin S, NEW w, \A x \in S \cup {e} : w[x] \in Int
    PROVE  Sum(w, S \cup {e}) = Sum(w, S) + w[e]
<1>1. IsFiniteSet(S \cup {e})  BY FS_AddElement
<1>2. Sum(w, S \cup {e}) = w[e] + Sum(w, (S \cup {e}) \ {e})  BY <1>1, SumOfElement
<1>3. (S \cup {e}) \ {e} = S  OBVIOUS
<1>4. Sum(w, S) \in Int /\ w[e] \in Int  BY SumType
<1>5. Sum(w, S \cup {e}) = w[e] + Sum(w, S)  BY <1>2, <1>3
<1> QED  BY <1>4, <1>5

\* What is nowhere more is not more in sum.
LEMMA SumMonotone ==
    ASSUME NEW S, IsFiniteSet(S), NEW v, NEW w,
           \A x \in S : v[x] \in Int /\ w[x] \in Int /\ v[x] <= w[x]
    PROVE  Sum(v, S) <= Sum(w, S)
<1> DEFINE P == {T \in SUBSET S : Sum(v, T) <= Sum(w, T)}
<1>0. \A T \in SUBSET S : IsFiniteSet(T) /\ Sum(v, T) \in Int /\ Sum(w, T) \in Int
  <2> SUFFICES ASSUME NEW T \in SUBSET S
               PROVE IsFiniteSet(T) /\ Sum(v, T) \in Int /\ Sum(w, T) \in Int
    OBVIOUS
  <2>1. IsFiniteSet(T)  BY FS_Subset
  <2> QED  BY <2>1, SumType
<1>1. {} \in P
  <2>1. Sum(v, {}) = 0 /\ Sum(w, {}) = 0  BY SumSplits, FS_EmptySet
  <2> QED  BY <2>1
<1>2. ASSUME NEW T \in SUBSET S, T # {}, \A x \in T : T \ {x} \in P
      PROVE  T \in P
  <2>1. PICK c \in T : TRUE  BY <1>2
  <2>2. Sum(v, T) = v[c] + Sum(v, T \ {c}) /\ Sum(w, T) = w[c] + Sum(w, T \ {c})
    BY <1>0, SumOfElement
  <2>3. Sum(v, T \ {c}) <= Sum(w, T \ {c})  BY <1>2
  <2>4. Sum(v, T \ {c}) \in Int /\ Sum(w, T \ {c}) \in Int  BY <1>0
  <2>5. v[c] \in Int /\ w[c] \in Int /\ v[c] <= w[c]  OBVIOUS
  <2>6. Sum(v, T) <= Sum(w, T)
    <3> HIDE DEF P
    <3> QED  BY <2>2, <2>3, <2>4, <2>5
  <2> QED  BY <2>6
<1>3. P = SUBSET S
  <2> HIDE DEF P
  <2>1. P \in SUBSET SUBSET S  BY DEF P
  <2> QED  BY <1>1, <1>2, <2>1, AddingElements
<1> QED  BY <1>3

\* The average lies between bounds of what is summed.
LEMMA SumBounds ==
    ASSUME NEW S, IsFiniteSet(S), NEW w, NEW low \in Int, NEW high \in Int,
           \A x \in S : w[x] \in low..high
    PROVE  /\ Cardinality(S) * low <= Sum(w, S)
           /\ Sum(w, S) <= Cardinality(S) * high
<1> DEFINE P == {T \in SUBSET S : /\ Cardinality(T) * low <= Sum(w, T)
                                  /\ Sum(w, T) <= Cardinality(T) * high}
<1>0. \A T \in SUBSET S : IsFiniteSet(T) /\ Sum(w, T) \in Int /\ Cardinality(T) \in Nat
  <2> SUFFICES ASSUME NEW T \in SUBSET S
               PROVE IsFiniteSet(T) /\ Sum(w, T) \in Int /\ Cardinality(T) \in Nat
    OBVIOUS
  <2>1. IsFiniteSet(T)  BY FS_Subset
  <2> QED  BY <2>1, SumType, FS_CardinalityType
<1>1. {} \in P
  <2>1. Sum(w, {}) = 0 /\ Cardinality({}) = 0  BY SumSplits, FS_EmptySet
  <2> QED  BY <2>1
<1>2. ASSUME NEW T \in SUBSET S, T # {}, \A x \in T : T \ {x} \in P
      PROVE  T \in P
  <2>1. PICK c \in T : TRUE  BY <1>2
  <2>2. Sum(w, T) = w[c] + Sum(w, T \ {c})  BY <1>0, SumOfElement
  <2>3. Cardinality(T \ {c}) = Cardinality(T) - 1  BY <1>0, FS_RemoveElement
  <2>4. /\ (Cardinality(T) - 1) * low <= Sum(w, T \ {c})
        /\ Sum(w, T \ {c}) <= (Cardinality(T) - 1) * high
    BY <1>2, <2>3
  <2>5. Sum(w, T \ {c}) \in Int /\ Cardinality(T) \in Nat  BY <1>0
  <2>6. w[c] \in Int /\ low <= w[c] /\ w[c] <= high  OBVIOUS
  <2>7. \A n, b \in Int : (n - 1) * b + b = n * b  OBVIOUS
  <2>8. (Cardinality(T) - 1) * low + low = Cardinality(T) * low
        /\ (Cardinality(T) - 1) * high + high = Cardinality(T) * high
    BY <2>5, <2>7
  <2>9. /\ (Cardinality(T) - 1) * low \in Int /\ Cardinality(T) * low \in Int
        /\ (Cardinality(T) - 1) * high \in Int /\ Cardinality(T) * high \in Int
    BY <2>5
  <2>10. Cardinality(T) * low <= Sum(w, T) /\ Sum(w, T) <= Cardinality(T) * high
    <3> HIDE DEF P
    <3> QED  BY <2>2, <2>4, <2>5, <2>6, <2>8, <2>9
  <2> QED  BY <2>10
<1>3. P = SUBSET S
  <2> HIDE DEF P
  <2>1. P \in SUBSET SUBSET S  BY DEF P
  <2> QED  BY <1>1, <1>2, <2>1, AddingElements
<1> QED  BY <1>3

-----------------------------------------------------------------------------
(* Sums that count *)

\* Sets that have nothing in common have, together, as many elements as
\* their sizes add up to.
LEMMA SumCounts ==
    ASSUME NEW S, IsFiniteSet(S), NEW F, \A x \in S : IsFiniteSet(F[x]),
           \A x, y \in S : x # y => F[x] \cap F[y] = {},
           NEW w, \A x \in S : w[x] = Cardinality(F[x])
    PROVE  /\ IsFiniteSet(UNION {F[x] : x \in S})
           /\ Cardinality(UNION {F[x] : x \in S}) = Sum(w, S)
<1> DEFINE All(T) == UNION {F[x] : x \in T}
           P == {T \in SUBSET S : IsFiniteSet(All(T)) /\ Cardinality(All(T)) = Sum(w, T)}
<1>0. \A T \in SUBSET S : IsFiniteSet(T)  BY FS_Subset
<1>1. {} \in P
  <2>1. Sum(w, {}) = 0  BY SumSplits, FS_EmptySet
  <2>2. All({}) = {}  OBVIOUS
  <2> QED  BY <2>1, <2>2, FS_EmptySet
<1>2. ASSUME NEW T \in SUBSET S, T # {}, \A x \in T : T \ {x} \in P
      PROVE  T \in P
  <2>1. PICK c \in T : TRUE  BY <1>2
  <2>2. \A x \in T : w[x] \in Int  BY FS_CardinalityType
  <2>3. Sum(w, T) = w[c] + Sum(w, T \ {c})  BY <1>0, <2>2, SumOfElement
  <2>4. IsFiniteSet(All(T \ {c})) /\ Cardinality(All(T \ {c})) = Sum(w, T \ {c})  BY <1>2
  <2>5. All(T) = All(T \ {c}) \cup F[c] /\ All(T \ {c}) \cap F[c] = {}  OBVIOUS
  <2> HIDE DEF P, All
  <2>6. IsFiniteSet(F[c]) /\ Cardinality(F[c]) \in Nat /\ w[c] = Cardinality(F[c])
    BY FS_CardinalityType
  <2>7. Cardinality(All(T \ {c})) \in Nat  BY <2>4, FS_CardinalityType
  <2>8. /\ IsFiniteSet(All(T))
        /\ Cardinality(All(T)) = Cardinality(All(T \ {c})) + Cardinality(F[c])
    <3>1. /\ IsFiniteSet(All(T \ {c}) \cup F[c])
          /\ Cardinality(All(T \ {c}) \cup F[c]) =
             Cardinality(All(T \ {c})) + Cardinality(F[c]) - Cardinality(All(T \ {c}) \cap F[c])
      BY <2>4, <2>6, FS_Union
    <3>2. Cardinality(All(T \ {c}) \cap F[c]) = 0  BY <2>5, FS_EmptySet
    <3> QED  BY <2>5, <2>6, <2>7, <3>1, <3>2
  <2>9. Cardinality(All(T)) = Sum(w, T)  BY <2>3, <2>4, <2>6, <2>7, <2>8
  <2> QED  BY <2>8, <2>9 DEF P
<1>3. P = SUBSET S
  <2> HIDE DEF P
  <2>1. P \in SUBSET SUBSET S  BY DEF P
  <2> QED  BY <1>1, <1>2, <2>1, AddingElements
<1> QED  BY <1>3

-----------------------------------------------------------------------------
(* Images *)

\* A function has at most as many values as arguments, and as many when it
\* takes none twice.
LEMMA Values ==
    ASSUME NEW S, IsFiniteSet(S), NEW f, DOMAIN f = S, f = [x \in S |-> f[x]]
    PROVE  /\ IsFiniteSet({f[x] : x \in S})
           /\ Cardinality({f[x] : x \in S}) <= Cardinality(S)
           /\ (\A x, y \in S : f[x] = f[y] => x = y) => Cardinality({f[x] : x \in S}) = Cardinality(S)
<1> DEFINE T == {f[x] : x \in S}
<1>1. f \in [S -> T] /\ \A t \in T : \E x \in S : f[x] = t  OBVIOUS
<1> HIDE DEF T
<1>2. f \in Surjection(S, T)  BY <1>1 DEF Surjection
<1>3. (\A x, y \in S : f[x] = f[y] => x = y) => f \in Injection(S, T)
  BY <1>1 DEF Injection, IsInjective
<1>4. /\ IsFiniteSet(T) /\ Cardinality(T) <= Cardinality(S)
      /\ Cardinality(T) = Cardinality(S) <=> f \in Injection(S, T)
  BY <1>2, FS_Surjection
<1> QED  BY <1>3, <1>4 DEF T

LEMMA FiniteUnion ==
    ASSUME NEW S, IsFiniteSet(S), NEW f, DOMAIN f = S, f = [x \in S |-> f[x]],
           \A x \in S : IsFiniteSet(f[x])
    PROVE  IsFiniteSet(UNION {f[x] : x \in S})
<1> DEFINE U == {f[x] : x \in S}
<1>1. IsFiniteSet(U)  BY Values
<1>2. \A T \in U : IsFiniteSet(T)  OBVIOUS
<1> HIDE DEF U
<1>3. IsFiniteSet(UNION U)  BY <1>1, <1>2, FS_UNION
<1> QED  BY <1>3 DEF U

=============================================================================
