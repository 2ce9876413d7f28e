---------------------------- MODULE QueueLemmas ----------------------------
(***************************************************************************)
(* What the queue operations of kern/cpu/sched_helpers.c do to the set of  *)
(* queued environments and to their being queued only once; how long a     *)
(* queue without repetition can be; for loops, that steps can be           *)
(* iterated and what the iteration keeps; and facts about finite sets.     *)
(***************************************************************************)
EXTENDS Integers, Sequences, Functions, FiniteSetTheorems, WellFoundedInduction, TLAPS

\* enqueue adds one member, and a new one keeps the queue free of duplicates.
LEMMA AppendLemma ==
    ASSUME NEW S, NEW s \in Seq(S), NEW e \in S
    PROVE  /\ Append(s, e) \in Seq(S)
           /\ Append(s, e) # <<>>
           /\ Range(Append(s, e)) = Range(s) \union {e}
           /\ IsInjective(s) /\ e \notin Range(s) => IsInjective(Append(s, e))
<1>1. /\ Append(s, e) \in Seq(S)
      /\ Len(Append(s, e)) = Len(s) + 1
      /\ DOMAIN Append(s, e) = 1 .. (Len(s) + 1)
      /\ DOMAIN s = 1 .. Len(s)
      /\ Len(s) \in Nat
    OBVIOUS
<1>2. /\ \A i \in 1 .. Len(s) : Append(s, e)[i] = s[i]
      /\ Append(s, e)[Len(s) + 1] = e
    OBVIOUS
<1>3. Append(s, e) # <<>>
    BY <1>1
<1>4. Range(Append(s, e)) = Range(s) \union {e}
  <2>1. ASSUME NEW x \in Range(Append(s, e)) PROVE x \in Range(s) \union {e}
    <3>1. PICK i \in 1 .. (Len(s) + 1) : x = Append(s, e)[i]
        BY <1>1, <2>1 DEF Range
    <3>2. CASE i = Len(s) + 1
        BY <3>1, <3>2, <1>2
    <3>3. CASE i \in 1 .. Len(s)
        BY <3>1, <3>3, <1>1, <1>2 DEF Range
    <3>4. QED
        BY <3>2, <3>3, <1>1
  <2>2. ASSUME NEW x \in Range(s) PROVE x \in Range(Append(s, e))
    <3>1. PICK i \in 1 .. Len(s) : x = s[i]
        BY <1>1, <2>2 DEF Range
    <3>2. i \in 1 .. (Len(s) + 1) /\ x = Append(s, e)[i]
        BY <3>1, <1>1, <1>2
    <3>3. QED
        BY <3>2, <1>1 DEF Range
  <2>3. e \in Range(Append(s, e))
    <3>1. Len(s) + 1 \in 1 .. (Len(s) + 1)
        BY <1>1
    <3>2. QED
        BY <3>1, <1>1, <1>2 DEF Range
  <2>4. QED
      BY <2>1, <2>2, <2>3
<1>5. ASSUME IsInjective(s), e \notin Range(s) PROVE IsInjective(Append(s, e))
  <2>1. SUFFICES ASSUME NEW i \in 1 .. (Len(s) + 1), NEW j \in 1 .. (Len(s) + 1),
                        Append(s, e)[i] = Append(s, e)[j]
                 PROVE  i = j
      BY <1>1 DEF IsInjective
  <2>2. \A k \in 1 .. Len(s) : s[k] # e
      BY <1>1, <1>5 DEF Range
  <2>3. CASE i \in 1 .. Len(s) /\ j \in 1 .. Len(s)
      BY <2>1, <2>3, <1>1, <1>2, <1>5 DEF IsInjective
  <2>4. CASE i = Len(s) + 1 \/ j = Len(s) + 1
      BY <2>1, <2>2, <2>4, <1>1, <1>2
  <2>5. QED
      BY <2>3, <2>4, <1>1
<1>6. QED
    BY <1>1, <1>3, <1>4, <1>5

\* dequeue returns a member and leaves the others, each once.
LEMMA TailLemma ==
    ASSUME NEW S, NEW s \in Seq(S), s # <<>>
    PROVE  /\ Head(s) \in S /\ Head(s) \in Range(s)
           /\ Tail(s) \in Seq(S)
           /\ IsInjective(s) => /\ IsInjective(Tail(s))
                                /\ Range(Tail(s)) = Range(s) \ {Head(s)}
<1>1. /\ Len(s) \in Nat \ {0}
      /\ DOMAIN s = 1 .. Len(s)
      /\ Tail(s) \in Seq(S)
      /\ Len(Tail(s)) = Len(s) - 1
      /\ DOMAIN Tail(s) = 1 .. (Len(s) - 1)
      /\ Head(s) = s[1]
    OBVIOUS
<1>2. \A i \in 1 .. (Len(s) - 1) : Tail(s)[i] = s[i + 1]
    BY <1>1
<1>3. Head(s) \in S /\ Head(s) \in Range(s)
    BY <1>1 DEF Range
<1>4. ASSUME IsInjective(s) PROVE IsInjective(Tail(s))
  <2>1. SUFFICES ASSUME NEW i \in 1 .. (Len(s) - 1), NEW j \in 1 .. (Len(s) - 1),
                        Tail(s)[i] = Tail(s)[j]
                 PROVE  i = j
      BY <1>1 DEF IsInjective
  <2>2. /\ i + 1 \in DOMAIN s /\ j + 1 \in DOMAIN s
        /\ s[i + 1] = s[j + 1]
      BY <2>1, <1>1, <1>2
  <2>3. i + 1 = j + 1
      BY <2>2, <1>4 DEF IsInjective
  <2>4. QED
      BY <2>3
<1>5. ASSUME IsInjective(s) PROVE Range(Tail(s)) = Range(s) \ {Head(s)}
  <2>1. ASSUME NEW x \in Range(Tail(s)) PROVE x \in Range(s) \ {Head(s)}
    <3>1. PICK i \in 1 .. (Len(s) - 1) : x = s[i + 1]
        BY <1>1, <1>2, <2>1 DEF Range
    <3>2. i + 1 \in DOMAIN s /\ 1 \in DOMAIN s /\ i + 1 # 1
        BY <3>1, <1>1
    <3>3. QED
        BY <3>1, <3>2, <1>1, <1>5 DEF Range, IsInjective
  <2>2. ASSUME NEW x \in Range(s), x # Head(s) PROVE x \in Range(Tail(s))
    <3>1. PICK i \in 1 .. Len(s) : x = s[i]
        BY <1>1, <2>2 DEF Range
    <3>2. i - 1 \in 1 .. (Len(s) - 1) /\ Tail(s)[i - 1] = s[i]
        BY <3>1, <2>2, <1>1, <1>2
    <3>3. QED
        BY <3>1, <3>2, <1>1 DEF Range
  <2>3. QED
      BY <2>1, <2>2
<1>6. QED
    BY <1>1, <1>3, <1>4, <1>5

\* Moving a whole queue behind another one (the loop of wakeup_all).
LEMMA ConcatLemma ==
    ASSUME NEW S, NEW s \in Seq(S), NEW t \in Seq(S)
    PROVE  /\ s \o t \in Seq(S)
           /\ Range(s \o t) = Range(s) \union Range(t)
           /\ /\ IsInjective(s) /\ IsInjective(t)
              /\ Range(s) \intersect Range(t) = {}
              => IsInjective(s \o t)
<1>1. /\ s \o t \in Seq(S)
      /\ Len(s) \in Nat /\ Len(t) \in Nat
      /\ DOMAIN s = 1 .. Len(s) /\ DOMAIN t = 1 .. Len(t)
      /\ DOMAIN (s \o t) = 1 .. (Len(s) + Len(t))
    OBVIOUS
<1>2. \A i \in 1 .. Len(s) : (s \o t)[i] = s[i]
    BY <1>1
<1>3. \A i \in 1 .. Len(t) : (s \o t)[Len(s) + i] = t[i]
    BY <1>1
<1>4. \A i \in 1 .. (Len(s) + Len(t)) :
         i \in 1 .. Len(s) \/ (i - Len(s) \in 1 .. Len(t) /\ (s \o t)[i] = t[i - Len(s)])
    BY <1>1, <1>3
<1>5. Range(s \o t) = Range(s) \union Range(t)
  <2>1. ASSUME NEW x \in Range(s \o t) PROVE x \in Range(s) \union Range(t)
      BY <1>1, <1>2, <1>4, <2>1 DEF Range
  <2>2. ASSUME NEW x \in Range(s) PROVE x \in Range(s \o t)
    <3>1. PICK i \in 1 .. Len(s) : x = s[i]
        BY <1>1, <2>2 DEF Range
    <3>2. i \in DOMAIN (s \o t) /\ x = (s \o t)[i]
        BY <3>1, <1>1, <1>2
    <3>3. QED
        BY <3>2 DEF Range
  <2>3. ASSUME NEW x \in Range(t) PROVE x \in Range(s \o t)
    <3>1. PICK i \in 1 .. Len(t) : x = t[i]
        BY <1>1, <2>3 DEF Range
    <3>2. Len(s) + i \in DOMAIN (s \o t) /\ x = (s \o t)[Len(s) + i]
        BY <3>1, <1>1, <1>3
    <3>3. QED
        BY <3>2 DEF Range
  <2>4. QED
      BY <2>1, <2>2, <2>3
<1>6. ASSUME IsInjective(s), IsInjective(t), Range(s) \intersect Range(t) = {}
      PROVE  IsInjective(s \o t)
  <2>1. SUFFICES ASSUME NEW i \in DOMAIN (s \o t), NEW j \in DOMAIN (s \o t),
                        (s \o t)[i] = (s \o t)[j]
                 PROVE  i = j
      BY DEF IsInjective
  <2>2. \A a \in 1 .. Len(s), b \in 1 .. Len(t) : s[a] # t[b]
      BY <1>1, <1>6 DEF Range
  <2>3. CASE i \in 1 .. Len(s) /\ j \in 1 .. Len(s)
      BY <2>1, <2>3, <1>1, <1>2, <1>6 DEF IsInjective
  <2>4. CASE i \in 1 .. Len(s) /\ j \notin 1 .. Len(s)
      BY <2>1, <2>2, <2>4, <1>1, <1>2, <1>4
  <2>5. CASE i \notin 1 .. Len(s) /\ j \in 1 .. Len(s)
      BY <2>1, <2>2, <2>5, <1>1, <1>2, <1>4
  <2>6. CASE i \notin 1 .. Len(s) /\ j \notin 1 .. Len(s)
    <3>1. /\ i - Len(s) \in 1 .. Len(t) /\ j - Len(s) \in 1 .. Len(t)
          /\ t[i - Len(s)] = t[j - Len(s)]
        BY <2>1, <2>6, <1>1, <1>4
    <3>2. i - Len(s) = j - Len(s)
        BY <3>1, <1>1, <1>6 DEF IsInjective
    <3>3. QED
        BY <3>2, <1>1, <2>1
  <2>7. QED
      BY <2>3, <2>4, <2>5, <2>6
<1>7. QED
    BY <1>1, <1>5, <1>6

\* The empty queue.
LEMMA EmptyLemma == Range(<<>>) = {} /\ IsInjective(<<>>)
<1>1. DOMAIN <<>> = {}
    OBVIOUS
<1>2. QED
    BY <1>1 DEF Range, IsInjective

\* A sequence without repetition is not longer than there are elements.
LEMMA LengthBound ==
    ASSUME NEW S, IsFiniteSet(S), NEW s \in Seq(S),
           \A i, j \in 1 .. Len(s) : s[i] = s[j] => i = j
    PROVE  Len(s) \in Nat /\ Cardinality(S) \in Nat /\ Len(s) <= Cardinality(S)
<1>1. s \in Injection(1 .. Len(s), S)
    BY DEF Injection, IsInjective
<1>2. Cardinality(1 .. Len(s)) <= Cardinality(S)
    BY <1>1, FS_Injection
<1>3. Cardinality(1 .. Len(s)) = Len(s)
    BY FS_Interval
<1>4. Cardinality(S) \in Nat
    BY FS_CardinalityType
<1>5. QED
    BY <1>2, <1>3, <1>4

-----------------------------------------------------------------------------
(* Loops.                                                                  *)

\* A set of natural numbers that is not empty has a least one.
LEMMA LeastNatural ==
    ASSUME NEW T, T \subseteq Nat, T # {}
    PROVE  \E m \in T : \A k \in T : m <= k
<1> DEFINE R == OpToRel(<, Nat)
<1>1. \E x \in T : \A y \in T : ~(<<y, x>> \in R)
    BY NatLessThanWellFounded, WFMin
<1>2. PICK m \in T : \A y \in T : ~(<<y, m>> \in R)
    BY <1>1
<1>3. ASSUME NEW y \in T PROVE m <= y
  <2>1. y \in Nat /\ m \in Nat
      BY <1>3
  <2>2. ~(<<y, m>> \in {ss \in Nat \X Nat : ss[1] < ss[2]})
      BY <1>2, <1>3 DEF OpToRel
  <2>3. QED
      BY <2>1, <2>2
<1>4. QED
    BY <1>2, <1>3

\* Induction, for a set of numbers.
LEMMA SetInduction ==
    ASSUME NEW S, 0 \in S, \A n \in Nat : n \in S => n + 1 \in S
    PROVE  Nat \subseteq S
<1> SUFFICES ASSUME Nat \ S # {} PROVE FALSE
    OBVIOUS
<1>1. PICK m \in Nat \ S : \A k \in Nat \ S : m <= k
    BY LeastNatural
<1>2. m # 0 /\ m - 1 \in Nat
    BY <1>1
<1>3. m - 1 \in S
    BY <1>1, <1>2
<1>4. QED
    BY <1>1, <1>2, <1>3

\* What steps reach that each keep to X is in X.
LEMMA StepsStay ==
    ASSUME NEW X, NEW N \in Nat, NEW f, f[0] \in X,
           \A n \in 1 .. N : f[n - 1] \in X => f[n] \in X
    PROVE  \A n \in 0 .. N : f[n] \in X
<1> DEFINE U == {n \in Nat : n <= N => f[n] \in X}
<1>1. 0 \in U
    OBVIOUS
<1>2. ASSUME NEW n \in Nat, n \in U PROVE n + 1 \in U
  <2> SUFFICES ASSUME n + 1 <= N PROVE f[n + 1] \in X
      OBVIOUS
  <2>1. f[n] \in X /\ n + 1 \in 1 .. N /\ n + 1 - 1 = n
      BY <1>2
  <2>2. QED
      BY <2>1
<1> HIDE DEF U
<1>3. Nat \subseteq U
    BY <1>1, <1>2, SetInduction
<1>4. QED
    BY <1>3 DEF U

\* Induction up to N.
LEMMA BoundedInduction ==
    ASSUME NEW N \in Nat, NEW S, 0 \in S, \A n \in 1 .. N : n - 1 \in S => n \in S
    PROVE  0 .. N \subseteq S
<1> DEFINE U == {n \in Nat : n <= N => n \in S}
<1>1. 0 \in U
    OBVIOUS
<1>2. ASSUME NEW n \in Nat, n \in U PROVE n + 1 \in U
  <2> SUFFICES ASSUME n + 1 <= N PROVE n + 1 \in S
      OBVIOUS
  <2>1. n \in S /\ n + 1 \in 1 .. N /\ n + 1 - 1 = n
      BY <1>2
  <2>2. QED
      BY <2>1
<1> HIDE DEF U
<1>3. Nat \subseteq U
    BY <1>1, <1>2, SetInduction
<1>4. QED
    BY <1>3 DEF U

\* f iterates the steps F from x, inside X.
Iterates(X, x, N, F, f) ==
    /\ f \in [0 .. N -> X]
    /\ f[0] = x /\ \A n \in 1 .. N : f[n] = F[n][f[n - 1]]

\* Steps that keep to X can be iterated.
LEMMA StepsExist ==
    ASSUME NEW X, NEW x \in X, NEW N \in Nat, NEW F \in [1 .. N -> [X -> X]]
    PROVE  \E f : Iterates(X, x, N, F, f)
<1> DEFINE P(f, k) == f[0] = x /\ \A n \in 1 .. k : f[n] = F[n][f[n - 1]]
           S == {k \in Nat : k <= N => \E f \in [0 .. k -> X] : P(f, k)}
<1>1. 0 \in S
  <2>1. [i \in 0 .. 0 |-> x] \in [0 .. 0 -> X]
      OBVIOUS
  <2>2. P([i \in 0 .. 0 |-> x], 0)
      OBVIOUS
  <2>3. QED
      BY <2>1, <2>2
<1>2. ASSUME NEW k \in Nat, k \in S PROVE k + 1 \in S
  <2> SUFFICES ASSUME k + 1 <= N PROVE \E f \in [0 .. k + 1 -> X] : P(f, k + 1)
      OBVIOUS
  <2>1. PICK f \in [0 .. k -> X] : P(f, k)
      BY <1>2
  <2> DEFINE g == [i \in 0 .. k + 1 |-> IF i = k + 1 THEN F[k + 1][f[k]] ELSE f[i]]
  <2>2. F[k + 1] \in [X -> X] /\ f[k] \in X
      OBVIOUS
  <2>3. g \in [0 .. k + 1 -> X]
      BY <2>2
  <2>4. g[0] = x
      BY <2>1
  <2>5. \A i \in 0 .. k : g[i] = f[i]
      OBVIOUS
  <2>6. g[k + 1] = F[k + 1][f[k]]
      OBVIOUS
  <2> HIDE DEF g
  <2>7. ASSUME NEW n \in 1 .. k + 1 PROVE g[n] = F[n][g[n - 1]]
    <3>1. CASE n = k + 1
      <4>1. g[n - 1] = f[k]
          BY <2>5, <3>1
      <4>2. QED
          BY <2>6, <3>1, <4>1
    <3>2. CASE n \in 1 .. k
      <4>1. g[n] = f[n] /\ g[n - 1] = f[n - 1]
          BY <2>5, <3>2
      <4>2. QED
          BY <2>1, <3>2, <4>1
    <3>3. QED
        BY <3>1, <3>2
  <2>8. QED
      BY <2>3, <2>4, <2>7
<1>3. N \in S
  <2> HIDE DEF S
  <2>1. QED
      BY <1>1, <1>2, SetInduction
<1>4. QED
    BY <1>3 DEF Iterates

\* The states f of a loop from x, the n-th of which is made by F[n] and is in I[n].
Loop(f, x, N, F, I) ==
    /\ f = [n \in 0 .. N |-> IF n = 0 THEN x ELSE F[n][f[n - 1]]]
    /\ \A n \in 0 .. N : f[n] \in I[n]

LEMMA LoopLemma ==
    ASSUME NEW X, NEW N \in Nat, NEW I \in [0 .. N -> SUBSET X], NEW x \in I[0], NEW F,
           \A n \in 1 .. N : \A y \in I[n - 1] : F[n][y] \in I[n]
    PROVE  \E f : Loop(f, x, N, F, I)
<1> DEFINE G == [n \in 1 .. N |-> [y \in X |-> IF F[n][y] \in X THEN F[n][y] ELSE y]]
<1>1. G \in [1 .. N -> [X -> X]]
    OBVIOUS
<1>2. x \in X
    OBVIOUS
<1>3. \E g : Iterates(X, x, N, G, g)
  <2> HIDE DEF G
  <2> QED
      BY <1>1, <1>2, StepsExist
<1>4. PICK g \in [0 .. N -> X] : g[0] = x /\ \A n \in 1 .. N : g[n] = G[n][g[n - 1]]
    BY <1>3 DEF Iterates
<1> DEFINE S == {n \in 0 .. N : g[n] \in I[n]}
<1>5. ASSUME NEW n \in 1 .. N, n - 1 \in S PROVE g[n] = F[n][g[n - 1]] /\ n \in S
  <2>1. n - 1 \in 0 .. N /\ n \in 0 .. N /\ g[n - 1] \in I[n - 1] /\ g[n - 1] \in X
      BY <1>5
  <2>2. F[n][g[n - 1]] \in I[n] /\ F[n][g[n - 1]] \in X
      BY <2>1
  <2>3. g[n] = G[n][g[n - 1]]
      BY <1>4
  <2>4. G[n][g[n - 1]] = F[n][g[n - 1]]
      BY <2>1, <2>2
  <2>5. QED
      BY <2>1, <2>2, <2>3, <2>4
<1>6. 0 \in S
    BY <1>4
<1>7. 0 .. N \subseteq S
  <2> HIDE DEF S
  <2> QED
      BY <1>5, <1>6, BoundedInduction
<1>8. ASSUME NEW n \in 1 .. N PROVE g[n] = F[n][g[n - 1]]
  <2>1. n - 1 \in 0 .. N
      OBVIOUS
  <2>2. n - 1 \in S
      BY <1>7, <2>1
  <2>3. QED
      BY <1>5, <2>2
<1>9. g = [n \in 0 .. N |-> IF n = 0 THEN x ELSE F[n][g[n - 1]]]
    BY <1>4, <1>8
<1>10. QED
    BY <1>7, <1>9 DEF Loop

-----------------------------------------------------------------------------
(* Finite sets.                                                            *)

\* The elements of a set of numbers, each once.
LEMMA AscendingLemma ==
    ASSUME NEW S \in SUBSET Nat, IsFiniteSet(S), NEW A,
           A = [i \in 1 .. Cardinality(S) |->
                  CHOOSE x \in S : Cardinality({y \in S : y <= x}) = i]
    PROVE  /\ Cardinality(S) \in Nat /\ \A i \in 1 .. Cardinality(S) : A[i] \in S
           /\ \A i, j \in 1 .. Cardinality(S) : A[i] = A[j] => i = j
           /\ \A x \in S : \E i \in 1 .. Cardinality(S) : A[i] = x
           /\ Len(A) = Cardinality(S)
<1> DEFINE n == Cardinality(S)
           Low(x) == {y \in S : y <= x}
           R == [x \in S |-> Cardinality(Low(x))]
<1>1. n \in Nat
    BY FS_CardinalityType
<1>2. \A x \in S : IsFiniteSet(Low(x)) /\ Cardinality(Low(x)) <= n /\ Cardinality(Low(x)) \in Nat
    BY FS_Subset, FS_CardinalityType
<1>3. \A x \in S : Cardinality(Low(x)) # 0
  <2> TAKE x \in S
  <2>1. x \in Low(x)
      OBVIOUS
  <2>2. QED
      BY <1>2, <2>1, FS_EmptySet
<1>4. R \in [S -> 1 .. n]
  <2>1. \A x \in S : Cardinality(Low(x)) \in 1 .. n
    <3> HIDE DEF Low, n
    <3> QED
        BY <1>1, <1>2, <1>3
  <2> HIDE DEF Low, n
  <2>2. QED
      BY <2>1
<1>5. ASSUME NEW x \in S, NEW y \in S, x < y PROVE R[x] # R[y]
  <2>1. Low(x) \in SUBSET Low(y) /\ y \in Low(y) /\ y \notin Low(x)
    <3>1. S \subseteq Nat /\ x \in Nat /\ y \in Nat
        OBVIOUS
    <3>2. \A z \in S : z <= x => z <= y
        BY <1>5, <3>1
    <3>3. y <= y /\ ~(y <= x)
        BY <1>5, <3>1
    <3>4. QED
        BY <3>2, <3>3
  <2>2. Cardinality(Low(y)) # Cardinality(Low(x))
      BY <1>2, <2>1, FS_Subset
  <2>3. QED
      BY <2>2
<1>6. R \in Injection(S, 1 .. n)
  <2>1. ASSUME NEW x \in S, NEW y \in S, R[x] = R[y] PROVE x = y
    <3>1. x \in Nat /\ y \in Nat /\ ~(x < y) /\ ~(y < x)
        BY <1>5, <2>1
    <3>2. QED
        BY <3>1
  <2> HIDE DEF R
  <2>2. QED
      BY <1>4, <2>1 DEF Injection, IsInjective
<1>7. IsFiniteSet(1 .. n) /\ Cardinality(1 .. n) = n
    BY <1>1, FS_Interval
<1>8. R \in Surjection(S, 1 .. n)
  <2> HIDE DEF R
  <2> QED
      BY <1>6, <1>7, FS_Injection
<1>9. \A x, y \in S : R[x] = R[y] => x = y
  <2> HIDE DEF R
  <2> QED
      BY <1>6 DEF Injection, IsInjective
<1>10. ASSUME NEW i \in 1 .. n PROVE A[i] \in S /\ R[A[i]] = i
  <2>1. \E x \in S : R[x] = i
    <3> HIDE DEF R
    <3> QED
        BY <1>8 DEF Surjection
  <2>2. A[i] = CHOOSE x \in S : R[x] = i
    <3>1. A[i] = CHOOSE x \in S : Cardinality(Low(x)) = i
        OBVIOUS
    <3>2. \A x \in S : R[x] = Cardinality(Low(x))
        OBVIOUS
    <3> HIDE DEF R
    <3>3. (CHOOSE x \in S : Cardinality(Low(x)) = i) = CHOOSE x \in S : R[x] = i
        BY <3>2
    <3>4. QED
        BY <3>1, <3>3
  <2> HIDE DEF R
  <2>3. QED
      BY <2>1, <2>2
<1>11. Len(A) = n
    BY <1>1
<1>12. \A i, j \in 1 .. n : A[i] = A[j] => i = j
    BY <1>10
<1>13. \A x \in S : \E i \in 1 .. n : A[i] = x
  <2> TAKE x \in S
  <2>1. R[x] \in 1 .. n
      BY <1>4
  <2> HIDE DEF R
  <2>2. A[R[x]] = x
      BY <1>9, <1>10, <2>1
  <2>3. QED
      BY <2>1, <2>2
<1>14. QED
    BY <1>1, <1>10, <1>11, <1>12, <1>13

\* A sequence without repetition has as many elements as places.
LEMMA SequenceSize ==
    ASSUME NEW X, NEW s \in Seq(X), \A i, j \in DOMAIN s : s[i] = s[j] => i = j
    PROVE  LET T == {s[i] : i \in DOMAIN s}
           IN  IsFiniteSet(T) /\ Cardinality(T) = Len(s)
<1> DEFINE T == {s[i] : i \in DOMAIN s}
           f == [i \in 1 .. Len(s) |-> s[i]]
<1>1. Len(s) \in Nat /\ DOMAIN s = 1 .. Len(s)
    OBVIOUS
<1>2. f \in Bijection(1 .. Len(s), T)
    BY <1>1 DEF Bijection, Injection, Surjection, IsInjective
<1>3. IsFiniteSet(1 .. Len(s)) /\ Cardinality(1 .. Len(s)) = Len(s)
    BY <1>1, FS_Interval
<1>4. ExistsBijection(1 .. Len(s), T)
    BY <1>2 DEF ExistsBijection
<1>5. QED
    BY <1>3, <1>4, FS_Bijection

\* A set with at most one element.
LEMMA AtMostOne ==
    ASSUME NEW T, \A x, y \in T : x = y
    PROVE  Cardinality(T) = IF T = {} THEN 0 ELSE 1
<1>1. CASE T = {}
    BY <1>1, FS_EmptySet
<1>2. CASE T # {}
  <2>1. PICK x : x \in T
      BY <1>2
  <2>2. T = {x}
      BY <2>1
  <2>3. QED
      BY <2>2, <1>2, FS_Singleton
<1>3. QED
    BY <1>1, <1>2
=============================================================================
