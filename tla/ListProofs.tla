----------------------------- MODULE ListProofs -----------------------------
(***************************************************************************)
(* The list macros of inc/queue.h, for any number of elements and lists.   *)
(* First what each macro does to the sequences that the heads stand for:   *)
(* lemmas that other proofs cite too.  Then ListOperations proved: the     *)
(* links of every list stand for its sequence, and a LIST_FOREACH that     *)
(* changes the list under way visits what the list had when it began.      *)
(***************************************************************************)
EXTENDS ListOperations, QueueLemmas, SequenceTheorems

\* NULL is no element, and size can count every list without repetition.
ListConstants ==
    /\ NULL \notin Elm
    /\ SizeMod \in Nat
    /\ \A s \in Seq(Elm) :
          (\A i, j \in 1 .. Len(s) : s[i] = s[j] => i = j) => Len(s) < SizeMod

\* e occurs in s.
Has(s, e) == \E i \in 1 .. Len(s) : s[i] = e

\* The heads and links stand for the sequences S, and no element is in two.
Stands(hp, S) ==
    /\ hp \in Heap
    /\ S \in [List -> Seq(Elm)]
    /\ \A l \in List : Represents(hp, l, S[l])
    /\ \A l, m \in List : \A e \in Elm : Has(S[l], e) /\ Has(S[m], e) => l = m

\* t is s with e put in at position k.
Spliced(s, k, e, t) ==
    /\ t \in Seq(Elm) /\ Len(t) = Len(s) + 1
    /\ \A i \in 1 .. Len(s) + 1 :
          t[i] = IF i < k THEN s[i] ELSE IF i = k THEN e ELSE s[i - 1]

\* b and a are the neighbours of what is put in at position k of s.
Neighbours(s, k, b, a) ==
    /\ b = IF k = 1 THEN NULL ELSE s[k - 1]
    /\ a = IF k = Len(s) + 1 THEN NULL ELSE s[k]

\* t is s without the element at position k.
Deleted(s, k, t) ==
    /\ t \in Seq(Elm) /\ Len(t) = Len(s) - 1
    /\ \A i \in 1 .. Len(s) - 1 : t[i] = IF i < k THEN s[i] ELSE s[i + 1]

\* In g, and not yet in hp, e is linked into l between b and a, either of which
\* may be missing.
LinkedIn(hp, g, l, b, a, e) ==
    /\ g \in Heap
    /\ g.first = [hp.first EXCEPT ![l] = IF b = NULL THEN e ELSE @]
    /\ g.last = [hp.last EXCEPT ![l] = IF a = NULL THEN e ELSE @]
    /\ g.size = [hp.size EXCEPT ![l] = (@ + 1) % SizeMod]
    /\ \A x \in Elm : /\ g.next[x] = IF x = b THEN e ELSE IF x = e THEN a ELSE hp.next[x]
                      /\ g.prev[x] = IF x = a THEN e ELSE IF x = e THEN b ELSE hp.prev[x]

\* In hp, and no more in g, e is linked into l between b and a.
TakenOut(hp, g, l, b, a, e) ==
    /\ g \in Heap
    /\ g.first = [hp.first EXCEPT ![l] = IF b = NULL THEN a ELSE @]
    /\ g.last = [hp.last EXCEPT ![l] = IF a = NULL THEN b ELSE @]
    /\ g.size = [hp.size EXCEPT ![l] = (@ + -1) % SizeMod]
    /\ \A x \in Elm : /\ g.next[x] = IF x = e THEN NULL ELSE IF x = b THEN a ELSE hp.next[x]
                      /\ g.prev[x] = IF x = e THEN NULL ELSE IF x = a THEN b ELSE hp.prev[x]

-----------------------------------------------------------------------------
\* Splicing in a new element keeps a list free of repetition and adds only it.
LEMMA SplicedList ==
    ASSUME NEW s \in Seq(Elm), \A i, j \in 1 .. Len(s) : s[i] = s[j] => i = j,
           NEW e \in Elm, ~Has(s, e), NEW k \in 1 .. Len(s) + 1, NEW t, Spliced(s, k, e, t)
    PROVE  /\ \A i, j \in 1 .. Len(t) : t[i] = t[j] => i = j
           /\ \A x \in Elm : Has(t, x) <=> x = e \/ Has(s, x)
<1>1. /\ Len(s) \in Nat /\ k \in Nat /\ Len(t) = Len(s) + 1
      /\ \A i \in 1 .. Len(s) : s[i] # e
      /\ \A i \in 1 .. Len(s) + 1 :
          t[i] = IF i < k THEN s[i] ELSE IF i = k THEN e ELSE s[i - 1]
    BY DEF Spliced, Has
<1>2. ASSUME NEW i \in 1 .. Len(t), NEW j \in 1 .. Len(t), t[i] = t[j] PROVE i = j
  <2> DEFINE f(x) == IF x < k THEN x ELSE x - 1
  <2>1. CASE i = k \/ j = k
      BY <1>1, <1>2, <2>1
  <2>2. CASE i # k /\ j # k
    <3>1. f(i) \in 1 .. Len(s) /\ f(j) \in 1 .. Len(s) /\ s[f(i)] = s[f(j)]
        BY <1>1, <1>2, <2>2
    <3>2. f(i) = f(j)
        BY <3>1
    <3>3. QED
        BY <1>1, <2>2, <3>2
  <2>3. QED
      BY <2>1, <2>2
<1>3. ASSUME NEW x \in Elm PROVE Has(t, x) <=> x = e \/ Has(s, x)
  <2>1. ASSUME Has(t, x) PROVE x = e \/ Has(s, x)
      BY <1>1, <2>1 DEF Has
  <2>2. t[k] = e
      BY <1>1
  <2>3. ASSUME NEW i \in 1 .. Len(s), x = s[i] PROVE Has(t, x)
    <3>1. CASE i < k
        BY <1>1, <2>3, <3>1 DEF Has
    <3>2. CASE i >= k
      <4>1. i + 1 \in 1 .. Len(t) /\ t[i + 1] = s[i]
          BY <1>1, <3>2
      <4>2. QED
          BY <4>1, <2>3 DEF Has
    <3>3. QED
        BY <1>1, <3>1, <3>2
  <2>4. QED
      BY <1>1, <2>1, <2>2, <2>3 DEF Has
<1>4. QED
    BY <1>2, <1>3

\* Deleting an element keeps a list free of repetition and removes only it.
LEMMA DeletedList ==
    ASSUME NEW s \in Seq(Elm), \A i, j \in 1 .. Len(s) : s[i] = s[j] => i = j,
           NEW k \in 1 .. Len(s), NEW t, Deleted(s, k, t)
    PROVE  /\ \A i, j \in 1 .. Len(t) : t[i] = t[j] => i = j
           /\ \A x \in Elm : Has(t, x) <=> x # s[k] /\ Has(s, x)
<1>1. /\ Len(s) \in Nat /\ k \in Nat /\ Len(t) = Len(s) - 1
      /\ \A i \in 1 .. Len(s) - 1 : t[i] = IF i < k THEN s[i] ELSE s[i + 1]
    BY DEF Deleted
<1> DEFINE f(x) == IF x < k THEN x ELSE x + 1
<1>2. \A i \in 1 .. Len(t) : f(i) \in 1 .. Len(s) /\ t[i] = s[f(i)] /\ f(i) # k
    BY <1>1
<1>3. ASSUME NEW i \in 1 .. Len(t), NEW j \in 1 .. Len(t), t[i] = t[j] PROVE i = j
  <2>1. f(i) = f(j)
      BY <1>2, <1>3
  <2>2. QED
      BY <1>1, <2>1
<1>4. ASSUME NEW x \in Elm PROVE Has(t, x) <=> x # s[k] /\ Has(s, x)
  <2>1. ASSUME NEW i \in 1 .. Len(t), x = t[i] PROVE x # s[k] /\ Has(s, x)
      BY <1>1, <1>2, <2>1 DEF Has
  <2>2. ASSUME NEW i \in 1 .. Len(s), x = s[i], x # s[k] PROVE Has(t, x)
    <3>1. CASE i < k
        BY <1>1, <2>2, <3>1 DEF Has
    <3>2. CASE i > k
      <4>1. i - 1 \in 1 .. Len(t) /\ t[i - 1] = s[i]
          BY <1>1, <3>2
      <4>2. QED
          BY <4>1, <2>2 DEF Has
    <3>3. QED
        BY <1>1, <2>2, <3>1, <3>2
  <2>3. QED
      BY <2>1, <2>2 DEF Has
<1>5. QED
    BY <1>3, <1>4

-----------------------------------------------------------------------------
\* The list that got e stands for the sequence with e spliced in.
LEMMA LinkedList1 ==
    ASSUME ListConstants, NEW hp \in Heap, NEW g, NEW l \in List, NEW s \in Seq(Elm),
           Represents(hp, l, s), NEW e \in Elm, ~Has(s, e),
           NEW k \in 1 .. Len(s) + 1, NEW t, Spliced(s, k, e, t),
           NEW b, NEW a, Neighbours(s, k, b, a), LinkedIn(hp, g, l, b, a, e)
    PROVE  Represents(g, l, t)
<1> DEFINE n == Len(s)
<1>1. n \in Nat /\ k \in Nat /\ k \in 1 .. n + 1 /\ NULL \notin Elm
    BY DEF ListConstants
<1>2. /\ hp.first[l] = IF n = 0 THEN NULL ELSE s[1]
      /\ hp.last[l] = IF n = 0 THEN NULL ELSE s[n]
      /\ hp.size[l] = n
      /\ \A i \in 1 .. n : /\ hp.next[s[i]] = IF i = n THEN NULL ELSE s[i + 1]
                           /\ hp.prev[s[i]] = IF i = 1 THEN NULL ELSE s[i - 1]
      /\ \A i, j \in 1 .. n : s[i] = s[j] => i = j
    BY DEF Represents
<1>3. \A i \in 1 .. n : s[i] \in Elm /\ s[i] # e
    BY <1>1 DEF Has
<1>4. (b = IF k = 1 THEN NULL ELSE s[k - 1]) /\ (a = IF k = n + 1 THEN NULL ELSE s[k])
    BY DEF Neighbours
<1>5. /\ g.first = [hp.first EXCEPT ![l] = IF b = NULL THEN e ELSE @]
      /\ g.last = [hp.last EXCEPT ![l] = IF a = NULL THEN e ELSE @]
      /\ g.size = [hp.size EXCEPT ![l] = (@ + 1) % SizeMod]
      /\ \A x \in Elm : /\ g.next[x] = IF x = b THEN e ELSE IF x = e THEN a ELSE hp.next[x]
                        /\ g.prev[x] = IF x = a THEN e ELSE IF x = e THEN b ELSE hp.prev[x]
    BY DEF LinkedIn
<1>6. /\ t \in Seq(Elm) /\ Len(t) = n + 1
      /\ \A i \in 1 .. n + 1 :
            t[i] = IF i < k THEN s[i] ELSE IF i = k THEN e ELSE s[i - 1]
    BY DEF Spliced
<1>7. \A i, j \in 1 .. Len(t) : t[i] = t[j] => i = j
  <2>1. \A i, j \in 1 .. Len(s) : s[i] = s[j] => i = j
      BY DEF Represents
  <2>2. QED
      BY <2>1, SplicedList
<1>8. n + 1 < SizeMod
    BY <1>6, <1>7 DEF ListConstants
<1>9. /\ hp.first \in [List -> Pointer] /\ hp.last \in [List -> Pointer]
      /\ hp.size \in [List -> 0 .. SizeMod - 1]
    BY DEF Heap
<1> HIDE DEF n
<1>10. g.size[l] = n + 1
  <2>1. g.size[l] = (n + 1) % SizeMod
      BY <1>2, <1>5, <1>9
  <2>2. QED
      BY <1>1, <1>8, <2>1 DEF ListConstants
<1>11. (b = NULL <=> k = 1) /\ (a = NULL <=> k = n + 1)
    BY <1>1, <1>3, <1>4
<1>12. g.first[l] = t[1] /\ g.last[l] = t[n + 1]
    BY <1>1, <1>2, <1>5, <1>6, <1>9, <1>11
<1>13. ASSUME NEW i \in 1 .. n + 1
       PROVE  /\ g.next[t[i]] = IF i = n + 1 THEN NULL ELSE t[i + 1]
              /\ g.prev[t[i]] = IF i = 1 THEN NULL ELSE t[i - 1]
  <2>1. CASE i = k
    <3>1. t[i] = e /\ e # b /\ e # a
        BY <1>1, <1>3, <1>4, <1>6, <2>1
    <3>2. g.next[e] = a /\ g.prev[e] = b
        BY <1>5, <3>1
    <3>3. (i # n + 1 => t[i + 1] = s[i]) /\ (i # 1 => t[i - 1] = s[i - 1])
        BY <1>1, <1>6, <2>1
    <3>4. QED
        BY <1>4, <2>1, <3>1, <3>2, <3>3
  <2>2. CASE i < k
    <3>1. i \in 1 .. n /\ t[i] = s[i]
        BY <1>1, <1>6, <2>2
    <3>2. s[i] \in Elm /\ s[i] # e /\ (i = k - 1 <=> s[i] = b) /\ s[i] # a
        BY <1>1, <1>2, <1>3, <1>4, <2>2, <3>1
    <3>3. /\ g.next[s[i]] = IF i = k - 1 THEN e ELSE hp.next[s[i]]
          /\ g.prev[s[i]] = hp.prev[s[i]]
        BY <1>5, <3>2
    <3>4. /\ hp.next[s[i]] = IF i = n THEN NULL ELSE s[i + 1]
          /\ hp.prev[s[i]] = IF i = 1 THEN NULL ELSE s[i - 1]
        BY <1>2, <3>1
    <3>5. t[i + 1] = (IF i = k - 1 THEN e ELSE s[i + 1]) /\ (i # 1 => t[i - 1] = s[i - 1])
        BY <1>1, <1>6, <2>2
    <3>6. i # n + 1 /\ (i # k - 1 => i # n)
        BY <1>1, <2>2
    <3>7. QED
        BY <3>1, <3>3, <3>4, <3>5, <3>6
  <2>3. CASE i > k
    <3>1. i - 1 \in 1 .. n /\ t[i] = s[i - 1]
        BY <1>1, <1>6, <2>3
    <3>2. /\ s[i - 1] \in Elm /\ s[i - 1] # e /\ (i = k + 1 <=> s[i - 1] = a)
          /\ s[i - 1] # b
      <4>1. s[i - 1] \in Elm /\ s[i - 1] # e
          BY <1>3, <3>1
      <4>2. \A j \in 1 .. n : s[i - 1] = s[j] => i - 1 = j
          BY <1>2, <3>1
      <4>3. k # 1 => k - 1 \in 1 .. n /\ i - 1 # k - 1
          BY <1>1, <2>3
      <4>4. k # n + 1 => k \in 1 .. n
          BY <1>1
      <4>5. i - 1 = k <=> i = k + 1
          BY <1>1, <3>1
      <4>6. i = k + 1 => k # n + 1
          BY <1>1, <3>1
      <4>7. s[i - 1] # b
          BY <1>1, <1>4, <4>1, <4>2, <4>3
      <4>8. i = k + 1 <=> s[i - 1] = a
          BY <1>1, <1>4, <4>1, <4>2, <4>4, <4>5, <4>6
      <4>9. QED
          BY <4>1, <4>7, <4>8
    <3>3. /\ g.next[s[i - 1]] = hp.next[s[i - 1]]
          /\ g.prev[s[i - 1]] = IF i = k + 1 THEN e ELSE hp.prev[s[i - 1]]
        BY <1>5, <3>2
    <3>4. /\ hp.next[s[i - 1]] = IF i - 1 = n THEN NULL ELSE s[i]
          /\ hp.prev[s[i - 1]] = IF i - 1 = 1 THEN NULL ELSE s[i - 2]
        BY <1>2, <3>1
    <3>5. /\ i - 1 \in 1 .. n + 1 /\ (i # n + 1 => i + 1 \in 1 .. n + 1)
          /\ i - 1 - 1 = i - 2 /\ i + 1 - 1 = i
        BY <1>1, <3>1
    <3>6. t[i - 1] = (IF i = k + 1 THEN e ELSE s[i - 2])
        BY <1>1, <1>6, <2>3, <3>5
    <3>7. i # n + 1 => t[i + 1] = s[i]
        BY <1>1, <1>6, <2>3, <3>5
    <3>8. i # 1 /\ (i # k + 1 => i - 1 # 1) /\ (i - 1 = n <=> i = n + 1)
        BY <1>1, <2>3
    <3>9. QED
        BY <3>1, <3>3, <3>4, <3>6, <3>7, <3>8
  <2>4. QED
      BY <1>1, <2>1, <2>2, <2>3
<1>14. Len(t) # 0
    BY <1>1, <1>6
<1>15. QED
    BY <1>6, <1>7, <1>10, <1>12, <1>13, <1>14 DEF Represents

\* A list whose head and elements are left alone stands for what it stood for.
LEMMA OtherList ==
    ASSUME NEW hp, NEW g, NEW m, NEW s \in Seq(Elm), Represents(hp, m, s),
           g.first[m] = hp.first[m], g.last[m] = hp.last[m], g.size[m] = hp.size[m],
           \A i \in 1 .. Len(s) : g.next[s[i]] = hp.next[s[i]] /\ g.prev[s[i]] = hp.prev[s[i]]
    PROVE  Represents(g, m, s)
BY DEF Represents

\* Linking a new element in between two neighbours splices it into its list
\* and leaves the others alone.
LEMMA LinkIn ==
    ASSUME ListConstants, NEW hp, NEW g, NEW S, Stands(hp, S), NEW l \in List,
           NEW e \in Elm, \A m \in List : ~Has(S[m], e),
           NEW k \in 1 .. Len(S[l]) + 1, NEW t, Spliced(S[l], k, e, t),
           NEW b, NEW a, Neighbours(S[l], k, b, a), LinkedIn(hp, g, l, b, a, e)
    PROVE  /\ Stands(g, [S EXCEPT ![l] = t])
           /\ \A x \in Elm : Has(t, x) <=> x = e \/ Has(S[l], x)
<1> DEFINE T == [S EXCEPT ![l] = t]
<1>1. /\ hp \in Heap /\ S \in [List -> Seq(Elm)] /\ S[l] \in Seq(Elm) /\ Len(S[l]) \in Nat
      /\ NULL \notin Elm /\ Represents(hp, l, S[l]) /\ t \in Seq(Elm)
    BY DEF Stands, ListConstants, Spliced
<1>2. Represents(g, l, t)
    BY <1>1, LinkedList1
<1>3. \A x \in Elm : Has(t, x) <=> x = e \/ Has(S[l], x)
  <2>1. \A i, j \in 1 .. Len(S[l]) : S[l][i] = S[l][j] => i = j
      BY <1>1 DEF Represents
  <2>2. QED
      BY <1>1, <2>1, SplicedList
<1>4. /\ g.first = [hp.first EXCEPT ![l] = IF b = NULL THEN e ELSE @]
      /\ g.last = [hp.last EXCEPT ![l] = IF a = NULL THEN e ELSE @]
      /\ g.size = [hp.size EXCEPT ![l] = (@ + 1) % SizeMod]
      /\ \A x \in Elm : /\ g.next[x] = IF x = b THEN e ELSE IF x = e THEN a ELSE hp.next[x]
                        /\ g.prev[x] = IF x = a THEN e ELSE IF x = e THEN b ELSE hp.prev[x]
    BY DEF LinkedIn
<1>5. /\ hp.first \in [List -> Pointer] /\ hp.last \in [List -> Pointer]
      /\ hp.size \in [List -> 0 .. SizeMod - 1]
    BY <1>1 DEF Heap
<1>6. (b = NULL \/ Has(S[l], b)) /\ (a = NULL \/ Has(S[l], a))
    BY <1>1 DEF Has, Neighbours
<1>7. ASSUME NEW m \in List, m # l PROVE Represents(g, m, S[m])
  <2>1. Represents(hp, m, S[m]) /\ S[m] \in Seq(Elm)
      BY DEF Stands
  <2>2. g.first[m] = hp.first[m] /\ g.last[m] = hp.last[m] /\ g.size[m] = hp.size[m]
      BY <1>4, <1>5, <1>7
  <2>3. ASSUME NEW i \in 1 .. Len(S[m])
        PROVE  g.next[S[m][i]] = hp.next[S[m][i]] /\ g.prev[S[m][i]] = hp.prev[S[m][i]]
    <3>1. S[m][i] \in Elm /\ Has(S[m], S[m][i]) /\ S[m][i] # e
        BY <2>1 DEF Has
    <3>2. S[m][i] # b /\ S[m][i] # a
        BY <1>1, <1>6, <1>7, <3>1 DEF Stands
    <3>3. QED
        BY <1>4, <3>1, <3>2
  <2>4. QED
      BY <2>1, <2>2, <2>3, OtherList
<1>8. \A m \in List : Represents(g, m, T[m])
    BY <1>1, <1>2, <1>7
<1>9. \A m, o \in List : \A x \in Elm : Has(T[m], x) /\ Has(T[o], x) => m = o
  <2> SUFFICES ASSUME NEW m \in List, NEW o \in List, NEW x \in Elm, Has(T[m], x), Has(T[o], x)
               PROVE  m = o
      OBVIOUS
  <2>1. T[m] = (IF m = l THEN t ELSE S[m]) /\ T[o] = (IF o = l THEN t ELSE S[o])
      BY <1>1
  <2>2. QED
      BY <1>3, <2>1 DEF Stands
<1>10. T \in [List -> Seq(Elm)]
    BY <1>1
<1>11. QED
    BY <1>3, <1>8, <1>9, <1>10 DEF Stands, LinkedIn

-----------------------------------------------------------------------------
\* The list that lost its element at position k stands for the sequence
\* without it.
LEMMA UnlinkedList ==
    ASSUME ListConstants, NEW hp \in Heap, NEW g, NEW l \in List, NEW s \in Seq(Elm),
           Represents(hp, l, s), NEW k \in 1 .. Len(s), NEW t, Deleted(s, k, t),
           TakenOut(hp, g, l, hp.prev[s[k]], hp.next[s[k]], s[k])
    PROVE  Represents(g, l, t)
<1> DEFINE n == Len(s)
           e == s[k]
           b == hp.prev[e]
           a == hp.next[e]
<1>1. /\ n \in Nat /\ k \in Nat /\ k \in 1 .. n /\ n - 1 \in Nat /\ NULL \notin Elm
      /\ SizeMod \in Nat
    BY DEF ListConstants
<1>2. /\ hp.first[l] = s[1] /\ hp.last[l] = s[n] /\ hp.size[l] = n
      /\ \A i \in 1 .. n : /\ hp.next[s[i]] = IF i = n THEN NULL ELSE s[i + 1]
                           /\ hp.prev[s[i]] = IF i = 1 THEN NULL ELSE s[i - 1]
      /\ \A i, j \in 1 .. n : s[i] = s[j] => i = j
    BY <1>1 DEF Represents
<1>3. \A i \in 1 .. n : s[i] \in Elm
    OBVIOUS
<1>4. (b = IF k = 1 THEN NULL ELSE s[k - 1]) /\ (a = IF k = n THEN NULL ELSE s[k + 1])
    BY <1>2
<1>5. /\ g.first = [hp.first EXCEPT ![l] = IF b = NULL THEN a ELSE @]
      /\ g.last = [hp.last EXCEPT ![l] = IF a = NULL THEN b ELSE @]
      /\ g.size = [hp.size EXCEPT ![l] = (@ + -1) % SizeMod]
      /\ \A x \in Elm : /\ g.next[x] = IF x = e THEN NULL ELSE IF x = b THEN a ELSE hp.next[x]
                        /\ g.prev[x] = IF x = e THEN NULL ELSE IF x = a THEN b ELSE hp.prev[x]
    BY DEF TakenOut
<1>6. /\ t \in Seq(Elm) /\ Len(t) = n - 1
      /\ \A i \in 1 .. n - 1 : t[i] = IF i < k THEN s[i] ELSE s[i + 1]
    BY DEF Deleted
<1>7. \A i, j \in 1 .. Len(t) : t[i] = t[j] => i = j
  <2>1. \A i, j \in 1 .. Len(s) : s[i] = s[j] => i = j
      BY DEF Represents
  <2>2. QED
      BY <2>1, DeletedList
<1>8. n < SizeMod
  <2>1. \A i, j \in 1 .. Len(s) : s[i] = s[j] => i = j
      BY DEF Represents
  <2>2. QED
      BY <2>1 DEF ListConstants
<1>9. /\ hp.first \in [List -> Pointer] /\ hp.last \in [List -> Pointer]
      /\ hp.size \in [List -> 0 .. SizeMod - 1]
    BY DEF Heap
<1>10. k \in 1 .. n /\ e = s[k]
    OBVIOUS
<1> HIDE DEF n, e, b, a
<1>11. g.size[l] = n - 1
  <2>1. g.size[l] = (n + -1) % SizeMod
      BY <1>2, <1>5, <1>9
  <2>2. (n + -1) % SizeMod = (n - 1) % SizeMod
    <3>1. n + -1 = n - 1
        BY <1>1
    <3>2. QED
        BY <3>1
  <2>3. (n - 1) % SizeMod = n - 1
      BY <1>1, <1>8
  <2>4. QED
      BY <2>1, <2>2, <2>3
<1>12. (b = NULL <=> k = 1) /\ (a = NULL <=> k = n)
    BY <1>1, <1>3, <1>4
<1>13. /\ g.first[l] = IF n - 1 = 0 THEN NULL ELSE t[1]
       /\ g.last[l] = IF n - 1 = 0 THEN NULL ELSE t[n - 1]
  <2>1. g.first[l] = (IF k = 1 THEN a ELSE s[1]) /\ g.last[l] = (IF k = n THEN b ELSE s[n])
      BY <1>2, <1>5, <1>9, <1>12
  <2>2. CASE n = 1
      BY <1>1, <1>4, <2>1, <2>2
  <2>3. CASE n # 1
    <3>1. t[1] = (IF k = 1 THEN s[2] ELSE s[1])
        BY <1>1, <1>6, <2>3
    <3>2. t[n - 1] = (IF k = n THEN s[n - 1] ELSE s[n])
        BY <1>1, <1>6, <2>3
    <3>3. QED
        BY <1>1, <1>4, <2>1, <2>3, <3>1, <3>2
  <2>4. QED
      BY <2>2, <2>3
<1>14. ASSUME NEW i \in 1 .. n - 1
       PROVE  /\ g.next[t[i]] = IF i = n - 1 THEN NULL ELSE t[i + 1]
              /\ g.prev[t[i]] = IF i = 1 THEN NULL ELSE t[i - 1]
  <2>1. CASE i < k
    <3>1. i \in 1 .. n /\ t[i] = s[i]
        BY <1>1, <1>6, <2>1
    <3>2. \A j \in 1 .. n : s[i] = s[j] => i = j
        BY <1>2, <3>1
    <3>3. s[i] \in Elm /\ s[i] # e
        BY <1>1, <1>3, <1>10, <2>1, <3>1, <3>2
    <3>4. i = k - 1 <=> s[i] = b
        BY <1>1, <1>3, <1>4, <1>10, <2>1, <3>1, <3>2
    <3>5. s[i] # a
      <4>1. k # n => k + 1 \in 1 .. n /\ i # k + 1
          BY <1>1, <2>1
      <4>2. QED
          BY <1>1, <1>4, <3>2, <3>3, <4>1
    <3>6. /\ g.next[s[i]] = IF i = k - 1 THEN a ELSE hp.next[s[i]]
          /\ g.prev[s[i]] = hp.prev[s[i]]
        BY <1>5, <3>3, <3>4, <3>5
    <3>7. /\ hp.next[s[i]] = IF i = n THEN NULL ELSE s[i + 1]
          /\ hp.prev[s[i]] = IF i = 1 THEN NULL ELSE s[i - 1]
        BY <1>2, <3>1
    <3>8. i # n - 1 => t[i + 1] = (IF i = k - 1 THEN s[k + 1] ELSE s[i + 1])
      <4>1. CASE i # n - 1 /\ i = k - 1
        <5>1. k \in 1 .. n - 1 /\ i + 1 = k
            BY <1>1, <4>1
        <5>2. t[k] = s[k + 1]
            BY <1>1, <1>6, <5>1
        <5>3. QED
            BY <4>1, <5>1, <5>2
      <4>2. CASE i # n - 1 /\ i # k - 1
        <5>1. i + 1 \in 1 .. n - 1 /\ i + 1 < k
            BY <1>1, <2>1, <4>2
        <5>2. QED
            BY <1>6, <4>2, <5>1
      <4>3. QED
          BY <4>1, <4>2
    <3>9. i # 1 => t[i - 1] = s[i - 1]
        BY <1>1, <1>6, <2>1
    <3>10. i # n /\ (i = k - 1 => (k = n <=> i = n - 1)) /\ (i # k - 1 => i # n - 1)
        BY <1>1, <2>1
    <3>11. QED
        BY <1>4, <3>1, <3>6, <3>7, <3>8, <3>9, <3>10
  <2>2. CASE i >= k
    <3>1. i + 1 \in 1 .. n /\ t[i] = s[i + 1] /\ i + 1 # k /\ i \in Nat
        BY <1>1, <1>6, <2>2
    <3>2. \A j \in 1 .. n : s[i + 1] = s[j] => i + 1 = j
        BY <1>2, <3>1
    <3>3. s[i + 1] \in Elm /\ s[i + 1] # e
        BY <1>3, <1>10, <3>1, <3>2
    <3>4. i = k <=> s[i + 1] = a
      <4>1. (k # n => k + 1 \in 1 .. n) /\ (i + 1 = k + 1 <=> i = k) /\ (i = k => k # n)
          BY <1>1, <3>1
      <4>2. QED
          BY <1>1, <1>4, <3>2, <3>3, <4>1
    <3>5. s[i + 1] # b
      <4>1. k # 1 => k - 1 \in 1 .. n /\ i + 1 # k - 1
          BY <1>1, <2>2
      <4>2. QED
          BY <1>1, <1>4, <3>2, <3>3, <4>1
    <3>6. /\ g.next[s[i + 1]] = hp.next[s[i + 1]]
          /\ g.prev[s[i + 1]] = IF i = k THEN b ELSE hp.prev[s[i + 1]]
        BY <1>5, <3>3, <3>4, <3>5
    <3>7. /\ hp.next[s[i + 1]] = IF i + 1 = n THEN NULL ELSE s[i + 2]
          /\ hp.prev[s[i + 1]] = IF i + 1 = 1 THEN NULL ELSE s[i]
        BY <1>2, <3>1
    <3>8. i # n - 1 => t[i + 1] = s[i + 2]
        BY <1>1, <1>6, <2>2
    <3>9. i # 1 => t[i - 1] = (IF i = k THEN s[k - 1] ELSE s[i])
        BY <1>1, <1>6, <2>2
    <3>10. (i + 1 = n <=> i = n - 1) /\ i + 1 # 1 /\ (i = k => (i = 1 <=> k = 1))
           /\ (i # k => i # 1)
        BY <1>1, <2>2
    <3>11. QED
        BY <1>4, <3>1, <3>6, <3>7, <3>8, <3>9, <3>10
  <2>3. QED
      BY <1>1, <2>1, <2>2
<1>15. QED
    BY <1>6, <1>7, <1>11, <1>13, <1>14 DEF Represents

\* Unlinking an element deletes it from its list and leaves the others alone.
LEMMA TakeOut ==
    ASSUME ListConstants, NEW hp, NEW g, NEW S, Stands(hp, S), NEW l \in List,
           NEW k \in 1 .. Len(S[l]), NEW t, Deleted(S[l], k, t),
           TakenOut(hp, g, l, hp.prev[S[l][k]], hp.next[S[l][k]], S[l][k])
    PROVE  /\ Stands(g, [S EXCEPT ![l] = t])
           /\ \A x \in Elm : Has(t, x) <=> x # S[l][k] /\ Has(S[l], x)
<1> DEFINE T == [S EXCEPT ![l] = t]
           e == S[l][k]
           b == hp.prev[e]
           a == hp.next[e]
<1>1. /\ hp \in Heap /\ S \in [List -> Seq(Elm)] /\ S[l] \in Seq(Elm) /\ Len(S[l]) \in Nat
      /\ NULL \notin Elm /\ Represents(hp, l, S[l]) /\ t \in Seq(Elm) /\ k \in Nat
    BY DEF Stands, ListConstants, Deleted
<1>2. Represents(g, l, t)
    BY <1>1, UnlinkedList
<1>3. \A x \in Elm : Has(t, x) <=> x # S[l][k] /\ Has(S[l], x)
  <2>1. \A i, j \in 1 .. Len(S[l]) : S[l][i] = S[l][j] => i = j
      BY <1>1 DEF Represents
  <2>2. QED
      BY <1>1, <2>1, DeletedList
<1>4. /\ g.first = [hp.first EXCEPT ![l] = IF b = NULL THEN a ELSE @]
      /\ g.last = [hp.last EXCEPT ![l] = IF a = NULL THEN b ELSE @]
      /\ g.size = [hp.size EXCEPT ![l] = (@ + -1) % SizeMod]
      /\ \A x \in Elm : /\ g.next[x] = IF x = e THEN NULL ELSE IF x = b THEN a ELSE hp.next[x]
                        /\ g.prev[x] = IF x = e THEN NULL ELSE IF x = a THEN b ELSE hp.prev[x]
    BY DEF TakenOut
<1>5. /\ hp.first \in [List -> Pointer] /\ hp.last \in [List -> Pointer]
      /\ hp.size \in [List -> 0 .. SizeMod - 1]
    BY <1>1 DEF Heap
<1>6. (b = NULL \/ Has(S[l], b)) /\ (a = NULL \/ Has(S[l], a)) /\ Has(S[l], e)
  <2>1. /\ b = IF k = 1 THEN NULL ELSE S[l][k - 1]
        /\ a = IF k = Len(S[l]) THEN NULL ELSE S[l][k + 1]
      BY <1>1 DEF Represents
  <2>2. (k # 1 => k - 1 \in 1 .. Len(S[l])) /\ (k # Len(S[l]) => k + 1 \in 1 .. Len(S[l]))
      BY <1>1
  <2>3. QED
      BY <2>1, <2>2 DEF Has
<1> HIDE DEF b, a, e
<1>7. ASSUME NEW m \in List, m # l PROVE Represents(g, m, S[m])
  <2>1. Represents(hp, m, S[m]) /\ S[m] \in Seq(Elm)
      BY DEF Stands
  <2>2. g.first[m] = hp.first[m] /\ g.last[m] = hp.last[m] /\ g.size[m] = hp.size[m]
      BY <1>4, <1>5, <1>7
  <2>3. ASSUME NEW i \in 1 .. Len(S[m])
        PROVE  g.next[S[m][i]] = hp.next[S[m][i]] /\ g.prev[S[m][i]] = hp.prev[S[m][i]]
    <3>1. S[m][i] \in Elm /\ Has(S[m], S[m][i])
        BY <2>1 DEF Has
    <3>2. S[m][i] # b /\ S[m][i] # a /\ S[m][i] # e
        BY <1>1, <1>6, <1>7, <3>1 DEF Stands
    <3>3. QED
        BY <1>4, <3>1, <3>2
  <2>4. QED
      BY <2>1, <2>2, <2>3, OtherList
<1>8. \A m \in List : Represents(g, m, T[m])
    BY <1>1, <1>2, <1>7
<1>9. \A m, o \in List : \A x \in Elm : Has(T[m], x) /\ Has(T[o], x) => m = o
  <2> SUFFICES ASSUME NEW m \in List, NEW o \in List, NEW x \in Elm, Has(T[m], x), Has(T[o], x)
               PROVE  m = o
      OBVIOUS
  <2>1. T[m] = (IF m = l THEN t ELSE S[m]) /\ T[o] = (IF o = l THEN t ELSE S[o])
      BY <1>1
  <2>2. QED
      BY <1>3, <2>1 DEF Stands
<1>10. T \in [List -> Seq(Elm)]
    BY <1>1
<1>11. QED
    BY <1>3, <1>8, <1>9, <1>10 DEF Stands, TakenOut

-----------------------------------------------------------------------------
\* The size stays a uint32.
LEMMA SizeType ==
    ASSUME ListConstants, NEW f \in [List -> 0 .. SizeMod - 1], NEW l \in List,
           NEW d \in {1, -1}
    PROVE  [f EXCEPT ![l] = (@ + d) % SizeMod] \in [List -> 0 .. SizeMod - 1]
<1>1. SizeMod \in Nat /\ SizeMod > 0
  <2>1. <<>> \in Seq(Elm) /\ Len(<<>>) = 0
      OBVIOUS
  <2>2. \A i, j \in 1 .. Len(<<>>) : <<>>[i] = <<>>[j] => i = j
      BY <2>1
  <2>3. QED
      BY <2>1, <2>2 DEF ListConstants
<1>2. \A x \in 0 .. SizeMod - 1 : (x + d) % SizeMod \in 0 .. SizeMod - 1
    BY <1>1
<1>3. QED
    BY <1>2

\* LIST_INSERT_HEAD links e in before the first element.
LEMMA HeadFields ==
    ASSUME ListConstants, NEW hp \in Heap, NEW l \in List, NEW e \in Elm,
           NEW a, a = hp.first[l], a # e
    PROVE  LinkedIn(hp, LIST_INSERT_HEAD(hp, l, e), l, NULL, a, e)
<1> DEFINE g == LIST_INSERT_HEAD(hp, l, e)
           first == [hp.first EXCEPT ![l] = e]
           last == [hp.last EXCEPT ![l] = IF hp.first[l] = NULL THEN e ELSE @]
           size == [hp.size EXCEPT ![l] = (@ + 1) % SizeMod]
           next == [hp.next EXCEPT ![e] = hp.first[l]]
           prev == [Put(hp.prev, hp.first[l], e) EXCEPT ![e] = NULL]
<1>1. /\ hp.first \in [List -> Pointer] /\ hp.last \in [List -> Pointer]
      /\ hp.size \in [List -> 0 .. SizeMod - 1]
      /\ hp.next \in [Elm -> Pointer] /\ hp.prev \in [Elm -> Pointer]
    BY DEF Heap
<1>2. NULL \notin Elm /\ e \in Pointer /\ NULL \in Pointer /\ (a = NULL \/ a \in Elm)
    BY <1>1 DEF ListConstants, Pointer
<1>3. /\ first \in [List -> Pointer] /\ last \in [List -> Pointer]
      /\ next \in [Elm -> Pointer] /\ prev \in [Elm -> Pointer]
    BY <1>1, <1>2 DEF Put
<1>4. size \in [List -> 0 .. SizeMod - 1]
    BY <1>1, SizeType
<1>5. g \in Heap
    BY <1>3, <1>4 DEF Heap, LIST_INSERT_HEAD, SizePlus
<1>6. g.first = first
    BY DEF Heap, LIST_INSERT_HEAD
<1>7. g.last = last
    BY DEF Heap, LIST_INSERT_HEAD
<1>8. g.size = size
    BY DEF Heap, LIST_INSERT_HEAD, SizePlus
<1>9. g.next = next
    BY DEF Heap, LIST_INSERT_HEAD
<1>10. g.prev = prev
    BY DEF Heap, LIST_INSERT_HEAD
<1> HIDE DEF g
<1>11. ASSUME NEW x \in Elm
       PROVE  /\ next[x] = IF x = NULL THEN e ELSE IF x = e THEN a ELSE hp.next[x]
              /\ prev[x] = IF x = a THEN e ELSE IF x = e THEN NULL ELSE hp.prev[x]
    BY <1>1, <1>2 DEF Put
<1>12. g.first = [hp.first EXCEPT ![l] = IF NULL = NULL THEN e ELSE @]
    BY <1>6
<1>13. g.last = [hp.last EXCEPT ![l] = IF a = NULL THEN e ELSE @]
    BY <1>7
<1> HIDE DEF first, last, next, prev
<1>14. LinkedIn(hp, g, l, NULL, a, e)
    BY <1>5, <1>8, <1>9, <1>10, <1>11, <1>12, <1>13 DEF LinkedIn
<1>15. QED
    BY <1>14 DEF g

\* LIST_INSERT_TAIL links e in after the last element.
LEMMA TailFields ==
    ASSUME ListConstants, NEW hp \in Heap, NEW l \in List, NEW e \in Elm,
           NEW b, b = hp.last[l], b # e
    PROVE  LinkedIn(hp, LIST_INSERT_TAIL(hp, l, e), l, b, NULL, e)
<1> DEFINE g == LIST_INSERT_TAIL(hp, l, e)
           first == [hp.first EXCEPT ![l] = IF hp.last[l] = NULL THEN e ELSE @]
           last == [hp.last EXCEPT ![l] = e]
           size == [hp.size EXCEPT ![l] = (@ + 1) % SizeMod]
           next == [Put(hp.next, hp.last[l], e) EXCEPT ![e] = NULL]
           prev == [hp.prev EXCEPT ![e] = hp.last[l]]
<1>1. /\ hp.first \in [List -> Pointer] /\ hp.last \in [List -> Pointer]
      /\ hp.size \in [List -> 0 .. SizeMod - 1]
      /\ hp.next \in [Elm -> Pointer] /\ hp.prev \in [Elm -> Pointer]
    BY DEF Heap
<1>2. NULL \notin Elm /\ e \in Pointer /\ NULL \in Pointer /\ (b = NULL \/ b \in Elm)
    BY <1>1 DEF ListConstants, Pointer
<1>3. /\ first \in [List -> Pointer] /\ last \in [List -> Pointer]
      /\ next \in [Elm -> Pointer] /\ prev \in [Elm -> Pointer]
    BY <1>1, <1>2 DEF Put, Pointer
<1>4. size \in [List -> 0 .. SizeMod - 1]
    BY <1>1, SizeType
<1>5. g \in Heap
    BY <1>3, <1>4 DEF Heap, LIST_INSERT_TAIL, SizePlus
<1>6. g.first = first
    BY DEF Heap, LIST_INSERT_TAIL
<1>7. g.last = last
    BY DEF Heap, LIST_INSERT_TAIL
<1>8. g.size = size
    BY DEF Heap, LIST_INSERT_TAIL, SizePlus
<1>9. g.next = next
    BY DEF Heap, LIST_INSERT_TAIL
<1>10. g.prev = prev
    BY DEF Heap, LIST_INSERT_TAIL
<1> HIDE DEF g
<1>11. ASSUME NEW y \in Elm
       PROVE  /\ next[y] = IF y = b THEN e ELSE IF y = e THEN NULL ELSE hp.next[y]
              /\ prev[y] = IF y = NULL THEN e ELSE IF y = e THEN b ELSE hp.prev[y]
    BY <1>1, <1>2 DEF Put
<1>12. g.first = [hp.first EXCEPT ![l] = IF b = NULL THEN e ELSE @]
    BY <1>1, <1>2, <1>6
<1>13. g.last = [hp.last EXCEPT ![l] = IF NULL = NULL THEN e ELSE @]
    BY <1>1, <1>2, <1>7
<1> HIDE DEF first, last, next, prev
<1>14. LinkedIn(hp, g, l, b, NULL, e)
    BY <1>5, <1>8, <1>9, <1>10, <1>11, <1>12, <1>13 DEF LinkedIn
<1>15. QED
    BY <1>14 DEF g

\* LIST_INSERT_AFTER links e in between x and the element after it.
LEMMA AfterFields ==
    ASSUME ListConstants, NEW hp \in Heap, NEW l \in List, NEW e \in Elm,
           NEW x \in Elm, x # e, NEW a, a = hp.next[x], a # e, a # x
    PROVE  LinkedIn(hp, LIST_INSERT_AFTER(hp, l, x, e), l, x, a, e)
<1> DEFINE g == LIST_INSERT_AFTER(hp, l, x, e)
           first == hp.first
           last == [hp.last EXCEPT ![l] = IF hp.next[x] = NULL THEN e ELSE @]
           size == [hp.size EXCEPT ![l] = (@ + 1) % SizeMod]
           next == [hp.next EXCEPT ![e] = hp.next[x], ![x] = e]
           prev == [Put(hp.prev, hp.next[x], e) EXCEPT ![e] = x]
<1>1. /\ hp.first \in [List -> Pointer] /\ hp.last \in [List -> Pointer]
      /\ hp.size \in [List -> 0 .. SizeMod - 1]
      /\ hp.next \in [Elm -> Pointer] /\ hp.prev \in [Elm -> Pointer]
    BY DEF Heap
<1>2. NULL \notin Elm /\ e \in Pointer /\ NULL \in Pointer /\ (a = NULL \/ a \in Elm)
    BY <1>1 DEF ListConstants, Pointer
<1>3. /\ first \in [List -> Pointer] /\ last \in [List -> Pointer]
      /\ next \in [Elm -> Pointer] /\ prev \in [Elm -> Pointer]
    BY <1>1, <1>2 DEF Put, Pointer
<1>4. size \in [List -> 0 .. SizeMod - 1]
    BY <1>1, SizeType
<1>5. g \in Heap
    BY <1>3, <1>4 DEF Heap, LIST_INSERT_AFTER, SizePlus
<1>6. g.first = first
    BY DEF Heap, LIST_INSERT_AFTER
<1>7. g.last = last
    BY DEF Heap, LIST_INSERT_AFTER
<1>8. g.size = size
    BY DEF Heap, LIST_INSERT_AFTER, SizePlus
<1>9. g.next = next
    BY DEF Heap, LIST_INSERT_AFTER
<1>10. g.prev = prev
    BY DEF Heap, LIST_INSERT_AFTER
<1> HIDE DEF g
<1>11. ASSUME NEW y \in Elm
       PROVE  /\ next[y] = IF y = x THEN e ELSE IF y = e THEN a ELSE hp.next[y]
              /\ prev[y] = IF y = a THEN e ELSE IF y = e THEN x ELSE hp.prev[y]
    BY <1>1, <1>2 DEF Put
<1>12. g.first = [hp.first EXCEPT ![l] = IF x = NULL THEN e ELSE @]
    BY <1>1, <1>2, <1>6
<1>13. g.last = [hp.last EXCEPT ![l] = IF a = NULL THEN e ELSE @]
    BY <1>1, <1>2, <1>7
<1> HIDE DEF first, last, next, prev
<1>14. LinkedIn(hp, g, l, x, a, e)
    BY <1>5, <1>8, <1>9, <1>10, <1>11, <1>12, <1>13 DEF LinkedIn
<1>15. QED
    BY <1>14 DEF g

\* LIST_INSERT_BEFORE links e in between x and the element before it.
LEMMA BeforeFields ==
    ASSUME ListConstants, NEW hp \in Heap, NEW l \in List, NEW e \in Elm,
           NEW x \in Elm, x # e, NEW b, b = hp.prev[x], b # e, b # x
    PROVE  LinkedIn(hp, LIST_INSERT_BEFORE(hp, l, x, e), l, b, x, e)
<1> DEFINE g == LIST_INSERT_BEFORE(hp, l, x, e)
           first == [hp.first EXCEPT ![l] = IF hp.prev[x] = NULL THEN e ELSE @]
           last == hp.last
           size == [hp.size EXCEPT ![l] = (@ + 1) % SizeMod]
           next == Put([hp.next EXCEPT ![e] = x], hp.prev[x], e)
           prev == [hp.prev EXCEPT ![e] = hp.prev[x], ![x] = e]
<1>1. /\ hp.first \in [List -> Pointer] /\ hp.last \in [List -> Pointer]
      /\ hp.size \in [List -> 0 .. SizeMod - 1]
      /\ hp.next \in [Elm -> Pointer] /\ hp.prev \in [Elm -> Pointer]
    BY DEF Heap
<1>2. NULL \notin Elm /\ e \in Pointer /\ NULL \in Pointer /\ (b = NULL \/ b \in Elm)
    BY <1>1 DEF ListConstants, Pointer
<1>3. /\ first \in [List -> Pointer] /\ last \in [List -> Pointer]
      /\ next \in [Elm -> Pointer] /\ prev \in [Elm -> Pointer]
    BY <1>1, <1>2 DEF Put, Pointer
<1>4. size \in [List -> 0 .. SizeMod - 1]
    BY <1>1, SizeType
<1>5. g \in Heap
    BY <1>3, <1>4 DEF Heap, LIST_INSERT_BEFORE, SizePlus
<1>6. g.first = first
    BY DEF Heap, LIST_INSERT_BEFORE
<1>7. g.last = last
    BY DEF Heap, LIST_INSERT_BEFORE
<1>8. g.size = size
    BY DEF Heap, LIST_INSERT_BEFORE, SizePlus
<1>9. g.next = next
    BY DEF Heap, LIST_INSERT_BEFORE
<1>10. g.prev = prev
    BY DEF Heap, LIST_INSERT_BEFORE
<1> HIDE DEF g
<1>11. ASSUME NEW y \in Elm
       PROVE  /\ next[y] = IF y = b THEN e ELSE IF y = e THEN x ELSE hp.next[y]
              /\ prev[y] = IF y = x THEN e ELSE IF y = e THEN b ELSE hp.prev[y]
    BY <1>1, <1>2 DEF Put
<1>12. g.first = [hp.first EXCEPT ![l] = IF b = NULL THEN e ELSE @]
    BY <1>1, <1>2, <1>6
<1>13. g.last = [hp.last EXCEPT ![l] = IF x = NULL THEN e ELSE @]
    BY <1>1, <1>2, <1>7
<1> HIDE DEF first, last, next, prev
<1>14. LinkedIn(hp, g, l, b, x, e)
    BY <1>5, <1>8, <1>9, <1>10, <1>11, <1>12, <1>13 DEF LinkedIn
<1>15. QED
    BY <1>14 DEF g

\* LIST_REMOVE takes e out from between its neighbours.
LEMMA RemoveFields ==
    ASSUME ListConstants, NEW hp \in Heap, NEW l \in List, NEW e \in Elm,
           NEW b, b = hp.prev[e], NEW a, a = hp.next[e]
    PROVE  TakenOut(hp, LIST_REMOVE(hp, l, e), l, b, a, e)
<1> DEFINE g == LIST_REMOVE(hp, l, e)
           first == [hp.first EXCEPT ![l] = IF hp.prev[e] = NULL THEN hp.next[e] ELSE @]
           last == [hp.last EXCEPT ![l] = IF hp.next[e] = NULL THEN hp.prev[e] ELSE @]
           size == [hp.size EXCEPT ![l] = (@ + -1) % SizeMod]
           next == [Put(hp.next, hp.prev[e], hp.next[e]) EXCEPT ![e] = NULL]
           prev == [Put(hp.prev, hp.next[e], hp.prev[e]) EXCEPT ![e] = NULL]
<1>1. /\ hp.first \in [List -> Pointer] /\ hp.last \in [List -> Pointer]
      /\ hp.size \in [List -> 0 .. SizeMod - 1]
      /\ hp.next \in [Elm -> Pointer] /\ hp.prev \in [Elm -> Pointer]
    BY DEF Heap
<1>2. NULL \notin Elm /\ e \in Pointer /\ NULL \in Pointer /\ (b = NULL \/ b \in Elm) /\ (a = NULL \/ a \in Elm)
    BY <1>1 DEF ListConstants, Pointer
<1>3. /\ first \in [List -> Pointer] /\ last \in [List -> Pointer]
      /\ next \in [Elm -> Pointer] /\ prev \in [Elm -> Pointer]
    BY <1>1, <1>2 DEF Put, Pointer
<1>4. size \in [List -> 0 .. SizeMod - 1]
    BY <1>1, SizeType
<1>5. g \in Heap
    BY <1>3, <1>4 DEF Heap, LIST_REMOVE, SizePlus
<1>6. g.first = first
    BY DEF Heap, LIST_REMOVE
<1>7. g.last = last
    BY DEF Heap, LIST_REMOVE
<1>8. g.size = size
    BY DEF Heap, LIST_REMOVE, SizePlus
<1>9. g.next = next
    BY DEF Heap, LIST_REMOVE
<1>10. g.prev = prev
    BY DEF Heap, LIST_REMOVE
<1> HIDE DEF g
<1>11. ASSUME NEW y \in Elm
       PROVE  /\ next[y] = IF y = e THEN NULL ELSE IF y = b THEN a ELSE hp.next[y]
              /\ prev[y] = IF y = e THEN NULL ELSE IF y = a THEN b ELSE hp.prev[y]
    BY <1>1, <1>2 DEF Put
<1>12. g.first = [hp.first EXCEPT ![l] = IF b = NULL THEN a ELSE @]
    BY <1>1, <1>2, <1>6
<1>13. g.last = [hp.last EXCEPT ![l] = IF a = NULL THEN b ELSE @]
    BY <1>1, <1>2, <1>7
<1> HIDE DEF first, last, next, prev
<1>14. TakenOut(hp, g, l, b, a, e)
    BY <1>5, <1>8, <1>9, <1>10, <1>11, <1>12, <1>13 DEF TakenOut
<1>15. QED
    BY <1>14 DEF g

-----------------------------------------------------------------------------
\* Putting an element at the head, at the tail or in the middle splices it in.
LEMMA SplicedForms ==
    ASSUME NEW s \in Seq(Elm), NEW e \in Elm
    PROVE  /\ Spliced(s, 1, e, <<e>> \o s)
           /\ Spliced(s, Len(s) + 1, e, Append(s, e))
           /\ \A k \in 1 .. Len(s) + 1 :
                 Spliced(s, k, e, SubSeq(s, 1, k - 1) \o <<e>> \o SubSeq(s, k, Len(s)))
<1>1. Spliced(s, 1, e, <<e>> \o s)
    BY DEF Spliced
<1>2. Spliced(s, Len(s) + 1, e, Append(s, e))
    BY DEF Spliced
<1>3. ASSUME NEW k \in 1 .. Len(s) + 1
      PROVE  Spliced(s, k, e, SubSeq(s, 1, k - 1) \o <<e>> \o SubSeq(s, k, Len(s)))
  <2> DEFINE u == SubSeq(s, 1, k - 1)
             v == SubSeq(s, k, Len(s))
             n == Len(s)
  <2>1. n \in Nat /\ k \in Nat /\ k \in 1 .. n + 1 /\ \A i \in 1 .. n : s[i] \in Elm
      OBVIOUS
  <2>2. u \in Seq(Elm) /\ Len(u) = k - 1 /\ \A i \in 1 .. k - 1 : u[i] = s[i]
    <3>1. \A i \in 1 .. k - 1 : s[i] \in Elm
        BY <2>1
    <3>2. 1 \in Int /\ k - 1 \in Int
        BY <2>1
    <3>3. /\ u \in Seq(Elm) /\ Len(u) = IF 1 <= k - 1 THEN k - 1 - 1 + 1 ELSE 0
          /\ \A i \in 1 .. k - 1 - 1 + 1 : u[i] = s[1 + i - 1]
        BY <3>1, <3>2, SubSeqProperties
    <3>4. QED
        BY <2>1, <3>3
  <2>3. v \in Seq(Elm) /\ Len(v) = n - k + 1 /\ \A i \in 1 .. n - k + 1 : v[i] = s[k + i - 1]
    <3>1. \A i \in k .. n : s[i] \in Elm
        BY <2>1
    <3>2. k \in Int /\ n \in Int
        BY <2>1
    <3>3. /\ v \in Seq(Elm) /\ Len(v) = IF k <= n THEN n - k + 1 ELSE 0
          /\ \A i \in 1 .. n - k + 1 : v[i] = s[k + i - 1]
        BY <3>1, <3>2, SubSeqProperties
    <3>4. QED
        BY <2>1, <3>3
  <2> HIDE DEF u, v
  <2>4. /\ u \o <<e>> \in Seq(Elm) /\ Len(u \o <<e>>) = k
        /\ \A i \in 1 .. k : (u \o <<e>>)[i] = IF i < k THEN s[i] ELSE e
      BY <2>1, <2>2
  <2> DEFINE w == u \o <<e>>
  <2> HIDE DEF w
  <2>5. w \in Seq(Elm) /\ Len(w) = k /\ \A i \in 1 .. k : w[i] = IF i < k THEN s[i] ELSE e
      BY <2>4 DEF w
  <2>6. /\ w \o v \in Seq(Elm) /\ Len(w \o v) = Len(w) + Len(v)
        /\ \A i \in 1 .. Len(w) + Len(v) :
              (w \o v)[i] = IF i <= Len(w) THEN w[i] ELSE v[i - Len(w)]
      BY <2>3, <2>5, ConcatProperties
  <2>7. Len(w) + Len(v) = n + 1
      BY <2>1, <2>3, <2>5
  <2>8. ASSUME NEW i \in 1 .. n + 1
        PROVE  (w \o v)[i] = IF i < k THEN s[i] ELSE IF i = k THEN e ELSE s[i - 1]
    <3>1. CASE i <= k
        BY <2>1, <2>5, <2>6, <2>7, <3>1
    <3>2. CASE i > k
      <4>1. (w \o v)[i] = v[i - k]
          BY <2>1, <2>5, <2>6, <2>7, <3>2
      <4>2. i - k \in 1 .. n - k + 1 /\ k + (i - k) - 1 = i - 1
          BY <2>1, <3>2
      <4>3. QED
          BY <2>1, <2>3, <3>2, <4>1, <4>2
    <3>3. i <= k \/ i > k
        BY <2>1
    <3>4. QED
        BY <3>1, <3>2, <3>3
  <2>9. Spliced(s, k, e, w \o v)
      BY <2>6, <2>7, <2>8 DEF Spliced
  <2>10. QED
      BY <2>9 DEF u, v, w
<1>4. QED
    BY <1>1, <1>2, <1>3

\* Joining what is before and what is after an element deletes it.
LEMMA DeletedForm ==
    ASSUME NEW s \in Seq(Elm), NEW k \in 1 .. Len(s)
    PROVE  Deleted(s, k, SubSeq(s, 1, k - 1) \o SubSeq(s, k + 1, Len(s)))
<1> DEFINE u == SubSeq(s, 1, k - 1)
           v == SubSeq(s, k + 1, Len(s))
           n == Len(s)
<1>1. n \in Nat /\ k \in Nat /\ k \in 1 .. n /\ \A i \in 1 .. n : s[i] \in Elm
    OBVIOUS
<1>2. u \in Seq(Elm) /\ Len(u) = k - 1 /\ \A i \in 1 .. k - 1 : u[i] = s[i]
  <2>1. \A i \in 1 .. k - 1 : s[i] \in Elm
      BY <1>1
  <2>2. 1 \in Int /\ k - 1 \in Int
      BY <1>1
  <2>3. /\ u \in Seq(Elm) /\ Len(u) = IF 1 <= k - 1 THEN k - 1 - 1 + 1 ELSE 0
        /\ \A i \in 1 .. k - 1 - 1 + 1 : u[i] = s[1 + i - 1]
      BY <2>1, <2>2, SubSeqProperties
  <2>4. QED
      BY <1>1, <2>3
<1>3. v \in Seq(Elm) /\ Len(v) = n - k /\ \A i \in 1 .. n - k : v[i] = s[k + i]
  <2>1. \A i \in k + 1 .. n : s[i] \in Elm
      BY <1>1
  <2>2. k + 1 \in Int /\ n \in Int
      BY <1>1
  <2>3. /\ v \in Seq(Elm) /\ Len(v) = IF k + 1 <= n THEN n - (k + 1) + 1 ELSE 0
        /\ \A i \in 1 .. n - (k + 1) + 1 : v[i] = s[k + 1 + i - 1]
      BY <2>1, <2>2, SubSeqProperties
  <2>4. \A i \in 1 .. n - k : i \in 1 .. n - (k + 1) + 1 /\ k + 1 + i - 1 = k + i
      BY <1>1
  <2>5. \A i \in 1 .. n - k : v[i] = s[k + i]
      BY <2>3, <2>4
  <2>6. QED
      BY <1>1, <2>3, <2>5
<1> HIDE DEF u, v
<1>4. /\ u \o v \in Seq(Elm) /\ Len(u \o v) = Len(u) + Len(v)
      /\ \A i \in 1 .. Len(u) + Len(v) :
            (u \o v)[i] = IF i <= Len(u) THEN u[i] ELSE v[i - Len(u)]
    BY <1>2, <1>3, ConcatProperties
<1>5. Len(u) + Len(v) = n - 1
    BY <1>1, <1>2, <1>3
<1>6. ASSUME NEW i \in 1 .. n - 1
      PROVE  (u \o v)[i] = IF i < k THEN s[i] ELSE s[i + 1]
  <2>1. CASE i < k
      BY <1>1, <1>2, <1>4, <1>5, <2>1
  <2>2. CASE i >= k
    <3>1. (u \o v)[i] = v[i - (k - 1)]
        BY <1>1, <1>2, <1>4, <1>5, <2>2
    <3>2. i - (k - 1) \in 1 .. n - k /\ k + (i - (k - 1)) = i + 1
        BY <1>1, <2>2
    <3>3. QED
        BY <1>1, <1>3, <2>2, <3>1, <3>2
  <2>3. i < k \/ i >= k
      BY <1>1
  <2>4. QED
      BY <2>1, <2>2, <2>3
<1>7. QED
    BY <1>4, <1>5, <1>6 DEF Deleted, u, v

-----------------------------------------------------------------------------
(* The macros, on the sequences.                                           *)

\* LIST_INSERT_HEAD puts a free element before all others.
LEMMA InsertHeadStands ==
    ASSUME ListConstants, NEW hp, NEW S, Stands(hp, S), NEW l \in List,
           NEW e \in Elm, \A m \in List : ~Has(S[m], e)
    PROVE  /\ Stands(LIST_INSERT_HEAD(hp, l, e), [S EXCEPT ![l] = <<e>> \o S[l]])
           /\ \A x \in Elm : Has(<<e>> \o S[l], x) <=> x = e \/ Has(S[l], x)
<1> DEFINE g == LIST_INSERT_HEAD(hp, l, e)
           t == <<e>> \o S[l]
           a == IF Len(S[l]) = 0 THEN NULL ELSE S[l][1]
<1>1. hp \in Heap /\ S[l] \in Seq(Elm) /\ Len(S[l]) \in Nat /\ NULL \notin Elm /\ ~Has(S[l], e)
    BY DEF Stands, ListConstants
<1>2. a = hp.first[l]
    BY DEF Stands, Represents
<1>3. a # e
    BY <1>1 DEF Has
<1>4. LinkedIn(hp, g, l, NULL, a, e)
    BY <1>1, <1>2, <1>3, HeadFields
<1>5. Spliced(S[l], 1, e, t)
    BY <1>1, SplicedForms
<1>6. 1 \in 1 .. Len(S[l]) + 1 /\ Neighbours(S[l], 1, NULL, a)
    BY <1>1 DEF Neighbours
<1> HIDE DEF g, t, a
<1>7. /\ Stands(g, [S EXCEPT ![l] = t])
      /\ \A x \in Elm : Has(t, x) <=> x = e \/ Has(S[l], x)
    BY <1>4, <1>5, <1>6, LinkIn
<1>8. QED
    BY <1>7 DEF g, t

\* LIST_INSERT_TAIL puts a free element after all others.
LEMMA InsertTailStands ==
    ASSUME ListConstants, NEW hp, NEW S, Stands(hp, S), NEW l \in List,
           NEW e \in Elm, \A m \in List : ~Has(S[m], e)
    PROVE  Stands(LIST_INSERT_TAIL(hp, l, e), [S EXCEPT ![l] = Append(S[l], e)])
<1> DEFINE g == LIST_INSERT_TAIL(hp, l, e)
           t == Append(S[l], e)
           n == Len(S[l])
           k == n + 1
           b == IF n = 0 THEN NULL ELSE S[l][n]
<1>1. hp \in Heap /\ S[l] \in Seq(Elm) /\ n \in Nat /\ NULL \notin Elm /\ ~Has(S[l], e)
    BY DEF Stands, ListConstants
<1>2. b = hp.last[l]
    BY DEF Stands, Represents
<1>3. b # e
    BY <1>1 DEF Has
<1>4. LinkedIn(hp, g, l, b, NULL, e)
    BY <1>1, <1>2, <1>3, TailFields
<1>5. Spliced(S[l], k, e, t)
    BY <1>1, SplicedForms
<1>6. k \in 1 .. Len(S[l]) + 1 /\ Neighbours(S[l], k, b, NULL)
    BY <1>1 DEF Neighbours
<1> HIDE DEF g, t, b, k
<1>7. Stands(g, [S EXCEPT ![l] = t])
    BY <1>4, <1>5, <1>6, LinkIn
<1>8. QED
    BY <1>7 DEF g, t

\* LIST_INSERT_AFTER puts a free element after the one at position i.
LEMMA InsertAfterStands ==
    ASSUME ListConstants, NEW hp, NEW S, Stands(hp, S), NEW l \in List,
           NEW e \in Elm, \A m \in List : ~Has(S[m], e), NEW i \in 1 .. Len(S[l]),
           NEW t, Spliced(S[l], i + 1, e, t)
    PROVE  Stands(LIST_INSERT_AFTER(hp, l, S[l][i], e), [S EXCEPT ![l] = t])
<1> DEFINE x == S[l][i]
           g == LIST_INSERT_AFTER(hp, l, x, e)
           n == Len(S[l])
           a == IF i = n THEN NULL ELSE S[l][i + 1]
<1>1. /\ hp \in Heap /\ S[l] \in Seq(Elm) /\ n \in Nat /\ i \in Nat /\ i \in 1 .. n
      /\ NULL \notin Elm /\ \A j \in 1 .. n : S[l][j] # e
    BY DEF Stands, ListConstants, Has
<1>2. a = hp.next[x]
    BY DEF Stands, Represents
<1>3. i # n => i + 1 \in 1 .. n
    BY <1>1
<1>4. \A j \in 1 .. n : S[l][j] = x => i = j
    BY DEF Stands, Represents
<1>5. x \in Elm /\ x # e /\ a # e /\ a # x
    BY <1>1, <1>3, <1>4
<1>6. LinkedIn(hp, g, l, x, a, e)
    BY <1>1, <1>2, <1>5, AfterFields
<1>7. i + 1 \in 1 .. n + 1 /\ Neighbours(S[l], i + 1, x, a)
    BY <1>1 DEF Neighbours
<1> HIDE DEF g, a, x
<1>8. Stands(g, [S EXCEPT ![l] = t])
    BY <1>6, <1>7, LinkIn
<1>9. QED
    BY <1>8 DEF g, x

\* LIST_INSERT_BEFORE puts a free element before the one at position i.
LEMMA InsertBeforeStands ==
    ASSUME ListConstants, NEW hp, NEW S, Stands(hp, S), NEW l \in List,
           NEW e \in Elm, \A m \in List : ~Has(S[m], e), NEW i \in 1 .. Len(S[l]),
           NEW t, Spliced(S[l], i, e, t)
    PROVE  Stands(LIST_INSERT_BEFORE(hp, l, S[l][i], e), [S EXCEPT ![l] = t])
<1> DEFINE x == S[l][i]
           g == LIST_INSERT_BEFORE(hp, l, x, e)
           n == Len(S[l])
           b == IF i = 1 THEN NULL ELSE S[l][i - 1]
<1>1. /\ hp \in Heap /\ S[l] \in Seq(Elm) /\ n \in Nat /\ i \in Nat /\ i \in 1 .. n
      /\ NULL \notin Elm /\ \A j \in 1 .. n : S[l][j] # e
    BY DEF Stands, ListConstants, Has
<1>2. b = hp.prev[x]
    BY DEF Stands, Represents
<1>3. i # 1 => i - 1 \in 1 .. n
    BY <1>1
<1>4. \A j \in 1 .. n : S[l][j] = x => i = j
    BY DEF Stands, Represents
<1>5. x \in Elm /\ x # e /\ b # e /\ b # x
    BY <1>1, <1>3, <1>4
<1>6. LinkedIn(hp, g, l, b, x, e)
    BY <1>1, <1>2, <1>5, BeforeFields
<1>7. i \in 1 .. n + 1 /\ Neighbours(S[l], i, b, x)
    BY <1>1 DEF Neighbours
<1> HIDE DEF g, b, x
<1>8. Stands(g, [S EXCEPT ![l] = t])
    BY <1>6, <1>7, LinkIn
<1>9. QED
    BY <1>8 DEF g, x

\* LIST_REMOVE deletes the element at position k, which is then in no list.
LEMMA RemoveStands ==
    ASSUME ListConstants, NEW hp, NEW S, Stands(hp, S), NEW l \in List,
           NEW k \in 1 .. Len(S[l]), NEW t, Deleted(S[l], k, t)
    PROVE  /\ Stands(LIST_REMOVE(hp, l, S[l][k]), [S EXCEPT ![l] = t])
           /\ \A m \in List : ~Has([S EXCEPT ![l] = t][m], S[l][k])
           /\ \A x \in Elm : Has(t, x) <=> x # S[l][k] /\ Has(S[l], x)
<1> DEFINE e == S[l][k]
           g == LIST_REMOVE(hp, l, e)
<1>1. /\ hp \in Heap /\ S \in [List -> Seq(Elm)] /\ S[l] \in Seq(Elm) /\ e \in Elm
      /\ Has(S[l], e)
    BY DEF Stands, Has
<1>2. TakenOut(hp, g, l, hp.prev[e], hp.next[e], e)
    BY <1>1, RemoveFields
<1>3. /\ Stands(g, [S EXCEPT ![l] = t])
      /\ \A x \in Elm : Has(t, x) <=> x # e /\ Has(S[l], x)
  <2> HIDE DEF g
  <2>1. QED
      BY <1>2, TakeOut
<1> HIDE DEF g, e
<1>4. ASSUME NEW m \in List PROVE ~Has([S EXCEPT ![l] = t][m], e)
    BY <1>1, <1>3 DEF Stands
<1>5. QED
    BY <1>3, <1>4 DEF e, g

-----------------------------------------------------------------------------
(* The macros, for proofs that ask only which elements a list has.         *)

\* LIST_INSERT_HEAD adds the element to its list.
LEMMA InsertHas ==
    ASSUME ListConstants, NEW hp, NEW S, Stands(hp, S), NEW l \in List,
           NEW e \in Elm, \A m \in List : ~Has(S[m], e)
    PROVE  \E T : /\ Stands(LIST_INSERT_HEAD(hp, l, e), T)
                  /\ \A m \in List, x \in Elm :
                        Has(T[m], x) <=> Has(S[m], x) \/ (m = l /\ x = e)
<1> DEFINE t == <<e>> \o S[l]
           T == [S EXCEPT ![l] = t]
<1>1. /\ Stands(LIST_INSERT_HEAD(hp, l, e), T)
      /\ \A x \in Elm : Has(t, x) <=> x = e \/ Has(S[l], x)
    BY InsertHeadStands
<1>2. \A m \in List : T[m] = IF m = l THEN t ELSE S[m]
    BY DEF Stands
<1> HIDE DEF t, T
<1>3. \A m \in List, x \in Elm : Has(T[m], x) <=> Has(S[m], x) \/ (m = l /\ x = e)
    BY <1>1, <1>2
<1>4. QED
    BY <1>1, <1>3

\* LIST_REMOVE takes the element from its list.
LEMMA RemoveHas ==
    ASSUME ListConstants, NEW hp, NEW S, Stands(hp, S), NEW l \in List,
           NEW e \in Elm, Has(S[l], e)
    PROVE  \E T : /\ Stands(LIST_REMOVE(hp, l, e), T)
                  /\ \A m \in List, x \in Elm :
                        Has(T[m], x) <=> Has(S[m], x) /\ ~(m = l /\ x = e)
<1>1. PICK k \in 1 .. Len(S[l]) : S[l][k] = e
    BY DEF Has
<1> DEFINE t == SubSeq(S[l], 1, k - 1) \o SubSeq(S[l], k + 1, Len(S[l]))
           T == [S EXCEPT ![l] = t]
<1>2. Deleted(S[l], k, t)
    BY DeletedForm DEF Stands
<1>3. \A m \in List : T[m] = IF m = l THEN t ELSE S[m]
    BY DEF Stands
<1>4. /\ Stands(LIST_REMOVE(hp, l, S[l][k]), T)
      /\ \A x \in Elm : Has(t, x) <=> x # S[l][k] /\ Has(S[l], x)
  <2> HIDE DEF t
  <2>1. QED
      BY <1>2, RemoveStands
<1> HIDE DEF t, T
<1>5. \A m \in List, x \in Elm : Has(T[m], x) <=> Has(S[m], x) /\ ~(m = l /\ x = e)
    BY <1>1, <1>3, <1>4
<1>6. QED
    BY <1>1, <1>4, <1>5

\* Following the links of a list gives its sequence.
LEMMA WalkIs ==
    ASSUME ListConstants, IsFiniteSet(Elm), NEW hp, NEW S, Stands(hp, S), NEW q \in List
    PROVE  Walk(hp, q) = S[q]
<1> DEFINE s == S[q]
           N == Cardinality(Elm)
           At(n) == IF n <= Len(s) THEN s[n] ELSE NULL
           at[n \in 1 .. N] == IF n = 1 THEN hp.first[q] ELSE LOOP_LIST_NEXT(hp, at[n - 1])
           P(f) == f = [n \in 1 .. N |-> IF n = 1 THEN hp.first[q]
                                                 ELSE LOOP_LIST_NEXT(hp, f[n - 1])]
<1>1. s \in Seq(Elm) /\ Len(s) \in Nat /\ Represents(hp, q, s) /\ NULL \notin Elm
    BY DEF Stands, ListConstants
<1>2. N \in Nat
    BY FS_CardinalityType
<1>3. Len(s) <= N
  <2>1. \A i, j \in 1 .. Len(s) : s[i] = s[j] => i = j
      BY <1>1 DEF Represents
  <2>2. QED
      BY <1>1, <2>1, LengthBound
<1>4. hp.first[q] = At(1) /\ \A n \in 1 .. N : LOOP_LIST_NEXT(hp, At(n)) = At(n + 1)
  <2>1. hp.first[q] = At(1)
      BY <1>1 DEF Represents
  <2>2. ASSUME NEW n \in 1 .. N PROVE LOOP_LIST_NEXT(hp, At(n)) = At(n + 1)
    <3>1. CASE n <= Len(s)
      <4>1. s[n] \in Elm /\ s[n] # NULL
          BY <1>1, <3>1
      <4>2. hp.next[s[n]] = IF n = Len(s) THEN NULL ELSE s[n + 1]
          BY <1>1, <3>1 DEF Represents
      <4>3. QED
          BY <1>1, <3>1, <4>1, <4>2 DEF LOOP_LIST_NEXT
    <3>2. CASE ~(n <= Len(s))
        BY <1>1, <3>2 DEF LOOP_LIST_NEXT
    <3>3. QED
        BY <3>1, <3>2
  <2>3. QED
      BY <2>1, <2>2
<1> HIDE DEF At
<1>5. \E f : P(f)
  <2> DEFINE g == [n \in 1 .. N |-> At(n)]
  <2>1. ASSUME NEW n \in 1 .. N
        PROVE  g[n] = IF n = 1 THEN hp.first[q] ELSE LOOP_LIST_NEXT(hp, g[n - 1])
    <3>1. CASE n = 1
        BY <1>4, <3>1
    <3>2. CASE n # 1
      <4>1. n - 1 \in 1 .. N /\ n - 1 + 1 = n
          BY <1>2, <3>2
      <4>2. g[n - 1] = At(n - 1) /\ LOOP_LIST_NEXT(hp, At(n - 1)) = At(n - 1 + 1)
          BY <1>4, <4>1
      <4>3. QED
          BY <3>2, <4>1, <4>2
    <3>3. QED
        BY <3>1, <3>2
  <2>2. P(g)
      BY <2>1
  <2>3. QED
      BY <2>2
<1>6. P(at)
    BY <1>5, Zenon
<1>7. Walk(hp, q) = SubSeq(at, 1, Cardinality({n \in DOMAIN at : at[n] # NULL}))
    BY DEF Walk
<1> HIDE DEF at
<1>8. DOMAIN at = 1 .. N
    BY <1>6
<1>9. \A n \in 1 .. N : at[n] = At(n)
  <2> DEFINE U == {n \in Nat : n + 1 <= N => at[n + 1] = At(n + 1)}
  <2>1. 0 \in U
      BY <1>2, <1>4, <1>6
  <2>2. ASSUME NEW n \in Nat, n \in U PROVE n + 1 \in U
    <3> SUFFICES ASSUME n + 1 + 1 <= N PROVE at[n + 1 + 1] = At(n + 1 + 1)
        OBVIOUS
    <3>1. n + 1 \in 1 .. N /\ n + 1 + 1 \in 1 .. N /\ n + 1 + 1 # 1 /\ n + 1 + 1 - 1 = n + 1
        BY <1>2
    <3>2. at[n + 1] = At(n + 1)
        BY <1>2, <2>2, <3>1
    <3>3. at[n + 1 + 1] = LOOP_LIST_NEXT(hp, at[n + 1])
        BY <1>6, <3>1
    <3>4. QED
        BY <1>4, <3>1, <3>2, <3>3
  <2> HIDE DEF U
  <2>3. Nat \subseteq U
      BY <2>1, <2>2, SetInduction
  <2>4. ASSUME NEW n \in 1 .. N PROVE at[n] = At(n)
    <3>1. n - 1 \in U /\ n - 1 + 1 = n /\ n <= N
        BY <1>2, <2>3
    <3>2. QED
        BY <3>1 DEF U
  <2>5. QED
      BY <2>4
<1>10. {n \in DOMAIN at : at[n] # NULL} = 1 .. Len(s)
    BY <1>1, <1>2, <1>3, <1>8, <1>9 DEF At
<1>11. Walk(hp, q) = SubSeq(at, 1, Len(s))
  <2>1. Cardinality(1 .. Len(s)) = Len(s)
      BY <1>1, FS_Interval
  <2>2. QED
      BY <1>7, <1>10, <2>1
<1>12. \A i \in 1 .. Len(s) : at[i] = s[i]
    BY <1>1, <1>2, <1>3, <1>9 DEF At
<1>13. /\ SubSeq(at, 1, Len(s)) \in Seq(Elm) /\ Len(SubSeq(at, 1, Len(s))) = Len(s)
       /\ \A i \in 1 .. Len(s) : SubSeq(at, 1, Len(s))[i] = s[i]
  <2>1. \A i \in 1 .. Len(s) : at[i] \in Elm
      BY <1>1, <1>12
  <2>2. 1 \in Int /\ Len(s) \in Int
      BY <1>1
  <2>3. /\ SubSeq(at, 1, Len(s)) \in Seq(Elm)
        /\ Len(SubSeq(at, 1, Len(s))) = IF 1 <= Len(s) THEN Len(s) - 1 + 1 ELSE 0
        /\ \A i \in 1 .. Len(s) - 1 + 1 : SubSeq(at, 1, Len(s))[i] = at[1 + i - 1]
      BY <2>1, <2>2, SubSeqProperties
  <2>4. QED
      BY <1>1, <1>12, <2>3
<1>14. QED
    BY <1>1, <1>11, <1>13, SeqEqual

-----------------------------------------------------------------------------
(* The lists as sets.                                                      *)

\* The heads and links hp are well formed, and each list m has the elements C[m].
Holding(hp, C) ==
    \E S : Stands(hp, S) /\ \A m \in List, x \in Elm : Has(S[m], x) <=> x \in C[m]

\* The first element of a list is one of its own, and only an empty list has none.
LEMMA HoldingFirst ==
    ASSUME NEW hp, NEW C \in [List -> SUBSET Elm], Holding(hp, C)
    PROVE  /\ hp \in Heap
           /\ \A l \in List : hp.first[l] \in C[l] \/ (hp.first[l] = NULL /\ C[l] = {})
<1>1. PICK S : Stands(hp, S) /\ \A m \in List, x \in Elm : Has(S[m], x) <=> x \in C[m]
    BY DEF Holding
<1>2. ASSUME NEW l \in List PROVE hp.first[l] \in C[l] \/ (hp.first[l] = NULL /\ C[l] = {})
  <2>1. S[l] \in Seq(Elm) /\ Represents(hp, l, S[l])
      BY <1>1 DEF Stands
  <2>2. CASE Len(S[l]) = 0
    <3>1. \A x \in Elm : ~Has(S[l], x)
        BY <2>1, <2>2 DEF Has
    <3>2. C[l] = {}
        BY <1>1, <3>1
    <3>3. QED
        BY <2>1, <2>2, <3>2 DEF Represents
  <2>3. CASE Len(S[l]) # 0
    <3>1. 1 \in 1 .. Len(S[l]) /\ hp.first[l] = S[l][1] /\ S[l][1] \in Elm
        BY <2>1, <2>3 DEF Represents
    <3>2. QED
        BY <1>1, <3>1 DEF Has
  <2>4. QED
      BY <2>2, <2>3
<1>3. QED
    BY <1>1, <1>2 DEF Stands

LEMMA HoldingRemove ==
    ASSUME ListConstants, NEW hp, NEW C \in [List -> SUBSET Elm], Holding(hp, C),
           NEW l \in List, NEW e \in C[l]
    PROVE  Holding(LIST_REMOVE(hp, l, e), [C EXCEPT ![l] = @ \ {e}])
<1>1. PICK S : Stands(hp, S) /\ \A m \in List, x \in Elm : Has(S[m], x) <=> x \in C[m]
    BY DEF Holding
<1>2. PICK T : /\ Stands(LIST_REMOVE(hp, l, e), T)
               /\ \A m \in List, x \in Elm :
                     Has(T[m], x) <=> Has(S[m], x) /\ ~(m = l /\ x = e)
  <2>1. e \in Elm /\ Has(S[l], e)
      BY <1>1
  <2>2. QED
      BY <1>1, <2>1, RemoveHas
<1>3. \A m \in List, x \in Elm : Has(T[m], x) <=> x \in [C EXCEPT ![l] = @ \ {e}][m]
    BY <1>1, <1>2
<1>4. QED
    BY <1>2, <1>3 DEF Holding

LEMMA HoldingInsert ==
    ASSUME ListConstants, NEW hp, NEW C \in [List -> SUBSET Elm], Holding(hp, C),
           NEW l \in List, NEW e \in Elm, \A m \in List : e \notin C[m]
    PROVE  Holding(LIST_INSERT_HEAD(hp, l, e), [C EXCEPT ![l] = @ \union {e}])
<1>1. PICK S : Stands(hp, S) /\ \A m \in List, x \in Elm : Has(S[m], x) <=> x \in C[m]
    BY DEF Holding
<1>2. PICK T : /\ Stands(LIST_INSERT_HEAD(hp, l, e), T)
               /\ \A m \in List, x \in Elm :
                     Has(T[m], x) <=> Has(S[m], x) \/ (m = l /\ x = e)
  <2>1. \A m \in List : ~Has(S[m], e)
      BY <1>1
  <2>2. QED
      BY <1>1, <2>1, InsertHas
<1>3. \A m \in List, x \in Elm : Has(T[m], x) <=> x \in [C EXCEPT ![l] = @ \union {e}][m]
    BY <1>1, <1>2
<1>4. QED
    BY <1>2, <1>3 DEF Holding

\* Clearing the links of an element that is in no list changes no list.
LEMMA HoldingClear ==
    ASSUME NEW hp, NEW C \in [List -> SUBSET Elm], Holding(hp, C),
           NEW e \in Elm, \A m \in List : e \notin C[m],
           NEW g \in Heap, g.first = hp.first, g.last = hp.last, g.size = hp.size,
           g.next = [hp.next EXCEPT ![e] = NULL], g.prev = [hp.prev EXCEPT ![e] = NULL]
    PROVE  Holding(g, C)
<1>1. PICK S : Stands(hp, S) /\ \A m \in List, x \in Elm : Has(S[m], x) <=> x \in C[m]
    BY DEF Holding
<1>2. ASSUME NEW m \in List PROVE Represents(g, m, S[m])
  <2>1. S[m] \in Seq(Elm) /\ Represents(hp, m, S[m])
      BY <1>1 DEF Stands
  <2>2. \A i \in 1 .. Len(S[m]) : S[m][i] # e /\ S[m][i] \in Elm
      BY <1>1, <2>1 DEF Has
  <2>3. hp.next \in [Elm -> Pointer] /\ hp.prev \in [Elm -> Pointer]
      BY <1>1 DEF Stands, Heap
  <2>4. \A i \in 1 .. Len(S[m]) : /\ g.next[S[m][i]] = hp.next[S[m][i]]
                                  /\ g.prev[S[m][i]] = hp.prev[S[m][i]]
      BY <2>2, <2>3
  <2>5. QED
      BY <2>1, <2>4 DEF Represents
<1>3. Stands(g, S)
    BY <1>1, <1>2 DEF Stands
<1>4. QED
    BY <1>1, <1>3 DEF Holding

\* Read from its head, a list is a sequence of its elements.
LEMMA HoldingWalk ==
    ASSUME ListConstants, IsFiniteSet(Elm), NEW hp, NEW C \in [List -> SUBSET Elm],
           Holding(hp, C), NEW l \in List
    PROVE  /\ Walk(hp, l) \in Seq(Elm) /\ Represents(hp, l, Walk(hp, l))
           /\ C[l] = {Walk(hp, l)[i] : i \in DOMAIN Walk(hp, l)}
<1>1. PICK S : Stands(hp, S) /\ \A m \in List, x \in Elm : Has(S[m], x) <=> x \in C[m]
    BY DEF Holding
<1>2. Walk(hp, l) = S[l]
    BY <1>1, WalkIs
<1>3. S[l] \in Seq(Elm) /\ Represents(hp, l, S[l]) /\ DOMAIN S[l] = 1 .. Len(S[l])
    BY <1>1 DEF Stands
<1>4. C[l] = {S[l][i] : i \in DOMAIN S[l]}
  <2>1. \A i \in DOMAIN S[l] : S[l][i] \in Elm /\ Has(S[l], S[l][i])
      BY <1>3 DEF Has
  <2>2. \A x \in C[l] : \E i \in DOMAIN S[l] : S[l][i] = x
      BY <1>1, <1>3 DEF Has
  <2>3. QED
      BY <1>1, <2>1, <2>2
<1>5. QED
    BY <1>2, <1>3, <1>4

\* Lists without first and last element hold nothing.
LEMMA HoldingNone ==
    ASSUME NEW hp \in Heap,
           \A l \in List : hp.first[l] = NULL /\ hp.last[l] = NULL /\ hp.size[l] = 0
    PROVE  Holding(hp, [l \in List |-> {}])
<1> DEFINE S == [l \in List |-> <<>>]
<1>1. S \in [List -> Seq(Elm)] /\ \A l \in List : Len(S[l]) = 0
    OBVIOUS
<1> HIDE DEF S
<1>2. \A l \in List : Represents(hp, l, S[l])
    BY <1>1 DEF Represents
<1>3. \A l \in List : \A x : ~Has(S[l], x)
    BY <1>1 DEF Has
<1>4. Stands(hp, S)
    BY <1>1, <1>2, <1>3 DEF Stands
<1>5. QED
    BY <1>3, <1>4 DEF Holding

\* A has each element of X once.
Listing(A, X) ==
    /\ A \in Seq(Elm) /\ X = {A[i] : i \in 1 .. Len(A)}
    /\ \A i, j \in 1 .. Len(A) : A[i] = A[j] => i = j

\* InsertAll fills an empty list.
LEMMA HoldingAll ==
    ASSUME ListConstants, NEW hp, NEW C \in [List -> SUBSET Elm], Holding(hp, C),
           NEW l \in List, C[l] = {}, NEW A, NEW X, Listing(A, X),
           \A m \in List : C[m] \intersect X = {}
    PROVE  Holding(InsertAll(hp, l, A), [C EXCEPT ![l] = X])
<1> DEFINE N == Len(A)
           Among(n) == [C EXCEPT ![l] = {A[i] : i \in 1 .. n}]
           Set(n) == {g \in Heap : Holding(g, Among(n))}
           I == [n \in 0 .. N |-> Set(n)]
           F == [n \in 1 .. N |-> [g \in Heap |-> LIST_INSERT_HEAD(g, l, A[n])]]
<1>1. /\ A \in Seq(Elm) /\ N \in Nat /\ \A i \in 1 .. N : A[i] \in Elm
      /\ \A i, j \in 1 .. N : A[i] = A[j] => i = j
      /\ \A i \in 1 .. N, m \in List : A[i] \notin C[m]
      /\ X = {A[i] : i \in 1 .. N}
  <2>1. A \in Seq(Elm) /\ X = {A[i] : i \in 1 .. Len(A)} /\ Len(A) \in Nat
        /\ \A i, j \in 1 .. N : A[i] = A[j] => i = j
      BY DEF Listing
  <2>2. QED
      BY <2>1
<1>2. LIST_INIT(hp, l) = hp
  <2>1. hp \in Heap
      BY HoldingFirst
  <2>2. hp.first[l] = NULL /\ hp.last[l] = NULL /\ hp.size[l] = 0
    <3>1. PICK S : Stands(hp, S) /\ \A x \in Elm : ~Has(S[l], x)
        BY DEF Holding
    <3>2. S[l] \in Seq(Elm) /\ Represents(hp, l, S[l])
        BY <3>1 DEF Stands
    <3>3. Len(S[l]) = 0
      <4>1. Len(S[l]) \in Nat /\ \A i \in 1 .. Len(S[l]) : S[l][i] \in Elm
          BY <3>2
      <4>2. 1 \notin 1 .. Len(S[l])
          BY <3>1, <4>1 DEF Has
      <4>3. QED
          BY <4>1, <4>2
    <3>4. QED
        BY <3>2, <3>3 DEF Represents
  <2>3. /\ [hp.first EXCEPT ![l] = NULL] = hp.first /\ [hp.last EXCEPT ![l] = NULL] = hp.last
        /\ [hp.size EXCEPT ![l] = 0] = hp.size
      BY <2>1, <2>2 DEF Heap
  <2>4. LIST_INIT(hp, l) = [hp EXCEPT !.first = hp.first, !.last = hp.last, !.size = hp.size]
      BY <2>1, <2>3 DEF LIST_INIT, Heap
  <2>5. QED
      BY <2>1, <2>4 DEF Heap
<1>3. \A n \in 0 .. N : Among(n) \in [List -> SUBSET Elm]
  <2> TAKE n \in 0 .. N
  <2>1. {A[i] : i \in 1 .. n} \in SUBSET Elm
      BY <1>1
  <2>2. QED
      BY <2>1
<1>4. Among(0) = C
  <2>1. {A[i] : i \in 1 .. 0} = C[l]
      OBVIOUS
  <2>2. QED
      BY <2>1
<1>5. ASSUME NEW n \in 1 .. N, NEW g \in Set(n - 1)
      PROVE  LIST_INSERT_HEAD(g, l, A[n]) \in Set(n)
  <2>1. n - 1 \in 0 .. N /\ n \in 0 .. N /\ A[n] \in Elm
      BY <1>1
  <2>2. 1 .. n = (1 .. n - 1) \union {n} /\ n \notin 1 .. n - 1
      BY <1>1
  <2>3. \A m \in List : A[n] \notin Among(n - 1)[m]
    <3>1. \A i \in 1 .. n - 1 : i \in 1 .. N /\ i # n
        BY <1>1
    <3>2. \A i \in 1 .. n - 1 : A[i] # A[n]
        BY <1>1, <3>1
    <3>3. \A m \in List : A[n] \notin C[m]
        BY <1>1
    <3>4. QED
        BY <3>2, <3>3
  <2>4. [Among(n - 1) EXCEPT ![l] = @ \union {A[n]}] = Among(n)
    <3>1. {A[i] : i \in 1 .. n} = {A[i] : i \in 1 .. n - 1} \union {A[n]}
        BY <2>2
    <3>2. QED
        BY <3>1
  <2>5. Among(n - 1) \in [List -> SUBSET Elm] /\ Among(n) \in [List -> SUBSET Elm]
      BY <1>3, <2>1
  <2>6. Holding(g, Among(n - 1))
      OBVIOUS
  <2> HIDE DEF Among
  <2>7. Holding(LIST_INSERT_HEAD(g, l, A[n]), Among(n))
      BY <2>1, <2>3, <2>4, <2>5, <2>6, HoldingInsert
  <2>8. LIST_INSERT_HEAD(g, l, A[n]) \in Heap
      BY <2>5, <2>7, HoldingFirst
  <2>9. QED
      BY <2>7, <2>8
<1>6. hp \in Set(0) /\ \A n : Set(n) \subseteq Heap
  <2> HIDE DEF Among
  <2> QED
      BY <1>4, HoldingFirst
<1> HIDE DEF Among, Set
<1>7. I \in [0 .. N -> SUBSET Heap] /\ hp \in I[0]
    BY <1>1, <1>6
<1>8. \A n \in 1 .. N : \A g \in I[n - 1] : F[n][g] \in I[n]
  <2> TAKE n \in 1 .. N
  <2>1. n - 1 \in 0 .. N /\ n \in 0 .. N
      BY <1>1
  <2> TAKE g \in I[n - 1]
  <2>2. g \in Set(n - 1) /\ g \in Heap
      BY <1>6, <2>1
  <2>3. F[n][g] = LIST_INSERT_HEAD(g, l, A[n])
      BY <2>2
  <2>4. QED
      BY <1>5, <2>1, <2>2, <2>3
<1>9. PICK f : Loop(f, hp, N, F, I)
  <2> HIDE DEF I, F
  <2> QED
      BY <1>1, <1>7, <1>8, LoopLemma
<1>10. /\ f = [n \in 0 .. N |-> IF n = 0 THEN hp ELSE F[n][f[n - 1]]]
       /\ \A n \in 0 .. N : f[n] \in I[n]
    BY <1>9 DEF Loop
<1>11. \A n \in 1 .. N : F[n][f[n - 1]] = LIST_INSERT_HEAD(f[n - 1], l, A[n])
  <2> TAKE n \in 1 .. N
  <2>1. n - 1 \in 0 .. N
      BY <1>1
  <2>2. f[n - 1] \in Heap
      BY <1>6, <1>10, <2>1
  <2>3. QED
      BY <2>2
<1> HIDE DEF F
<1>12. \E g : g = [n \in 0 .. Len(A) |-> IF n = 0 THEN LIST_INIT(hp, l)
                                         ELSE LIST_INSERT_HEAD(g[n - 1], l, A[n])]
  <2>1. \A n \in 0 .. N : (IF n = 0 THEN hp ELSE F[n][f[n - 1]])
                          = IF n = 0 THEN LIST_INIT(hp, l) ELSE LIST_INSERT_HEAD(f[n - 1], l, A[n])
      BY <1>1, <1>2, <1>11
  <2>2. f = [n \in 0 .. Len(A) |-> IF n = 0 THEN LIST_INIT(hp, l)
                                   ELSE LIST_INSERT_HEAD(f[n - 1], l, A[n])]
      BY <1>1, <1>10, <2>1
  <2>3. QED
      BY <2>2
<1> DEFINE b[n \in 0 .. Len(A)] ==
             IF n = 0 THEN LIST_INIT(hp, l) ELSE LIST_INSERT_HEAD(b[n - 1], l, A[n])
<1>13. b = [n \in 0 .. Len(A) |-> IF n = 0 THEN LIST_INIT(hp, l)
                                  ELSE LIST_INSERT_HEAD(b[n - 1], l, A[n])]
    BY <1>12, Zenon
<1>14. InsertAll(hp, l, A) = b[N]
    BY <1>1 DEF InsertAll
<1> HIDE DEF b
<1>15. b[0] = hp /\ \A n \in 1 .. N : b[n] = LIST_INSERT_HEAD(b[n - 1], l, A[n])
    BY <1>1, <1>2, <1>13
<1> DEFINE S == {n \in 0 .. N : b[n] \in Set(n)}
<1>16. 0 \in S /\ \A n \in 1 .. N : n - 1 \in S => n \in S
    BY <1>1, <1>5, <1>6, <1>15
<1>17. N \in S
  <2> HIDE DEF S
  <2>1. 0 .. N \subseteq S
      BY <1>1, <1>16, BoundedInduction
  <2>2. QED
      BY <1>1, <2>1
<1>18. b[N] \in Set(N)
    BY <1>17
<1>19. Holding(InsertAll(hp, l, A), Among(N))
    BY <1>14, <1>18 DEF Set
<1>20. QED
    BY <1>1, <1>19 DEF Among

-----------------------------------------------------------------------------
\* The i-th element of s, or NULL after the last.
At(s, i) == IF i <= Len(s) THEN s[i] ELSE NULL

\* s ends with the elements of t after the first q.
Ends(s, t, q) ==
    /\ Len(t) - q <= Len(s)
    /\ \A i \in q + 1 .. Len(t) : s[Len(s) - Len(t) + i] = t[i]

LoopType ==
    [on : {TRUE}, list : List, var : Pointer, ptr_next : Pointer,
     start : Seq(Elm), seen : Seq(Elm)]

\* Where a LIST_FOREACH is: the elements seen are the first of start, var and
\* ___ptr_next are the next two, and the elements not yet seen are still the
\* last ones of the list.
LoopInv ==
    LET q == Len(loop.seen) IN
    /\ loop \in LoopType
    /\ q <= Len(loop.start)
    /\ \A i \in 1 .. q : loop.seen[i] = loop.start[i]
    /\ loop.var = At(loop.start, q + 1)
    /\ loop.ptr_next = At(loop.start, q + 2)
    /\ Ends(seq[loop.list], loop.start, q)

Inv ==
    /\ Stands(h, seq)
    /\ loop = NoLoop \/ LoopInv

-----------------------------------------------------------------------------
\* What the list lemmas ask of the constants.
LEMMA Constants == ListConstants
BY NullAssumption, ElmAssumption, SizeModAssumption, LengthBound DEF ListConstants

\* An element of Free is in no list.
LEMMA FreeElement ==
    ASSUME NEW e \in Free
    PROVE  e \in Elm /\ \A m \in List : ~Has(seq[m], e)
BY DEF Free, Contains, Has

\* The element after the next one, read from the links.
LEMMA NextElement ==
    ASSUME NEW g, NEW T, Stands(g, T), NEW l \in List, NEW t \in Seq(Elm),
           NEW q \in Nat, q < Len(t), Ends(T[l], t, q)
    PROVE  LOOP_LIST_NEXT(g, At(t, q + 1)) = At(t, q + 2)
<1> DEFINE s == T[l]
           m == Len(T[l])
           n == Len(t)
           p == m - n + q + 1
<1>1. /\ s \in Seq(Elm) /\ m \in Nat /\ n \in Nat /\ NULL \notin Elm
      /\ n - q <= m /\ \A i \in q + 1 .. n : s[m - n + i] = t[i]
    BY Constants DEF Stands, Ends, ListConstants
<1>2. \A i \in 1 .. m : g.next[s[i]] = IF i = m THEN NULL ELSE s[i + 1]
    BY DEF Stands, Represents
<1>3. q < n
    OBVIOUS
<1> HIDE DEF s, m, n
<1>4. p \in 1 .. m
    BY <1>1, <1>3
<1>5. p = m <=> q + 1 = n
    BY <1>1, <1>3
<1>6. s[p] = t[q + 1]
  <2>1. q + 1 \in q + 1 .. n /\ p = m - n + (q + 1)
      BY <1>1, <1>3
  <2>2. s[m - n + (q + 1)] = t[q + 1]
      BY <1>1, <2>1
  <2>3. QED
      BY <2>1, <2>2
<1>7. q + 1 # n => s[p + 1] = t[q + 2]
  <2>1. q + 1 # n => q + 2 \in q + 1 .. n
      BY <1>1, <1>3
  <2>2. q + 1 # n => s[m - n + (q + 2)] = t[q + 2]
      BY <1>1, <2>1
  <2>3. p + 1 = m - n + (q + 2)
      BY <1>1, <1>3
  <2>4. QED
      BY <2>2, <2>3
<1>8. At(t, q + 1) = t[q + 1] /\ t[q + 1] \in Elm
    BY <1>1, <1>3 DEF At, n
<1>9. At(t, q + 2) = IF q + 1 = n THEN NULL ELSE t[q + 2]
    BY <1>1, <1>3 DEF At, n
<1> HIDE DEF p
<1>10. LOOP_LIST_NEXT(g, t[q + 1]) = g.next[s[p]]
    BY <1>1, <1>6, <1>8 DEF LOOP_LIST_NEXT
<1>11. QED
    BY <1>2, <1>4, <1>5, <1>7, <1>8, <1>9, <1>10

\* Deleting the first of the elements a list ends with leaves the others.
LEMMA EndsDeleted ==
    ASSUME NEW s \in Seq(Elm), NEW t \in Seq(Elm), NEW q \in Nat, q < Len(t), Ends(s, t, q),
           NEW k \in 1 .. Len(s), s[k] = t[q + 1],
           \A i, j \in 1 .. Len(s) : s[i] = s[j] => i = j,
           NEW u, Deleted(s, k, u)
    PROVE  Ends(u, t, q + 1)
<1> DEFINE m == Len(s)
           n == Len(t)
<1>1. /\ m \in Nat /\ n \in Nat /\ n - q <= m /\ \A i \in q + 1 .. n : s[m - n + i] = t[i]
    BY DEF Ends
<1>2. Len(u) = m - 1 /\ \A i \in 1 .. m - 1 : u[i] = IF i < k THEN s[i] ELSE s[i + 1]
    BY DEF Deleted
<1>3. k = m - n + (q + 1)
  <2>1. m - n + (q + 1) \in 1 .. m /\ q + 1 \in q + 1 .. n
      BY <1>1
  <2>2. QED
      BY <1>1, <2>1
<1>4. ASSUME NEW i \in q + 2 .. n PROVE u[m - 1 - n + i] = t[i]
  <2>1. /\ m - 1 - n + i \in 1 .. m - 1 /\ ~(m - 1 - n + i < k)
        /\ m - 1 - n + i + 1 = m - n + i /\ i \in q + 1 .. n
      BY <1>1, <1>3
  <2>2. u[m - 1 - n + i] = s[m - 1 - n + i + 1]
      BY <1>2, <2>1
  <2>3. QED
      BY <1>1, <2>1, <2>2
<1>5. q + 1 + 1 = q + 2 /\ n - (q + 1) <= m - 1
    BY <1>1
<1>6. QED
    BY <1>2, <1>4, <1>5 DEF Ends

\* An element put before all others leaves what a list ends with.
LEMMA EndsSpliced ==
    ASSUME NEW s \in Seq(Elm), NEW t \in Seq(Elm), NEW q \in Nat, Ends(s, t, q),
           q <= Len(t), NEW e \in Elm, NEW u, Spliced(s, 1, e, u)
    PROVE  Ends(u, t, q)
<1> DEFINE m == Len(s)
           n == Len(t)
<1>1. /\ m \in Nat /\ n \in Nat /\ n - q <= m /\ \A i \in q + 1 .. n : s[m - n + i] = t[i]
    BY DEF Ends
<1>2. /\ Len(u) = m + 1
      /\ \A i \in 1 .. m + 1 : u[i] = IF i < 1 THEN s[i] ELSE IF i = 1 THEN e ELSE s[i - 1]
    BY DEF Spliced
<1>3. ASSUME NEW i \in q + 1 .. n PROVE u[m + 1 - n + i] = t[i]
  <2> DEFINE x == m + 1 - n + i
  <2>1. x \in 1 .. m + 1 /\ ~(x < 1) /\ x # 1 /\ x - 1 = m - n + i
      BY <1>1
  <2> HIDE DEF x
  <2>2. u[x] = s[x - 1]
      BY <1>2, <2>1
  <2>3. u[x] = t[i]
      BY <1>1, <2>1, <2>2
  <2>4. QED
      BY <2>3 DEF x
<1>4. n - q <= m + 1
    BY <1>1
<1>5. QED
    BY <1>2, <1>3, <1>4 DEF Ends

\* A body that leaves the list ending with what is not yet seen keeps the loop.
LEMMA ForeachStep ==
    ASSUME LoopInv, loop.var # NULL, ForeachNext, Stands(h', seq'),
           Ends(seq'[loop.list], loop.start, Len(loop.seen) + 1)
    PROVE  LoopInv'
<1> DEFINE q == Len(loop.seen)
           t == loop.start
<1>1. /\ loop \in LoopType /\ t \in Seq(Elm) /\ loop.seen \in Seq(Elm) /\ loop.list \in List
      /\ q \in Nat /\ Len(t) \in Nat /\ q <= Len(t) /\ loop.ptr_next \in Pointer
      /\ loop.var \in Pointer /\ NULL \notin Elm
  <2>1. loop \in LoopType /\ q <= Len(t)
      BY DEF LoopInv
  <2>2. /\ t \in Seq(Elm) /\ loop.seen \in Seq(Elm) /\ loop.list \in List
        /\ loop.ptr_next \in Pointer /\ loop.var \in Pointer
      BY <2>1 DEF LoopType
  <2>3. q \in Nat /\ Len(t) \in Nat
      BY <2>2
  <2>4. QED
      BY <2>1, <2>2, <2>3, Constants DEF ListConstants
<1>2. /\ \A i \in 1 .. q : loop.seen[i] = t[i]
      /\ loop.var = At(t, q + 1) /\ loop.ptr_next = At(t, q + 2)
    BY DEF LoopInv
<1>3. q < Len(t) /\ loop.var = t[q + 1] /\ loop.var \in Elm
    BY <1>1, <1>2 DEF At
<1>4. /\ loop'.on = TRUE /\ loop'.list = loop.list /\ loop'.start = t
      /\ loop'.var = loop.ptr_next
      /\ loop'.ptr_next = LOOP_LIST_NEXT(h', loop.ptr_next)
      /\ loop'.seen = Append(loop.seen, loop.var)
    BY <1>1 DEF ForeachNext, LoopType
<1>5. LOOP_LIST_NEXT(h', loop.ptr_next) = At(t, q + 3)
  <2>1. CASE q + 1 < Len(t)
    <3>1. q + 1 \in Nat /\ q + 1 + 1 = q + 2 /\ q + 1 + 2 = q + 3
        BY <1>1
    <3>2. LOOP_LIST_NEXT(h', At(t, q + 1 + 1)) = At(t, q + 1 + 2)
      <4> DEFINE r == q + 1
      <4>1. r \in Nat /\ r < Len(t) /\ Ends(seq'[loop.list], t, r)
          BY <2>1, <3>1
      <4> HIDE DEF r
      <4>2. LOOP_LIST_NEXT(h', At(t, r + 1)) = At(t, r + 2)
          BY <1>1, <4>1, NextElement
      <4>3. QED
          BY <4>2 DEF r
    <3>3. QED
        BY <1>2, <3>1, <3>2
  <2>2. CASE ~(q + 1 < Len(t))
    <3>1. At(t, q + 2) = NULL /\ At(t, q + 3) = NULL
        BY <1>1, <2>2 DEF At
    <3>2. QED
        BY <1>2, <3>1 DEF LOOP_LIST_NEXT
  <2>3. QED
      BY <2>1, <2>2
<1>6. At(t, q + 3) \in Pointer
    BY <1>1 DEF At, Pointer
<1>7. loop' \in LoopType
  <2>1. Append(loop.seen, loop.var) \in Seq(Elm)
      BY <1>1, <1>3
  <2>2. LOOP_LIST_NEXT(h', loop.ptr_next) \in Pointer
      BY <1>5, <1>6
  <2>3. QED
      BY <1>1, <2>1, <2>2 DEF ForeachNext, LoopType
<1>8. Len(loop'.seen) = q + 1 /\ \A i \in 1 .. q + 1 : loop'.seen[i] = t[i]
  <2>1. /\ Len(Append(loop.seen, loop.var)) = q + 1
        /\ \A i \in 1 .. q : Append(loop.seen, loop.var)[i] = loop.seen[i]
        /\ Append(loop.seen, loop.var)[q + 1] = loop.var
      BY <1>1, <1>3, AppendProperties
  <2>2. \A i \in 1 .. q + 1 : i \in 1 .. q \/ i = q + 1
      BY <1>1
  <2>3. QED
      BY <1>2, <1>3, <1>4, <2>1, <2>2
<1>9. /\ q + 1 <= Len(t) /\ loop'.var = At(t, q + 1 + 1) /\ loop'.ptr_next = At(t, q + 1 + 2)
      /\ Ends(seq'[loop'.list], t, q + 1)
  <2>1. q + 1 <= Len(t) /\ q + 1 + 1 = q + 2 /\ q + 1 + 2 = q + 3
      BY <1>1, <1>3
  <2>2. QED
      BY <1>2, <1>4, <1>5, <2>1
<1> HIDE DEF q, t
<1>10. QED
    BY <1>4, <1>7, <1>8, <1>9 DEF LoopInv

-----------------------------------------------------------------------------
\* The empty lists stand for empty sequences.
LEMMA InitInv == Init => Inv
<1> SUFFICES ASSUME Init PROVE Inv
    OBVIOUS
<1>1. PICK n \in [Elm -> Pointer], p \in [Elm -> Pointer] :
        h = [first |-> [l \in List |-> NULL], last |-> [l \in List |-> NULL],
             size |-> [l \in List |-> 0], next |-> n, prev |-> p]
    BY DEF Init
<1>2. seq = [l \in List |-> <<>>] /\ loop = NoLoop
    BY DEF Init
<1>3. 0 \in 0 .. SizeMod - 1
    BY SizeModAssumption, ElmAssumption, FS_CardinalityType
<1>4. h \in Heap
    BY <1>1, <1>3 DEF Heap, Pointer
<1>5. seq \in [List -> Seq(Elm)] /\ \A l \in List : Len(seq[l]) = 0
    BY <1>2
<1>6. \A l \in List : Represents(h, l, seq[l])
    BY <1>1, <1>5 DEF Represents
<1>7. \A l \in List, e \in Elm : ~Has(seq[l], e)
    BY <1>5 DEF Has
<1>8. QED
    BY <1>2, <1>4, <1>5, <1>6, <1>7 DEF Inv, Stands

\* The operations outside a loop.
LEMMA OperationInv ==
    ASSUME Stands(h, seq), Operation
    PROVE  Stands(h', seq')
<1>1. PICK l \in List :
         \/ \E e \in Free : InsertHead(l, e) \/ InsertTail(l, e)
         \/ \E e \in Free, i \in DOMAIN seq[l] : InsertAfter(l, i, e)
         \/ \E e \in Free, i \in DOMAIN seq[l] : InsertBefore(l, i, e)
         \/ \E i \in DOMAIN seq[l] : RemoveElm(l, i)
    BY DEF Operation
<1>2. seq[l] \in Seq(Elm) /\ DOMAIN seq[l] = 1 .. Len(seq[l]) /\ Len(seq[l]) \in Nat
    BY DEF Stands
<1>3. ASSUME NEW e \in Free, InsertHead(l, e) PROVE Stands(h', seq')
    BY <1>3, FreeElement, Constants, InsertHeadStands DEF InsertHead, Apply
<1>4. ASSUME NEW e \in Free, InsertTail(l, e) PROVE Stands(h', seq')
    BY <1>4, FreeElement, Constants, InsertTailStands DEF InsertTail, Apply
<1>5. ASSUME NEW e \in Free, NEW i \in DOMAIN seq[l], InsertAfter(l, i, e)
      PROVE  Stands(h', seq')
  <2> DEFINE k == i + 1
             t == InsertAt(seq[l], k, e)
  <2>1. i \in 1 .. Len(seq[l]) /\ k \in 1 .. Len(seq[l]) + 1
      BY <1>2
  <2>2. h' = LIST_INSERT_AFTER(h, l, seq[l][i], e) /\ seq' = [seq EXCEPT ![l] = t]
      BY <1>5 DEF InsertAfter, Apply
  <2>3. Spliced(seq[l], k, e, t)
    <3> HIDE DEF k
    <3>1. QED
        BY <1>2, <2>1, FreeElement, SplicedForms DEF InsertAt
  <2>4. e \in Elm /\ \A m \in List : ~Has(seq[m], e)
      BY FreeElement
  <2>5. Spliced(seq[l], i + 1, e, t)
      BY <2>3
  <2> HIDE DEF t
  <2>6. QED
      BY <2>1, <2>2, <2>4, <2>5, Constants, InsertAfterStands
<1>6. ASSUME NEW e \in Free, NEW i \in DOMAIN seq[l], InsertBefore(l, i, e)
      PROVE  Stands(h', seq')
  <2> DEFINE t == InsertAt(seq[l], i, e)
  <2>1. i \in 1 .. Len(seq[l]) /\ i \in 1 .. Len(seq[l]) + 1
      BY <1>2
  <2>2. h' = LIST_INSERT_BEFORE(h, l, seq[l][i], e) /\ seq' = [seq EXCEPT ![l] = t]
      BY <1>6 DEF InsertBefore, Apply
  <2>3. Spliced(seq[l], i, e, t)
      BY <1>2, <2>1, FreeElement, SplicedForms DEF InsertAt
  <2>4. e \in Elm /\ \A m \in List : ~Has(seq[m], e)
      BY FreeElement
  <2> HIDE DEF t
  <2>5. QED
      BY <2>1, <2>2, <2>3, <2>4, Constants, InsertBeforeStands
<1>7. ASSUME NEW i \in DOMAIN seq[l], RemoveElm(l, i) PROVE Stands(h', seq')
  <2>1. Deleted(seq[l], i, RemoveAt(seq[l], i))
      BY <1>2, DeletedForm DEF RemoveAt
  <2>2. QED
      BY <1>2, <1>7, <2>1, Constants, RemoveStands DEF RemoveElm, Apply
<1>8. QED
    BY <1>1, <1>3, <1>4, <1>5, <1>6, <1>7

\* LIST_FOREACH begins at the first element with the second one stored.
LEMMA BeginInv ==
    ASSUME Stands(h, seq), NEW l \in List, ForeachBegin(l)
    PROVE  LoopInv'
<1> DEFINE s == seq[l]
<1>1. s \in Seq(Elm) /\ Len(s) \in Nat /\ Represents(h, l, s) /\ NULL \notin Elm
    BY Constants DEF Stands, ListConstants
<1>2. /\ h' = h /\ seq' = seq
      /\ loop' = [on |-> TRUE, list |-> l, var |-> h.first[l],
                  ptr_next |-> LOOP_LIST_NEXT(h, h.first[l]), start |-> s, seen |-> <<>>]
    BY DEF ForeachBegin
<1>3. h.first[l] = At(s, 1) /\ At(s, 1) \in Pointer /\ At(s, 2) \in Pointer
    BY <1>1 DEF Represents, At, Pointer
<1>4. Ends(s, s, 0)
    BY <1>1 DEF Ends
<1>5. LOOP_LIST_NEXT(h, At(s, 1)) = At(s, 2)
  <2>1. CASE Len(s) = 0
      BY <2>1 DEF LOOP_LIST_NEXT, At
  <2>2. CASE Len(s) # 0
    <3>1. LOOP_LIST_NEXT(h, At(s, 0 + 1)) = At(s, 0 + 2)
        BY <1>1, <1>4, <2>2, NextElement
    <3>2. QED
        BY <3>1
  <2>3. QED
      BY <2>1, <2>2
<1>6. loop' \in LoopType
    BY <1>1, <1>2, <1>3, <1>5 DEF LoopType
<1>7. Len(loop'.seen) = 0 /\ loop'.start = s /\ loop'.list = l
      /\ loop'.var = At(s, 1) /\ loop'.ptr_next = At(s, 2)
    BY <1>2, <1>3, <1>5
<1> HIDE DEF s
<1>8. Ends(seq'[l], s, 0)
    BY <1>2, <1>4 DEF s
<1>9. QED
    BY <1>1, <1>6, <1>7, <1>8 DEF LoopInv

\* What a body knows of the element it is at.
LEMMA BodyElement ==
    ASSUME Inv, loop.on, loop.var # NULL
    PROVE  /\ LoopInv /\ loop.list \in List /\ loop.start \in Seq(Elm)
           /\ loop.seen \in Seq(Elm) /\ Len(loop.seen) \in Nat
           /\ seq[loop.list] \in Seq(Elm)
           /\ DOMAIN seq[loop.list] = 1 .. Len(seq[loop.list])
           /\ \A i, j \in 1 .. Len(seq[loop.list]) :
                 seq[loop.list][i] = seq[loop.list][j] => i = j
           /\ Ends(seq[loop.list], loop.start, Len(loop.seen))
           /\ Len(loop.seen) < Len(loop.start)
           /\ loop.var = loop.start[Len(loop.seen) + 1]
           /\ loop.var \in Elm
<1>1. LoopInv
    BY DEF Inv, NoLoop
<1>2. loop.list \in List /\ loop.start \in Seq(Elm) /\ loop.seen \in Seq(Elm)
  <2>1. loop \in LoopType
      BY <1>1 DEF LoopInv
  <2>2. QED
      BY <2>1 DEF LoopType
<1>3. Stands(h, seq)
    BY DEF Inv
<1>4. seq[loop.list] \in Seq(Elm) /\ Represents(h, loop.list, seq[loop.list])
    BY <1>2, <1>3 DEF Stands
<1>5. \A i, j \in 1 .. Len(seq[loop.list]) :
         seq[loop.list][i] = seq[loop.list][j] => i = j
    BY <1>4 DEF Represents
<1>6. /\ Ends(seq[loop.list], loop.start, Len(loop.seen))
      /\ loop.var = At(loop.start, Len(loop.seen) + 1)
    BY <1>1 DEF LoopInv
<1>7. /\ Len(loop.seen) \in Nat /\ Len(loop.start) \in Nat
      /\ Len(loop.seen) < Len(loop.start)
      /\ loop.var = loop.start[Len(loop.seen) + 1]
    BY <1>2, <1>6 DEF At
<1>8. loop.var \in Elm
    BY <1>2, <1>7
<1>9. QED
    BY <1>1, <1>2, <1>4, <1>5, <1>6, <1>7, <1>8

\* A loop body that only looks at its element.
LEMMA LookInv ==
    ASSUME Inv, BodyLook
    PROVE  Stands(h', seq') /\ LoopInv'
<1>1. h' = h /\ seq' = seq /\ ForeachNext /\ loop.on /\ loop.var # NULL
    BY DEF BodyLook, ForeachNext
<1>2. Stands(h', seq')
    BY <1>1 DEF Inv
<1> DEFINE q == Len(loop.seen)
           n == Len(loop.start)
           m == Len(seq[loop.list])
<1>3. Ends(seq[loop.list], loop.start, q + 1)
  <2>1. /\ q \in Nat /\ n \in Nat /\ m \in Nat /\ q < n /\ n - q <= m
        /\ \A i \in q + 1 .. n : seq[loop.list][m - n + i] = loop.start[i]
    <3>1. seq[loop.list] \in Seq(Elm) /\ loop.start \in Seq(Elm) /\ q \in Nat /\ q < n
        BY <1>1, BodyElement
    <3>2. Ends(seq[loop.list], loop.start, q)
        BY <1>1, BodyElement
    <3>3. m \in Nat /\ n \in Nat
        BY <3>1
    <3>4. QED
        BY <3>1, <3>2, <3>3 DEF Ends
  <2> HIDE DEF q, n, m
  <2>2. n - (q + 1) <= m /\ \A i \in q + 1 + 1 .. n : i \in q + 1 .. n
      BY <2>1
  <2>3. QED
      BY <2>1, <2>2 DEF Ends, n, m
<1>4. QED
    BY <1>1, <1>2, <1>3, BodyElement, ForeachStep

\* A loop body that removes its element, which is still in the list.
LEMMA RemoveInv ==
    ASSUME Inv, BodyRemove
    PROVE  Stands(h', seq') /\ LoopInv'
<1> DEFINE l == loop.list
           s == seq[loop.list]
<1>1. loop.on /\ loop.var # NULL /\ ForeachNext
    BY DEF BodyRemove
<1>2. PICK i \in DOMAIN s : s[i] = loop.var /\ RemoveElm(l, i)
    BY DEF BodyRemove
<1>3. /\ h' = LIST_REMOVE(h, l, s[i]) /\ seq' = [seq EXCEPT ![l] = RemoveAt(s, i)]
    BY <1>2 DEF RemoveElm, Apply
<1>4. i \in 1 .. Len(s) /\ s \in Seq(Elm) /\ l \in List /\ Stands(h, seq)
    BY <1>1, BodyElement DEF Inv
<1>5. Deleted(s, i, RemoveAt(s, i))
    BY <1>4, DeletedForm DEF RemoveAt
<1>6. Stands(h', seq')
  <2> DEFINE t == RemoveAt(s, i)
  <2> HIDE DEF t
  <2>1. Deleted(seq[l], i, t) /\ seq' = [seq EXCEPT ![l] = t]
      BY <1>3, <1>5 DEF t
  <2>2. Stands(LIST_REMOVE(h, l, seq[l][i]), [seq EXCEPT ![l] = t])
      BY <1>4, <2>1, Constants, RemoveStands
  <2>3. QED
      BY <1>3, <2>1, <2>2
<1>7. Ends(RemoveAt(s, i), loop.start, Len(loop.seen) + 1)
  <2>1. s[i] = loop.start[Len(loop.seen) + 1]
      BY <1>1, <1>2, BodyElement
  <2>2. QED
      BY <1>1, <1>4, <1>5, <2>1, BodyElement, EndsDeleted
<1>8. seq'[l] = RemoveAt(s, i)
    BY <1>3, <1>4 DEF Stands
<1>9. QED
    BY <1>1, <1>6, <1>7, <1>8, BodyElement, ForeachStep

\* A loop body that moves its element to the head of a list, its own or
\* another: it is put before all that the loop has still to visit.
LEMMA MoveInv ==
    ASSUME Inv, NEW l \in List, BodyMove(l)
    PROVE  Stands(h', seq') /\ LoopInv'
<1> DEFINE k == loop.list
           s == seq[loop.list]
           e == loop.var
<1>1. loop.on /\ e # NULL /\ ForeachNext
    BY DEF BodyMove
<1>2. PICK i \in DOMAIN s :
         /\ s[i] = e
         /\ seq' = [[seq EXCEPT ![k] = RemoveAt(s, i)] EXCEPT ![l] = <<e>> \o @]
    BY DEF BodyMove
<1> DEFINE g == LIST_REMOVE(h, k, e)
           u == RemoveAt(s, i)
           T == [seq EXCEPT ![k] = u]
<1>3. h' = LIST_INSERT_HEAD(g, l, e) /\ seq' = [T EXCEPT ![l] = <<e>> \o T[l]]
    BY <1>2 DEF BodyMove
<1>4. i \in 1 .. Len(s) /\ s \in Seq(Elm) /\ k \in List /\ Stands(h, seq) /\ e \in Elm
    BY <1>1, BodyElement DEF Inv
<1>5. Deleted(s, i, u)
    BY <1>4, DeletedForm DEF RemoveAt
<1>6. Stands(g, T) /\ \A m \in List : ~Has(T[m], e)
  <2> HIDE DEF u
  <2>1. /\ Stands(LIST_REMOVE(h, k, seq[k][i]), [seq EXCEPT ![k] = u])
        /\ \A m \in List : ~Has([seq EXCEPT ![k] = u][m], seq[k][i])
      BY <1>4, <1>5, Constants, RemoveStands
  <2>2. QED
      BY <1>2, <2>1
<1>7. Ends(u, loop.start, Len(loop.seen) + 1)
  <2>1. s[i] = loop.start[Len(loop.seen) + 1]
      BY <1>1, <1>2, BodyElement
  <2> HIDE DEF u
  <2>2. QED
      BY <1>1, <1>4, <1>5, <2>1, BodyElement, EndsDeleted
<1>8. T[k] = u /\ T \in [List -> Seq(Elm)]
    BY <1>4, <1>6 DEF Stands
<1> HIDE DEF u, g, T
<1>9. Stands(h', seq')
    BY <1>3, <1>4, <1>6, Constants, InsertHeadStands
<1>10. Ends(seq'[k], loop.start, Len(loop.seen) + 1)
  <2>1. CASE l # k
    <3>1. seq'[k] = T[k]
        BY <1>3, <1>4, <1>8, <2>1
    <3>2. QED
        BY <1>7, <1>8, <3>1
  <2>2. CASE l = k
    <3> DEFINE q == Len(loop.seen) + 1
    <3>1. seq'[k] = <<e>> \o u
        BY <1>3, <1>4, <1>8, <2>2
    <3>2. Spliced(u, 1, e, <<e>> \o u)
        BY <1>4, <1>8, SplicedForms
    <3>3. q \in Nat /\ q <= Len(loop.start) /\ loop.start \in Seq(Elm) /\ u \in Seq(Elm)
        BY <1>1, <1>4, <1>8, BodyElement
    <3>4. Ends(<<e>> \o u, loop.start, q)
      <4> HIDE DEF q
      <4>1. Ends(u, loop.start, q)
          BY <1>7 DEF q
      <4>2. QED
          BY <1>4, <3>2, <3>3, <4>1, EndsSpliced
    <3>5. QED
        BY <3>1, <3>4
  <2>3. QED
      BY <2>1, <2>2
<1>11. QED
    BY <1>1, <1>9, <1>10, BodyElement, ForeachStep

\* Every step preserves the invariant.
LEMMA NextInv == Inv /\ [Next]_vars => Inv'
<1> SUFFICES ASSUME Inv, [Next]_vars PROVE Inv'
    OBVIOUS
<1>1. CASE Operation
  <2>1. Stands(h', seq') /\ loop' = loop /\ ~loop.on
      BY <1>1, OperationInv DEF Inv, Operation
  <2>2. loop = NoLoop
    <3>1. LoopInv => loop.on
      <4>1. LoopInv => loop \in LoopType
          BY DEF LoopInv
      <4>2. QED
          BY <4>1 DEF LoopType
    <3>2. QED
        BY <2>1, <3>1 DEF Inv
  <2>3. QED
      BY <2>1, <2>2 DEF Inv, NoLoop
<1>2. ASSUME NEW l \in List, ForeachBegin(l) PROVE Inv'
  <2>1. h' = h /\ seq' = seq /\ Stands(h, seq)
      BY <1>2 DEF ForeachBegin, Inv
  <2>2. QED
      BY <1>2, <2>1, BeginInv DEF Inv
<1>3. ASSUME NEW l \in List, BodyMove(l) PROVE Inv'
    BY <1>3, MoveInv DEF Inv
<1>4. CASE BodyLook
    BY <1>4, LookInv DEF Inv
<1>5. CASE BodyRemove
    BY <1>5, RemoveInv DEF Inv
<1>6. CASE ForeachEnd
    BY <1>6 DEF ForeachEnd, Inv, NoLoop
<1>7. CASE UNCHANGED vars
    BY <1>7 DEF vars, Inv, LoopInv, NoLoop
<1>8. QED
    BY <1>1, <1>2, <1>3, <1>4, <1>5, <1>6, <1>7 DEF Next, Foreach

\* The invariant of the list operations holds in every reachable state.
THEOREM ListInv == Spec => []Inv
BY InitInv, NextInv, PTL DEF Spec

\* Whatever macros ran in whatever order, on whichever lists, the links, both
\* ends and the size of every list are those of its sequence (inc/queue.h).
THEOREM ListsAreRepresented == Spec => []ListsRepresented
<1>1. Inv => ListsRepresented
    BY DEF Inv, Stands, ListsRepresented
<1>2. QED
    BY <1>1, ListInv, PTL

\* A LIST_FOREACH whose body removes the element it is at, or moves it to the
\* head of a list, visits exactly what the list held when it began, in order.
THEOREM ForeachIsComplete == Spec => []ForeachVisitsEach
<1>1. Inv => ForeachVisitsEach
  <2> SUFFICES ASSUME Inv, loop.on
               PROVE  /\ IsPrefix(loop.seen, loop.start)
                      /\ loop.var = NULL => loop.seen = loop.start
      BY DEF ForeachVisitsEach
  <2> DEFINE s == loop.seen
             t == loop.start
  <2>1. LoopInv
      BY DEF Inv, NoLoop
  <2>2. s \in Seq(Elm) /\ t \in Seq(Elm)
    <3>1. loop \in LoopType
        BY <2>1 DEF LoopInv
    <3>2. QED
        BY <3>1 DEF LoopType
  <2>3. /\ Len(s) \in Nat /\ Len(t) \in Nat /\ Len(s) <= Len(t)
        /\ \A i \in 1 .. Len(s) : s[i] = t[i]
        /\ loop.var = At(t, Len(s) + 1)
      BY <2>1, <2>2 DEF LoopInv
  <2> HIDE DEF s, t
  <2>4. SubSeq(s, 1, Len(s)) = SubSeq(t, 1, Len(s))
    <3>1. /\ SubSeq(s, 1, Len(s)) \in Seq(Elm) /\ Len(SubSeq(s, 1, Len(s))) = Len(s)
          /\ \A i \in 1 .. Len(s) : SubSeq(s, 1, Len(s))[i] = s[i]
        BY <2>2, <2>3
    <3>2. /\ SubSeq(t, 1, Len(s)) \in Seq(Elm) /\ Len(SubSeq(t, 1, Len(s))) = Len(s)
          /\ \A i \in 1 .. Len(s) : SubSeq(t, 1, Len(s))[i] = t[i]
        BY <2>2, <2>3
    <3>3. QED
        BY <2>3, <3>1, <3>2, SeqEqual
  <2>5. ASSUME loop.var = NULL PROVE s = t
    <3>1. Len(s) = Len(t)
      <4>1. ASSUME Len(s) < Len(t) PROVE FALSE
        <5>1. loop.var = t[Len(s) + 1] /\ t[Len(s) + 1] \in Elm
            BY <2>2, <2>3, <4>1 DEF At
        <5>2. QED
            BY <2>5, <5>1, NullAssumption
      <4>2. QED
          BY <2>3, <4>1
    <3>2. QED
        BY <2>2, <2>3, <3>1, SeqEqual
  <2>6. QED
      BY <2>3, <2>4, <2>5 DEF IsPrefix, s, t
<1>2. QED
    BY <1>1, ListInv, PTL
=============================================================================
