---------------------------- MODULE ConsoleProofs ----------------------------
(***************************************************************************)
(* ConsoleReaders proved: for a ring of any size, any number of processes, *)
(* any keys in any order and any number of bytes in the controller, the    *)
(* characters that wait in the ring are the last ones that came in, the    *)
(* console is locked by one process at a time, and no modifier outlasts    *)
(* the key that set it.                                                    *)
(***************************************************************************)
EXTENDS ConsoleReaders, QueueLemmas, SequenceTheorems

N == CONSBUFSIZE
Names == {"", " ", "s", "E0", "control", "a", "b", "A", "B", "8", "2", "4", "6", ".", "ctl",
          "up", "down", "left", "right", "del", "rctl"}
Keys == ReaderKeys \union Names    \* bytes, what they mean, and characters
Flags == {"SHIFT", "CTL", "ALT", "CAPSLOCK", "NUMLOCK", "E0"}
Byte == [key : Keys, up : BOOLEAN]

\* The states of the console.  Nothing is printed, so the last row stays empty.
Con ==
    [kbd : Seq(Byte), com : {<<>>, <<"s">>}, shift : SUBSET Flags,
     buf : [0 .. N - 1 -> [c : Keys, n : 0 .. Twice - 1]], rpos : 0 .. N, wpos : 0 .. N - 1,
     crt : [0 .. CRT_SIZE - 1 -> Keys], pos : {LastRow}, text_length : {0},
     accepted : 0 .. Twice - 1, taken : 0 .. Twice - 1]

-----------------------------------------------------------------------------
(* The ring.                                                               *)

\* The m places before wpos hold the last m characters that came in.
Last(x, m) ==
    \A j \in 1 .. m : x.buf[(x.wpos - j) % N].n = (x.accepted - j) % Twice

\* Characters are read or lost by whole rings.
WholeRings(x) == (x.accepted - x.taken - Pending(x)) % N = 0

InOrder(x) == WholeRings(x) /\ Last(x, Pending(x))

\* As many characters came in as make the ring look empty.
Overrun(x) == WholeRings(x) /\ Pending(x) = 0 /\ Last(x, N)

\* What a reader that has seen a character can rely on when it takes it.
Takeable(x) == Overrun(x) \/ (InOrder(x) /\ Pending(x) > 0)

LEMMA Sizes == N \in Nat \ {0, 1} /\ Twice = 2 * N /\ Twice \in Nat \ {0} /\ CRT_SIZE \in Nat
BY ConsoleAssumption DEF N, Twice

LEMMA ModLemma ==
    ASSUME NEW M \in Nat \ {0}, NEW a \in Int
    PROVE  /\ 0 <= a /\ a < M => a % M = a
           /\ M <= a /\ a < 2 * M => a % M = a - M
           /\ -M <= a /\ a < 0 => a % M = a + M
OBVIOUS

LEMMA WholeLemma ==
    ASSUME NEW M \in Nat \ {0}, NEW a \in Int, -3 * M < a, a < 2 * M
    PROVE  a % M = 0 <=> a = -2 * M \/ a = -M \/ a = 0 \/ a = M
<1>1. a % M = 0 => a = -2 * M \/ a = -M \/ a = 0 \/ a = M
    OBVIOUS
<1>2. ASSUME NEW q \in Int, a = q * M PROVE a % M = 0
    BY <1>2
<1>3. /\ -2 \in Int /\ -2 * M = (-2) * M /\ -1 \in Int /\ -M = (-1) * M
      /\ 0 = 0 * M /\ M = 1 * M
    OBVIOUS
<1>4. QED
    BY <1>1, <1>2, <1>3

LEMMA Fields ==
    ASSUME NEW x \in Con
    PROVE  /\ x.kbd \in Seq(Byte) /\ x.com \in {<<>>, <<"s">>} /\ x.shift \in SUBSET Flags
           /\ x.buf \in [0 .. N - 1 -> [c : Keys, n : 0 .. Twice - 1]]
           /\ x.rpos \in 0 .. N /\ x.wpos \in 0 .. N - 1 /\ x.text_length = 0
           /\ x.accepted \in 0 .. Twice - 1 /\ x.taken \in 0 .. Twice - 1
BY DEF Con

LEMMA PendingIs ==
    ASSUME NEW x, x.rpos \in 0 .. N, x.wpos \in 0 .. N - 1
    PROVE  /\ Pending(x) = IF x.rpos <= x.wpos THEN x.wpos - x.rpos ELSE x.wpos - x.rpos + N
           /\ Pending(x) \in 0 .. N - 1
<1> DEFINE a == x.wpos - x.rpos
<1>1. a \in Int /\ N \in Nat \ {0} /\ -N <= a /\ a < N
    BY Sizes
<1>2. a % N = IF x.rpos <= x.wpos THEN a ELSE a + N
    BY <1>1, ModLemma
<1>3. Pending(x) = a % N
    BY DEF Pending, N
<1>4. QED
    BY <1>1, <1>2, <1>3

\* One position on in the ring, or one character more counted.
LEMMA OneOn ==
    ASSUME NEW M \in Nat \ {0}, NEW a \in 0 .. M - 1
    PROVE  /\ (a + 1) % M = IF a = M - 1 THEN 0 ELSE a + 1
           /\ \A j \in 1 .. M : (a - j) % M = IF j <= a THEN a - j ELSE a - j + M
           /\ \A j \in 1 .. M : (((a + 1) % M) - j) % M = IF j = 1 THEN a ELSE (a - (j - 1)) % M
<1>1. (a + 1) % M = IF a = M - 1 THEN 0 ELSE a + 1
  <2> DEFINE c == a + 1
  <2>1. c \in Int /\ 0 <= c /\ (c < M \/ c = M)
      OBVIOUS
  <2> HIDE DEF c
  <2>2. M \in Nat \ {0} /\ M <= M /\ M < 2 * M /\ M - M = 0
      OBVIOUS
  <2>3. c < M => c % M = c
      BY <2>1, <2>2, ModLemma
  <2>4. M % M = 0
      BY <2>2, ModLemma
  <2>5. QED
      BY <2>1, <2>3, <2>4 DEF c
<1>2. ASSUME NEW b \in 0 .. M - 1, NEW j \in 1 .. M
      PROVE  (b - j) % M = IF j <= b THEN b - j ELSE b - j + M
  <2> DEFINE c == b - j
  <2>1. c \in Int /\ -M <= c /\ c < M /\ (j <= b <=> 0 <= c)
      OBVIOUS
  <2> HIDE DEF c
  <2>2. M \in Nat \ {0}
      OBVIOUS
  <2>3. 0 <= c => c % M = c
      BY <2>1, <2>2, ModLemma
  <2>4. c < 0 => c % M = c + M
      BY <2>1, <2>2, ModLemma
  <2>5. QED
      BY <2>1, <2>3, <2>4 DEF c
<1>3. ASSUME NEW j \in 1 .. M
      PROVE  (((a + 1) % M) - j) % M = IF j = 1 THEN a ELSE (a - (j - 1)) % M
  <2> DEFINE b == IF a = M - 1 THEN 0 ELSE a + 1
  <2>1. b \in 0 .. M - 1 /\ (b - j) % M = IF j <= b THEN b - j ELSE b - j + M
      BY <1>2
  <2>2. j # 1 => /\ j - 1 \in 1 .. M
                 /\ (a - (j - 1)) % M = IF j - 1 <= a THEN a - (j - 1) ELSE a - (j - 1) + M
      BY <1>2
  <2>3. (b - j) % M = IF j = 1 THEN a ELSE (a - (j - 1)) % M
      BY <2>1, <2>2
  <2>4. QED
      BY <1>1, <2>3
<1>4. QED
    BY <1>1, <1>2, <1>3

LEMMA RingsIs ==
    ASSUME NEW x \in Con
    PROVE  LET a == x.accepted - x.taken - Pending(x)
           IN  WholeRings(x) <=> a = -2 * N \/ a = -N \/ a = 0 \/ a = N
<1> DEFINE a == x.accepted - x.taken - Pending(x)
<1>1. a \in Int /\ -3 * N < a /\ a < 2 * N
    BY Fields, PendingIs, Sizes
<1>2. N \in Nat \ {0}
    BY Sizes
<1> HIDE DEF a
<1>3. a % N = 0 <=> a = -2 * N \/ a = -N \/ a = 0 \/ a = N
    BY <1>1, <1>2, WholeLemma
<1>4. QED
    BY <1>3 DEF WholeRings, N, a

\* What reading the devices does to the ring: characters come in.
Fed(x, s) ==
    /\ s \in Con /\ s.rpos = x.rpos /\ s.taken = x.taken
    /\ InOrder(x) => InOrder(s)
    /\ Takeable(x) => Takeable(s)

LEMMA StoreLemma ==
    ASSUME NEW x \in Con, NEW c \in Keys
    PROVE  LET s == store(x, c)
           IN  Fed(x, s) /\ s.kbd = x.kbd /\ s.com = x.com /\ s.shift = x.shift
<1> DEFINE s == store(x, c)
           v == [c |-> c, n |-> x.accepted]
           B == [x.buf EXCEPT ![x.wpos] = v]
           w == (x.wpos + 1) % N
           a == (x.accepted + 1) % Twice
<1>1. CASE c = ""
    BY <1>1 DEF store, Fed
<1>2. CASE c # ""
  <2>1. N \in Nat \ {0, 1} /\ Twice = 2 * N /\ Twice \in Nat \ {0} /\ x.wpos \in 0 .. N - 1
        /\ x.accepted \in 0 .. Twice - 1 /\ x.taken \in 0 .. Twice - 1 /\ x.rpos \in 0 .. N
        /\ Pending(x) \in 0 .. N - 1
      BY Sizes, Fields, PendingIs
  <2>2. /\ w = (IF x.wpos = N - 1 THEN 0 ELSE x.wpos + 1)
        /\ \A j \in 1 .. N : (w - j) % N = IF j = 1 THEN x.wpos ELSE (x.wpos - (j - 1)) % N
    <3>1. N \in Nat \ {0} /\ x.wpos \in 0 .. N - 1
        BY <2>1
    <3>2. QED
        BY <3>1, OneOn
  <2>3. /\ a = (IF x.accepted = Twice - 1 THEN 0 ELSE x.accepted + 1)
        /\ \A j \in 1 .. Twice :
              (a - j) % Twice = IF j = 1 THEN x.accepted ELSE (x.accepted - (j - 1)) % Twice
    <3>1. Twice \in Nat \ {0} /\ x.accepted \in 0 .. Twice - 1
        BY <2>1
    <3>2. QED
        BY <3>1, OneOn
  <2>4. \A j \in 2 .. N : (x.wpos - (j - 1)) % N \in 0 .. N - 1 /\ (x.wpos - (j - 1)) % N # x.wpos
    <3>1. \A j \in 2 .. N : j - 1 \in 1 .. N
        BY <2>1
    <3>2. \A i \in 1 .. N : (x.wpos - i) % N = IF i <= x.wpos THEN x.wpos - i ELSE x.wpos - i + N
        BY <2>1, OneOn
    <3>3. ASSUME NEW j \in 2 .. N
          PROVE  (x.wpos - (j - 1)) % N \in 0 .. N - 1 /\ (x.wpos - (j - 1)) % N # x.wpos
      <4> DEFINE i == j - 1
      <4>1. i \in 1 .. N /\ i # N
          BY <2>1
      <4> HIDE DEF i
      <4>2. (x.wpos - i) % N = IF i <= x.wpos THEN x.wpos - i ELSE x.wpos - i + N
          BY <3>2, <4>1
      <4>3. (x.wpos - i) % N \in 0 .. N - 1 /\ (x.wpos - i) % N # x.wpos
          BY <2>1, <4>1, <4>2
      <4>4. QED
          BY <4>3 DEF i
    <3>4. QED
        BY <3>3
  <2>5. v \in [c : Keys, n : 0 .. Twice - 1] /\ v.n = x.accepted
      BY <2>1
  <2>6. x.buf \in [0 .. N - 1 -> [c : Keys, n : 0 .. Twice - 1]]
      BY Fields
  <2> HIDE DEF v
  <2>7. /\ B \in [0 .. N - 1 -> [c : Keys, n : 0 .. Twice - 1]]
        /\ \A i \in 0 .. N - 1 : B[i].n = IF i = x.wpos THEN x.accepted ELSE x.buf[i].n
      BY <2>1, <2>5, <2>6
  <2> HIDE DEF B
  <2>8. s = [x EXCEPT !.buf = B, !.wpos = w, !.accepted = a]
      BY <1>2 DEF store, B, v, N
  <2>9. w \in 0 .. N - 1 /\ a \in 0 .. Twice - 1
    <3> HIDE DEF w, a
    <3>1. w = 0 \/ (x.wpos # N - 1 /\ w = x.wpos + 1)
        BY <2>2
    <3>2. a = 0 \/ (x.accepted # Twice - 1 /\ a = x.accepted + 1)
        BY <2>3
    <3>3. w \in 0 .. N - 1
        BY <2>1, <3>1
    <3>4. a \in 0 .. Twice - 1
        BY <2>1, <3>2
    <3>5. QED
        BY <3>3, <3>4
  <2> HIDE DEF s, w, a
  <2>10. /\ s \in Con /\ s.buf = B /\ s.wpos = w /\ s.accepted = a /\ s.rpos = x.rpos
         /\ s.taken = x.taken /\ s.kbd = x.kbd /\ s.com = x.com /\ s.shift = x.shift
      BY <2>7, <2>8, <2>9 DEF Con
  <2>11. Pending(s) = IF Pending(x) = N - 1 THEN 0 ELSE Pending(x) + 1
    <3>1. Pending(x) = IF x.rpos <= x.wpos THEN x.wpos - x.rpos ELSE x.wpos - x.rpos + N
        BY <2>1, PendingIs
    <3>2. Pending(s) = IF s.rpos <= s.wpos THEN s.wpos - s.rpos ELSE s.wpos - s.rpos + N
        BY <2>1, <2>9, <2>10, PendingIs
    <3>3. Pending(s) \in 0 .. N - 1
        BY <2>1, <2>9, <2>10, PendingIs
    <3>4. QED
        BY <2>1, <2>2, <2>10, <3>1, <3>2, <3>3
  <2>12. WholeRings(x) => WholeRings(s)
    <3> DEFINE d == x.accepted - x.taken - Pending(x)
               e == s.accepted - s.taken - Pending(s)
    <3>1. /\ WholeRings(x) <=> d = -2 * N \/ d = -N \/ d = 0 \/ d = N
          /\ WholeRings(s) <=> e = -2 * N \/ e = -N \/ e = 0 \/ e = N
        BY <2>10, RingsIs
    <3>2. e \in {d, d - 2 * N, d + N, d - N}
        BY <2>1, <2>3, <2>10, <2>11
    <3>3. e \in Int /\ d \in Int /\ -3 * N < e /\ e < 2 * N
        BY <2>1, <2>9, <2>10, <2>11
    <3> HIDE DEF d, e
    <3>4. QED
        BY <2>1, <3>1, <3>2, <3>3
  <2>13. ASSUME NEW m \in 0 .. N, Last(x, m), NEW l \in 0 .. N, l <= m + 1
         PROVE  Last(s, l)
    <3>1. ASSUME NEW j \in 1 .. l PROVE s.buf[(s.wpos - j) % N].n = (s.accepted - j) % Twice
      <4>1. j \in 1 .. N /\ j \in 1 .. Twice
          BY <2>1
      <4>2. CASE j = 1
        <5>1. (s.wpos - j) % N = x.wpos /\ (s.accepted - j) % Twice = x.accepted
            BY <2>2, <2>3, <2>10, <4>1, <4>2
        <5>2. B[x.wpos].n = x.accepted
            BY <2>1, <2>7
        <5>3. QED
            BY <2>10, <5>1, <5>2
      <4>3. CASE j # 1
        <5> DEFINE i == j - 1
                   p == (x.wpos - i) % N
        <5>1. i \in 1 .. m /\ j \in 2 .. N
            BY <2>13, <4>1, <4>3
        <5>2. x.buf[p].n = (x.accepted - i) % Twice
            BY <2>13, <5>1 DEF Last
        <5>3. p \in 0 .. N - 1 /\ p # x.wpos
            BY <2>4, <5>1
        <5>4. (s.wpos - j) % N = p /\ (s.accepted - j) % Twice = (x.accepted - i) % Twice
            BY <2>2, <2>3, <2>10, <4>1, <4>3
        <5> HIDE DEF p, i
        <5>5. B[p].n = x.buf[p].n
            BY <2>7, <5>3
        <5>6. QED
            BY <2>10, <5>2, <5>4, <5>5
      <4>4. QED
          BY <4>2, <4>3
    <3>2. QED
        BY <3>1 DEF Last
  <2>14. InOrder(x) => InOrder(s)
    <3>1. Pending(s) \in 0 .. N /\ Pending(x) \in 0 .. N /\ Pending(s) <= Pending(x) + 1
        BY <2>1, <2>11
    <3>2. QED
        BY <2>12, <2>13, <3>1 DEF InOrder
  <2>15. Takeable(x) => Takeable(s)
    <3>1. CASE Overrun(x)
      <4>1. WholeRings(s) /\ Pending(s) = 1
          BY <2>1, <2>11, <2>12, <3>1 DEF Overrun
      <4>2. Last(s, 1)
        <5>1. N \in 0 .. N /\ 1 \in 0 .. N /\ 1 <= N + 1 /\ Last(x, N)
            BY <2>1, <3>1 DEF Overrun
        <5>2. QED
            BY <2>13, <5>1
      <4>3. QED
          BY <4>1, <4>2 DEF Takeable, InOrder
    <3>2. CASE InOrder(x) /\ Pending(x) > 0 /\ Pending(x) # N - 1
      <4>1. Pending(s) > 0
          BY <2>1, <2>11, <3>2
      <4>2. QED
          BY <2>14, <3>2, <4>1 DEF Takeable
    <3>3. CASE InOrder(x) /\ Pending(x) = N - 1
      <4>1. WholeRings(s) /\ Pending(s) = 0
          BY <2>11, <2>12, <3>3 DEF InOrder
      <4>2. N - 1 \in 0 .. N /\ N \in 0 .. N /\ N <= (N - 1) + 1 /\ Last(x, N - 1)
          BY <2>1, <3>3 DEF InOrder
      <4>3. Last(s, N)
          BY <2>13, <4>2
      <4>4. QED
          BY <4>1, <4>3 DEF Takeable, Overrun
    <3>4. QED
        BY <3>1, <3>2, <3>3 DEF Takeable
  <2>16. QED
      BY <2>10, <2>14, <2>15 DEF Fed, s
<1>3. QED
    BY <1>1, <1>2

\* A reader takes the character at rpos; rpos is behind the ring until it wraps.
LEMMA TakeLemma ==
    ASSUME NEW x \in Con, x.rpos # N, Takeable(x)
    PROVE  LET s == take(x)
           IN  s \in Con /\ InOrder(s) /\ s.kbd = x.kbd /\ s.shift = x.shift
<1> DEFINE s == take(x)
           t == (x.taken + 1) % Twice
<1>1. N \in Nat \ {0, 1} /\ Twice = 2 * N /\ Twice \in Nat \ {0} /\ x.wpos \in 0 .. N - 1
      /\ x.accepted \in 0 .. Twice - 1 /\ x.taken \in 0 .. Twice - 1 /\ x.rpos \in 0 .. N
      /\ Pending(x) \in 0 .. N - 1
    BY Sizes, Fields, PendingIs
<1>2. t = IF x.taken = Twice - 1 THEN 0 ELSE x.taken + 1
    BY <1>1, OneOn
<1>3. s = [x EXCEPT !.rpos = x.rpos + 1, !.taken = t]
    BY DEF take
<1>4. t \in 0 .. Twice - 1 /\ x.rpos + 1 \in 0 .. N
    BY <1>1, <1>2
<1> HIDE DEF s, t
<1>5. /\ s \in Con /\ s.buf = x.buf /\ s.wpos = x.wpos /\ s.accepted = x.accepted
      /\ s.rpos = x.rpos + 1 /\ s.taken = t /\ s.kbd = x.kbd /\ s.shift = x.shift
    BY <1>3, <1>4 DEF Con
<1>6. Pending(s) = IF Pending(x) = 0 THEN N - 1 ELSE Pending(x) - 1
  <2>1. Pending(x) = IF x.rpos <= x.wpos THEN x.wpos - x.rpos ELSE x.wpos - x.rpos + N
      BY <1>1, PendingIs
  <2>2. Pending(s) = IF s.rpos <= s.wpos THEN s.wpos - s.rpos ELSE s.wpos - s.rpos + N
      BY <1>1, <1>4, <1>5, PendingIs
  <2>3. QED
      BY <1>1, <1>5, <2>1, <2>2
<1>7. WholeRings(s)
  <2> DEFINE d == x.accepted - x.taken - Pending(x)
             e == s.accepted - s.taken - Pending(s)
  <2>1. /\ WholeRings(x) <=> d = -2 * N \/ d = -N \/ d = 0 \/ d = N
        /\ WholeRings(s) <=> e = -2 * N \/ e = -N \/ e = 0 \/ e = N
      BY <1>5, RingsIs
  <2>2. e \in {d, d + 2 * N, d - N, d + N}
      BY <1>1, <1>2, <1>5, <1>6
  <2>3. e \in Int /\ d \in Int /\ -3 * N < e /\ e < 2 * N
      BY <1>1, <1>4, <1>5, <1>6
  <2>4. WholeRings(x)
      BY DEF Takeable, Overrun, InOrder
  <2> HIDE DEF d, e
  <2>5. QED
      BY <1>1, <2>1, <2>2, <2>3, <2>4
<1>8. Last(s, Pending(s))
  <2>1. CASE Overrun(x)
    <3>1. \A j \in 1 .. Pending(s) : j \in 1 .. N
        BY <1>1, <1>6
    <3>2. QED
        BY <1>5, <2>1, <3>1 DEF Overrun, Last
  <2>2. CASE InOrder(x) /\ Pending(x) > 0
    <3>1. \A j \in 1 .. Pending(s) : j \in 1 .. Pending(x)
        BY <1>1, <1>6, <2>2
    <3>2. QED
        BY <1>5, <2>2, <3>1 DEF InOrder, Last
  <2>3. QED
      BY <2>1, <2>2 DEF Takeable
<1>9. QED
    BY <1>5, <1>7, <1>8 DEF InOrder, s

LEMMA WrapLemma ==
    ASSUME NEW x \in Con, InOrder(x)
    PROVE  LET s == wrap(x)
           IN  s \in Con /\ s.rpos # N /\ InOrder(s) /\ s.kbd = x.kbd /\ s.shift = x.shift
<1> DEFINE s == wrap(x)
           r == IF x.rpos = N THEN 0 ELSE x.rpos
<1>1. N \in Nat \ {0, 1} /\ x.wpos \in 0 .. N - 1 /\ x.rpos \in 0 .. N
    BY Sizes, Fields
<1>2. s = [x EXCEPT !.rpos = r]
    BY DEF wrap, N
<1>3. r \in 0 .. N /\ r # N
    BY <1>1
<1> HIDE DEF s
<1>4. /\ s \in Con /\ s.buf = x.buf /\ s.wpos = x.wpos /\ s.accepted = x.accepted
      /\ s.rpos = r /\ s.taken = x.taken /\ s.kbd = x.kbd /\ s.shift = x.shift
    BY <1>2, <1>3 DEF Con
<1>5. Pending(s) = Pending(x)
  <2>1. Pending(x) = IF x.rpos <= x.wpos THEN x.wpos - x.rpos ELSE x.wpos - x.rpos + N
      BY <1>1, PendingIs
  <2>2. Pending(s) = IF s.rpos <= s.wpos THEN s.wpos - s.rpos ELSE s.wpos - s.rpos + N
      BY <1>1, <1>3, <1>4, PendingIs
  <2>3. QED
      BY <1>1, <1>4, <2>1, <2>2
<1>6. InOrder(s)
    BY <1>4, <1>5 DEF InOrder, WholeRings, Last
<1>7. QED
    BY <1>3, <1>4, <1>6 DEF s

\* The order in terms of the read position, as RingInOrder states it.
LEMMA OrderLemma ==
    ASSUME NEW x \in Con, InOrder(x)
    PROVE  RingInOrder(x)
<1> DEFINE P == Pending(x)
<1>1. N \in Nat \ {0, 1} /\ Twice = 2 * N /\ x.wpos \in 0 .. N - 1 /\ x.rpos \in 0 .. N
      /\ P \in 0 .. N - 1
      /\ P = IF x.rpos <= x.wpos THEN x.wpos - x.rpos ELSE x.wpos - x.rpos + N
    BY Sizes, Fields, PendingIs
<1> HIDE DEF P
<1>2. ASSUME NEW j \in 0 .. P - 1
      PROVE  x.buf[(x.rpos + j) % N].n = (x.accepted - P + j) % Twice
  <2> DEFINE i == P - j
             a == x.wpos - i
             b == x.rpos + j
  <2>1. /\ i \in 1 .. P /\ i \in 1 .. N /\ N \in Nat \ {0} /\ b \in Int /\ 0 <= b /\ b < 2 * N
        /\ b = (IF i <= x.wpos THEN a ELSE a + N) \/ b = (IF i <= x.wpos THEN a ELSE a + N) + N
      BY <1>1
  <2>2. a % N = IF i <= x.wpos THEN a ELSE a + N
    <3>1. N \in Nat \ {0} /\ x.wpos \in 0 .. N - 1
        BY <1>1
    <3>2. \A l \in 1 .. N : (x.wpos - l) % N = IF l <= x.wpos THEN x.wpos - l ELSE x.wpos - l + N
        BY <3>1, OneOn
    <3> HIDE DEF i
    <3>3. QED
        BY <2>1, <3>2
  <2>3. 0 <= a % N /\ a % N < N /\ a % N \in Int
      BY <1>1, <2>1, <2>2
  <2> DEFINE c == a % N
  <2> HIDE DEF c
  <2>4. c \in Int /\ 0 <= c /\ c < N /\ (b = c \/ b = c + N)
      BY <2>1, <2>2, <2>3 DEF c
  <2>5. b % N = c
    <3> HIDE DEF a, b
    <3>1. b = c => b % N = c
        BY <2>1, <2>4, ModLemma
    <3>2. b = c + N => N <= b /\ b - N = c
        BY <2>1, <2>4
    <3>3. N <= b => b % N = b - N
        BY <2>1, ModLemma
    <3>4. QED
        BY <2>4, <3>1, <3>2, <3>3
  <2>6. x.buf[a % N].n = (x.accepted - i) % Twice
      BY <2>1 DEF InOrder, Last, P
  <2>7. x.accepted - i = x.accepted - P + j
    <3>1. x.accepted \in 0 .. Twice - 1
        BY Fields
    <3>2. x.accepted \in Int /\ P \in Int /\ j \in Int
        BY <1>1, <3>1, Sizes
    <3>3. QED
        BY <3>2
  <2>8. QED
      BY <2>5, <2>6, <2>7 DEF c
<1>3. QED
    BY <1>2 DEF RingInOrder, InOrder, WholeRings, P, N
-----------------------------------------------------------------------------
(* The keyboard.                                                           *)

\* The flag that a key sets while it is down.
CodeOf(k) == IF k \in DOMAIN shiftcode THEN {shiftcode[k]} ELSE {}

Modifiers == {"SHIFT", "CTL"}

\* The byte d says that a key of the modifier m went down, or up.
Down(d, m) == m \in CodeOf(d.key) /\ ~d.up
Up(d, m) == m \in CodeOf(d.key) /\ d.up

LEMMA CodeLemma ==
    /\ \A k : CodeOf(k) = IF k \in {"lshift", "rshift"} THEN {"SHIFT"}
                          ELSE IF k \in {"ctl", "rctl"} THEN {"CTL"}
                          ELSE IF k = "alt" THEN {"ALT"} ELSE {}
    /\ \A k \in DOMAIN Extended : Extended[k] \in Names /\ CodeOf(Extended[k]) = CodeOf(k)
<1>1. /\ DOMAIN shiftcode = {"lshift", "rshift", "ctl", "rctl", "alt"}
      /\ shiftcode["lshift"] = "SHIFT" /\ shiftcode["rshift"] = "SHIFT"
      /\ shiftcode["ctl"] = "CTL" /\ shiftcode["rctl"] = "CTL" /\ shiftcode["alt"] = "ALT"
    BY DEF shiftcode
<1>2. \A k : CodeOf(k) = IF k \in {"lshift", "rshift"} THEN {"SHIFT"}
                         ELSE IF k \in {"ctl", "rctl"} THEN {"CTL"}
                         ELSE IF k = "alt" THEN {"ALT"} ELSE {}
    BY <1>1 DEF CodeOf
<1>3. /\ DOMAIN Extended = {"8", "2", "4", "6", ".", "ctl"}
      /\ Extended["8"] = "up" /\ Extended["2"] = "down" /\ Extended["4"] = "left"
      /\ Extended["6"] = "right" /\ Extended["."] = "del" /\ Extended["ctl"] = "rctl"
    BY DEF Extended
<1>4. \A k \in DOMAIN Extended : Extended[k] \in Names /\ CodeOf(Extended[k]) = CodeOf(k)
  <2> TAKE k \in DOMAIN Extended
  <2>1. CASE k = "ctl"
      BY <1>2, <1>3, <2>1 DEF Names
  <2>2. CASE k # "ctl"
    <3>1. k \in {"8", "2", "4", "6", "."} /\ Extended[k] \in {"up", "down", "left", "right", "del"}
        BY <1>3, <2>2
    <3>2. CodeOf(k) = {} /\ CodeOf(Extended[k]) = {}
        BY <1>2, <3>1
    <3>3. QED
        BY <3>1, <3>2 DEF Names
  <2>3. QED
      BY <2>1, <2>2
<1>5. QED
    BY <1>2, <1>4

\* The last byte of a key carries its modifier; a byte before it carries none.
LEMMA BytesLemma ==
    ASSUME NEW k \in Keys, NEW up \in BOOLEAN
    PROVE  \E a, d \in Byte :
             /\ Bytes(k, up) = <<d>> \/ Bytes(k, up) = <<a, d>>
             /\ CodeOf(a.key) = {} /\ CodeOf(d.key) = CodeOf(k) /\ d.up = up
<1> DEFINE base == {b \in DOMAIN Extended : Extended[b] = k}
           a == [key |-> "E0", up |-> FALSE]
<1>1. a \in Byte /\ CodeOf(a.key) = {}
    BY CodeLemma DEF Byte, Keys, Names
<1>2. CASE base = {}
  <2> DEFINE d == [key |-> k, up |-> up]
  <2>1. d \in Byte /\ CodeOf(d.key) = CodeOf(k) /\ d.up = up
      BY DEF Byte
  <2>2. Bytes(k, up) = <<d>>
      BY <1>2 DEF Bytes
  <2>3. QED
      BY <1>1, <2>1, <2>2
<1>3. CASE base # {}
  <2> DEFINE b == CHOOSE b \in base : TRUE
             d == [key |-> b, up |-> up]
  <2>1. b \in base
      BY <1>3
  <2>2. Bytes(k, up) = <<a, d>>
      BY <1>3 DEF Bytes
  <2> HIDE DEF b
  <2>3. b \in DOMAIN Extended /\ Extended[b] = k
      BY <2>1
  <2>4. b \in Names
      BY <2>3 DEF Extended, Names
  <2>5. CodeOf(b) = CodeOf(k)
      BY <2>3, CodeLemma
  <2>6. d \in Byte /\ CodeOf(d.key) = CodeOf(k) /\ d.up = up
      BY <2>4, <2>5 DEF Byte, Keys
  <2>7. QED
      BY <1>1, <2>2, <2>6
<1>4. QED
    BY <1>2, <1>3
LEMMA CharLemma ==
    ASSUME NEW f, NEW key \in Keys
    PROVE  Cased(f, charcode(f, key)) \in Keys
<1>1. DOMAIN Letter = {"a", "b"} /\ Letter["a"] = "A" /\ Letter["b"] = "B"
    BY DEF Letter
<1>2. charcode(f, key) \in Keys
    BY <1>1 DEF charcode, Keys, Names
<1>3. ASSUME NEW c \in Keys PROVE Cased(f, c) \in Keys
  <2>1. CASE \E l \in DOMAIN Letter : Letter[l] = c
    <3>1. (CHOOSE l \in DOMAIN Letter : Letter[l] = c) \in DOMAIN Letter
        BY <2>1
    <3>2. QED
        BY <1>1, <1>3, <3>1 DEF Cased, Keys, Names
  <2>2. CASE ~\E l \in DOMAIN Letter : Letter[l] = c
      BY <1>1, <1>3, <2>2 DEF Cased, Keys, Names
  <2>3. QED
      BY <2>1, <2>2
<1>4. QED
    BY <1>2, <1>3

\* A byte from the keyboard sets or clears the modifier of its key alone.
LEMMA ProcLemma ==
    ASSUME NEW x \in Con, x.kbd # <<>>
    PROVE  LET r == kbd_proc_data(x)
               d == Head(x.kbd)
           IN  \E f \in SUBSET Flags :
                 /\ r.x = [x EXCEPT !.kbd = Tail(x.kbd), !.shift = f] /\ r.c \in Keys
                 /\ \A m \in Modifiers : m \in f <=> Down(d, m) \/ (~Up(d, m) /\ m \in x.shift)
<1> DEFINE r == kbd_proc_data(x)
           d == Head(x.kbd)
           z == [x EXCEPT !.kbd = Tail(@)]
           key == IF "E0" \in z.shift /\ d.key \in DOMAIN Extended THEN Extended[d.key] ELSE d.key
           C == CodeOf(key)
           held == (z.shift \ {"E0"}) \union C
           now == IF key \in DOMAIN togglecode
                  THEN (held \ {togglecode[key]}) \union ({togglecode[key]} \ held) ELSE held
           c == Cased(now, charcode(now, key))
           y == [z EXCEPT !.shift = now]
           On(f) == [x EXCEPT !.kbd = Tail(x.kbd), !.shift = f]
           Right(f) == /\ f \in SUBSET Flags
                       /\ \A m \in Modifiers : m \in f <=> Down(d, m) \/ (~Up(d, m) /\ m \in x.shift)
           Fit(f) == Right(f) /\ r.x = On(f) /\ r.c \in Keys
<1>1. d \in Byte /\ x.shift \in SUBSET Flags /\ z.shift = x.shift /\ x.text_length = 0
    BY Fields, TailLemma DEF Con
<1>2. d.key \in Keys /\ d.up \in BOOLEAN /\ d = [key |-> d.key, up |-> d.up]
    BY <1>1 DEF Byte
<1>3. \A f : [z EXCEPT !.shift = f] = On(f)
    BY DEF Con
<1> HIDE DEF d
<1>4. key \in Keys /\ C = CodeOf(d.key)
    BY <1>2, CodeLemma DEF Keys
<1>5. r = CASE d = [key |-> "E0", up |-> FALSE] ->
                 [x |-> [z EXCEPT !.shift = z.shift \union {"E0"}], c |-> ""]
            [] d.key # "E0" /\ d.up -> [x |-> [z EXCEPT !.shift = (z.shift \ {"E0"}) \ C], c |-> ""]
            [] d.key # "E0" /\ ~d.up /\ c = "del" -> Delete(y)
            [] OTHER -> [x |-> y, c |-> IF now = {"NUMLOCK"} /\ c \in Digits THEN "" ELSE c]
    BY DEF kbd_proc_data, CodeOf, d
<1> HIDE DEF key, C
<1>6. C \in {{}, {"SHIFT"}, {"CTL"}, {"ALT"}}
    BY CodeLemma DEF C
<1>7. ASSUME d = [key |-> "E0", up |-> FALSE] PROVE \E f : Fit(f)
  <2>1. CodeOf(d.key) = {}
      BY <1>7, CodeLemma
  <2>2. Right(x.shift \union {"E0"})
      BY <1>1, <2>1 DEF Down, Up, Modifiers, Flags
  <2>3. r = [x |-> On(x.shift \union {"E0"}), c |-> ""]
      BY <1>1, <1>3, <1>5, <1>7
  <2> HIDE DEF r, Right, On
  <2>4. r.x = On(x.shift \union {"E0"}) /\ r.c \in Keys
      BY <2>3 DEF Keys, Names
  <2>5. QED
      BY <2>2, <2>4 DEF Fit
<1>8. ASSUME d.key # "E0", d.up PROVE \E f : Fit(f)
  <2>1. Right((x.shift \ {"E0"}) \ C)
      BY <1>1, <1>4, <1>8 DEF Down, Up, Modifiers, Flags
  <2>2. r = [x |-> On((x.shift \ {"E0"}) \ C), c |-> ""]
    <3>1. d # [key |-> "E0", up |-> FALSE]
        BY <1>8
    <3>2. r = [x |-> [z EXCEPT !.shift = (z.shift \ {"E0"}) \ C], c |-> ""]
        BY <1>5, <1>8, <3>1
    <3>3. QED
        BY <1>1, <1>3, <3>2
  <2> HIDE DEF r, Right, On
  <2>3. r.x = On((x.shift \ {"E0"}) \ C) /\ r.c \in Keys
      BY <2>2 DEF Keys, Names
  <2>4. QED
      BY <2>1, <2>3 DEF Fit
<1>9. ASSUME d # [key |-> "E0", up |-> FALSE], ~(d.key # "E0" /\ d.up) PROVE \E f : Fit(f)
  <2>1. Right(now)
    <3>1. held \subseteq Flags
        BY <1>1, <1>6 DEF Flags
    <3>2. \A k \in DOMAIN togglecode : togglecode[k] \in Flags \ Modifiers
        BY DEF togglecode, Flags, Modifiers
    <3>3. now \subseteq Flags /\ \A m \in Modifiers : m \in now <=> m \in held
        BY <3>1, <3>2
    <3>4. d.up => CodeOf(d.key) = {}
        BY <1>2, <1>9, CodeLemma
    <3>5. \A m \in Modifiers : m # "E0" /\ (m \in held <=> m \in x.shift \/ m \in CodeOf(d.key))
        BY <1>4 DEF Modifiers
    <3>6. QED
        BY <3>3, <3>4, <3>5 DEF Down, Up
  <2>2. y = On(now)
      BY <1>3
  <2>3. y.text_length = 0
      BY <1>1, <2>2 DEF Con
  <2>4. c \in Keys
      BY <1>4, CharLemma
  <2> HIDE DEF now, c, y, r
  <2>5. Delete(y) = [x |-> y, c |-> ""]
      BY <2>3 DEF Delete
  <2> DEFINE v == IF now = {"NUMLOCK"} /\ c \in Digits THEN "" ELSE c
  <2>6. r = Delete(y) \/ r = [x |-> y, c |-> v]
      BY <1>5, <1>9
  <2>7. "" \in Keys
      BY DEF Keys, Names
  <2>8. r.x = y /\ r.c \in Keys
    <3>1. v \in Keys
        BY <2>4, <2>7
    <3> HIDE DEF v
    <3>2. r = [x |-> y, c |-> ""] \/ r = [x |-> y, c |-> v]
        BY <2>5, <2>6
    <3>3. r.x = y /\ (r.c = "" \/ r.c = v)
      <4>1. \A p, q : [x |-> p, c |-> q].x = p /\ [x |-> p, c |-> q].c = q
          OBVIOUS
      <4>2. CASE r = [x |-> y, c |-> ""]
          BY <4>1, <4>2
      <4>3. CASE r = [x |-> y, c |-> v]
          BY <4>1, <4>3
      <4>4. QED
          BY <3>2, <4>2, <4>3
    <3>4. QED
        BY <2>7, <3>1, <3>3
  <2> HIDE DEF Right, On
  <2>9. QED
      BY <2>1, <2>2, <2>8 DEF Fit
<1> HIDE DEF Fit
<1>10. \E f : Fit(f)
    BY <1>7, <1>8, <1>9
<1>11. QED
    BY <1>10 DEF Fit, d
\* A change of the console that leaves the ring alone.
LEMMA FedBySame ==
    ASSUME NEW x, NEW y \in Con,
           y.buf = x.buf, y.rpos = x.rpos, y.wpos = x.wpos, y.accepted = x.accepted, y.taken = x.taken
    PROVE  Fed(x, y) /\ (InOrder(y) <=> InOrder(x)) /\ (Takeable(y) <=> Takeable(x))
<1>1. Pending(y) = Pending(x)
    BY DEF Pending
<1>2. (WholeRings(y) <=> WholeRings(x)) /\ \A m : Last(y, m) <=> Last(x, m)
    BY <1>1 DEF WholeRings, Last
<1>3. QED
    BY <1>1, <1>2 DEF Fed, InOrder, Takeable, Overrun

LEMMA FedFurther ==
    ASSUME NEW x, NEW y, NEW z, Fed(x, y), Fed(y, z)
    PROVE  Fed(x, z)
BY DEF Fed

\* One turn of cons_intr(kbd_proc_data).
KbdTurn(y) == LET r == kbd_proc_data(y) IN store(r.x, r.c)

LEMMA KbdTurnLemma ==
    ASSUME NEW x \in Con, x.kbd # <<>>
    PROVE  LET s == KbdTurn(x)
               d == Head(x.kbd)
           IN  /\ Fed(x, s) /\ s.com = x.com /\ s.kbd = Tail(x.kbd)
               /\ \A m \in Modifiers : m \in s.shift <=> Down(d, m) \/ (~Up(d, m) /\ m \in x.shift)
<1> DEFINE r == kbd_proc_data(x)
           d == Head(x.kbd)
           y == r.x
<1>1. PICK f \in SUBSET Flags :
        /\ y = [x EXCEPT !.kbd = Tail(x.kbd), !.shift = f] /\ r.c \in Keys
        /\ \A m \in Modifiers : m \in f <=> Down(d, m) \/ (~Up(d, m) /\ m \in x.shift)
    BY ProcLemma
<1>2. Tail(x.kbd) \in Seq(Byte)
    BY Fields, TailLemma
<1>3. KbdTurn(x) = store(y, r.c)
    BY DEF KbdTurn
<1> HIDE DEF y, r, d
<1>4. /\ y \in Con /\ y.kbd = Tail(x.kbd) /\ y.shift = f /\ y.com = x.com /\ y.buf = x.buf
      /\ y.rpos = x.rpos /\ y.wpos = x.wpos /\ y.accepted = x.accepted /\ y.taken = x.taken
    BY <1>1, <1>2 DEF Con
<1>5. Fed(x, y)
    BY <1>4, FedBySame
<1> DEFINE s == store(y, r.c)
<1>6. Fed(y, s) /\ s.kbd = y.kbd /\ s.com = y.com /\ s.shift = y.shift
    BY <1>1, <1>4, StoreLemma
<1> HIDE DEF s
<1>7. Fed(x, s)
    BY <1>5, <1>6, FedFurther
<1>8. QED
    BY <1>1, <1>3, <1>4, <1>6, <1>7 DEF s, d

\* The first i bytes of q leave the modifier m set, where the flags s were.
InForce(q, m, s, i) ==
    \/ \E l \in 1 .. i : Down(q[l], m) /\ \A j \in l + 1 .. i : ~Up(q[j], m)
    \/ m \in s /\ \A j \in 1 .. i : ~Up(q[j], m)

LEMMA ForceStep ==
    ASSUME NEW q, NEW m, NEW s, NEW i \in Nat \ {0}
    PROVE  InForce(q, m, s, i) <=> Down(q[i], m) \/ (~Up(q[i], m) /\ InForce(q, m, s, i - 1))
<1>1. ~(Down(q[i], m) /\ Up(q[i], m))
    BY DEF Down, Up
<1>2. ASSUME InForce(q, m, s, i), ~Down(q[i], m)
      PROVE  ~Up(q[i], m) /\ InForce(q, m, s, i - 1)
  <2>1. CASE \E l \in 1 .. i : Down(q[l], m) /\ \A j \in l + 1 .. i : ~Up(q[j], m)
    <3>1. PICK l \in 1 .. i : Down(q[l], m) /\ \A j \in l + 1 .. i : ~Up(q[j], m)
        BY <2>1
    <3>2. l # i
        BY <1>2, <3>1
    <3>3. l \in 1 .. i - 1 /\ i \in l + 1 .. i /\ \A j \in l + 1 .. i - 1 : j \in l + 1 .. i
        BY <3>2
    <3>4. QED
        BY <3>1, <3>3 DEF InForce
  <2>2. CASE m \in s /\ \A j \in 1 .. i : ~Up(q[j], m)
    <3>1. i \in 1 .. i /\ \A j \in 1 .. i - 1 : j \in 1 .. i
        OBVIOUS
    <3>2. QED
        BY <2>2, <3>1 DEF InForce
  <2>3. QED
      BY <1>2, <2>1, <2>2 DEF InForce
<1>3. ASSUME Down(q[i], m) PROVE InForce(q, m, s, i)
  <2>1. i \in 1 .. i /\ \A j \in i + 1 .. i : FALSE
      OBVIOUS
  <2>2. QED
      BY <1>3, <2>1 DEF InForce
<1>4. ASSUME ~Up(q[i], m), InForce(q, m, s, i - 1) PROVE InForce(q, m, s, i)
  <2>1. \A l \in 1 .. i - 1 : l \in 1 .. i /\ \A j \in l + 1 .. i : j = i \/ j \in l + 1 .. i - 1
      OBVIOUS
  <2>2. \A j \in 1 .. i : j = i \/ j \in 1 .. i - 1
      OBVIOUS
  <2>3. QED
      BY <1>4, <2>1, <2>2 DEF InForce
<1>5. QED
    BY <1>2, <1>3, <1>4

LEMMA ForceSame ==
    ASSUME NEW p, NEW q, NEW m, NEW s, NEW i \in Nat, \A j \in 1 .. i : p[j] = q[j]
    PROVE  InForce(p, m, s, i) <=> InForce(q, m, s, i)
<1>1. \A l \in 1 .. i : \A j \in l + 1 .. i : j \in 1 .. i
    OBVIOUS
<1>2. QED
    BY <1>1 DEF InForce
\* cons_intr(kbd_proc_data) takes every byte that waits.
LEMMA KbdLemma ==
    ASSUME NEW x \in Con
    PROVE  LET s == kbd_intr(x)
           IN  /\ Fed(x, s) /\ s.com = x.com /\ s.kbd = <<>>
               /\ \A m \in Modifiers : m \in s.shift => InForce(x.kbd, m, x.shift, Len(x.kbd))
<1> DEFINE n == Len(x.kbd)
           Set(j) == {y \in Con :
                        /\ Fed(x, y) /\ y.com = x.com /\ y.kbd = SubSeq(x.kbd, j + 1, n)
                        /\ \A m \in Modifiers : m \in y.shift => InForce(x.kbd, m, x.shift, j)}
           I == [j \in 0 .. n |-> Set(j)]
           F == [j \in 1 .. n |-> [y \in Con |-> KbdTurn(y)]]
<1>1. x.kbd \in Seq(Byte) /\ n \in Nat
    BY Fields
<1> HIDE DEF n
<1>2. x \in Set(0)
  <2>1. SubSeq(x.kbd, 1, n) = x.kbd
      BY <1>1, SubSeqFull DEF n
  <2>2. Fed(x, x)
      BY DEF Fed
  <2>3. \A m \in Modifiers : m \in x.shift => InForce(x.kbd, m, x.shift, 0)
    <3>1. \A j \in 1 .. 0 : FALSE
        OBVIOUS
    <3>2. QED
        BY <3>1 DEF InForce
  <2>4. QED
      BY <2>1, <2>2, <2>3
<1>3. ASSUME NEW j \in 1 .. n, NEW y \in Set(j - 1) PROVE KbdTurn(y) \in Set(j)
  <2>1. y \in Con /\ Fed(x, y) /\ y.com = x.com /\ y.kbd = SubSeq(x.kbd, j, n)
        /\ \A m \in Modifiers : m \in y.shift => InForce(x.kbd, m, x.shift, j - 1)
      BY <1>1
  <2>2. Head(y.kbd) = x.kbd[j] /\ Tail(y.kbd) = SubSeq(x.kbd, j + 1, n)
    <3>1. j \in 1 .. Len(x.kbd) /\ n \in j .. Len(x.kbd)
        BY <1>1 DEF n
    <3>2. QED
        BY <1>1, <2>1, <3>1, HeadTailOfSubSeq
  <2>3. y.kbd # <<>>
    <3>1. \A i \in j .. n : x.kbd[i] \in Byte
        BY <1>1 DEF n
    <3>2. Len(y.kbd) = n - j + 1
        BY <1>1, <2>1, <3>1, SubSeqProperties
    <3>3. Len(y.kbd) # 0 /\ Len(<<>>) = 0
        BY <1>1, <3>2
    <3>4. QED
        BY <3>3
  <2> DEFINE s == KbdTurn(y)
  <2>4. /\ Fed(y, s) /\ s.com = y.com /\ s.kbd = Tail(y.kbd)
        /\ \A m \in Modifiers : m \in s.shift <=>
              Down(Head(y.kbd), m) \/ (~Up(Head(y.kbd), m) /\ m \in y.shift)
      BY <2>1, <2>3, KbdTurnLemma
  <2> HIDE DEF s
  <2>5. Fed(x, s)
      BY <2>1, <2>4, FedFurther
  <2>6. \A m \in Modifiers : m \in s.shift => InForce(x.kbd, m, x.shift, j)
    <3>1. j \in Nat \ {0}
        BY <1>1
    <3>2. \A m : InForce(x.kbd, m, x.shift, j) <=>
                   Down(x.kbd[j], m) \/ (~Up(x.kbd[j], m) /\ InForce(x.kbd, m, x.shift, j - 1))
        BY <3>1, ForceStep
    <3>3. QED
        BY <2>1, <2>2, <2>4, <3>2
  <2>7. s \in Con
      BY <2>4 DEF Fed
  <2>8. QED
      BY <2>1, <2>2, <2>4, <2>5, <2>6, <2>7 DEF s
<1>4. \A j : Set(j) \subseteq Con
    OBVIOUS
<1> HIDE DEF Set
<1>5. I \in [0 .. n -> SUBSET Con] /\ x \in I[0]
    BY <1>1, <1>2, <1>4
<1>6. \A j \in 1 .. n : \A y \in I[j - 1] : F[j][y] = KbdTurn(y) /\ F[j][y] \in I[j]
  <2> TAKE j \in 1 .. n
  <2>1. j - 1 \in 0 .. n /\ j \in 0 .. n
      BY <1>1
  <2> TAKE y \in I[j - 1]
  <2>2. y \in Set(j - 1) /\ y \in Con
      BY <1>4, <2>1
  <2>3. F[j][y] = KbdTurn(y)
      BY <2>2
  <2>4. QED
      BY <1>3, <2>1, <2>2, <2>3
<1>7. PICK g : Loop(g, x, n, F, I)
  <2> HIDE DEF F, I
  <2> QED
      BY <1>1, <1>5, <1>6, LoopLemma
<1>8. g = [j \in 0 .. n |-> IF j = 0 THEN x ELSE KbdTurn(g[j - 1])]
  <2>1. \A j \in 1 .. n : F[j][g[j - 1]] = KbdTurn(g[j - 1])
    <3> TAKE j \in 1 .. n
    <3>1. j - 1 \in 0 .. n
        BY <1>1
    <3>2. g[j - 1] \in I[j - 1]
      <4> HIDE DEF I, F
      <4> QED
          BY <1>7, <3>1 DEF Loop
    <3> HIDE DEF I, F
    <3>3. QED
        BY <1>6, <3>2
  <2> HIDE DEF I, F
  <2>2. g = [j \in 0 .. n |-> IF j = 0 THEN x ELSE F[j][g[j - 1]]]
      BY <1>7 DEF Loop
  <2>3. \A j \in 0 .. n : (IF j = 0 THEN x ELSE F[j][g[j - 1]])
           = IF j = 0 THEN x ELSE KbdTurn(g[j - 1])
    <3>1. \A j \in 0 .. n : j # 0 => j \in 1 .. n
        BY <1>1
    <3>2. QED
        BY <2>1, <3>1, Zenon
  <2>4. QED
      BY <2>2, <2>3
<1> DEFINE from[j \in 0 .. n] == IF j = 0 THEN x ELSE KbdTurn(from[j - 1])
<1>9. from = [j \in 0 .. n |-> IF j = 0 THEN x ELSE KbdTurn(from[j - 1])]
    BY <1>8, Zenon
<1>10. kbd_intr(x) = from[n]
    BY DEF kbd_intr, KbdTurn, n
<1> HIDE DEF from
<1>11. from[0] = x /\ \A j \in 1 .. n : from[j] = KbdTurn(from[j - 1])
  <2>1. 0 \in 0 .. n /\ \A j \in 1 .. n : j \in 0 .. n /\ j # 0
      BY <1>1
  <2>2. QED
      BY <1>9, <2>1
<1>12. from[n] \in Set(n)
  <2> DEFINE S == {j \in 0 .. n : from[j] \in Set(j)}
  <2>1. 0 \in S
      BY <1>1, <1>2, <1>11
  <2>2. \A j \in 1 .. n : j - 1 \in S => j \in S
    <3> TAKE j \in 1 .. n
    <3> HAVE j - 1 \in S
    <3>1. from[j - 1] \in Set(j - 1)
        OBVIOUS
    <3>2. from[j] \in Set(j) /\ j \in 0 .. n
        BY <1>1, <1>3, <1>11, <3>1
    <3>3. QED
        BY <3>2
  <2>3. 0 .. n \subseteq S
    <3> HIDE DEF S
    <3> QED
        BY <1>1, <2>1, <2>2, BoundedInduction
  <2>4. n \in 0 .. n
      BY <1>1
  <2>5. QED
      BY <2>3, <2>4
<1>13. SubSeq(x.kbd, n + 1, n) = <<>>
    BY <1>1, SubSeqEmpty
<1>14. QED
    BY <1>10, <1>12, <1>13 DEF Set, n

\* The serial line holds one byte at most.
LEMMA SerialLemma ==
    ASSUME NEW x \in Con
    PROVE  LET s == serial_intr(x)
           IN  Fed(x, s) /\ s.kbd = x.kbd /\ s.shift = x.shift
<1> DEFINE SerialTurn(y) == LET r == serial_proc_data(y) IN store(r.x, r.c)
           n == Len(x.com)
           from[j \in 0 .. n] == IF j = 0 THEN x ELSE SerialTurn(from[j - 1])
           g == [j \in 0 .. n |-> IF j = 0 THEN x ELSE SerialTurn(x)]
<1>1. n \in {0, 1} /\ (n = 1 => x.com = <<"s">>)
  <2>1. x.com = <<>> \/ x.com = <<"s">>
      BY Fields
  <2>2. Len(<<>>) = 0 /\ Len(<<"s">>) = 1
      OBVIOUS
  <2>3. CASE x.com = <<>>
      BY <2>2, <2>3
  <2>4. CASE x.com = <<"s">>
      BY <2>2, <2>4
  <2>5. QED
      BY <2>1, <2>3, <2>4
<1> HIDE DEF SerialTurn, n
<1>2. g = [j \in 0 .. n |-> IF j = 0 THEN x ELSE SerialTurn(g[j - 1])]
  <2>1. \A j \in 0 .. n : j # 0 => j - 1 = 0 /\ g[j - 1] = x
      BY <1>1
  <2>2. QED
      BY <2>1
<1>3. from = [j \in 0 .. n |-> IF j = 0 THEN x ELSE SerialTurn(from[j - 1])]
  <2> HIDE DEF g
  <2> QED
      BY <1>2, Zenon
<1>4. serial_intr(x) = from[n]
    BY DEF serial_intr, SerialTurn, n
<1> HIDE DEF from, g
<1>5. n = 0 => from[n] = x
    BY <1>3
<1>6. n = 1 => from[n] = SerialTurn(x)
    BY <1>3
<1>7. Fed(x, x)
    BY DEF Fed
<1>8. ASSUME n = 1
      PROVE  Fed(x, SerialTurn(x)) /\ SerialTurn(x).kbd = x.kbd /\ SerialTurn(x).shift = x.shift
  <2> DEFINE y == [x EXCEPT !.com = Tail(@)]
             s == store(y, "s")
  <2>1. SerialTurn(x) = s
      BY <1>1, <1>8 DEF SerialTurn, serial_proc_data
  <2>2. Tail(<<"s">>) = <<>>
      OBVIOUS
  <2>3. /\ y \in Con /\ y.kbd = x.kbd /\ y.shift = x.shift /\ y.buf = x.buf
        /\ y.rpos = x.rpos /\ y.wpos = x.wpos /\ y.accepted = x.accepted /\ y.taken = x.taken
      BY <1>1, <1>8, <2>2 DEF Con
  <2> HIDE DEF y
  <2>4. Fed(x, y)
      BY <2>3, FedBySame
  <2>5. "s" \in Keys
      BY DEF Keys, Names
  <2>6. Fed(y, s) /\ s.kbd = y.kbd /\ s.shift = y.shift
      BY <2>3, <2>5, StoreLemma
  <2> HIDE DEF s
  <2>7. QED
      BY <2>1, <2>3, <2>4, <2>6, FedFurther
<1>9. QED
    BY <1>1, <1>4, <1>5, <1>6, <1>7, <1>8
-----------------------------------------------------------------------------
(* What the processes and the keys keep true.                              *)

\* A modifier that the waiting bytes leave set has a key that is down.
Held(x, d) ==
    \A m \in Modifiers : InForce(x.kbd, m, x.shift, Len(x.kbd)) => \E k \in d : m \in CodeOf(k)

\* The bytes that wait are taken, and the flags are what they say.
Heard(x, s) ==
    s.kbd = <<>> /\ \A m \in Modifiers : m \in s.shift => InForce(x.kbd, m, x.shift, Len(x.kbd))

LEMMA HeardLemma ==
    ASSUME NEW x, NEW s, NEW d, Held(x, d), Heard(x, s)
    PROVE  Held(s, d)
<1>1. \A j \in 1 .. 0 : FALSE
    OBVIOUS
<1>2. Len(<<>>) = 0
    OBVIOUS
<1>3. \A m : InForce(<<>>, m, s.shift, 0) => m \in s.shift
    BY <1>1 DEF InForce
<1>4. QED
    BY <1>2, <1>3 DEF Held, Heard

\* With the read position inside the ring, a character waits or none does.
LEMMA WaitingLemma ==
    ASSUME NEW x \in Con, x.rpos # N
    PROVE  Waiting(x) <=> Pending(x) > 0
<1>1. N \in Nat \ {0, 1} /\ x.wpos \in 0 .. N - 1 /\ x.rpos \in 0 .. N
      /\ Pending(x) = IF x.rpos <= x.wpos THEN x.wpos - x.rpos ELSE x.wpos - x.rpos + N
    BY Sizes, Fields, PendingIs
<1>2. QED
    BY <1>1 DEF Waiting

LEMMA PollLemma ==
    ASSUME NEW x \in Con, InOrder(x), x.rpos # N
    PROVE  LET s == cons_getc(x).x
           IN  s \in Con /\ InOrder(s) /\ s.rpos # N /\ Heard(x, s)
<1> DEFINE q == serial_intr(x)
           p == kbd_intr(q)
           s == cons_getc(x).x
<1>1. Fed(x, q) /\ q.kbd = x.kbd /\ q.shift = x.shift
    BY SerialLemma
<1>2. q \in Con
    BY <1>1 DEF Fed
<1>3. s = IF Waiting(p) THEN wrap(take(p)) ELSE p
    BY DEF cons_getc
<1> HIDE DEF q
<1>4. Fed(q, p) /\ Heard(q, p)
    BY <1>2, KbdLemma DEF Heard
<1> HIDE DEF p
<1>5. Fed(x, p) /\ Heard(x, p)
    BY <1>1, <1>4, FedFurther DEF Heard
<1>6. p \in Con /\ InOrder(p) /\ p.rpos # N
    BY <1>5 DEF Fed
<1> HIDE DEF s
<1>7. CASE Waiting(p)
  <2>1. Takeable(p)
      BY <1>6, <1>7, WaitingLemma DEF Takeable
  <2> DEFINE t == take(p)
  <2>2. t \in Con /\ InOrder(t) /\ t.kbd = p.kbd /\ t.shift = p.shift
      BY <1>6, <2>1, TakeLemma
  <2>3. s = wrap(t)
      BY <1>3, <1>7
  <2> HIDE DEF t
  <2>4. s \in Con /\ s.rpos # N /\ InOrder(s) /\ s.kbd = t.kbd /\ s.shift = t.shift
      BY <2>2, <2>3, WrapLemma
  <2>5. QED
      BY <1>5, <2>2, <2>4 DEF Heard, s
<1>8. CASE ~Waiting(p)
    BY <1>3, <1>5, <1>6, <1>8 DEF s
<1>9. QED
    BY <1>7, <1>8

\* The bytes of a key change what is in force by the key's own modifier.
LEMMA BytesHeld ==
    ASSUME NEW q \in Seq(Byte), NEW m, NEW s, NEW k \in Keys, NEW up \in BOOLEAN
    PROVE  LET r == q \o Bytes(k, up)
           IN  /\ r \in Seq(Byte)
               /\ InForce(r, m, s, Len(r)) => IF m \in CodeOf(k) THEN ~up ELSE InForce(q, m, s, Len(q))
<1> DEFINE r == q \o Bytes(k, up)
           n == Len(q)
<1>1. PICK a, d \in Byte :
        /\ Bytes(k, up) = <<d>> \/ Bytes(k, up) = <<a, d>>
        /\ CodeOf(a.key) = {} /\ CodeOf(d.key) = CodeOf(k) /\ d.up = up
    BY BytesLemma
<1>2. n \in Nat /\ \A j \in 1 .. n : r[j] = q[j]
  <2>1. CASE Bytes(k, up) = <<d>>
      BY <2>1
  <2>2. CASE Bytes(k, up) = <<a, d>>
      BY <2>2
  <2>3. QED
      BY <1>1, <2>1, <2>2
<1>3. InForce(r, m, s, n) <=> InForce(q, m, s, n)
    BY <1>2, ForceSame
<1>4. Down(d, m) => m \in CodeOf(k) /\ ~up
    BY <1>1 DEF Down
<1>5. m \in CodeOf(k) /\ ~Up(d, m) => ~up
    BY <1>1 DEF Up
<1>6. ~Down(a, m) /\ ~Up(a, m)
    BY <1>1 DEF Down, Up
<1>7. \A l \in Nat : \A e : r[l + 1] = e =>
          (InForce(r, m, s, l + 1) <=> Down(e, m) \/ (~Up(e, m) /\ InForce(r, m, s, l)))
  <2> HIDE DEF r
  <2> TAKE l \in Nat
  <2> DEFINE i == l + 1
  <2>1. i \in Nat \ {0} /\ i - 1 = l
      OBVIOUS
  <2> HIDE DEF i
  <2>2. InForce(r, m, s, i) <=> Down(r[i], m) \/ (~Up(r[i], m) /\ InForce(r, m, s, i - 1))
      BY <2>1, ForceStep
  <2>3. QED
      BY <2>1, <2>2, Zenon DEF i
<1>8. CASE Bytes(k, up) = <<d>>
  <2>1. r \in Seq(Byte) /\ Len(r) = n + 1 /\ r[n + 1] = d
      BY <1>2, <1>8
  <2> HIDE DEF r, n
  <2>2. InForce(r, m, s, n + 1) <=> Down(d, m) \/ (~Up(d, m) /\ InForce(r, m, s, n))
      BY <1>2, <1>7, <2>1, Zenon
  <2>3. QED
      BY <1>3, <1>4, <1>5, <2>1, <2>2 DEF r, n
<1>9. CASE Bytes(k, up) = <<a, d>>
  <2>1. /\ r \in Seq(Byte) /\ Len(r) = (n + 1) + 1 /\ r[n + 1] = a /\ r[(n + 1) + 1] = d
        /\ n + 1 \in Nat
      BY <1>2, <1>9
  <2> HIDE DEF r, n
  <2>2. InForce(r, m, s, n + 1) <=> Down(a, m) \/ (~Up(a, m) /\ InForce(r, m, s, n))
      BY <1>2, <1>7, <2>1, Zenon
  <2>3. InForce(r, m, s, (n + 1) + 1) <=> Down(d, m) \/ (~Up(d, m) /\ InForce(r, m, s, n + 1))
      BY <1>7, <2>1, Zenon
  <2>4. QED
      BY <1>3, <1>4, <1>5, <1>6, <2>1, <2>2, <2>3 DEF r, n
<1>10. QED
    BY <1>1, <1>8, <1>9
-----------------------------------------------------------------------------
(* The inductive invariant.                                                *)

TypeOK ==
    /\ con \in Con /\ locking \in BOOLEAN /\ proc \in Env /\ down \subseteq ReaderKeys
    /\ pc \in [Env -> {"user", "test", "take", "wrap", "poll"}]
    /\ tf_IF \in [Env -> BOOLEAN]

\* The process that has the console runs; it polls, and without the lock a
\* process waits with interrupts on.  One process at a time is in sys_cgetc.
OneReader ==
    /\ \A e \in Env : ~tf_IF[e] => proc = e /\ locking
    /\ \A e \in Env : pc[e] = "poll" => ~tf_IF[e]
    /\ \A e \in Env : pc[e] \in {"test", "take", "wrap"} => tf_IF[e] /\ ~locking
    /\ \A e, f \in Env : pc[e] # "user" /\ pc[f] # "user" => e = f

\* What a reader has seen still waits when it takes it, whatever came in since.
RingKept ==
    /\ (\A e \in Env : pc[e] # "take") => InOrder(con)
    /\ \A e \in Env : pc[e] = "take" => Takeable(con)
    /\ (\A e \in Env : pc[e] # "wrap") => con.rpos # N

Inv == TypeOK /\ OneReader /\ RingKept /\ Held(con, down)

LEMMA InitInv == ReadersInit => Inv
<1> SUFFICES ASSUME ReadersInit PROVE Inv
    OBVIOUS
<1>1. con = cons_init /\ N \in Nat \ {0, 1} /\ Twice \in Nat \ {0}
    BY Sizes DEF ReadersInit
<1>2. con \in Con
  <2>1. <<>> \in Seq(Byte) /\ 0 \in 0 .. N /\ 0 \in 0 .. N - 1 /\ 0 \in 0 .. Twice - 1
      BY <1>1
  <2>2. "" \in Keys /\ " " \in Keys
      BY DEF Keys, Names
  <2>3. [i \in 0 .. N - 1 |-> [c |-> "", n |-> 0]] \in [0 .. N - 1 -> [c : Keys, n : 0 .. Twice - 1]]
      BY <2>1, <2>2
  <2>4. [i \in 0 .. CRT_SIZE - 1 |-> " "] \in [0 .. CRT_SIZE - 1 -> Keys]
      BY <2>2
  <2>5. QED
      BY <1>1, <2>1, <2>3, <2>4 DEF Con, cons_init, N
<1>3. con.rpos = 0 /\ con.wpos = 0 /\ con.accepted = 0 /\ con.taken = 0 /\ con.kbd = <<>>
      /\ con.shift = {}
    BY <1>1 DEF cons_init
<1>4. InOrder(con)
  <2>1. Pending(con) = 0
      BY <1>1, <1>2, <1>3, PendingIs, Fields
  <2>2. 0 - 0 - 0 = 0 /\ 0 % N = 0
      BY <1>1, ModLemma
  <2>3. \A j \in 1 .. 0 : FALSE
      OBVIOUS
  <2>4. QED
      BY <1>3, <2>1, <2>2, <2>3 DEF InOrder, WholeRings, Last, N
<1>5. Held(con, down)
  <2>1. \A j \in 1 .. 0 : FALSE
      OBVIOUS
  <2>2. Len(<<>>) = 0
      OBVIOUS
  <2>3. QED
      BY <1>3, <2>1, <2>2 DEF Held, InForce
<1>6. QED
    BY <1>1, <1>2, <1>3, <1>4, <1>5 DEF ReadersInit, Inv, TypeOK, OneReader, RingKept

\* A step of the devices changes neither who reads nor how far.
LEMMA DeviceStep ==
    ASSUME Inv, Fed(con, con'), Held(con', down'), down' \subseteq ReaderKeys,
           UNCHANGED <<locking, proc, pc, tf_IF>>
    PROVE  Inv'
<1>1. con' \in Con /\ con'.rpos = con.rpos
    BY DEF Fed
<1>2. TypeOK' /\ OneReader'
    BY <1>1 DEF Inv, TypeOK, OneReader
<1>3. RingKept'
    BY <1>1 DEF Inv, RingKept, Fed
<1>4. QED
    BY <1>2, <1>3 DEF Inv

LEMMA KeyStep ==
    ASSUME Inv, NEW k \in ReaderKeys, NEW up \in BOOLEAN, Key(k, up)
    PROVE  Inv'
<1> DEFINE q == con.kbd \o Bytes(k, up)
<1>1. con \in Con /\ k \in Keys /\ Held(con, down)
    BY DEF Inv, TypeOK, Keys
<1>2. con.kbd \in Seq(Byte)
    BY <1>1, Fields
<1>3. /\ q \in Seq(Byte)
      /\ \A m : InForce(q, m, con.shift, Len(q)) =>
                  IF m \in CodeOf(k) THEN ~up ELSE InForce(con.kbd, m, con.shift, Len(con.kbd))
    BY <1>1, <1>2, BytesHeld
<1>4. con' = [con EXCEPT !.kbd = q] /\ down' = (IF up THEN down \ {k} ELSE down \union {k})
      /\ UNCHANGED <<locking, proc, pc, tf_IF>>
    BY DEF Key
<1> HIDE DEF q
<1>5. /\ con' \in Con /\ con'.kbd = q /\ con'.shift = con.shift /\ con'.buf = con.buf
      /\ con'.rpos = con.rpos /\ con'.wpos = con.wpos /\ con'.accepted = con.accepted
      /\ con'.taken = con.taken
    BY <1>1, <1>3, <1>4 DEF Con
<1>6. Fed(con, con')
    BY <1>5, FedBySame
<1>7. Held(con', down')
  <2> SUFFICES ASSUME NEW m \in Modifiers, InForce(q, m, con.shift, Len(q))
               PROVE  \E l \in down' : m \in CodeOf(l)
      BY <1>5 DEF Held
  <2>1. CASE m \in CodeOf(k)
      BY <1>3, <1>4, <2>1
  <2>2. CASE m \notin CodeOf(k)
    <3>1. PICK l \in down : m \in CodeOf(l)
        BY <1>1, <1>3, <2>2 DEF Held
    <3>2. l \in down'
        BY <1>4, <2>2, <3>1
    <3>3. QED
        BY <3>1, <3>2
  <2>3. QED
      BY <2>1, <2>2
<1>8. down' \subseteq ReaderKeys
    BY <1>4 DEF Inv, TypeOK
<1>9. QED
    BY <1>4, <1>6, <1>7, <1>8, DeviceStep

\* A step of a process that leaves the console alone or reads from it.
LEMMA ReaderStep ==
    ASSUME Inv, NEW e \in Env, proc = e, NEW l \in {"user", "test", "take", "wrap", "poll"},
           pc' = [pc EXCEPT ![e] = l], UNCHANGED <<locking, proc, tf_IF, down>>,
           \A f \in Env \ {e} : pc[f] = "user",
           l = "poll" => ~tf_IF[e],
           l \in {"test", "take", "wrap"} => tf_IF[e] /\ ~locking,
           con' \in Con, Held(con', down),
           IF l = "take" THEN Takeable(con') ELSE InOrder(con'),
           l # "wrap" => con'.rpos # N
    PROVE  Inv'
<1>1. pc' \in [Env -> {"user", "test", "take", "wrap", "poll"}] /\ pc'[e] = l
      /\ \A f \in Env \ {e} : pc'[f] = "user"
    BY DEF Inv, TypeOK
<1>2. TypeOK'
    BY <1>1 DEF Inv, TypeOK
<1>3. OneReader'
    BY <1>1 DEF Inv, OneReader
<1>4. RingKept'
    BY <1>1 DEF RingKept
<1>5. QED
    BY <1>2, <1>3, <1>4 DEF Inv

\* While a process is in sys_cgetc, or has the console, the others are not.
LEMMA Alone ==
    ASSUME Inv, NEW e \in Env, pc[e] # "user" \/ ~tf_IF[e]
    PROVE  \A f \in Env \ {e} : pc[f] = "user"
<1>1. CASE pc[e] # "user"
    BY <1>1 DEF Inv, OneReader
<1>2. CASE ~tf_IF[e]
  <2>1. SUFFICES ASSUME NEW f \in Env \ {e}, pc[f] # "user" PROVE FALSE
      OBVIOUS
  <2>2. pc[f] \in {"test", "take", "wrap", "poll"} /\ locking
      BY <1>2, <2>1 DEF Inv, TypeOK, OneReader
  <2>3. ~tf_IF[f]
      BY <2>2 DEF Inv, OneReader
  <2>4. QED
      BY <1>2, <2>3 DEF Inv, OneReader
<1>3. QED
    BY <1>1, <1>2
LEMMA NextInv ==
    ASSUME Inv, [ReadersNext]_rvars
    PROVE  Inv'
<1>1. con \in Con /\ Held(con, down) /\ down \subseteq ReaderKeys /\ proc \in Env
    BY DEF Inv, TypeOK
<1>2. ASSUME NEW k \in ReaderKeys, Press(k) \/ Release(k) PROVE Inv'
    BY <1>2, KeyStep DEF Press, Release
<1>3. CASE SerialIn
  <2>1. con' = [con EXCEPT !.com = <<"s">>] /\ UNCHANGED <<locking, proc, pc, tf_IF, down>>
      BY <1>3 DEF SerialIn
  <2>2. /\ con' \in Con /\ con'.kbd = con.kbd /\ con'.shift = con.shift /\ con'.buf = con.buf
        /\ con'.rpos = con.rpos /\ con'.wpos = con.wpos /\ con'.accepted = con.accepted
        /\ con'.taken = con.taken
      BY <1>1, <2>1 DEF Con
  <2>3. Fed(con, con') /\ Held(con', down')
      BY <1>1, <2>1, <2>2, FedBySame DEF Held
  <2>4. QED
      BY <1>1, <2>1, <2>3, DeviceStep
<1>4. CASE keyboard_interrupt_handler
  <2>1. con' = kbd_intr(con) /\ UNCHANGED <<locking, proc, pc, tf_IF, down>>
      BY <1>4 DEF keyboard_interrupt_handler
  <2>2. Fed(con, con') /\ Heard(con, con')
      BY <1>1, <2>1, KbdLemma DEF Heard
  <2>3. Held(con', down')
      BY <1>1, <2>1, <2>2, HeardLemma
  <2>4. QED
      BY <1>1, <2>1, <2>2, <2>3, DeviceStep
<1>5. CASE serial_interrupt_handler
  <2>1. con' = serial_intr(con) /\ UNCHANGED <<locking, proc, pc, tf_IF, down>>
      BY <1>5 DEF serial_interrupt_handler
  <2>2. Fed(con, con') /\ con'.kbd = con.kbd /\ con'.shift = con.shift
      BY <1>1, <2>1, SerialLemma
  <2>3. Held(con', down')
      BY <1>1, <2>1, <2>2 DEF Held
  <2>4. QED
      BY <1>1, <2>1, <2>2, <2>3, DeviceStep
<1>6. CASE clock_interrupt_handler
    BY <1>6 DEF clock_interrupt_handler, Inv, TypeOK, OneReader, RingKept
<1>7. ASSUME NEW e \in Env, cons_lock(e) \/ cons_unlock(e) PROVE Inv'
    BY <1>7 DEF cons_lock, cons_unlock, Runs, Inv, TypeOK, OneReader, RingKept
<1>8. ASSUME NEW e \in Env, sys_cgetc(e) PROVE Inv'
  <2> DEFINE l == IF tf_IF[e] THEN "test" ELSE "poll"
  <2>1. /\ proc = e /\ pc' = [pc EXCEPT ![e] = l] /\ UNCHANGED <<con, locking, proc, tf_IF, down>>
        /\ pc[e] = "user" /\ IF locking THEN ~tf_IF[e] ELSE \A f \in Env : pc[f] = "user"
      BY <1>8 DEF sys_cgetc, Step, Runs
  <2>2. \A f \in Env : pc[f] = "user"
      BY <2>1, Alone
  <2>3. InOrder(con') /\ con'.rpos # N /\ con' \in Con /\ Held(con', down)
      BY <1>1, <2>1, <2>2 DEF Inv, RingKept
  <2>4. l \in {"test", "poll"} /\ (l = "poll" => ~tf_IF[e]) /\ (l = "test" => tf_IF[e])
      BY DEF Inv, TypeOK
  <2>5. l = "test" => ~locking
      BY <2>1, <2>4
  <2> HIDE DEF l
  <2>6. QED
      BY <2>1, <2>2, <2>3, <2>4, <2>5, ReaderStep
<1>9. ASSUME NEW e \in Env, getc2_test(e) PROVE Inv'
  <2>1. /\ proc = e /\ pc[e] = "test" /\ Waiting(con) /\ pc' = [pc EXCEPT ![e] = "take"]
        /\ UNCHANGED <<con, locking, proc, tf_IF, down>>
      BY <1>9 DEF getc2_test, Step, Runs
  <2>2. \A f \in Env \ {e} : pc[f] = "user"
      BY <2>1, Alone
  <2>3. InOrder(con) /\ con.rpos # N /\ tf_IF[e] /\ ~locking
      BY <2>1, <2>2 DEF Inv, RingKept, OneReader
  <2>4. Takeable(con)
      BY <1>1, <2>1, <2>3, WaitingLemma DEF Takeable
  <2>5. Takeable(con') /\ con'.rpos # N /\ con' \in Con /\ Held(con', down)
      BY <1>1, <2>1, <2>3, <2>4
  <2>6. QED
      BY <2>1, <2>2, <2>3, <2>5, ReaderStep
<1>10. ASSUME NEW e \in Env, getc2_take(e) PROVE Inv'
  <2>1. /\ proc = e /\ pc[e] = "take" /\ con' = take(con) /\ pc' = [pc EXCEPT ![e] = "wrap"]
        /\ UNCHANGED <<locking, proc, tf_IF, down>>
      BY <1>10 DEF getc2_take, Step, Runs
  <2>2. \A f \in Env \ {e} : pc[f] = "user"
      BY <2>1, Alone
  <2>3. Takeable(con) /\ con.rpos # N /\ tf_IF[e] /\ ~locking
      BY <2>1, <2>2 DEF Inv, RingKept, OneReader
  <2>4. con' \in Con /\ InOrder(con') /\ con'.kbd = con.kbd /\ con'.shift = con.shift
      BY <1>1, <2>1, <2>3, TakeLemma
  <2>5. Held(con', down)
      BY <1>1, <2>4 DEF Held
  <2>6. QED
      BY <2>1, <2>2, <2>3, <2>4, <2>5, ReaderStep
<1>11. ASSUME NEW e \in Env, getc2_wrap(e) PROVE Inv'
  <2>1. /\ proc = e /\ pc[e] = "wrap" /\ con' = wrap(con) /\ pc' = [pc EXCEPT ![e] = "user"]
        /\ UNCHANGED <<locking, proc, tf_IF, down>>
      BY <1>11 DEF getc2_wrap, Step, Runs
  <2>2. \A f \in Env \ {e} : pc[f] = "user"
      BY <2>1, Alone
  <2>3. InOrder(con)
      BY <2>1, <2>2 DEF Inv, RingKept
  <2>4. con' \in Con /\ con'.rpos # N /\ InOrder(con') /\ con'.kbd = con.kbd /\ con'.shift = con.shift
      BY <1>1, <2>1, <2>3, WrapLemma
  <2>5. Held(con', down)
      BY <1>1, <2>4 DEF Held
  <2>6. QED
      BY <2>1, <2>2, <2>4, <2>5, ReaderStep
<1>12. ASSUME NEW e \in Env, getc_poll(e) PROVE Inv'
  <2> DEFINE l == IF cons_getc(con).c = "" THEN "poll" ELSE "user"
  <2>1. /\ proc = e /\ pc[e] = "poll" /\ con' = cons_getc(con).x /\ pc' = [pc EXCEPT ![e] = l]
        /\ UNCHANGED <<locking, proc, tf_IF, down>>
      BY <1>12 DEF getc_poll, Step, Runs
  <2>2. l \in {"poll", "user"}
      OBVIOUS
  <2> HIDE DEF l
  <2>3. \A f \in Env \ {e} : pc[f] = "user"
      BY <2>1, Alone
  <2>4. InOrder(con) /\ con.rpos # N /\ ~tf_IF[e]
      BY <2>1, <2>3 DEF Inv, RingKept, OneReader
  <2>5. con' \in Con /\ InOrder(con') /\ con'.rpos # N /\ Heard(con, con')
      BY <1>1, <2>1, <2>4, PollLemma
  <2>6. Held(con', down)
      BY <1>1, <2>5, HeardLemma
  <2>7. QED
      BY <2>1, <2>2, <2>3, <2>4, <2>5, <2>6, ReaderStep
<1>13. CASE UNCHANGED rvars
    BY <1>13 DEF rvars, Inv, TypeOK, OneReader, RingKept
<1>14. QED
    BY <1>2, <1>3, <1>4, <1>5, <1>6, <1>7, <1>8, <1>9, <1>10, <1>11, <1>12, <1>13 DEF ReadersNext

LEMMA InvOrder == Inv => InputInOrder
<1> SUFFICES ASSUME Inv PROVE InputInOrder
    OBVIOUS
<1>1. con \in Con /\ Held(con, down)
    BY DEF Inv, TypeOK
<1>2. RingInOrder(con)
  <2>1. CASE \A e \in Env : pc[e] # "take"
      BY <1>1, <2>1, OrderLemma DEF Inv, RingKept
  <2>2. CASE ~\A e \in Env : pc[e] # "take"
    <3>1. Takeable(con)
        BY <2>2 DEF Inv, RingKept
    <3>2. CASE InOrder(con)
        BY <1>1, <3>2, OrderLemma
    <3>3. CASE WholeRings(con) /\ Pending(con) = 0
      <4>1. \A j \in 0 .. 0 - 1 : FALSE
          OBVIOUS
      <4>2. QED
          BY <3>3, <4>1 DEF RingInOrder, WholeRings, N
    <3>4. QED
        BY <3>1, <3>2, <3>3 DEF Takeable, Overrun
  <2>3. QED
      BY <2>1, <2>2
<1>3. \A e \in Env : ~tf_IF[e] => proc = e /\ \A f \in Env \ {e} : pc[f] = "user"
    BY Alone DEF Inv, OneReader
<1>4. ASSUME con.kbd = <<>>, NEW m \in Modifiers, m \in con.shift
      PROVE  \E k \in down : m \in CodeOf(k)
  <2>1. Len(<<>>) = 0 /\ \A j \in 1 .. 0 : FALSE
      OBVIOUS
  <2>2. InForce(con.kbd, m, con.shift, Len(con.kbd))
      BY <1>4, <2>1 DEF InForce
  <2>3. QED
      BY <1>1, <2>2 DEF Held
<1>5. con.kbd = <<>> => /\ "SHIFT" \in con.shift => {"lshift", "rshift"} \intersect down # {}
                        /\ "CTL" \in con.shift => {"ctl", "rctl"} \intersect down # {}
    BY <1>4, CodeLemma DEF Modifiers
<1>6. QED
    BY <1>2, <1>3, <1>5 DEF InputInOrder

\* Whatever keys are pressed and released, whatever the serial line sends and
\* wherever the clock switches processes, a reader finds what it has seen and
\* the console has one owner.
THEOREM InvAlways == ReadersSpec => []Inv
<1>1. ReadersInit => Inv
    BY InitInv
<1>2. Inv /\ [ReadersNext]_rvars => Inv'
    BY NextInv
<1>3. QED
    BY <1>1, <1>2, PTL DEF ReadersSpec

\* What is read is what was typed, in that order or lost by whole rings; the
\* one with the console reads alone; no modifier outlasts its key.
THEOREM InputInOrderAlways == ReadersSpec => []InputInOrder
<1>1. Inv => InputInOrder
    BY InvOrder
<1>2. QED
    BY <1>1, InvAlways, PTL
=============================================================================
