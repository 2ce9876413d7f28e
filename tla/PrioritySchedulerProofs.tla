---------------------- MODULE PrioritySchedulerProofs ----------------------
(***************************************************************************)
(* PriorityScheduler proved, for any number of processes, levels and       *)
(* thresholds: the queues are well-formed lists, every process is in the   *)
(* queue that its status and its priority name, and the CPU goes to a      *)
(* process of the highest priority there is.                               *)
(***************************************************************************)
EXTENDS PriorityScheduler, QueueLemmas, SequenceTheorems

L == INSTANCE ListProofs WITH Elm <- Env, List <- Queue, h <- <<>>, seq <- <<>>, loop <- <<>>

\* The queues and the fields of all processes, in the middle of a step too.
SchedType ==
    [h : Heap, status : [Env -> Statuses], priority : [Env -> Priority],
     nTicks : [Env -> 0 .. Max(Thresholds) + 1], cur : Pointer]

\* The queue q is where a process belongs that has the status and the
\* priority e has in s.
Home(s, e, q) ==
    \/ s.status[e] = "NEW"     /\ q = NewQ
    \/ s.status[e] = "READY"   /\ q = ReadyQ(s.priority[e])
    \/ s.status[e] = "BLOCKED" /\ q = ChanQ
    \/ s.status[e] = "EXIT"    /\ q = ExitQ

\* The sequences S hold every process where it belongs, except that those of
\* D are in the hand of the code that moves them and in no queue.
Placed(s, S, D) ==
    \A e \in Env, q \in Queue : L!Has(S[q], e) <=> e \notin D /\ Home(s, e, q)

Good(s, D) ==
    /\ s \in SchedType
    /\ \E S : L!Stands(s.h, S) /\ Placed(s, S, D)

-----------------------------------------------------------------------------
(* Constants and the lists.                                                *)

\* What the assumption on the constants gives.
LEMMA Constants ==
    /\ L!ListConstants
    /\ NULL \notin Env
    /\ Max(Levels) \in Nat /\ Max(Levels) > 0 /\ \A n \in Levels : n <= Max(Levels)
    /\ \A n \in Levels : n \in Nat /\ n > 0
    /\ Max(Thresholds) \in Nat
    /\ \A n \in Thresholds : n \in Nat /\ n <= Max(Thresholds)
<1>1. Max(Levels) \in Levels /\ \A n \in Levels : n <= Max(Levels)
  <2>1. \E m \in Levels : \A n \in Levels : m >= n
      BY PrirrAssumption DEF HasGreatest
  <2>2. QED
      BY <2>1, PrirrAssumption DEF Max
<1>2. Max(Thresholds) \in Thresholds /\ \A n \in Thresholds : n <= Max(Thresholds)
  <2>1. \E m \in Thresholds : \A n \in Thresholds : m >= n
      BY PrirrAssumption DEF HasGreatest
  <2>2. QED
      BY <2>1, PrirrAssumption DEF Max
<1>3. L!ListConstants
    BY PrirrAssumption, LengthBound DEF L!ListConstants
<1>4. /\ \A n \in Levels : n \in Nat /\ n > 0
      /\ \A n \in Thresholds : n \in Nat
      /\ NULL \notin Env
  <2>1. ASSUME NEW n \in Levels PROVE n \in Nat /\ n # 0
      BY PrirrAssumption
  <2>2. \A n \in Levels : n \in Nat /\ n > 0
      BY <2>1
  <2>3. QED
      BY <2>2, PrirrAssumption
<1>5. QED
    BY <1>1, <1>2, <1>3, <1>4

\* What ListProofs assumes of the constants of the lists.
LEMMA ListConstantsHold ==
    /\ L!ListConstants
    /\ NULL \notin Env /\ L!IsFiniteSet(Env)
    /\ SizeMod \in Nat /\ SizeMod > L!Cardinality(Env)
<1>1. L!IsFiniteSet(Env) <=> IsFiniteSet(Env)
    BY DEF IsFiniteSet, L!IsFiniteSet
<1>2. L!Cardinality(Env) = Cardinality(Env)
    BY <1>1 DEF Cardinality, L!Cardinality, IsFiniteSet, L!IsFiniteSet
<1>3. QED
    BY <1>1, <1>2, Constants, PrirrAssumption

\* The queues are different lists.
LEMMA Queues ==
    /\ NewQ \in Queue /\ ExitQ \in Queue /\ ChanQ \in Queue
    /\ \A i \in Priority : ReadyQ(i) \in Queue
    /\ NewQ # ExitQ /\ NewQ # ChanQ /\ ExitQ # ChanQ
    /\ \A i : ReadyQ(i) # NewQ /\ ReadyQ(i) # ExitQ /\ ReadyQ(i) # ChanQ
    /\ \A i, j : ReadyQ(i) = ReadyQ(j) => i = j
BY DEF Queue, NewQ, ExitQ, ChanQ, ReadyQ

\* The list operators of the model are those the list lemmas are about.
LEMMA SameLists ==
    /\ Heap = L!Heap /\ Pointer = L!Pointer
    /\ \A h, q, e : LIST_INSERT_HEAD(h, q, e) = L!LIST_INSERT_HEAD(h, q, e)
    /\ \A h, q, e : LIST_REMOVE(h, q, e) = L!LIST_REMOVE(h, q, e)
    /\ \A h, q, s : Represents(h, q, s) = L!Represents(h, q, s)
<1>1. Pointer = L!Pointer
    BY DEF Pointer, L!Pointer
<1>2. Heap = L!Heap
    BY <1>1 DEF Heap, L!Heap
<1>3. ASSUME NEW h, NEW q, NEW e PROVE LIST_INSERT_HEAD(h, q, e) = L!LIST_INSERT_HEAD(h, q, e)
    BY DEF LIST_INSERT_HEAD, L!LIST_INSERT_HEAD, Put, L!Put, SizePlus, L!SizePlus
<1>4. ASSUME NEW h, NEW q, NEW e PROVE LIST_REMOVE(h, q, e) = L!LIST_REMOVE(h, q, e)
    BY DEF LIST_REMOVE, L!LIST_REMOVE, Put, L!Put, SizePlus, L!SizePlus
<1>5. ASSUME NEW h, NEW q, NEW s PROVE Represents(h, q, s) = L!Represents(h, q, s)
    BY DEF Represents, L!Represents
<1>6. QED
    BY <1>1, <1>2, <1>3, <1>4, <1>5

\* Following the links of a list gives its sequence.
LEMMA WalkIs ==
    ASSUME NEW h, NEW S, L!Stands(h, S), NEW q \in Queue
    PROVE  Walk(h, q) = S[q]
<1>1. Walk(h, q) = L!Walk(h, q)
    BY DEF Walk, L!Walk, LOOP_LIST_NEXT, L!LOOP_LIST_NEXT, Cardinality, L!Cardinality,
           IsFiniteSet, L!IsFiniteSet
<1>2. L!Walk(h, q) = S[q]
    BY ListConstantsHold, L!WalkIs
<1>3. QED
    BY <1>1, <1>2

-----------------------------------------------------------------------------
(* The pieces the operations are made of.                                  *)

\* The fields of s, typed.
LEMMA SchedFields ==
    ASSUME NEW s \in SchedType
    PROVE  /\ s.h \in Heap /\ s.status \in [Env -> Statuses]
           /\ s.priority \in [Env -> Priority]
           /\ s.nTicks \in [Env -> 0 .. Max(Thresholds) + 1] /\ s.cur \in Pointer
BY DEF SchedType

\* A process has at most one home.
LEMMA OneHome ==
    ASSUME NEW s, NEW e, NEW q, NEW r, Home(s, e, q), Home(s, e, r)
    PROVE  q = r
BY DEF Home

\* Changing fields but no queue, and nothing that names the home of a process
\* that is in a queue.
LEMMA FieldsGood ==
    ASSUME NEW s, NEW t, NEW D, NEW C, Good(s, D), t \in SchedType, t.h = s.h,
           \A x \in Env, q \in Queue :
              x \notin D /\ Home(s, x, q) <=> x \notin C /\ Home(t, x, q)
    PROVE  Good(t, C)
BY DEF Good, Placed

\* enqueue puts a process that is in hand where it belongs.
LEMMA EnqueueGood ==
    ASSUME NEW s, NEW D, Good(s, D), NEW e \in Env, e \in D, NEW q \in Queue, Home(s, e, q)
    PROVE  /\ Good(enqueue(s, q, e), D \ {e})
           /\ enqueue(s, q, e).status = s.status /\ enqueue(s, q, e).priority = s.priority
           /\ enqueue(s, q, e).nTicks = s.nTicks /\ enqueue(s, q, e).cur = s.cur
<1> DEFINE t == enqueue(s, q, e)
           g == LIST_INSERT_HEAD(s.h, q, e)
<1>1. PICK S : L!Stands(s.h, S) /\ Placed(s, S, D)
    BY DEF Good
<1>2. s \in SchedType
    BY DEF Good
<1>3. \A m \in Queue : ~L!Has(S[m], e)
    BY <1>1 DEF Placed
<1>4. PICK T : /\ L!Stands(L!LIST_INSERT_HEAD(s.h, q, e), T)
               /\ \A m \in Queue, x \in Env :
                     L!Has(T[m], x) <=> L!Has(S[m], x) \/ (m = q /\ x = e)
    BY <1>1, <1>3, ListConstantsHold, L!InsertHas
<1>5. L!Stands(g, T) /\ g \in Heap
    BY <1>4, SameLists DEF L!Stands
<1> HIDE DEF g
<1>6. /\ t.h = g /\ t.status = s.status /\ t.priority = s.priority /\ t.nTicks = s.nTicks
      /\ t.cur = s.cur /\ t \in SchedType
    BY <1>2, <1>5 DEF enqueue, SchedType, g
<1> HIDE DEF t
<1>7. ASSUME NEW x \in Env, NEW m \in Queue
      PROVE  L!Has(T[m], x) <=> x \notin D \ {e} /\ Home(t, x, m)
  <2>1. Home(t, x, m) <=> Home(s, x, m)
      BY <1>6 DEF Home
  <2>2. L!Has(S[m], x) <=> x \notin D /\ Home(s, x, m)
      BY <1>1 DEF Placed
  <2>3. x = e => (Home(s, x, m) <=> m = q)
      BY OneHome
  <2>4. QED
      BY <1>4, <2>1, <2>2, <2>3
<1>8. Good(t, D \ {e})
    BY <1>5, <1>6, <1>7 DEF Good, Placed
<1>9. QED
    BY <1>6, <1>8 DEF t

\* remove_from_queue takes a process from its queue into the hand.
LEMMA RemoveGood ==
    ASSUME NEW s, NEW D, Good(s, D), NEW e \in Env, e \notin D, NEW q \in Queue, Home(s, e, q)
    PROVE  /\ Good(remove_from_queue(s, q, e), D \union {e})
           /\ remove_from_queue(s, q, e).status = s.status
           /\ remove_from_queue(s, q, e).priority = s.priority
           /\ remove_from_queue(s, q, e).nTicks = s.nTicks
           /\ remove_from_queue(s, q, e).cur = s.cur
<1> DEFINE t == remove_from_queue(s, q, e)
           g == LIST_REMOVE(s.h, q, e)
<1>1. PICK S : L!Stands(s.h, S) /\ Placed(s, S, D)
    BY DEF Good
<1>2. s \in SchedType
    BY DEF Good
<1>3. L!Has(S[q], e)
    BY <1>1 DEF Placed
<1>4. PICK T : /\ L!Stands(L!LIST_REMOVE(s.h, q, e), T)
               /\ \A m \in Queue, x \in Env :
                     L!Has(T[m], x) <=> L!Has(S[m], x) /\ ~(m = q /\ x = e)
    BY <1>1, <1>3, ListConstantsHold, L!RemoveHas
<1>5. L!Stands(g, T) /\ g \in Heap
    BY <1>4, SameLists DEF L!Stands
<1> HIDE DEF g
<1>6. /\ t.h = g /\ t.status = s.status /\ t.priority = s.priority /\ t.nTicks = s.nTicks
      /\ t.cur = s.cur /\ t \in SchedType
    BY <1>2, <1>5 DEF remove_from_queue, SchedType, g
<1> HIDE DEF t
<1>7. ASSUME NEW x \in Env, NEW m \in Queue
      PROVE  L!Has(T[m], x) <=> x \notin D \union {e} /\ Home(t, x, m)
  <2>1. Home(t, x, m) <=> Home(s, x, m)
      BY <1>6 DEF Home
  <2>2. L!Has(S[m], x) <=> x \notin D /\ Home(s, x, m)
      BY <1>1 DEF Placed
  <2>3. x = e => (Home(s, x, m) <=> m = q)
      BY OneHome
  <2>4. QED
      BY <1>4, <2>1, <2>2, <2>3
<1>8. Good(t, D \union {e})
    BY <1>5, <1>6, <1>7 DEF Good, Placed
<1>9. QED
    BY <1>6, <1>8 DEF t

\* Every element of a queue that no one has in hand is at home there, and the
\* size of a queue tells whether it is empty.
LEMMA QueueOf ==
    ASSUME NEW s, NEW D, Good(s, D), NEW q \in Queue
    PROVE  /\ Walk(s.h, q) \in Seq(Env)
           /\ \A i \in 1 .. Len(Walk(s.h, q)) :
                 Walk(s.h, q)[i] \notin D /\ Home(s, Walk(s.h, q)[i], q)
           /\ \A e \in Env : In(s.h, q, e) <=> e \notin D /\ Home(s, e, q)
           /\ Represents(s.h, q, Walk(s.h, q))
           /\ s.h.last[q] # NULL =>
                 s.h.last[q] \in Env /\ s.h.last[q] \notin D /\ Home(s, s.h.last[q], q)
           /\ s.h.size[q] \in Nat
           /\ s.h.size[q] = 0 => \A e \in Env : e \in D \/ ~Home(s, e, q)
           /\ s.h.size[q] # 0 => s.h.last[q] # NULL
<1>1. PICK S : L!Stands(s.h, S) /\ Placed(s, S, D)
    BY DEF Good
<1> DEFINE w == Walk(s.h, q)
           n == Len(S[q])
<1>2. w = S[q]
    BY <1>1, WalkIs
<1>3. w \in Seq(Env) /\ n \in Nat /\ Represents(s.h, q, S[q]) /\ NULL \notin Env
    BY <1>1, <1>2, SameLists, Constants DEF L!Stands
<1>4. \A e \in Env : L!Has(S[q], e) <=> e \notin D /\ Home(s, e, q)
    BY <1>1 DEF Placed
<1>5. \A i \in 1 .. n : S[q][i] \in Env /\ S[q][i] \notin D /\ Home(s, S[q][i], q)
  <2>1. ASSUME NEW i \in 1 .. n PROVE S[q][i] \in Env /\ L!Has(S[q], S[q][i])
      BY <1>2, <1>3 DEF L!Has
  <2>2. QED
      BY <1>4, <2>1
<1>6. \A e \in Env : In(s.h, q, e) <=> L!Has(S[q], e)
  <2>1. DOMAIN w = 1 .. Len(w)
      BY <1>3
  <2>2. QED
      BY <1>2, <2>1 DEF In, L!Has
<1>7. s.h.last[q] = (IF n = 0 THEN NULL ELSE S[q][n]) /\ s.h.size[q] = n
    BY <1>3 DEF Represents
<1>8. n = 0 => \A e \in Env : ~L!Has(S[q], e)
    BY <1>3 DEF L!Has
<1>9. n # 0 => n \in 1 .. n
    BY <1>3
<1>10. s.h.last[q] # NULL => s.h.last[q] \in Env /\ s.h.last[q] \notin D /\ Home(s, s.h.last[q], q)
    BY <1>5, <1>7, <1>9
<1>11. s.h.size[q] # 0 => s.h.last[q] # NULL
    BY <1>3, <1>5, <1>7, <1>9
<1>12. Represents(s.h, q, w) /\ \A i \in 1 .. Len(w) : w[i] \notin D /\ Home(s, w[i], q)
    BY <1>2, <1>3, <1>5
<1>13. s.h.size[q] = 0 => \A e \in Env : e \in D \/ ~Home(s, e, q)
    BY <1>4, <1>7, <1>8
<1>14. \A e \in Env : In(s.h, q, e) <=> e \notin D /\ Home(s, e, q)
    BY <1>4, <1>6
<1> HIDE DEF w
<1>15. QED
    BY <1>3, <1>7, <1>10, <1>11, <1>12, <1>13, <1>14 DEF w

\* SetStatus changes one status.
LEMMA SetStatusFields ==
    ASSUME NEW s \in SchedType, NEW e \in Env, NEW st \in Statuses
    PROVE  /\ SetStatus(s, e, st) \in SchedType /\ SetStatus(s, e, st).h = s.h
           /\ SetStatus(s, e, st).status = [s.status EXCEPT ![e] = st]
           /\ SetStatus(s, e, st).priority = s.priority
           /\ SetStatus(s, e, st).nTicks = s.nTicks /\ SetStatus(s, e, st).cur = s.cur
BY DEF SetStatus, SchedType

\* Setting the status of a process that is in hand leaves it in hand.
LEMMA SetStatusGood ==
    ASSUME NEW s, NEW D, Good(s, D), NEW e \in Env, e \in D, NEW st \in Statuses
    PROVE  Good(SetStatus(s, e, st), D)
<1> DEFINE t == SetStatus(s, e, st)
<1>1. s \in SchedType /\ s.status \in [Env -> Statuses]
    BY SchedFields DEF Good
<1>2. /\ t \in SchedType /\ t.h = s.h /\ t.status = [s.status EXCEPT ![e] = st]
      /\ t.priority = s.priority
    BY <1>1, SetStatusFields
<1> HIDE DEF t
<1>3. ASSUME NEW x \in Env, NEW q \in Queue
      PROVE  x \notin D /\ Home(s, x, q) <=> x \notin D /\ Home(t, x, q)
    BY <1>1, <1>2 DEF Home
<1>4. Good(t, D)
    BY <1>2, <1>3, FieldsGood
<1>5. QED
    BY <1>4 DEF t

\* sched_insert_ready makes a process in hand READY in the queue of its
\* priority.
LEMMA InsertReadyGood ==
    ASSUME NEW s, NEW D, Good(s, D), NEW e \in Env, e \in D
    PROVE  /\ Good(sched_insert_ready(s, e), D \ {e})
           /\ sched_insert_ready(s, e).status = [s.status EXCEPT ![e] = "READY"]
           /\ sched_insert_ready(s, e).priority = s.priority
           /\ sched_insert_ready(s, e).nTicks = [s.nTicks EXCEPT ![e] = 0]
           /\ sched_insert_ready(s, e).cur = s.cur
<1> DEFINE u == SetStatus(s, e, "READY")
           r == [u EXCEPT !.nTicks[e] = 0]
           q == ReadyQ(s.priority[e])
<1>1. s \in SchedType
    BY DEF Good
<1>2. "READY" \in Statuses
    BY DEF Statuses
<1>3. /\ u \in SchedType /\ u.h = s.h /\ u.status = [s.status EXCEPT ![e] = "READY"]
      /\ u.priority = s.priority /\ u.nTicks = s.nTicks /\ u.cur = s.cur
    BY <1>1, <1>2, SetStatusFields
<1>4. Good(u, D)
    BY <1>2, SetStatusGood
<1> HIDE DEF u
<1>5. 0 \in 0 .. Max(Thresholds) + 1
    BY Constants
<1>6. /\ r \in SchedType /\ r.h = u.h /\ r.status = u.status /\ r.priority = u.priority
      /\ r.nTicks = [u.nTicks EXCEPT ![e] = 0] /\ r.cur = u.cur
    BY <1>3, <1>5 DEF SchedType
<1> HIDE DEF r
<1>7. \A x \in Env, m \in Queue : Home(r, x, m) <=> Home(u, x, m)
    BY <1>6 DEF Home
<1>8. Good(r, D)
    BY <1>4, <1>6, <1>7, FieldsGood
<1>9. q \in Queue /\ Home(r, e, q)
    BY <1>1, <1>3, <1>6, SchedFields, Queues DEF Home
<1> HIDE DEF q
<1>10. /\ Good(enqueue(r, q, e), D \ {e})
       /\ enqueue(r, q, e).status = r.status /\ enqueue(r, q, e).priority = r.priority
       /\ enqueue(r, q, e).nTicks = r.nTicks /\ enqueue(r, q, e).cur = r.cur
    BY <1>8, <1>9, EnqueueGood
<1>11. sched_insert_ready(s, e) = enqueue(r, q, e)
    BY DEF sched_insert_ready, r, q, u
<1>12. QED
    BY <1>3, <1>6, <1>10, <1>11

-----------------------------------------------------------------------------
(* Aging.                                                                  *)

\* t differs from s by aging: no process changes its status, and none loses
\* priority.
Aged(s, t) ==
    /\ t.status = s.status /\ t.cur = s.cur
    /\ \A x \in Env : t.priority[x] <= s.priority[x]

\* Aging a READY process leaves it where its new priority says.
LEMMA AgeEnvGood ==
    ASSUME NEW s, NEW D, Good(s, D), NEW e \in Env, e \notin D, s.status[e] = "READY",
           thresh \in Thresholds
    PROVE  Good(AgeEnv(s, e), D) /\ Aged(s, AgeEnv(s, e))
<1>1. s \in SchedType /\ s.priority \in [Env -> Priority] /\ s.status \in [Env -> Statuses]
      /\ s.nTicks \in [Env -> 0 .. Max(Thresholds) + 1]
    BY SchedFields DEF Good
<1>2. thresh \in Nat /\ Max(Thresholds) \in Nat /\ thresh <= Max(Thresholds) /\ Max(Levels) \in Nat
    BY Constants
<1>3. \A x \in Env : s.priority[x] \in Int
    BY <1>1, <1>2 DEF Priority
<1>4. CASE s.priority[e] = 0
    BY <1>3, <1>4 DEF AgeEnv, Aged
<1>5. CASE s.priority[e] # 0 /\ ~(s.nTicks[e] > thresh)
  <2> DEFINE t == [s EXCEPT !.nTicks[e] = @ + 1]
  <2>1. AgeEnv(s, e) = t
      BY <1>5 DEF AgeEnv
  <2>2. s.nTicks[e] + 1 \in 0 .. Max(Thresholds) + 1
      BY <1>1, <1>2, <1>5
  <2>3. /\ t \in SchedType /\ t.h = s.h /\ t.status = s.status /\ t.priority = s.priority
        /\ t.cur = s.cur
      BY <1>1, <2>2 DEF SchedType
  <2> HIDE DEF t
  <2>4. \A x \in Env, q \in Queue : Home(s, x, q) <=> Home(t, x, q)
      BY <2>3 DEF Home
  <2>5. Good(t, D)
      BY <2>3, <2>4, FieldsGood
  <2>6. Aged(s, t)
      BY <1>3, <2>3 DEF Aged
  <2>7. QED
      BY <2>1, <2>5, <2>6
<1>6. CASE s.priority[e] # 0 /\ s.nTicks[e] > thresh
  <2> DEFINE q == ReadyQ(s.priority[e])
             u == remove_from_queue(s, q, e)
             r == [u EXCEPT !.priority[e] = @ - 1]
             t == sched_insert_ready(r, e)
             C == D \union {e}
  <2>1. AgeEnv(s, e) = t
      BY <1>6 DEF AgeEnv
  <2>2. q \in Queue /\ Home(s, e, q)
      BY <1>1, Queues DEF Home
  <2>3. /\ Good(u, C) /\ u.status = s.status /\ u.priority = s.priority
        /\ u.nTicks = s.nTicks /\ u.cur = s.cur
    <3> HIDE DEF q
    <3>1. QED
        BY <2>2, RemoveGood
  <2> HIDE DEF u, q
  <2>4. s.priority[e] - 1 \in Priority
      BY <1>1, <1>2, <1>6 DEF Priority
  <2>5. u \in SchedType
      BY <2>3 DEF Good
  <2>6. /\ r \in SchedType /\ r.h = u.h /\ r.status = u.status /\ r.cur = u.cur
        /\ r.priority = [s.priority EXCEPT ![e] = @ - 1]
      BY <1>1, <2>3, <2>4, <2>5 DEF SchedType
  <2> HIDE DEF r
  <2>7. ASSUME NEW x \in Env, NEW m \in Queue
        PROVE  x \notin C /\ Home(u, x, m) <=> x \notin C /\ Home(r, x, m)
      BY <1>1, <2>3, <2>6 DEF Home
  <2>8. Good(r, C)
      BY <2>3, <2>6, <2>7, FieldsGood
  <2> HIDE DEF C
  <2>9. /\ Good(t, C \ {e}) /\ t.status = [r.status EXCEPT ![e] = "READY"]
        /\ t.priority = r.priority /\ t.cur = r.cur
    <3>1. e \in C
        BY DEF C
    <3>2. QED
        BY <2>8, <3>1, InsertReadyGood
  <2>10. C \ {e} = D
      BY DEF C
  <2>11. t.status = s.status
      BY <1>1, <2>3, <2>6, <2>9
  <2>12. \A x \in Env : t.priority[x] <= s.priority[x]
      BY <1>1, <1>3, <2>6, <2>9
  <2>13. Good(t, D) /\ Aged(s, t)
      BY <2>3, <2>6, <2>9, <2>10, <2>11, <2>12 DEF Aged
  <2> HIDE DEF t
  <2>14. QED
      BY <2>1, <2>13
<1>7. QED
    BY <1>4, <1>5, <1>6

\* Aging composes.
LEMMA AgedTwice ==
    ASSUME NEW s \in SchedType, NEW r \in SchedType, NEW t \in SchedType,
           Aged(s, r), Aged(r, t)
    PROVE  Aged(s, t)
<1>1. \A x \in Env : s.priority[x] \in Int /\ r.priority[x] \in Int /\ t.priority[x] \in Int
  <2>1. \A n \in Priority : n \in Int
      BY Constants DEF Priority
  <2>2. /\ s.priority \in [Env -> Priority] /\ r.priority \in [Env -> Priority]
        /\ t.priority \in [Env -> Priority]
      BY SchedFields
  <2>3. QED
      BY <2>1, <2>2
<1>2. ASSUME NEW x \in Env PROVE t.priority[x] <= s.priority[x]
  <2>1. r.priority[x] <= s.priority[x] /\ t.priority[x] <= r.priority[x]
      BY DEF Aged
  <2>2. QED
      BY <1>1, <2>1
<1>3. QED
    BY <1>2 DEF Aged

\* The states the aging of s can reach.
AgedStates(s, D) == {r \in SchedType : Good(r, D) /\ Aged(s, r)}

\* Nothing aged yet.
LEMMA AgedStart ==
    ASSUME NEW s, NEW D, Good(s, D)
    PROVE  s \in AgedStates(s, D)
<1>1. s \in SchedType /\ s.priority \in [Env -> Priority]
    BY SchedFields DEF Good
<1>2. \A x \in Env : s.priority[x] \in Int
    BY <1>1, Constants DEF Priority
<1>3. QED
    BY <1>1, <1>2 DEF AgedStates, Aged

\* The loop over one ready queue.
LEMMA AgeQueueGood ==
    ASSUME NEW s, NEW D, Good(s, D), NEW i \in Priority, thresh \in Thresholds
    PROVE  AgeQueue(s, ReadyQ(i)) \in AgedStates(s, D)
<1> DEFINE q == ReadyQ(i)
           w == Walk(s.h, q)
           N == Len(w)
           X == AgedStates(s, D)
<1>1. q \in Queue
    BY Queues
<1>2. w \in Seq(Env) /\ \A n \in 1 .. N : w[n] \notin D /\ Home(s, w[n], q)
  <2> HIDE DEF q
  <2>1. QED
      BY <1>1, QueueOf
<1>3. N \in Nat /\ \A n \in 1 .. N : w[n] \in Env /\ w[n] \notin D /\ s.status[w[n]] = "READY"
  <2>1. ASSUME NEW n \in 1 .. N PROVE s.status[w[n]] = "READY"
    <3>1. Home(s, w[n], q)
        BY <1>2
    <3>2. q # NewQ /\ q # ExitQ /\ q # ChanQ
        BY Queues
    <3>3. QED
        BY <3>1, <3>2 DEF Home
  <2>2. QED
      BY <1>2, <2>1
<1>4. AgeQueue(s, q) = (LET aged[n \in 0 .. N] == IF n = 0 THEN s ELSE AgeEnv(aged[n - 1], w[n])
                        IN  aged[N])
    BY DEF AgeQueue
<1> HIDE DEF w, N, q
<1>5. \A r \in X, n \in 1 .. N : AgeEnv(r, w[n]) \in X
  <2> SUFFICES ASSUME NEW r \in X, NEW n \in 1 .. N PROVE AgeEnv(r, w[n]) \in X
      OBVIOUS
  <2>1. Good(r, D) /\ Aged(s, r) /\ r \in SchedType
      BY DEF AgedStates
  <2>2. w[n] \in Env /\ w[n] \notin D /\ r.status[w[n]] = "READY"
      BY <1>3, <2>1 DEF Aged
  <2>3. Good(AgeEnv(r, w[n]), D) /\ Aged(r, AgeEnv(r, w[n]))
      BY <2>1, <2>2, AgeEnvGood
  <2>4. AgeEnv(r, w[n]) \in SchedType /\ s \in SchedType
      BY <2>3 DEF Good
  <2>5. Aged(s, AgeEnv(r, w[n]))
      BY <2>1, <2>3, <2>4, AgedTwice
  <2>6. QED
      BY <2>3, <2>4, <2>5 DEF AgedStates
<1>6. s \in X
    BY AgedStart
<1> HIDE DEF X
<1> DEFINE F == [n \in 1 .. N |-> [r \in X |-> AgeEnv(r, w[n])]]
<1>7. F \in [1 .. N -> [X -> X]]
    BY <1>5
<1>8. \E g : Iterates(X, s, N, F, g)
  <2> HIDE DEF F
  <2>1. QED
      BY <1>3, <1>6, <1>7, StepsExist
<1>9. PICK g \in [0 .. N -> X] : g[0] = s /\ \A n \in 1 .. N : g[n] = F[n][g[n - 1]]
    BY <1>8 DEF Iterates
<1>10. ASSUME NEW n \in 1 .. N PROVE g[n] = AgeEnv(g[n - 1], w[n])
  <2>1. n - 1 \in 0 .. N /\ g[n - 1] \in X
      BY <1>3
  <2>2. g[n] = F[n][g[n - 1]]
      BY <1>9
  <2>3. QED
      BY <2>1, <2>2
<1>11. g = [n \in 0 .. N |-> IF n = 0 THEN s ELSE AgeEnv(g[n - 1], w[n])]
    BY <1>3, <1>9, <1>10
<1> DEFINE f[n \in 0 .. N] == IF n = 0 THEN s ELSE AgeEnv(f[n - 1], w[n])
<1>12. f = [n \in 0 .. N |-> IF n = 0 THEN s ELSE AgeEnv(f[n - 1], w[n])]
    BY <1>11, Zenon
<1>13. AgeQueue(s, q) = f[N]
    BY <1>4
<1> HIDE DEF f
<1>14. f[0] = s /\ \A n \in 1 .. N : f[n] = AgeEnv(f[n - 1], w[n])
    BY <1>3, <1>12
<1>15. f[0] \in X /\ \A n \in 1 .. N : f[n - 1] \in X => f[n] \in X
    BY <1>5, <1>6, <1>14
<1>16. \A n \in 0 .. N : f[n] \in X
    BY <1>3, <1>15, StepsStay
<1>17. QED
    BY <1>3, <1>13, <1>16 DEF X, q

\* The loop over the ready queues.
LEMMA AgeQueuesGood ==
    ASSUME NEW s, NEW D, Good(s, D), nq \in Levels, thresh \in Thresholds
    PROVE  Good(AgeQueues(s), D) /\ Aged(s, AgeQueues(s))
<1> DEFINE X == AgedStates(s, D)
<1>1. nq \in Nat /\ \A i \in 1 .. nq : i - 1 \in Priority
    BY Constants DEF Priority
<1>2. \A r \in X, i \in 1 .. nq : AgeQueue(r, ReadyQ(i - 1)) \in X
  <2> SUFFICES ASSUME NEW r \in X, NEW i \in 1 .. nq
               PROVE  AgeQueue(r, ReadyQ(i - 1)) \in X
      OBVIOUS
  <2> DEFINE t == AgeQueue(r, ReadyQ(i - 1))
  <2>1. Good(r, D) /\ Aged(s, r) /\ r \in SchedType /\ s \in SchedType
      BY DEF AgedStates, Good
  <2>2. i - 1 \in Priority
      BY <1>1
  <2>3. t \in AgedStates(r, D)
      BY <2>1, <2>2, AgeQueueGood
  <2> HIDE DEF t
  <2>4. t \in SchedType /\ Good(t, D) /\ Aged(r, t)
      BY <2>3 DEF AgedStates
  <2>5. Aged(s, t)
      BY <2>1, <2>4, AgedTwice
  <2>6. t \in X
      BY <2>4, <2>5 DEF AgedStates
  <2>7. QED
      BY <2>6 DEF t
<1>3. s \in X
    BY AgedStart
<1> HIDE DEF X
<1> DEFINE F == [i \in 1 .. nq |-> [r \in X |-> AgeQueue(r, ReadyQ(i - 1))]]
<1>4. F \in [1 .. nq -> [X -> X]]
    BY <1>2
<1>5. \E g : Iterates(X, s, nq, F, g)
  <2> HIDE DEF F
  <2>1. QED
      BY <1>1, <1>3, <1>4, StepsExist
<1>6. PICK g \in [0 .. nq -> X] : g[0] = s /\ \A i \in 1 .. nq : g[i] = F[i][g[i - 1]]
    BY <1>5 DEF Iterates
<1>7. ASSUME NEW i \in 1 .. nq PROVE g[i] = AgeQueue(g[i - 1], ReadyQ(i - 1))
  <2>1. i - 1 \in 0 .. nq /\ g[i - 1] \in X
      BY <1>1
  <2>2. g[i] = F[i][g[i - 1]]
      BY <1>6
  <2>3. QED
      BY <2>1, <2>2
<1>8. g = [i \in 0 .. nq |-> IF i = 0 THEN s ELSE AgeQueue(g[i - 1], ReadyQ(i - 1))]
    BY <1>1, <1>6, <1>7
<1> DEFINE f[i \in 0 .. nq] == IF i = 0 THEN s ELSE AgeQueue(f[i - 1], ReadyQ(i - 1))
<1>9. f = [i \in 0 .. nq |-> IF i = 0 THEN s ELSE AgeQueue(f[i - 1], ReadyQ(i - 1))]
    BY <1>8, Zenon
<1>10. AgeQueues(s) = f[nq]
    BY DEF AgeQueues
<1> HIDE DEF f
<1>11. f[0] = s /\ \A i \in 1 .. nq : f[i] = AgeQueue(f[i - 1], ReadyQ(i - 1))
    BY <1>1, <1>9
<1>12. f[0] \in X /\ \A i \in 1 .. nq : f[i - 1] \in X => f[i] \in X
    BY <1>2, <1>3, <1>11
<1>13. \A i \in 0 .. nq : f[i] \in X
    BY <1>1, <1>12, StepsStay
<1>14. f[nq] \in X
    BY <1>1, <1>13
<1>15. QED
    BY <1>10, <1>14 DEF X, AgedStates

-----------------------------------------------------------------------------
(* Moving a whole queue.                                                   *)

\* t differs from s in that some processes at home in q have become READY.
Moved(s, t, q) ==
    /\ t.priority = s.priority /\ t.cur = s.cur
    /\ \A x \in Env : \/ t.status[x] = s.status[x]
                      \/ t.status[x] = "READY" /\ Home(s, x, q)

\* One step of the loop.
LEMMA MoveLastGood ==
    ASSUME NEW s, Good(s, {}), NEW r, Good(r, {}), NEW q \in {NewQ, ChanQ}, Moved(s, r, q)
    PROVE  Good(MoveLast(r, q), {}) /\ Moved(s, MoveLast(r, q), q)
<1> DEFINE e == r.h.last[q]
           u == remove_from_queue(r, q, e)
           t == sched_insert_ready(u, e)
<1>1. q \in Queue /\ \A i : q # ReadyQ(i)
    BY Queues
<1>2. r \in SchedType /\ r.status \in [Env -> Statuses]
    BY SchedFields DEF Good
<1>3. CASE e = NULL
    BY <1>3 DEF MoveLast
<1>4. CASE e # NULL
  <2>1. MoveLast(r, q) = t
      BY <1>4 DEF MoveLast
  <2>2. e \in Env /\ Home(r, e, q)
      BY <1>1, <1>4, QueueOf
  <2>3. Home(s, e, q)
    <3>1. r.status[e] # "READY"
        BY <1>1, <2>2 DEF Home
    <3>2. r.status[e] = s.status[e] /\ r.priority = s.priority
        BY <2>2, <3>1 DEF Moved
    <3>3. QED
        BY <2>2, <3>2 DEF Home
  <2> HIDE DEF e
  <2>4. /\ Good(u, {} \union {e}) /\ u.status = r.status /\ u.priority = r.priority
        /\ u.cur = r.cur
      BY <1>1, <2>2, RemoveGood
  <2> HIDE DEF u
  <2>5. {} \union {e} = {e} /\ {e} \ {e} = {} /\ e \in {e}
      OBVIOUS
  <2>6. Good(u, {e})
      BY <2>4, <2>5
  <2>7. /\ Good(t, {e} \ {e}) /\ t.status = [u.status EXCEPT ![e] = "READY"]
        /\ t.priority = u.priority /\ t.cur = u.cur
      BY <2>2, <2>5, <2>6, InsertReadyGood
  <2> HIDE DEF t
  <2>8. Good(t, {})
      BY <2>5, <2>7
  <2>9. ASSUME NEW x \in Env
        PROVE  t.status[x] = s.status[x] \/ (t.status[x] = "READY" /\ Home(s, x, q))
      BY <1>2, <2>2, <2>3, <2>4, <2>7 DEF Moved
  <2>10. Moved(s, t, q)
      BY <2>4, <2>7, <2>9 DEF Moved
  <2>11. QED
      BY <2>1, <2>8, <2>10
<1>5. QED
    BY <1>3, <1>4

\* sched_run_all and wakeup_all make READY only processes of their queue.
LEMMA MoveAllGood ==
    ASSUME NEW s, Good(s, {}), NEW q \in {NewQ, ChanQ}
    PROVE  Good(MoveAll(s, q), {}) /\ Moved(s, MoveAll(s, q), q)
<1> DEFINE X == {r \in SchedType : Good(r, {}) /\ Moved(s, r, q)}
           N == s.h.size[q]
<1>1. q \in Queue
    BY Queues
<1>2. N \in Nat
    BY <1>1, QueueOf
<1>3. MoveAll(s, q) = (LET moved[n \in 0 .. N] == IF n = 0 THEN s ELSE MoveLast(moved[n - 1], q)
                       IN  moved[N])
    BY DEF MoveAll
<1> HIDE DEF N
<1>4. \A r \in X : MoveLast(r, q) \in X
  <2> SUFFICES ASSUME NEW r \in X PROVE MoveLast(r, q) \in X
      OBVIOUS
  <2>1. Good(MoveLast(r, q), {}) /\ Moved(s, MoveLast(r, q), q)
      BY MoveLastGood
  <2>2. QED
      BY <2>1 DEF Good
<1>5. s \in X
    BY DEF Good, Moved
<1> HIDE DEF X
<1> DEFINE F == [n \in 1 .. N |-> [r \in X |-> MoveLast(r, q)]]
<1>6. F \in [1 .. N -> [X -> X]]
    BY <1>4
<1>7. \E g : Iterates(X, s, N, F, g)
  <2> HIDE DEF F
  <2>1. QED
      BY <1>2, <1>5, <1>6, StepsExist
<1>8. PICK g \in [0 .. N -> X] : g[0] = s /\ \A n \in 1 .. N : g[n] = F[n][g[n - 1]]
    BY <1>7 DEF Iterates
<1>9. ASSUME NEW n \in 1 .. N PROVE g[n] = MoveLast(g[n - 1], q)
  <2>1. n - 1 \in 0 .. N /\ g[n - 1] \in X
      BY <1>2
  <2>2. g[n] = F[n][g[n - 1]]
      BY <1>8
  <2>3. QED
      BY <2>1, <2>2
<1>10. g = [n \in 0 .. N |-> IF n = 0 THEN s ELSE MoveLast(g[n - 1], q)]
    BY <1>2, <1>8, <1>9
<1> DEFINE f[n \in 0 .. N] == IF n = 0 THEN s ELSE MoveLast(f[n - 1], q)
<1>11. f = [n \in 0 .. N |-> IF n = 0 THEN s ELSE MoveLast(f[n - 1], q)]
    BY <1>10, Zenon
<1>12. MoveAll(s, q) = f[N]
    BY <1>3
<1> HIDE DEF f
<1>13. f[0] = s /\ \A n \in 1 .. N : f[n] = MoveLast(f[n - 1], q)
    BY <1>2, <1>11
<1>14. f[0] \in X /\ \A n \in 1 .. N : f[n - 1] \in X => f[n] \in X
    BY <1>4, <1>5, <1>13
<1>15. \A n \in 0 .. N : f[n] \in X
    BY <1>2, <1>14, StepsStay
<1>16. f[N] \in X
    BY <1>2, <1>15
<1>17. QED
    BY <1>12, <1>16 DEF X

-----------------------------------------------------------------------------
(* The dispatch.                                                           *)

\* What the scheduler is called with: no process runs; the one that came back,
\* if any, is READY and not yet in a queue; every READY process has a queue.
Waiting(s) ==
    /\ Good(s, {e \in Env : e = s.cur})
    /\ s.cur # NULL => s.status[s.cur] = "READY"
    /\ \A e \in Env : s.status[e] # "RUNNING"
    /\ \A e \in Env : s.status[e] = "READY" => s.priority[e] < nq

\* What it returns with: a READY process of the highest priority runs, or
\* there is none.
Dispatched(s, t) ==
    /\ Good(t, {})
    /\ t.priority = s.priority /\ t.nTicks = s.nTicks
    /\ \/ /\ t.cur = NULL /\ t.status = s.status
          /\ \A e \in Env : t.status[e] # "READY"
       \/ /\ t.cur \in Env /\ s.status[t.cur] = "READY"
          /\ t.status = [s.status EXCEPT ![t.cur] = "RUNNING"]
          /\ \A e \in Env : t.status[e] = "READY" => t.priority[t.cur] <= t.priority[e]

\* fos_scheduler with fos_scheduler_PRIRR: the first queue that is not empty
\* is that of the least priority number, and its oldest process is there.
LEMMA Dispatch ==
    ASSUME NEW s, Waiting(s), nq \in Levels
    PROVE  Dispatched(s, fos_scheduler(s))
<1> DEFINE r == IF s.cur # NULL THEN enqueue(s, ReadyQ(s.priority[s.cur]), s.cur) ELSE s
           busy == {i \in 0 .. nq - 1 : r.h.size[ReadyQ(i)] # 0}
           q == ReadyQ(Min(busy))
           e == r.h.last[q]
           D == {x \in Env : x = s.cur}
<1>1. s \in SchedType /\ Good(s, D) /\ s.cur \in Pointer /\ s.priority \in [Env -> Priority]
      /\ s.status \in [Env -> Statuses]
    BY SchedFields DEF Waiting, Good
<1>2. nq \in Nat /\ \A i \in 0 .. nq - 1 : i \in Priority
    BY Constants DEF Priority
<1>3. /\ Good(r, {}) /\ r.status = s.status /\ r.priority = s.priority
      /\ r.nTicks = s.nTicks
  <2>1. CASE s.cur = NULL
    <3>1. D = {}
        BY <2>1, Constants
    <3>2. QED
        BY <1>1, <2>1, <3>1
  <2>2. CASE s.cur # NULL
    <3> DEFINE m == ReadyQ(s.priority[s.cur])
    <3>1. s.cur \in Env /\ D = {s.cur} /\ D \ {s.cur} = {} /\ s.cur \in D
        BY <1>1, <2>2 DEF Pointer
    <3>2. m \in Queue /\ Home(s, s.cur, m)
        BY <1>1, <2>2, <3>1, Queues DEF Home, Waiting
    <3>3. r = enqueue(s, m, s.cur)
        BY <2>2
    <3> HIDE DEF m, D, r
    <3>4. /\ Good(r, D \ {s.cur}) /\ r.status = s.status /\ r.priority = s.priority
          /\ r.nTicks = s.nTicks
        BY <1>1, <3>1, <3>2, <3>3, EnqueueGood
    <3>5. QED
        BY <3>1, <3>4
  <2>3. QED
      BY <2>1, <2>2
<1>4. fos_scheduler_PRIRR(s) = IF busy = {} \/ e = NULL THEN [r EXCEPT !.cur = NULL]
                               ELSE [remove_from_queue(r, q, e) EXCEPT !.cur = e]
    BY DEF fos_scheduler_PRIRR
<1> HIDE DEF r
<1>5. ASSUME NEW i \in 0 .. nq - 1
      PROVE  /\ r.h.size[ReadyQ(i)] \in Nat
             /\ i \notin busy => \A x \in Env : ~Home(r, x, ReadyQ(i))
  <2>1. ReadyQ(i) \in Queue
      BY <1>2, Queues
  <2>2. r.h.size[ReadyQ(i)] = 0 => \A x \in Env : x \in {} \/ ~Home(r, x, ReadyQ(i))
      BY <1>3, <2>1, QueueOf
  <2>3. QED
      BY <1>3, <2>1, <2>2, QueueOf
<1>6. ASSUME NEW x \in Env, s.status[x] = "READY"
      PROVE  s.priority[x] \in busy
  <2>1. s.priority[x] \in Priority /\ s.priority[x] < nq
      BY <1>1, <1>6 DEF Waiting
  <2>2. s.priority[x] \in 0 .. nq - 1
      BY <1>2, <2>1, Constants DEF Priority
  <2>3. Home(r, x, ReadyQ(s.priority[x]))
      BY <1>3, <1>6 DEF Home
  <2> HIDE DEF busy
  <2>4. QED
      BY <1>5, <2>2, <2>3
<1>7. CASE busy = {}
  <2> DEFINE t == [r EXCEPT !.cur = NULL]
  <2>1. r \in SchedType
      BY <1>3 DEF Good
  <2>2. /\ t \in SchedType /\ t.h = r.h /\ t.cur = NULL /\ t.status = r.status
        /\ t.priority = r.priority /\ t.nTicks = r.nTicks
      BY <2>1 DEF SchedType, Pointer
  <2>3. fos_scheduler(s) = t
      BY <1>4, <1>7, <2>2 DEF fos_scheduler
  <2> HIDE DEF t
  <2>4. \A x \in Env, m \in Queue : Home(r, x, m) <=> Home(t, x, m)
      BY <2>2 DEF Home
  <2>5. Good(t, {})
      BY <1>3, <2>2, <2>4, FieldsGood
  <2>6. \A x \in Env : t.status[x] # "READY"
      BY <1>3, <1>6, <1>7, <2>2
  <2>7. QED
      BY <1>3, <2>2, <2>3, <2>5, <2>6 DEF Dispatched
<1>8. CASE busy # {}
  <2> DEFINE m == Min(busy)
             u == remove_from_queue(r, q, e)
             v == [u EXCEPT !.cur = e]
             t == SetStatus(v, e, "RUNNING")
  <2>1. m \in busy /\ \A k \in busy : m <= k
    <3>1. busy \subseteq Nat
        BY <1>2
    <3> HIDE DEF busy
    <3>2. \E x \in busy : \A k \in busy : x <= k
        BY <1>8, <3>1, LeastNatural
    <3>3. QED
        BY <3>2 DEF Min
  <2>2. m \in 0 .. nq - 1 /\ r.h.size[ReadyQ(m)] # 0
      BY <2>1
  <2> HIDE DEF m, busy
  <2>3. q = ReadyQ(m)
      BY DEF m
  <2>4. q \in Queue
      BY <1>2, <2>2, <2>3, Queues
  <2>5. e # NULL /\ e \in Env /\ Home(r, e, q)
    <3>1. e # NULL
        BY <1>3, <2>2, <2>3, <2>4, QueueOf
    <3>2. QED
        BY <1>3, <2>4, <3>1, QueueOf
  <2> HIDE DEF e, q
  <2>6. r.status[e] = "READY" /\ r.priority[e] = m
      BY <2>3, <2>5, Queues DEF Home
  <2>7. /\ Good(u, {} \union {e}) /\ u.status = r.status /\ u.priority = r.priority
        /\ u.nTicks = r.nTicks
      BY <1>3, <2>4, <2>5, RemoveGood
  <2> HIDE DEF u
  <2>8. u \in SchedType /\ {} \union {e} = {e} /\ e \in Pointer /\ "RUNNING" \in Statuses
      BY <2>5, <2>7 DEF Good, Pointer, Statuses
  <2>9. /\ v \in SchedType /\ v.h = u.h /\ v.status = u.status /\ v.cur = e
        /\ v.priority = u.priority /\ v.nTicks = u.nTicks
      BY <2>8 DEF SchedType
  <2> HIDE DEF v
  <2>10. /\ t \in SchedType /\ t.h = v.h /\ t.status = [v.status EXCEPT ![e] = "RUNNING"]
         /\ t.cur = v.cur /\ t.priority = v.priority /\ t.nTicks = v.nTicks
      BY <2>5, <2>8, <2>9, SetStatusFields
  <2> HIDE DEF t
  <2>11. fos_scheduler(s) = t
    <3>1. fos_scheduler_PRIRR(s) = v
        BY <1>4, <1>8, <2>5 DEF v, u
    <3>2. QED
        BY <2>5, <2>9, <3>1 DEF fos_scheduler, t
  <2>12. ASSUME NEW x \in Env, NEW k \in Queue
         PROVE  x \notin {e} /\ Home(u, x, k) <=> x \notin {} /\ Home(t, x, k)
      BY <1>1, <1>3, <2>5, <2>7, <2>9, <2>10 DEF Home
  <2>13. Good(t, {})
    <3>1. Good(u, {e}) /\ t.h = u.h
        BY <2>7, <2>8, <2>9, <2>10
    <3>2. QED
        BY <2>10, <2>12, <3>1, FieldsGood
  <2>14. t.status = [s.status EXCEPT ![e] = "RUNNING"] /\ t.priority = s.priority /\ t.cur = e
         /\ t.nTicks = s.nTicks /\ s.status[e] = "READY" /\ s.priority[e] = m
      BY <1>3, <2>6, <2>7, <2>9, <2>10
  <2>15. ASSUME NEW x \in Env, t.status[x] = "READY" PROVE t.priority[e] <= t.priority[x]
    <3>1. s.status[x] = "READY"
        BY <1>1, <2>5, <2>14, <2>15
    <3>2. s.priority[x] \in busy
        BY <1>6, <3>1 DEF busy
    <3>3. QED
        BY <2>1, <2>14, <3>2
  <2>16. QED
      BY <2>5, <2>11, <2>13, <2>14, <2>15 DEF Dispatched
<1>9. QED
    BY <1>7, <1>8

-----------------------------------------------------------------------------
(* The invariant.                                                          *)

\* One process is RUNNING, the one on the CPU; the CPU is idle only when no
\* process is READY.
OnCpu(s) ==
    /\ \A e \in Env : s.status[e] = "RUNNING" <=> s.cur = e
    /\ s.cur = NULL => \A e \in Env : s.status[e] # "READY"

\* Every process that may yet become READY has a queue to go to; the status
\* between two queues is not seen outside a step.
Levelled(s) ==
    \A e \in Env : /\ s.status[e] # "EXIT" => s.priority[e] < nq
                   /\ s.status[e] = "FREE" => s.priority[e] = 0
                   /\ s.status[e] # "UNKNOWN"

\* p is between the test and the assignment of env_set_priority, for itself
\* or for a process it has created and not run: only p could run that one.
Setting(s, p) ==
    /\ call[p].at = "set" /\ call[p].pri \in Priority /\ call[p].pri < nq
    /\ call[p].env \in Env
    /\ \/ call[p].env = p
       \/ s.status[call[p].env] = "NEW" /\ parent[call[p].env] = p
    /\ s.status[p] = "RUNNING" \/ s.status[p] = "READY"

Calls(s) == \A p \in Env : call[p] = NoCall \/ Setting(s, p)

Fine(s) == Good(s, {}) /\ OnCpu(s) /\ Levelled(s) /\ Calls(s)

CallType == [at : {"none", "set"}, env : Pointer, pri : Nat]

Inv ==
    /\ Fine(ps)
    /\ nq \in Levels /\ thresh \in Thresholds
    /\ call \in [Env -> CallType] /\ parent \in [Env -> Pointer]

\* The process on the CPU is as good as any that is READY.
TopFirst(s) ==
    s.cur # NULL => \A e \in Env : s.status[e] = "READY" => s.priority[s.cur] <= s.priority[e]

\* What is proved of every step.
Kept ==
    /\ Inv'
    /\ ps'.cur = ps.cur \/ TopFirst(ps')

\* A step that changes ps alone.
LEMMA OnlyPs ==
    ASSUME Inv, Unchanged, Fine(ps')
    PROVE  Inv'
<1>1. nq' = nq /\ thresh' = thresh /\ call' = call /\ parent' = parent
    BY DEF Unchanged
<1>2. Fine(ps)'
    BY <1>1 DEF Fine, OnCpu, Levelled, Calls, Setting
<1>3. QED
    BY <1>1, <1>2 DEF Inv

\* A process that has no home may be taken in hand, and put down.
LEMMA HomelessGood ==
    ASSUME NEW s, NEW e \in Env, \A q \in Queue : ~Home(s, e, q)
    PROVE  Good(s, {}) <=> Good(s, {e})
<1>1. \A x \in Env, q \in Queue : x \notin {} /\ Home(s, x, q) <=> x \notin {e} /\ Home(s, x, q)
    OBVIOUS
<1>2. Good(s, {}) => Good(s, {e})
  <2>1. SUFFICES ASSUME Good(s, {}) PROVE Good(s, {e})
      OBVIOUS
  <2>2. s \in SchedType
      BY <2>1 DEF Good
  <2>3. QED
      BY <1>1, <2>1, <2>2, FieldsGood
<1>3. Good(s, {e}) => Good(s, {})
  <2>1. SUFFICES ASSUME Good(s, {e}) PROVE Good(s, {})
      OBVIOUS
  <2>2. s \in SchedType
      BY <2>1 DEF Good
  <2>3. QED
      BY <1>1, <2>1, <2>2, FieldsGood
<1>4. QED
    BY <1>2, <1>3

\* Only NEW, READY, BLOCKED and EXIT have a queue.
LEMMA Homeless ==
    ASSUME NEW s, NEW e, s.status[e] \in {"RUNNING", "FREE", "UNKNOWN"}, NEW q
    PROVE  ~Home(s, e, q)
BY DEF Home

\* A status that goes with one queue whatever the priority.
Goes(st, q) ==
    \/ st = "NEW" /\ q = NewQ
    \/ st = "EXIT" /\ q = ExitQ
    \/ st = "BLOCKED" /\ q = ChanQ

\* sched_insert_new, sched_insert_exit, and what sleep does.
LEMMA InsertGood ==
    ASSUME NEW s, NEW e \in Env, Good(s, {e}), NEW st, NEW q, Goes(st, q)
    PROVE  /\ Good(enqueue(SetStatus(s, e, st), q, e), {})
           /\ enqueue(SetStatus(s, e, st), q, e).status = [s.status EXCEPT ![e] = st]
           /\ enqueue(SetStatus(s, e, st), q, e).priority = s.priority
           /\ enqueue(SetStatus(s, e, st), q, e).nTicks = s.nTicks
           /\ enqueue(SetStatus(s, e, st), q, e).cur = s.cur
<1> DEFINE u == SetStatus(s, e, st)
<1>1. q \in Queue /\ st \in Statuses
    BY Queues DEF Goes, Statuses
<1>2. s \in SchedType /\ s.status \in [Env -> Statuses]
    BY SchedFields DEF Good
<1>3. /\ u.status = [s.status EXCEPT ![e] = st] /\ u.priority = s.priority
      /\ u.nTicks = s.nTicks /\ u.cur = s.cur
    BY <1>1, <1>2, SetStatusFields
<1>4. e \in {e} /\ {e} \ {e} = {}
    OBVIOUS
<1>5. Good(u, {e})
    BY <1>1, <1>4, SetStatusGood
<1> HIDE DEF u
<1>6. Home(u, e, q)
    BY <1>2, <1>3 DEF Home, Goes
<1>7. /\ Good(enqueue(u, q, e), {e} \ {e})
      /\ enqueue(u, q, e).status = u.status /\ enqueue(u, q, e).priority = u.priority
      /\ enqueue(u, q, e).nTicks = u.nTicks /\ enqueue(u, q, e).cur = u.cur
    BY <1>1, <1>4, <1>5, <1>6, EnqueueGood
<1>8. QED
    BY <1>3, <1>4, <1>7 DEF u

\* The dispatch re-establishes all of it.
LEMMA DispatchFine ==
    ASSUME NEW s, Waiting(s), Levelled(s), Calls(s), nq \in Levels
    PROVE  Fine(fos_scheduler(s)) /\ TopFirst(fos_scheduler(s))
<1> DEFINE t == fos_scheduler(s)
<1>1. Dispatched(s, t)
    BY Dispatch
<1> HIDE DEF t
<1>2. s.status \in [Env -> Statuses] /\ NULL \notin Env /\ \A e \in Env : s.status[e] # "RUNNING"
    BY SchedFields, Constants DEF Waiting, Good
<1>3. CASE t.cur = NULL /\ t.status = s.status /\ \A e \in Env : t.status[e] # "READY"
  <2>1. t.priority = s.priority /\ Good(t, {})
      BY <1>1 DEF Dispatched
  <2>2. OnCpu(t)
      BY <1>2, <1>3 DEF OnCpu
  <2>3. Levelled(t) /\ Calls(t)
      BY <1>3, <2>1 DEF Levelled, Calls, Setting
  <2>4. QED
      BY <1>3, <2>1, <2>2, <2>3 DEF Fine, TopFirst, t
<1>4. CASE /\ t.cur \in Env /\ s.status[t.cur] = "READY"
           /\ t.status = [s.status EXCEPT ![t.cur] = "RUNNING"]
           /\ \A e \in Env : t.status[e] = "READY" => t.priority[t.cur] <= t.priority[e]
  <2>1. t.priority = s.priority /\ Good(t, {})
      BY <1>1 DEF Dispatched
  <2>2. \A e \in Env : t.status[e] = IF e = t.cur THEN "RUNNING" ELSE s.status[e]
      BY <1>2, <1>4
  <2>3. OnCpu(t)
      BY <1>2, <1>4, <2>2 DEF OnCpu
  <2>4. Levelled(t)
      BY <1>4, <2>1, <2>2 DEF Levelled
  <2>5. Calls(t)
    <3>1. ASSUME NEW p \in Env, Setting(s, p) PROVE Setting(t, p)
        BY <1>4, <2>2, <3>1 DEF Setting
    <3>2. QED
        BY <3>1 DEF Calls
  <2>6. QED
      BY <1>4, <2>1, <2>3, <2>4, <2>5 DEF Fine, TopFirst, t
<1>5. QED
    BY <1>1, <1>3, <1>4 DEF Dispatched

-----------------------------------------------------------------------------
(* The steps.                                                              *)

\* The clock: aging, yield and dispatch.
LEMMA ClockKeeps ==
    ASSUME Inv, clock_interrupt_handler
    PROVE  Inv' /\ TopFirst(ps')
<1> DEFINE c == ps.cur
           a == AgeQueues(ps)
           s == SetStatus(a, c, "READY")
<1>1. c # NULL /\ ps' = fos_scheduler(s) /\ Unchanged
    BY DEF clock_interrupt_handler, Tick, Unchanged
<1>2. Good(ps, {}) /\ OnCpu(ps) /\ Levelled(ps) /\ Calls(ps) /\ nq \in Levels /\ thresh \in Thresholds
    BY DEF Inv, Fine
<1>3. /\ ps \in SchedType /\ c \in Env /\ ps.status \in [Env -> Statuses]
      /\ ps.priority \in [Env -> Priority] /\ ps.status[c] = "RUNNING"
    BY <1>1, <1>2, SchedFields DEF Good, Pointer, OnCpu
<1>4. Good(a, {}) /\ Aged(ps, a)
    BY <1>2, AgeQueuesGood
<1> HIDE DEF a, c
<1>5. a \in SchedType /\ a.status = ps.status /\ a.cur = c /\ a.priority \in [Env -> Priority]
    BY <1>4, SchedFields DEF Good, Aged, c
<1>6. Good(a, {c})
  <2>1. \A q \in Queue : ~Home(a, c, q)
      BY <1>3, <1>5, Homeless
  <2>2. QED
      BY <1>3, <1>4, <2>1, HomelessGood
<1>7. "READY" \in Statuses /\ c \in {c}
    BY DEF Statuses
<1>8. /\ Good(s, {c}) /\ s.status = [ps.status EXCEPT ![c] = "READY"]
      /\ s.priority = a.priority /\ s.cur = c
    BY <1>3, <1>5, <1>6, <1>7, SetStatusFields, SetStatusGood
<1> HIDE DEF s
<1>9. \A e \in Env : s.status[e] = IF e = c THEN "READY" ELSE ps.status[e]
    BY <1>3, <1>8
<1>10. ASSUME NEW e \in Env, ps.status[e] # "EXIT" PROVE s.priority[e] < nq
  <2>1. ps.priority[e] < nq /\ a.priority[e] <= ps.priority[e]
      BY <1>2, <1>4, <1>10 DEF Levelled, Aged
  <2>2. a.priority[e] \in Int /\ ps.priority[e] \in Int /\ nq \in Int
      BY <1>2, <1>3, <1>5, Constants DEF Priority
  <2>3. QED
      BY <1>8, <2>1, <2>2
<1>11. ASSUME NEW e \in Env, ps.status[e] = "FREE" PROVE s.priority[e] = 0
  <2>1. ps.priority[e] = 0 /\ a.priority[e] <= ps.priority[e]
      BY <1>2, <1>4, <1>11 DEF Levelled, Aged
  <2>2. a.priority[e] \in Nat
      BY <1>5, Constants DEF Priority
  <2>3. QED
      BY <1>8, <2>1, <2>2
<1>12. Levelled(s)
    BY <1>2, <1>3, <1>9, <1>10, <1>11 DEF Levelled
<1>13. Calls(s)
  <2>1. ASSUME NEW p \in Env, Setting(ps, p) PROVE Setting(s, p)
      BY <1>3, <1>9, <2>1 DEF Setting
  <2>2. QED
      BY <1>2, <2>1 DEF Calls
<1>14. Waiting(s)
  <2>1. {e \in Env : e = s.cur} = {c}
      BY <1>3, <1>8
  <2>2. \A e \in Env : s.status[e] # "RUNNING"
      BY <1>2, <1>9 DEF OnCpu, c
  <2>3. \A e \in Env : s.status[e] = "READY" => s.priority[e] < nq
      BY <1>12 DEF Levelled
  <2>4. QED
      BY <1>3, <1>8, <1>9, <2>1, <2>2, <2>3 DEF Waiting
<1>15. QED
    BY <1>1, <1>2, <1>12, <1>13, <1>14, DispatchFine, OnlyPs

\* sched() by a process that is no longer RUNNING: s is what it left.
LEMMA SchedFine ==
    ASSUME NEW s, Good(s, {}), Levelled(s), Calls(s), nq \in Levels,
           \A e \in Env : s.status[e] # "RUNNING"
    PROVE  Fine(sched(s)) /\ TopFirst(sched(s))
<1> DEFINE t == [s EXCEPT !.cur = NULL]
<1>1. s \in SchedType
    BY DEF Good
<1>2. /\ t \in SchedType /\ t.h = s.h /\ t.status = s.status /\ t.priority = s.priority
      /\ t.cur = NULL
    BY <1>1 DEF SchedType, Pointer
<1>3. sched(s) = fos_scheduler(t)
    BY DEF sched
<1> HIDE DEF t
<1>4. \A x \in Env, q \in Queue : Home(s, x, q) <=> Home(t, x, q)
    BY <1>2 DEF Home
<1>5. Good(t, {})
    BY <1>2, <1>4, FieldsGood
<1>6. {e \in Env : e = t.cur} = {}
    BY <1>2, Constants
<1>7. Levelled(t) /\ Calls(t)
    BY <1>2 DEF Levelled, Calls, Setting
<1>8. Waiting(t)
    BY <1>2, <1>5, <1>6, <1>7 DEF Waiting, Levelled
<1>9. QED
    BY <1>3, <1>7, <1>8, DispatchFine

\* The process on the CPU, which is in no call, goes to the queue of a status
\* other than READY and leaves: sleep and env_exit.
LEMMA LeaveFine ==
    ASSUME Inv, NEW p \in Env, InUser(p), NEW st, NEW q, Goes(st, q), st # "NEW"
    PROVE  /\ Fine(sched(enqueue(SetStatus(ps, p, st), q, p)))
           /\ TopFirst(sched(enqueue(SetStatus(ps, p, st), q, p)))
<1> DEFINE s == enqueue(SetStatus(ps, p, st), q, p)
<1>1. Good(ps, {}) /\ OnCpu(ps) /\ Levelled(ps) /\ Calls(ps) /\ nq \in Levels
    BY DEF Inv, Fine
<1>2. ps.status \in [Env -> Statuses] /\ ps.status[p] = "RUNNING" /\ call[p] = NoCall
    BY <1>1, SchedFields DEF Good, OnCpu, InUser, Running
<1>3. Good(ps, {p})
    BY <1>1, <1>2, Homeless, HomelessGood
<1>4. Good(s, {}) /\ s.status = [ps.status EXCEPT ![p] = st] /\ s.priority = ps.priority
    BY <1>3, InsertGood
<1> HIDE DEF s
<1>5. \A e \in Env : s.status[e] = IF e = p THEN st ELSE ps.status[e]
    BY <1>2, <1>4
<1>6. \A e \in Env : s.status[e] # "RUNNING"
    BY <1>1, <1>2, <1>5 DEF OnCpu, Goes
<1>7. Levelled(s)
  <2>1. st # "FREE" /\ st # "UNKNOWN"
      BY DEF Goes
  <2>2. QED
      BY <1>1, <1>2, <1>4, <1>5, <2>1 DEF Levelled
<1>8. Calls(s)
  <2>1. ASSUME NEW r \in Env, r # p, Setting(ps, r) PROVE Setting(s, r)
      BY <1>2, <1>5, <2>1 DEF Setting
  <2>2. QED
      BY <1>1, <1>2, <2>1 DEF Calls
<1>9. Fine(sched(s)) /\ TopFirst(sched(s))
    BY <1>1, <1>4, <1>6, <1>7, <1>8, SchedFine
<1>10. QED
    BY <1>9 DEF s

\* env_exit, by the process itself or by a panic.
LEMMA ExitFine ==
    ASSUME Inv, NEW p \in Env, InUser(p)
    PROVE  Fine(env_exit(ps, p)) /\ TopFirst(env_exit(ps, p))
<1>1. env_exit(ps, p) = sched(enqueue(SetStatus(ps, p, "EXIT"), ExitQ, p))
    BY DEF env_exit, sched_insert_exit
<1>2. Goes("EXIT", ExitQ) /\ "EXIT" # "NEW"
    BY DEF Goes
<1>3. QED
    BY <1>1, <1>2, LeaveFine

\* A new process is put in the NEW queue: sys_create_env and load.
LEMMA NewFine ==
    ASSUME Inv, NEW e \in Env, ps.status[e] = "FREE", NEW s, s \in SchedType,
           s.h = ps.h, s.status = ps.status, s.cur = ps.cur, s.priority[e] < nq,
           \A x \in Env : x # e => s.priority[x] = ps.priority[x],
           NEW p \in Pointer, parent' = [parent EXCEPT ![e] = p],
           nq' = nq, thresh' = thresh, call' = call, ps' = sched_insert_new(s, e)
    PROVE  Kept
<1>1. Good(ps, {}) /\ OnCpu(ps) /\ Levelled(ps) /\ Calls(ps) /\ nq \in Levels
      /\ parent \in [Env -> Pointer] /\ ps.status \in [Env -> Statuses]
    BY SchedFields DEF Inv, Fine, Good
<1>2. Good(s, {e})
  <2>1. Good(ps, {e})
      BY <1>1, Homeless, HomelessGood
  <2>2. \A x \in Env, q \in Queue : x \notin {e} /\ Home(ps, x, q) <=> x \notin {e} /\ Home(s, x, q)
      BY DEF Home
  <2>3. QED
      BY <2>1, <2>2, FieldsGood
<1>3. Goes("NEW", NewQ)
    BY DEF Goes
<1>4. /\ Good(ps', {}) /\ ps'.status = [s.status EXCEPT ![e] = "NEW"]
      /\ ps'.priority = s.priority /\ ps'.cur = s.cur
    BY <1>2, <1>3, InsertGood DEF sched_insert_new
<1>5. \A x \in Env : ps'.status[x] = IF x = e THEN "NEW" ELSE ps.status[x]
    BY <1>1, <1>4
<1>6. OnCpu(ps')
    BY <1>1, <1>4, <1>5 DEF OnCpu
<1>7. Levelled(ps)'
    BY <1>1, <1>4, <1>5 DEF Levelled
<1>8. Calls(ps)'
  <2>1. ASSUME NEW r \in Env, Setting(ps, r) PROVE Setting(ps, r)'
      BY <1>1, <1>5, <2>1 DEF Setting
  <2>2. QED
      BY <1>1, <2>1 DEF Calls
<1>9. parent' \in [Env -> Pointer]
    BY <1>1
<1>10. Fine(ps)'
    BY <1>4, <1>6, <1>7, <1>8 DEF Fine, OnCpu
<1>11. QED
    BY <1>4, <1>9, <1>10 DEF Inv, Kept

\* sys_create_env: the new process keeps the priority 0 of its free slot.
LEMMA CreateKeeps ==
    ASSUME Inv, NEW p \in Env, NEW e \in Env, sys_create_env(p, e)
    PROVE  Kept
<1>1. ps \in SchedType /\ ps.priority[e] < nq /\ p \in Pointer
    BY DEF Inv, Fine, Good, Levelled, sys_create_env, Pointer
<1>2. QED
    BY <1>1, NewFine DEF sys_create_env

\* load at the prompt: the new process has a priority there is a queue for.
LEMMA LoadKeeps ==
    ASSUME Inv, NEW e \in Env, NEW pri \in Priority, load(e, pri)
    PROVE  Kept
<1> DEFINE s == [ps EXCEPT !.priority[e] = pri]
<1>1. ps \in SchedType /\ NULL \in Pointer /\ ps.priority \in [Env -> Priority]
    BY SchedFields DEF Inv, Fine, Good, Pointer
<1>2. /\ s \in SchedType /\ s.h = ps.h /\ s.status = ps.status /\ s.cur = ps.cur
      /\ s.priority = [ps.priority EXCEPT ![e] = pri]
    BY <1>1 DEF SchedType
<1>3. s.priority[e] = pri /\ \A x \in Env : x # e => s.priority[x] = ps.priority[x]
    BY <1>1, <1>2
<1>4. /\ ps.status[e] = "FREE" /\ pri < nq /\ ps' = sched_insert_new(s, e)
      /\ parent' = [parent EXCEPT ![e] = NULL]
      /\ nq' = nq /\ thresh' = thresh /\ call' = call
    BY DEF load
<1> HIDE DEF s
<1>5. QED
    BY <1>1, <1>2, <1>3, <1>4, NewFine

\* A process runs one it has created: no call of env_set_priority for that one
\* can be pending, since only its parent makes it.
LEMMA RunKeeps ==
    ASSUME Inv, NEW p \in Env, NEW e \in Env, Mine(p, e), e # p, sys_run_env(p, e)
    PROVE  Kept
<1> DEFINE u == remove_from_queue(ps, NewQ, e)
           v == SetStatus(u, e, "UNKNOWN")
<1>1. Good(ps, {}) /\ OnCpu(ps) /\ Levelled(ps) /\ Calls(ps) /\ nq \in Levels
      /\ ps.status \in [Env -> Statuses] /\ ps.status[e] = "NEW" /\ parent[e] = p
      /\ ps.cur = p /\ call[p] = NoCall /\ Unchanged
    BY SchedFields DEF Inv, Fine, Good, Mine, sys_run_env, InUser, Running
<1>2. NewQ \in Queue /\ Home(ps, e, NewQ) /\ "UNKNOWN" \in Statuses
    BY <1>1, Queues DEF Home, Statuses
<1>3. In(ps.h, NewQ, e)
    BY <1>1, <1>2, QueueOf
<1>4. ps' = sched_insert_ready(v, e)
    BY <1>3 DEF sys_run_env, sched_run_env, sched_remove_new
<1>5. {} \union {e} = {e} /\ {e} \ {e} = {} /\ e \in {e} /\ e \notin {}
    OBVIOUS
<1>6. /\ Good(u, {e}) /\ u.status = ps.status /\ u.priority = ps.priority /\ u.cur = ps.cur
  <2>1. /\ Good(u, {} \union {e}) /\ u.status = ps.status /\ u.priority = ps.priority
        /\ u.cur = ps.cur
    <3>1. Good(ps, {}) /\ NewQ \in Queue /\ Home(ps, e, NewQ)
        BY <1>1, <1>2
    <3>2. QED
        BY <3>1, RemoveGood
  <2>2. QED
      BY <1>5, <2>1
<1> HIDE DEF u
<1>7. u \in SchedType
    BY <1>6 DEF Good
<1>8. /\ Good(v, {e}) /\ v.status = [u.status EXCEPT ![e] = "UNKNOWN"]
      /\ v.priority = u.priority /\ v.cur = u.cur
    BY <1>2, <1>5, <1>6, <1>7, SetStatusFields, SetStatusGood
<1> HIDE DEF v
<1>9. /\ Good(ps', {}) /\ ps'.status = [v.status EXCEPT ![e] = "READY"]
      /\ ps'.priority = v.priority /\ ps'.cur = v.cur
  <2> DEFINE t == sched_insert_ready(v, e)
  <2>1. Good(v, {e}) /\ e \in {e}
      BY <1>8
  <2>2. /\ Good(t, {e} \ {e}) /\ t.status = [v.status EXCEPT ![e] = "READY"]
        /\ t.priority = v.priority /\ t.cur = v.cur
      BY <2>1, InsertReadyGood
  <2> HIDE DEF t
  <2>3. ps' = t
      BY <1>4 DEF t
  <2>4. QED
      BY <1>5, <2>2, <2>3
<1>10. ps'.priority = ps.priority /\ ps'.cur = ps.cur
    BY <1>6, <1>8, <1>9
<1>11. \A x \in Env : ps'.status[x] = IF x = e THEN "READY" ELSE ps.status[x]
    BY <1>1, <1>6, <1>8, <1>9
<1>12. OnCpu(ps')
    BY <1>1, <1>10, <1>11, Constants DEF OnCpu
<1>13. Levelled(ps')
    BY <1>1, <1>10, <1>11 DEF Levelled
<1>14. Calls(ps')
  <2>1. ASSUME NEW r \in Env, call[r] # NoCall, Setting(ps, r) PROVE Setting(ps', r)
    <3>1. r # p
        BY <1>1, <2>1
    <3>2. call[r].env # e \/ r = e
        BY <1>1, <2>1, <3>1 DEF Setting
    <3>3. r # e
        BY <1>1, <2>1 DEF Setting
    <3>4. QED
        BY <1>11, <2>1, <3>2, <3>3 DEF Setting
  <2>2. QED
      BY <1>1, <2>1 DEF Calls
<1>15. QED
    BY <1>1, <1>9, <1>10, <1>12, <1>13, <1>14, OnlyPs DEF Fine, Kept

\* sleep: to the channel, and the next process is dispatched.
LEMMA SleepKeeps ==
    ASSUME Inv, NEW p \in Env, sleep(p)
    PROVE  Kept
<1>1. Goes("BLOCKED", ChanQ) /\ "BLOCKED" # "NEW"
    BY DEF Goes
<1>2. InUser(p) /\ Unchanged /\ ps' = sched(enqueue(SetStatus(ps, p, "BLOCKED"), ChanQ, p))
    BY DEF sleep
<1>3. QED
    BY <1>1, <1>2, LeaveFine, OnlyPs DEF Kept

\* sys_exit_env: to the EXIT queue, and the next process is dispatched.
LEMMA ExitKeeps ==
    ASSUME Inv, NEW p \in Env, sys_exit_env(p)
    PROVE  Kept
<1>1. InUser(p) /\ Unchanged /\ ps' = env_exit(ps, p)
    BY DEF sys_exit_env
<1>2. QED
    BY <1>1, ExitFine, OnlyPs DEF Kept

\* Moving a queue keeps the levels.
LEMMA MovedLevelled ==
    ASSUME NEW s, NEW t, Levelled(s), NEW q \in {NewQ, ChanQ}, Moved(s, t, q)
    PROVE  Levelled(t)
<1>1. ASSUME NEW e \in Env, Home(s, e, q) PROVE s.status[e] # "EXIT"
    BY <1>1, Queues DEF Home
<1>2. ASSUME NEW e \in Env
      PROVE  /\ t.status[e] # "EXIT" => t.priority[e] < nq
             /\ t.status[e] = "FREE" => t.priority[e] = 0
             /\ t.status[e] # "UNKNOWN"
    BY <1>1 DEF Moved, Levelled
<1>3. QED
    BY <1>2 DEF Levelled

\* wakeup_all: those on the channel become READY.
LEMMA WakeupKeeps ==
    ASSUME Inv, NEW p \in Env, wakeup(p)
    PROVE  Kept
<1>1. Good(ps, {}) /\ OnCpu(ps) /\ Levelled(ps) /\ Calls(ps) /\ nq \in Levels
      /\ ps.cur = p /\ Unchanged /\ ps' = MoveAll(ps, ChanQ)
    BY DEF Inv, Fine, wakeup, InUser, Running, wakeup_all
<1>2. Good(ps', {}) /\ Moved(ps, ps', ChanQ)
    BY <1>1, MoveAllGood
<1>3. \A e \in Env : Home(ps, e, ChanQ) => ps.status[e] = "BLOCKED"
    BY Queues DEF Home
<1>4. OnCpu(ps')
    BY <1>1, <1>2, <1>3, Constants DEF OnCpu, Moved
<1>5. Levelled(ps')
    BY <1>1, <1>2, MovedLevelled
<1>6. Calls(ps')
  <2>1. ASSUME NEW r \in Env, Setting(ps, r) PROVE Setting(ps', r)
      BY <1>2, <1>3, <2>1 DEF Setting, Moved
  <2>2. QED
      BY <1>1, <2>1 DEF Calls
<1>7. ps'.cur = ps.cur
    BY <1>2 DEF Moved
<1>8. QED
    BY <1>1, <1>2, <1>4, <1>5, <1>6, <1>7, OnlyPs DEF Fine, Kept

\* With the CPU idle no process is in a call.
LEMMA IdleNoCalls ==
    ASSUME Inv, ps.cur = NULL
    PROVE  \A p \in Env : call[p] = NoCall
<1>1. ASSUME NEW p \in Env PROVE ~Setting(ps, p)
    BY <1>1, Constants DEF Inv, Fine, OnCpu, Setting
<1>2. QED
    BY <1>1 DEF Inv, Fine, Calls

\* runall: those that are NEW become READY, and one is dispatched.
LEMMA RunallKeeps ==
    ASSUME Inv, runall
    PROVE  Kept
<1> DEFINE s == MoveAll(ps, NewQ)
<1>1. Good(ps, {}) /\ OnCpu(ps) /\ Levelled(ps) /\ nq \in Levels
      /\ ps.cur = NULL /\ Unchanged /\ ps' = fos_scheduler(s)
    BY DEF Inv, Fine, runall, AtPrompt, sched_run_all
<1>2. Good(s, {}) /\ Moved(ps, s, NewQ)
    BY <1>1, MoveAllGood
<1> HIDE DEF s
<1>3. Levelled(s)
    BY <1>1, <1>2, MovedLevelled
<1>4. Calls(s)
    BY <1>1, IdleNoCalls DEF Calls
<1>5. s.cur = NULL /\ {e \in Env : e = s.cur} = {}
    BY <1>1, <1>2, Constants DEF Moved
<1>6. \A e \in Env : s.status[e] # "RUNNING"
    BY <1>1, <1>2, Constants DEF Moved, OnCpu
<1>7. \A e \in Env : s.status[e] = "READY" => s.priority[e] < nq
    BY <1>3 DEF Levelled
<1>8. Waiting(s)
    BY <1>2, <1>5, <1>6, <1>7 DEF Waiting
<1>9. QED
    BY <1>1, <1>3, <1>4, <1>8, DispatchFine, OnlyPs DEF Kept

\* Assigning a priority to a process whose queue does not depend on it.
LEMMA AssignGood ==
    ASSUME NEW s, Good(s, {}), Levelled(s), NEW e \in Env, NEW pri \in Priority, pri < nq,
           s.status[e] # "READY", s.status[e] # "FREE"
    PROVE  LET t == [s EXCEPT !.priority[e] = pri]
           IN  Good(t, {}) /\ Levelled(t) /\ t.status = s.status /\ t.cur = s.cur
<1> DEFINE t == [s EXCEPT !.priority[e] = pri]
<1>1. s \in SchedType /\ s.priority \in [Env -> Priority]
    BY SchedFields DEF Good
<1>2. /\ t \in SchedType /\ t.h = s.h /\ t.status = s.status /\ t.cur = s.cur
      /\ t.priority = [s.priority EXCEPT ![e] = pri]
    BY <1>1 DEF SchedType
<1> HIDE DEF t
<1>3. \A x \in Env : t.priority[x] = IF x = e THEN pri ELSE s.priority[x]
    BY <1>1, <1>2
<1>4. \A x \in Env, q \in Queue : Home(s, x, q) <=> Home(t, x, q)
    BY <1>2, <1>3 DEF Home
<1>5. Good(t, {})
    BY <1>2, <1>4, FieldsGood
<1>6. Levelled(t)
    BY <1>2, <1>3 DEF Levelled
<1>7. QED
    BY <1>2, <1>5, <1>6 DEF t

\* setPri at the prompt, where no process is READY.
LEMMA SetPriKeeps ==
    ASSUME Inv, NEW e \in Env, NEW pri \in Priority, setPri(e, pri)
    PROVE  Kept
<1>1. Good(ps, {}) /\ OnCpu(ps) /\ Levelled(ps) /\ ps.cur = NULL /\ Unchanged
      /\ ps.status[e] # "FREE" /\ pri < nq /\ ps' = [ps EXCEPT !.priority[e] = pri]
    BY DEF Inv, Fine, setPri, AtPrompt
<1>2. ps.status[e] # "READY"
    BY <1>1 DEF OnCpu
<1>3. Good(ps', {}) /\ Levelled(ps') /\ ps'.status = ps.status /\ ps'.cur = ps.cur
    BY <1>1, <1>2, AssignGood
<1>4. OnCpu(ps')
    BY <1>1, <1>3 DEF OnCpu
<1>5. Calls(ps')
    BY <1>1, IdleNoCalls DEF Calls
<1>6. QED
    BY <1>1, <1>3, <1>4, <1>5, OnlyPs DEF Fine, Kept

\* The end of env_set_priority: its process is the caller, RUNNING, or still
\* NEW.
LEMMA SetKeeps ==
    ASSUME Inv, NEW p \in Env, env_set_priority_set(p)
    PROVE  Kept
<1> DEFINE e == call[p].env
           pri == call[p].pri
<1>1. Good(ps, {}) /\ OnCpu(ps) /\ Levelled(ps) /\ Calls(ps)
      /\ nq \in Levels /\ thresh \in Thresholds
      /\ call \in [Env -> CallType] /\ parent \in [Env -> Pointer]
    BY DEF Inv, Fine
<1>2. ps.cur = p /\ call[p].at = "set" /\ ps' = [ps EXCEPT !.priority[e] = pri]
      /\ call' = [call EXCEPT ![p] = NoCall] /\ nq' = nq /\ thresh' = thresh /\ parent' = parent
    BY DEF env_set_priority_set, Running
<1>3. call[p] # NoCall
    BY <1>2 DEF NoCall
<1>4. Setting(ps, p)
    BY <1>1, <1>3 DEF Calls
<1>5. e \in Env /\ pri \in Priority /\ pri < nq /\ ps.status[e] # "READY" /\ ps.status[e] # "FREE"
  <2>1. ps.status[p] = "RUNNING"
      BY <1>1, <1>2 DEF OnCpu
  <2>2. QED
      BY <1>4, <2>1 DEF Setting
<1> HIDE DEF e, pri
<1>6. Good(ps', {}) /\ Levelled(ps') /\ ps'.status = ps.status /\ ps'.cur = ps.cur
    BY <1>1, <1>2, <1>5, AssignGood
<1>7. NoCall \in CallType
    BY DEF NoCall, CallType, Pointer
<1>8. call' \in [Env -> CallType] /\ call'[p] = NoCall /\ \A r \in Env : r # p => call'[r] = call[r]
    BY <1>1, <1>2, <1>7
<1>9. OnCpu(ps')
    BY <1>1, <1>6 DEF OnCpu
<1>10. Levelled(ps)'
    BY <1>2, <1>6 DEF Levelled
<1>11. Calls(ps)'
  <2>1. ASSUME NEW r \in Env, r # p, Setting(ps, r) PROVE Setting(ps, r)'
      BY <1>2, <1>6, <1>8, <2>1 DEF Setting
  <2>2. NoCall' = NoCall
      BY DEF NoCall
  <2>3. QED
      BY <1>1, <1>8, <2>1, <2>2 DEF Calls
<1>12. Fine(ps)'
    BY <1>6, <1>9, <1>10, <1>11 DEF Fine, OnCpu
<1>13. QED
    BY <1>1, <1>2, <1>6, <1>8, <1>12 DEF Inv, Kept

\* kill finds the process in its queue, takes it out and clears the slot.
LEMMA KillKeeps ==
    ASSUME Inv, NEW e \in Env, kill(e)
    PROVE  Kept
<1> DEFINE q == CHOOSE x \in Searched : In(ps.h, x, e)
           u == remove_from_queue(ps, q, e)
           v == SetStatus(u, e, "FREE")
           t == [v EXCEPT !.priority[e] = 0, !.nTicks[e] = 0]
<1>1. Good(ps, {}) /\ OnCpu(ps) /\ Levelled(ps) /\ nq \in Levels /\ ps.cur = NULL /\ Unchanged
      /\ Found(e) /\ ps' = t /\ ps.status \in [Env -> Statuses]
      /\ ps.priority \in [Env -> Priority]
    BY SchedFields DEF Inv, Fine, Good, kill, AtPrompt, env_free
<1>2. Searched \subseteq Queue
  <2>1. \A i \in 0 .. nq - 1 : i \in Priority
      BY <1>1, Constants DEF Priority
  <2>2. QED
      BY <2>1, Queues DEF Searched
<1>3. q \in Searched /\ In(ps.h, q, e)
    BY <1>1 DEF Found
<1> HIDE DEF q
<1>4. q \in Queue /\ Home(ps, e, q)
    BY <1>1, <1>2, <1>3, QueueOf
<1>5. /\ Good(u, {} \union {e}) /\ u.status = ps.status /\ u.priority = ps.priority
      /\ u.cur = ps.cur
  <2>1. Good(ps, {})
      BY <1>1
  <2>2. QED
      BY <1>4, <2>1, RemoveGood
<1> HIDE DEF u
<1>6. {} \union {e} = {e} /\ "FREE" \in Statuses /\ e \in {e}
    BY DEF Statuses
<1>7. u \in SchedType /\ Good(u, {e})
    BY <1>5, <1>6 DEF Good
<1>8. Good(v, {e})
    BY <1>6, <1>7, SetStatusGood
<1>9. /\ v \in SchedType /\ v.status = [u.status EXCEPT ![e] = "FREE"]
      /\ v.priority = u.priority /\ v.cur = u.cur
    BY <1>6, <1>7, SetStatusFields
<1> HIDE DEF v
<1>10. 0 \in Priority /\ 0 \in 0 .. Max(Thresholds) + 1
    BY Constants DEF Priority
<1>11. /\ t \in SchedType /\ t.h = v.h /\ t.status = v.status /\ t.cur = v.cur
       /\ t.priority = [v.priority EXCEPT ![e] = 0]
    BY <1>9, <1>10 DEF SchedType
<1> HIDE DEF t
<1>12. \A x \in Env : /\ t.status[x] = IF x = e THEN "FREE" ELSE ps.status[x]
                      /\ t.priority[x] = IF x = e THEN 0 ELSE ps.priority[x]
    BY <1>1, <1>5, <1>9, <1>11
<1>13. Good(t, {})
  <2>1. ASSUME NEW x \in Env, NEW m \in Queue
        PROVE  x \notin {e} /\ Home(v, x, m) <=> x \notin {e} /\ Home(t, x, m)
    <3>1. v.status[x] = t.status[x] /\ (x # e => v.priority[x] = t.priority[x])
        BY <1>1, <1>5, <1>9, <1>11
    <3>2. QED
        BY <3>1 DEF Home
  <2>2. Good(t, {e})
      BY <1>8, <1>11, <2>1, FieldsGood
  <2>3. \A m \in Queue : ~Home(t, e, m)
      BY <1>12, Homeless
  <2>4. QED
      BY <2>2, <2>3, HomelessGood
<1>14. t.cur = ps.cur
    BY <1>5, <1>9, <1>11
<1>15. OnCpu(t)
    BY <1>1, <1>12, <1>14, Constants DEF OnCpu
<1>16. Levelled(t)
  <2>1. 0 < nq
      BY <1>1, Constants
  <2>2. QED
      BY <1>1, <1>12, <2>1 DEF Levelled
<1>17. Calls(t)
    BY <1>1, IdleNoCalls DEF Calls
<1>18. QED
    BY <1>1, <1>13, <1>14, <1>15, <1>16, <1>17, OnlyPs DEF Fine, Kept

\* setStarvThr changes no process.
LEMMA ThresholdKeeps ==
    ASSUME Inv, NEW t \in Thresholds, setStarvThr(t)
    PROVE  Kept
<1>1. /\ thresh' = t /\ ps' = ps /\ nq' = nq /\ call' = call /\ parent' = parent
    BY DEF setStarvThr
<1>2. Fine(ps)'
    BY <1>1 DEF Inv, Fine, OnCpu, Levelled, Calls, Setting
<1>3. QED
    BY <1>1, <1>2 DEF Inv, Kept

\* env_set_priority begins, or exits its caller.
LEMMA CheckKeeps ==
    ASSUME Inv, NEW p \in Env, NEW e \in Env, NEW pri \in 0 .. nq, Mine(p, e),
           env_set_priority_check(p, e, pri)
    PROVE  Kept
<1>1. Good(ps, {}) /\ OnCpu(ps) /\ Levelled(ps) /\ Calls(ps)
      /\ nq \in Levels /\ thresh \in Thresholds
      /\ call \in [Env -> CallType] /\ parent \in [Env -> Pointer]
    BY DEF Inv, Fine
<1>2. InUser(p) /\ ps.cur = p /\ nq' = nq /\ thresh' = thresh /\ parent' = parent
    BY DEF env_set_priority_check, InUser, Running
<1>3. CASE ~(pri < nq)
  <2>1. ps' = env_exit(ps, p) /\ Unchanged
      BY <1>2, <1>3 DEF env_set_priority_check, Unchanged
  <2>2. QED
      BY <1>2, <2>1, ExitFine, OnlyPs DEF Kept
<1>4. CASE pri < nq
  <2> DEFINE c == [env |-> e, pri |-> pri,
                   at |-> IF ps.status[e] = "READY" THEN "remove" ELSE "set"]
  <2>1. ps.status[p] = "RUNNING" /\ ps.status[e] # "READY"
      BY <1>1, <1>2 DEF OnCpu, Mine
  <2>2. ps' = ps /\ call' = [call EXCEPT ![p] = c]
      BY <1>4 DEF env_set_priority_check
  <2>3. pri \in Nat /\ pri \in Priority
      BY <1>1, <1>4, Constants DEF Priority
  <2>4. c.at = "set" /\ c.env = e /\ c.pri = pri /\ c \in CallType
      BY <2>1, <2>3 DEF CallType, Pointer
  <2> HIDE DEF c
  <2>5. call' \in [Env -> CallType] /\ call'[p] = c /\ \A r \in Env : r # p => call'[r] = call[r]
      BY <1>1, <2>2, <2>4
  <2>6. Setting(ps, p)'
      BY <1>2, <1>4, <2>1, <2>2, <2>3, <2>4, <2>5 DEF Setting, Mine
  <2>7. ASSUME NEW r \in Env, r # p, Setting(ps, r) PROVE Setting(ps, r)'
      BY <1>2, <2>2, <2>5, <2>7 DEF Setting
  <2>8. Calls(ps)'
    <3>1. NoCall' = NoCall
        BY DEF NoCall
    <3>2. QED
        BY <1>1, <2>5, <2>6, <2>7, <3>1 DEF Calls
  <2>9. Fine(ps)'
      BY <1>1, <1>2, <2>2, <2>8 DEF Fine, OnCpu, Levelled
  <2>10. QED
      BY <1>1, <1>2, <2>2, <2>5, <2>9 DEF Inv, Kept
<1>5. QED
    BY <1>3, <1>4

\* The sched command: the ready queues it throws away are empty.
LEMMA SchedInitKeeps ==
    ASSUME Inv, NEW n \in Levels, NEW t \in Thresholds, Enough(n), sched_init_PRIRR(n, t)
    PROVE  Kept
<1>1. Good(ps, {}) /\ OnCpu(ps) /\ Levelled(ps)
      /\ call \in [Env -> CallType] /\ parent \in [Env -> Pointer]
    BY DEF Inv, Fine
<1>2. /\ ps.cur = NULL /\ \A e \in Env : ps.status[e] # "BLOCKED"
      /\ nq' = n /\ thresh' = t /\ call' = call /\ parent' = parent
    BY DEF sched_init_PRIRR, AtPrompt
<1>3. ps \in SchedType /\ ps.h \in Heap /\ ps.status \in [Env -> Statuses]
    BY <1>1, SchedFields DEF Good
<1> DEFINE first == [q \in Queue |-> IF q[1] = "ready" THEN NULL ELSE ps.h.first[q]]
           last == [q \in Queue |-> IF q[1] = "ready" THEN NULL ELSE ps.h.last[q]]
           size == [q \in Queue |-> IF q[1] = "ready" THEN 0 ELSE ps.h.size[q]]
<1>4. PICK S : L!Stands(ps.h, S) /\ Placed(ps, S, {})
    BY <1>1 DEF Good
<1>5. ASSUME NEW q \in Queue, q[1] = "ready"
      PROVE  ps.h.first[q] = NULL /\ ps.h.last[q] = NULL /\ ps.h.size[q] = 0
  <2>1. PICK i \in Priority : q = ReadyQ(i)
      BY <1>5 DEF Queue, NewQ, ExitQ, ChanQ
  <2>2. \A e \in Env : ~Home(ps, e, q)
      BY <1>1, <1>2, <2>1, Queues DEF Home, OnCpu
  <2>3. S[q] \in Seq(Env) /\ Represents(ps.h, q, S[q])
      BY <1>4, SameLists DEF L!Stands
  <2>4. \A e \in Env : ~L!Has(S[q], e)
      BY <1>4, <2>2 DEF Placed
  <2>5. Len(S[q]) = 0
    <3>1. Len(S[q]) \in Nat /\ \A i1 \in 1 .. Len(S[q]) : S[q][i1] \in Env
        BY <2>3
    <3>2. Len(S[q]) # 0 => 1 \in 1 .. Len(S[q])
        BY <3>1
    <3>3. QED
        BY <2>4, <3>1, <3>2 DEF L!Has
  <2>6. QED
      BY <2>3, <2>5 DEF Represents
<1>6. first = ps.h.first /\ last = ps.h.last /\ size = ps.h.size
  <2>1. /\ ps.h.first \in [Queue -> Pointer] /\ ps.h.last \in [Queue -> Pointer]
        /\ ps.h.size \in [Queue -> 0 .. SizeMod - 1]
      BY <1>3 DEF Heap
  <2>2. QED
      BY <1>5, <2>1
<1>7. ps' = [ps EXCEPT !.h.first = first, !.h.last = last, !.h.size = size]
    BY DEF sched_init_PRIRR
<1> HIDE DEF first, last, size
<1>8. /\ ps'.status = ps.status /\ ps'.priority = ps.priority /\ ps'.nTicks = ps.nTicks
      /\ ps'.cur = ps.cur
    BY <1>3, <1>7 DEF SchedType
<1>9. ps'.h = ps.h
    BY <1>3, <1>6, <1>7 DEF SchedType, Heap
<1>10. ps' \in SchedType
    BY <1>3, <1>6, <1>7 DEF SchedType, Heap
<1>11. Good(ps', {})
  <2>1. \A x \in Env, q \in Queue : Home(ps, x, q) <=> Home(ps', x, q)
      BY <1>8 DEF Home
  <2>2. QED
      BY <1>1, <1>9, <1>10, <2>1, FieldsGood
<1>12. OnCpu(ps')
    BY <1>1, <1>8 DEF OnCpu
<1>13. Levelled(ps)'
  <2>1. ASSUME NEW e \in Env, ps.status[e] # "EXIT" PROVE ps.priority[e] < n
    <3>1. ps.status[e] \in {"FREE", "NEW"}
        BY <1>1, <1>2, <1>3, <2>1, Constants DEF OnCpu, Levelled, Statuses
    <3>2. CASE ps.status[e] = "FREE"
        BY <1>1, <3>2, Constants DEF Levelled
    <3>3. CASE ps.status[e] = "NEW"
        BY <3>3 DEF Enough
    <3>4. QED
        BY <3>1, <3>2, <3>3
  <2>2. QED
      BY <1>1, <1>2, <1>8, <2>1 DEF Levelled
<1>14. Calls(ps)'
    BY <1>2, IdleNoCalls DEF Calls, NoCall
<1>15. Fine(ps)'
    BY <1>11, <1>12, <1>13, <1>14 DEF Fine, OnCpu
<1>16. QED
    BY <1>1, <1>2, <1>8, <1>15 DEF Inv, Kept

\* Every step of the specification.
LEMMA NextKeeps ==
    ASSUME Inv, Next
    PROVE  Kept
<1>1. CASE \E e \in Env, pri \in Priority : load(e, pri) \/ setPri(e, pri)
    BY <1>1, LoadKeeps, SetPriKeeps
<1>2. CASE runall
    BY <1>2, RunallKeeps
<1>3. CASE \E e \in Env : kill(e)
    BY <1>3, KillKeeps
<1>4. CASE \E t \in Thresholds : setStarvThr(t)
    BY <1>4, ThresholdKeeps
<1>5. CASE SchedulerSpins
  <2>1. ps' = ps /\ Unchanged
      BY <1>5 DEF SchedulerSpins, vars, Unchanged
  <2>2. Fine(ps')
      BY <2>1 DEF Inv
  <2>3. QED
      BY <2>1, <2>2, OnlyPs DEF Kept
<1>6. CASE clock_interrupt_handler
    BY <1>6, ClockKeeps DEF Kept
<1>7. CASE \E n \in Levels, t \in Thresholds : Enough(n) /\ sched_init_PRIRR(n, t)
    BY <1>7, SchedInitKeeps
<1>8. ASSUME NEW p \in Env, Program(p) PROVE Kept
    BY <1>8, CreateKeeps, SleepKeeps, WakeupKeeps, ExitKeeps DEF Program
<1>9. ASSUME NEW p \in Env, NEW e \in Env, Mine(p, e), e # p, sys_run_env(p, e) PROVE Kept
    BY <1>9, RunKeeps
<1>10. ASSUME NEW p \in Env, NEW e \in Env, NEW pri \in 0 .. nq, Mine(p, e),
              env_set_priority_check(p, e, pri)
       PROVE  Kept
    BY <1>10, CheckKeeps
<1>11. ASSUME NEW p \in Env, env_set_priority_set(p) PROVE Kept
    BY <1>11, SetKeeps
<1>12. QED
    BY <1>1, <1>2, <1>3, <1>4, <1>5, <1>6, <1>7, <1>8, <1>9, <1>10, <1>11 DEF Next, Prompt

\* With all slots free every queue is empty.
LEMMA InitInv == Init => Inv
<1> SUFFICES ASSUME Init PROVE Inv
    OBVIOUS
<1> DEFINE S == [q \in Queue |-> <<>>]
<1>1. /\ ps.status = [e \in Env |-> "FREE"] /\ ps.priority = [e \in Env |-> 0]
      /\ ps.cur = NULL
    BY DEF Init
<1>2. /\ ps.h.first = [q \in Queue |-> NULL] /\ ps.h.last = [q \in Queue |-> NULL]
      /\ ps.h.size = [q \in Queue |-> 0]
    BY DEF Init
<1>3. 0 \in Priority /\ 0 \in 0 .. Max(Thresholds) + 1 /\ 0 \in 0 .. SizeMod - 1
  <2>1. SizeMod \in Nat /\ SizeMod > 0
    <3>1. Cardinality(Env) \in Nat
        BY PrirrAssumption, FS_CardinalityType
    <3>2. QED
        BY <3>1, PrirrAssumption
  <2>2. QED
      BY <2>1, Constants DEF Priority
<1>4. ps.h \in Heap
    BY <1>3 DEF Init, Heap, Pointer
<1>5. ps \in SchedType
    BY <1>3, <1>4 DEF Init, SchedType, Pointer, Statuses
<1>6. L!Stands(ps.h, S)
  <2>1. S \in [Queue -> Seq(Env)] /\ \A q \in Queue : S[q] = <<>> /\ Len(S[q]) = 0
      OBVIOUS
  <2>2. \A q \in Queue : Represents(ps.h, q, S[q])
      BY <1>2, <2>1 DEF Represents
  <2>3. \A q \in Queue, e \in Env : ~L!Has(S[q], e)
      BY <2>1 DEF L!Has
  <2> HIDE DEF S
  <2>4. QED
      BY <1>4, <2>1, <2>2, <2>3, SameLists DEF L!Stands
<1>7. Placed(ps, S, {})
  <2>1. \A q \in Queue, e \in Env : ~L!Has(S[q], e)
      BY DEF L!Has
  <2>2. \A q \in Queue, e \in Env : ~Home(ps, e, q)
      BY <1>1 DEF Home
  <2>3. QED
      BY <2>1, <2>2 DEF Placed
<1>8. Good(ps, {})
    BY <1>5, <1>6, <1>7 DEF Good
<1>9. OnCpu(ps)
    BY <1>1, Constants DEF OnCpu
<1>10. nq \in Levels /\ thresh \in Thresholds /\ nq > 0
    BY Constants DEF Init
<1>11. Levelled(ps)
    BY <1>1, <1>10, Constants DEF Levelled
<1>12. Calls(ps)
    BY DEF Calls, Init
<1>13. call \in [Env -> CallType] /\ parent \in [Env -> Pointer]
  <2>1. NoCall \in CallType /\ NULL \in Pointer
      BY DEF NoCall, CallType, Pointer
  <2>2. QED
      BY <2>1 DEF Init
<1>14. QED
    BY <1>8, <1>9, <1>10, <1>11, <1>12, <1>13 DEF Inv, Fine

\* A step that changes nothing.
LEMMA StutterInv ==
    ASSUME Inv, UNCHANGED vars
    PROVE  Inv'
<1>1. ps' = ps /\ Unchanged
    BY DEF vars, Unchanged
<1>2. Fine(ps')
    BY <1>1 DEF Inv
<1>3. QED
    BY <1>1, <1>2, OnlyPs

\* The inductive invariant: the queues stand for sequences that hold every
\* process exactly where its status and priority say.
THEOREM SchedulerInv == Spec => []Inv
<1>1. Inv /\ [Next]_vars => Inv'
    BY NextKeeps, StutterInv DEF Kept
<1>2. QED
    BY <1>1, InitInv, PTL DEF Spec

-----------------------------------------------------------------------------
(* The properties of the runs.                                             *)

\* The fields of sched.c and sched_helpers.c keep their types, and no process
\* waits longer than one tick past the threshold without moving up.
THEOREM SchedulerTypes == Spec => []TypeOK
<1>1. Inv => TypeOK
    BY SchedFields DEF Inv, Fine, Good, TypeOK
<1>2. QED
    BY <1>1, SchedulerInv, PTL

\* Every queue of processes is a well-formed list whose size is its length,
\* whatever ages, blocks, wakes, exits, is created, run or killed.
THEOREM QueuesAreMaintained == Spec => []QueuesMaintained
<1>1. Inv => QueuesMaintained
    BY QueueOf DEF Inv, Fine, QueuesMaintained
<1>2. QED
    BY <1>1, SchedulerInv, PTL

\* A process is in the queue its status and its priority name and in no
\* other, only the process on the CPU is RUNNING, and a READY process has a
\* priority for which there is a queue.
THEOREM QueuesMatch == Spec => []QueuesMatchStatus
<1>1. Inv => QueuesMatchStatus
  <2> SUFFICES ASSUME Inv PROVE QueuesMatchStatus
      OBVIOUS
  <2>1. Good(ps, {}) /\ OnCpu(ps) /\ Levelled(ps)
      BY DEF Inv, Fine
  <2>2. ASSUME NEW e \in Env PROVE {q \in Queue : In(ps.h, q, e)} = HomeQueue(e)
    <3>1. ps.priority[e] \in Priority
        BY <2>1, SchedFields DEF Good
    <3>2. \A q \in HomeQueue(e) : q \in Queue
        BY <3>1, Queues DEF HomeQueue
    <3>3. \A q \in Queue : In(ps.h, q, e) <=> Home(ps, e, q)
        BY <2>1, QueueOf
    <3>4. \A q : Home(ps, e, q) <=> q \in HomeQueue(e)
        BY DEF Home, HomeQueue
    <3>5. QED
        BY <3>2, <3>3, <3>4
  <2>3. \A e \in Env : ps.status[e] = "READY" => ps.priority[e] < nq
      BY <2>1 DEF Levelled
  <2>4. QED
      BY <2>1, <2>2, <2>3 DEF QueuesMatchStatus, OnCpu
<1>2. QED
    BY <1>1, SchedulerInv, PTL

\* No dispatch passes over a READY process of a higher priority.
THEOREM DispatchIsByPriority == Spec => HighestPriorityFirst
<1> DEFINE Best == \A e \in Env : ps'.status[e] = "READY"
                                    => ps'.priority[e] >= ps'.priority[ps'.cur]
           A == (ps'.cur # NULL /\ (ps'.cur # ps.cur \/ clock_interrupt_handler)) => Best
<1>1. Inv /\ Inv' /\ [Next]_vars => [A]_vars
  <2> SUFFICES ASSUME Inv, Inv', Next, ps'.cur # NULL,
                      ps'.cur # ps.cur \/ clock_interrupt_handler
               PROVE  Best
      OBVIOUS
  <2>1. TopFirst(ps')
      BY NextKeeps, ClockKeeps DEF Kept
  <2>2. /\ Good(ps', {})
      BY DEF Inv, Fine
  <2>3. ps'.priority \in [Env -> Priority] /\ ps'.cur \in Env
      BY <2>2, SchedFields DEF Good, Pointer
  <2>4. \A e \in Env : ps'.priority[e] \in Int
      BY <2>3, Constants DEF Priority
  <2>5. QED
      BY <2>1, <2>3, <2>4 DEF TopFirst
<1>2. QED
    BY <1>1, SchedulerInv, PTL DEF Spec, HighestPriorityFirst
=============================================================================
