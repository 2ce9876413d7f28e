------------------------- MODULE SharedMemoryProofs -------------------------
(***************************************************************************)
(* SharedMemory proved, for any number of processes, names, pages, frames  *)
(* and objects of any size: the counts of references are those of the page *)
(* tables, an object is mapped whole or not at all, no two objects have a  *)
(* frame in common, and only its owner changes what a read-only object     *)
(* holds.                                                                  *)
(***************************************************************************)
EXTENDS SharedMemory, QueueLemmas

L == INSTANCE ListProofs WITH Elm <- Frame \union DFrame, List <- Lists,
         h <- <<>>, seq <- <<>>, loop <- <<>>

FL == "free_frame_list"

\* The free lists h are well formed and hold the frames F; the page file is not used.
Parts(F) == [l \in Lists |-> IF l = FL THEN F ELSE {}]
FreeLists(h, F) == L!Holding(h, Parts(F))

-----------------------------------------------------------------------------
(* Types, and the parts of the invariant.                                  *)

Entry == [frame : Frame \union {NULL}, present : BOOLEAN, used : BOOLEAN,
          modified : BOOLEAN, uhpage : BOOLEAN]

Regions == {"prog", "heap", "stack", "outside", "kernel"}

KType ==
    [h : Heap, refs : [Frame -> Nat], mem : [Frame -> Env \union {NULL}],
     dir : [Env -> SUBSET Regions], pt : [Env -> [Page -> Entry]], ok : BOOLEAN]

Share ==
    [owner : Env, name : Name, size : Nat \ {0}, isWritable : BOOLEAN,
     references : Nat \ {0}, frames : Seq(Frame)]

Asked == [owner : Env, name : Name, size : Nat \ {0}]

Unmapped(x) == {f \in Frame : \A e \in Env, p \in Page : x.pt[e][p].frame # f}

\* The references of f are the pages it is mapped at.
Counted(x, f) ==
    IsFiniteSet(MappedAt(x, f)) /\ x.refs[f] = Cardinality(MappedAt(x, f))

\* The types, the counts, and the entries: a frame and PERM_PRESENT go together,
\* in a region that has a table.
Tables(x) ==
    /\ x \in KType /\ \A f \in Frame : Counted(x, f)
    /\ \A e \in Env, p \in Page :
          /\ x.pt[e][p].present <=> x.pt[e][p].frame # NULL
          /\ x.pt[e][p].frame # NULL => PDX(p) \in x.dir[e]

\* The free frames are those mapped nowhere.
Store(x) == Tables(x) /\ FreeLists(x.h, Unmapped(x))

\* The pages of e that hold part of the object s, and all such pages.
Has(x, s, e) == {p \in Page : \E j \in DOMAIN s.frames : x.pt[e][p].frame = s.frames[j]}
All(x, s) == {v \in Env \X Page : v[2] \in Has(x, s, v[1])}

\* Every process has whole copies of s, its owner one at least; s counts them all,
\* and no frame of s is free.
Whole(x, s) ==
    /\ \A e \in Env :
          /\ IsFiniteSet(Has(x, s, e))
          /\ \E n \in 0 .. s.references : /\ Cardinality(Has(x, s, e)) = n * s.size
                                          /\ e = s.owner => n > 0
    /\ IsFiniteSet(All(x, s)) /\ s.references * s.size = Cardinality(All(x, s))
    /\ \A j \in DOMAIN s.frames : s.frames[j] \notin Unmapped(x)

\* Each object has frames of its own, each once, and a name of its own.
Apart(ss) ==
    /\ ss \in Seq(Share)
    /\ \A i \in DOMAIN ss :
          /\ Len(ss[i].frames) = ss[i].size
          /\ \A a, b \in DOMAIN ss[i].frames : ss[i].frames[a] = ss[i].frames[b] => a = b
    /\ \A i, j \in DOMAIN ss : i # j =>
          /\ Range(ss[i].frames) \intersect Range(ss[j].frames) = {}
          /\ ss[i].owner # ss[j].owner \/ ss[i].name # ss[j].name

\* What a process was told of the object it asked for is still so, and there is
\* still a place for it.
Promised ==
    \A e \in Env : getting[e] # Idle =>
       /\ \E i \in DOMAIN shares : /\ shares[i].owner = getting[e].owner
                                   /\ shares[i].name = getting[e].name
                                   /\ shares[i].size = getting[e].size
       /\ Holes(e, getting[e].size) # {}

\* Of a read-only object, only its owner has pages it may write.
Protected ==
    \A i \in DOMAIN shares : ~shares[i].isWritable =>
       \A e \in Env : e # shares[i].owner => Has(k, shares[i], e) \intersect writable[e] = {}

\* The inductive invariant.
Inv ==
    /\ Store(k) /\ k.ok /\ Apart(shares)
    /\ \A i \in DOMAIN shares : Whole(k, shares[i])
    /\ Promised /\ Protected
    /\ writable \in [Env -> SUBSET Page]
    /\ status \in [Env -> {"live", "exit"}]
    /\ getting \in [Env -> Asked \union {Idle}]
-----------------------------------------------------------------------------
(* The free list.                                                          *)

LEMMA Constants ==
    /\ L!ListConstants /\ L!IsFiniteSet(Frame \union DFrame)
    /\ NULL \notin Frame \union DFrame /\ Frame \intersect DFrame = {}
    /\ Page \subseteq Nat /\ Frame \subseteq Nat /\ IsFiniteSet(Frame)
    /\ SizeMod \in Nat /\ SizeMod > L!Cardinality(Frame \union DFrame) /\ 0 \in 0 .. SizeMod - 1
<1>1. L!IsFiniteSet(Frame \union DFrame) <=> IsFiniteSet(Frame \union DFrame)
    BY DEF IsFiniteSet, L!IsFiniteSet
<1>2. L!Cardinality(Frame \union DFrame) = Cardinality(Frame \union DFrame)
    BY <1>1 DEF Cardinality, L!Cardinality, IsFiniteSet, L!IsFiniteSet
<1>3. L!ListConstants
    BY FramesAssumption, LengthBound DEF L!ListConstants
<1>4. IsFiniteSet(Frame) /\ Cardinality(Frame \union DFrame) \in Nat
    BY FramesAssumption, FS_Subset, FS_CardinalityType
<1>5. QED
    BY <1>1, <1>2, <1>3, <1>4, FramesAssumption

\* The list operators of the model are those the list lemmas are about.
LEMMA SameLists ==
    /\ Heap = L!Heap /\ Pointer = L!Pointer
    /\ \A h, q, e : LIST_REMOVE(h, q, e) = L!LIST_REMOVE(h, q, e)
    /\ \A h, q, s : Represents(h, q, s) = L!Represents(h, q, s)
    /\ \A h, q : Walk(h, q) = L!Walk(h, q)
    /\ \A h, q, s : InsertAll(h, q, s) = L!InsertAll(h, q, s)
<1>1. Pointer = L!Pointer
    BY DEF Pointer, L!Pointer
<1>2. Heap = L!Heap
    BY <1>1 DEF Heap, L!Heap, Lists
<1>3. ASSUME NEW h, NEW q, NEW e PROVE LIST_REMOVE(h, q, e) = L!LIST_REMOVE(h, q, e)
    BY DEF LIST_REMOVE, L!LIST_REMOVE, Put, L!Put, SizePlus, L!SizePlus
<1>4. ASSUME NEW h, NEW q, NEW s PROVE Represents(h, q, s) = L!Represents(h, q, s)
    BY DEF Represents, L!Represents
<1>5. ASSUME NEW h, NEW q PROVE Walk(h, q) = L!Walk(h, q)
    BY DEF Walk, L!Walk, LOOP_LIST_NEXT, L!LOOP_LIST_NEXT, Cardinality, L!Cardinality,
           IsFiniteSet, L!IsFiniteSet
<1>6. ASSUME NEW h, NEW q, NEW s PROVE InsertAll(h, q, s) = L!InsertAll(h, q, s)
    BY DEF InsertAll, L!InsertAll, LIST_INIT, L!LIST_INIT, LIST_INSERT_HEAD, L!LIST_INSERT_HEAD,
           Put, L!Put, SizePlus, L!SizePlus
<1>7. QED
    BY <1>1, <1>2, <1>3, <1>4, <1>5, <1>6

LEMMA PartsType ==
    ASSUME NEW F \in SUBSET Frame
    PROVE  /\ Parts(F) \in [Lists -> SUBSET (Frame \union DFrame)] /\ Parts(F)[FL] = F
           /\ FL \in Lists /\ \A f \in Frame \ F, m \in Lists : f \notin Parts(F)[m]
           /\ \A G : [Parts(F) EXCEPT ![FL] = G] = Parts(G)
BY DEF Parts, FL, Lists

\* The list's first element is free, and there is none only if no frame is.
\* Without it, and with its links cleared, the list holds the others.
LEMMA ListTake ==
    ASSUME NEW h, NEW F \in SUBSET Frame, FreeLists(h, F)
    PROVE  /\ h \in Heap /\ (h.first[FL] \in F \/ h.first[FL] = NULL)
           /\ h.first[FL] # NULL =>
                 LET f == h.first[FL]
                     g == [LIST_REMOVE(h, FL, f) EXCEPT !.next[f] = NULL, !.prev[f] = NULL]
                 IN  FreeLists(g, F \ {f}) /\ g \in Heap
<1>1. h \in Heap /\ (h.first[FL] \in F \/ h.first[FL] = NULL)
    BY PartsType, Constants, SameLists, L!HoldingFirst DEF FreeLists
<1>2. ASSUME h.first[FL] # NULL
      PROVE  LET f == h.first[FL]
                 g == [LIST_REMOVE(h, FL, f) EXCEPT !.next[f] = NULL, !.prev[f] = NULL]
             IN  FreeLists(g, F \ {f}) /\ g \in Heap
  <2> DEFINE f == h.first[FL]
             r == LIST_REMOVE(h, FL, f)
             g == [r EXCEPT !.next[f] = NULL, !.prev[f] = NULL]
  <2>1. f \in F /\ f \in Frame /\ F \ {f} \in SUBSET Frame
      BY <1>1, <1>2
  <2> HIDE DEF f
  <2>2. FreeLists(r, F \ {f})
    <3>1. L!Holding(r, [Parts(F) EXCEPT ![FL] = Parts(F)[FL] \ {f}])
        BY <2>1, PartsType, Constants, SameLists, L!HoldingRemove DEF FreeLists
    <3>2. QED
        BY <3>1, PartsType DEF FreeLists
  <2>3. r \in Heap
      BY <2>1, <2>2, PartsType, Constants, SameLists, L!HoldingFirst DEF FreeLists
  <2> HIDE DEF r
  <2>4. /\ g \in Heap /\ g.first = r.first /\ g.last = r.last /\ g.size = r.size
        /\ g.next = [r.next EXCEPT ![f] = NULL] /\ g.prev = [r.prev EXCEPT ![f] = NULL]
    <3>1. NULL \in Pointer
        BY DEF Pointer
    <3>2. QED
        BY <2>1, <2>3, <3>1 DEF Heap
  <2> HIDE DEF g
  <2>5. FreeLists(g, F \ {f})
      BY <2>1, <2>2, <2>4, PartsType, Constants, SameLists, L!HoldingClear DEF FreeLists
  <2>6. QED
      BY <2>4, <2>5 DEF f, g, r
<1>3. QED
    BY <1>1, <1>2

\* The list is well formed, and its walk meets the free frames.
LEMMA ListWalk ==
    ASSUME NEW h, NEW F \in SUBSET Frame, FreeLists(h, F)
    PROVE  /\ Represents(h, FL, Walk(h, FL))
           /\ F = {Walk(h, FL)[i] : i \in DOMAIN Walk(h, FL)}
BY PartsType, Constants, SameLists, L!HoldingWalk DEF FreeLists

\* Both lists start empty, and initialize_paging puts every frame on the first.
LEMMA ListStart ==
    LET h == [first |-> Unlisted, last |-> Unlisted, size |-> [l \in Lists |-> 0],
              next |-> Unlinked, prev |-> Unlinked]
        g == initialize_paging(h, Ascending(Frame))
    IN  FreeLists(g, Frame) /\ g \in Heap
<1> DEFINE h == [first |-> Unlisted, last |-> Unlisted, size |-> [l \in Lists |-> 0],
                 next |-> Unlinked, prev |-> Unlinked]
           A == Ascending(Frame)
           g == InsertAll(h, FL, A)
<1>1. h \in Heap
    BY Constants DEF Unlisted, Unlinked, Pointer, Heap, Lists
<1>2. \A l \in Lists : h.first[l] = NULL /\ h.last[l] = NULL /\ h.size[l] = 0
    BY DEF Unlisted
<1> HIDE DEF h
<1>3. L!Holding(h, Parts({}))
  <2>1. [l \in Lists |-> {}] = Parts({})
      BY DEF Parts
  <2>2. QED
      BY <1>1, <1>2, <2>1, Constants, SameLists, L!HoldingNone
<1>4. /\ Cardinality(Frame) \in Nat /\ \A i \in 1 .. Cardinality(Frame) : A[i] \in Frame
      /\ \A i, j \in 1 .. Cardinality(Frame) : A[i] = A[j] => i = j
      /\ \A x \in Frame : \E i \in 1 .. Cardinality(Frame) : A[i] = x
      /\ Len(A) = Cardinality(Frame)
    BY Constants, AscendingLemma DEF Ascending
<1>5. A \in Seq(Frame \union DFrame)
  <2>1. A = [i \in 1 .. Cardinality(Frame) |-> A[i]]
      BY DEF Ascending
  <2>2. QED
      BY <1>4, <2>1
<1> HIDE DEF A
<1>6. Frame = {A[i] : i \in 1 .. Len(A)}
    BY <1>4
<1>7. L!Listing(A, Frame)
    BY <1>4, <1>5, <1>6 DEF L!Listing
<1>8. L!Holding(g, [Parts({}) EXCEPT ![FL] = Frame])
  <2>1. /\ Parts({}) \in [Lists -> SUBSET (Frame \union DFrame)] /\ Parts({})[FL] = {}
        /\ FL \in Lists /\ \A m \in Lists : Parts({})[m] \intersect Frame = {}
      BY PartsType DEF Parts
  <2>2. g = L!InsertAll(h, FL, A)
      BY SameLists
  <2> HIDE DEF g
  <2>3. QED
      BY <1>3, <1>7, <2>1, <2>2, Constants, L!HoldingAll
<1> HIDE DEF g
<1>9. FreeLists(g, Frame)
    BY <1>8, PartsType DEF FreeLists
<1>10. g \in Heap
    BY <1>9, PartsType, Constants, SameLists, L!HoldingFirst DEF FreeLists
<1>11. QED
    BY <1>9, <1>10 DEF initialize_paging, h, g, A, FL
-----------------------------------------------------------------------------
(* Frames and pages.                                                       *)

LEMMA Fields ==
    ASSUME NEW x \in KType
    PROVE  /\ x.h \in Heap /\ x.refs \in [Frame -> Nat] /\ x.mem \in [Frame -> Env \union {NULL}]
           /\ x.dir \in [Env -> SUBSET Regions] /\ x.pt \in [Env -> [Page -> Entry]]
           /\ x.ok \in BOOLEAN
           /\ \A e \in Env, p \in Page :
                 /\ x.pt[e][p] \in Entry /\ x.pt[e][p].frame \in Frame \union {NULL}
                 /\ x.pt[e][p].present \in BOOLEAN
<1>1. /\ x.h \in Heap /\ x.refs \in [Frame -> Nat] /\ x.mem \in [Frame -> Env \union {NULL}]
      /\ x.dir \in [Env -> SUBSET Regions] /\ x.pt \in [Env -> [Page -> Entry]]
      /\ x.ok \in BOOLEAN
    BY DEF KType
<1>2. QED
    BY <1>1 DEF Entry

\* What does not change the tables and the counts changes no invariant of them.
LEMMA TablesSame ==
    ASSUME NEW x, Tables(x), NEW y \in KType, y.pt = x.pt, y.refs = x.refs, y.dir = x.dir
    PROVE  Tables(y) /\ Unmapped(y) = Unmapped(x)
BY DEF Tables, Counted, MappedAt, Unmapped

\* allocate_frame takes a frame that is mapped nowhere, so its count was 0 before.
LEMMA AllocateOne ==
    ASSUME NEW x, Store(x), FreeFrame(x) # NULL
    PROVE  LET f == FreeFrame(x)
               a == allocate_frame(x)
           IN  /\ f \in Unmapped(x) /\ Tables(a) /\ FreeLists(a.h, Unmapped(x) \ {f})
               /\ a.pt = x.pt /\ a.mem = x.mem /\ a.ok = x.ok
<1> DEFINE f == FreeFrame(x)
           a == allocate_frame(x)
           r == LIST_REMOVE(x.h, FL, f)
           g == [r EXCEPT !.next[f] = NULL, !.prev[f] = NULL]
<1>1. /\ x \in KType /\ FreeLists(x.h, Unmapped(x)) /\ Unmapped(x) \in SUBSET Frame
      /\ Tables(x) /\ f = x.h.first[FL]
    BY DEF Store, Tables, Unmapped, FreeFrame, FL
<1>2. /\ f \in Unmapped(x) /\ f \in Frame /\ FreeLists(g, Unmapped(x) \ {f}) /\ g \in Heap
    BY <1>1, ListTake
<1> HIDE DEF f
<1>3. x.refs[f] = 0 /\ x.refs \in [Frame -> Nat]
  <2>1. MappedAt(x, f) = {}
      BY <1>2 DEF MappedAt, Unmapped
  <2>2. QED
      BY <1>1, <1>2, <2>1, FS_EmptySet, Fields DEF Tables, Counted
<1>4. a = [x EXCEPT !.h = g]
  <2> DEFINE m == [x EXCEPT !.h = r]
  <2>1. m.h = r /\ m.refs = x.refs /\ [x.refs EXCEPT ![f] = 0] = x.refs
      BY <1>1, <1>3 DEF KType
  <2>2. a = initialize_frame_info(m, f)
      BY DEF allocate_frame, f, FL
  <2> HIDE DEF r
  <2>3. initialize_frame_info(m, f) = [m EXCEPT !.refs = x.refs, !.h = g]
      BY <2>1 DEF initialize_frame_info
  <2>4. QED
      BY <1>1, <2>2, <2>3 DEF KType
<1> HIDE DEF g
<1>5. /\ a \in KType /\ a.h = g /\ a.refs = x.refs /\ a.pt = x.pt /\ a.mem = x.mem
      /\ a.dir = x.dir /\ a.ok = x.ok
    BY <1>1, <1>2, <1>4 DEF KType
<1> HIDE DEF a
<1>6. Tables(a)
    BY <1>1, <1>5, TablesSame
<1>7. QED
    BY <1>2, <1>5, <1>6 DEF f, a

LEMMA WithTableOne ==
    ASSUME NEW x \in KType, NEW e \in Env, NEW p \in Page
    PROVE  LET w == WithTable(x, e, p)
           IN  /\ w = [x EXCEPT !.dir = w.dir] /\ w.dir \in [Env -> SUBSET Regions]
               /\ PDX(p) \in w.dir[e] /\ \A a \in Env : x.dir[a] \subseteq w.dir[a]
<1>1. x.dir \in [Env -> SUBSET Regions] /\ PDX(p) \in Regions
    BY Fields DEF PDX, Page, Regions
<1>2. CASE PDX(p) \in x.dir[e]
  <2>1. x = [x EXCEPT !.dir = x.dir]
      BY DEF KType
  <2>2. QED
      BY <1>1, <1>2, <2>1 DEF WithTable, get_page_table
<1>3. CASE PDX(p) \notin x.dir[e]
  <2> DEFINE D == [x.dir EXCEPT ![e] = @ \union {PDX(p)}]
  <2>1. WithTable(x, e, p) = [x EXCEPT !.dir = D]
      BY <1>3 DEF WithTable, get_page_table, create_page_table
  <2>2. D \in [Env -> SUBSET Regions] /\ PDX(p) \in D[e] /\ \A a \in Env : x.dir[a] \subseteq D[a]
      BY <1>1
  <2> HIDE DEF D
  <2>3. [x EXCEPT !.dir = D].dir = D
      BY DEF KType
  <2>4. QED
      BY <2>1, <2>2, <2>3
<1>4. QED
    BY <1>2, <1>3

\* From x to z the page p of e gets the frame f.
Mapped(x, z, e, p, f) ==
    /\ Store(z) /\ z.mem = x.mem /\ z.ok = x.ok
    /\ \A a \in Env, q \in Page :
          z.pt[a][q].frame = IF a = e /\ q = p THEN f ELSE x.pt[a][q].frame

\* Mapping a frame that is not on the free list at a page that has none.
LEMMA MapOne ==
    ASSUME NEW x, Tables(x), NEW e \in Env, NEW p \in Page, x.pt[e][p].frame = NULL,
           NEW f \in Frame, FreeLists(x.h, Unmapped(x) \ {f})
    PROVE  Mapped(x, map_frame(x, e, f, p, FALSE), e, p, f)
<1> DEFINE w == WithTable(x, e, p)
           t == [x.pt[e][p] EXCEPT !.frame = f, !.present = TRUE, !.used = FALSE,
                                   !.modified = FALSE]
           R == [x.refs EXCEPT ![f] = @ + 1]
           P == [x.pt EXCEPT ![e][p] = t]
           z == map_frame(x, e, f, p, FALSE)
<1>1. /\ x \in KType /\ x.refs \in [Frame -> Nat] /\ x.pt \in [Env -> [Page -> Entry]]
      /\ x.pt[e][p] \in Entry /\ ~x.pt[e][p].present /\ f # NULL
      /\ \A g \in Frame : Counted(x, g)
    BY Fields, Constants DEF Tables
<1>2. /\ w = [x EXCEPT !.dir = w.dir] /\ w.dir \in [Env -> SUBSET Regions]
      /\ PDX(p) \in w.dir[e] /\ \A a \in Env : x.dir[a] \subseteq w.dir[a]
    BY <1>1, WithTableOne
<1> HIDE DEF w
<1>3. t \in Entry /\ t.frame = f /\ t.present
  <2>1. ASSUME NEW n \in Entry
        PROVE  LET u == [n EXCEPT !.frame = f, !.present = TRUE, !.used = FALSE,
                                  !.modified = FALSE]
               IN  u \in Entry /\ u.frame = f /\ u.present
      BY DEF Entry
  <2>2. QED
      BY <1>1, <2>1
<1>4. z = [w EXCEPT !.refs = R, !.pt = P]
  <2>1. w.pt = x.pt /\ w.refs = x.refs
      BY <1>1, <1>2 DEF KType
  <2>2. z = [w EXCEPT !.refs[f] = @ + 1,
                      !.pt[e][p] = [@ EXCEPT !.frame = f, !.present = TRUE,
                                             !.used = FALSE, !.modified = FALSE]]
      BY <1>1, <2>1 DEF map_frame, MapInto, w
  <2>3. QED
      BY <2>1, <2>2
<1> HIDE DEF t
<1>5. R \in [Frame -> Nat] /\ P \in [Env -> [Page -> Entry]]
    BY <1>1, <1>3
<1>6. \A g \in Frame : R[g] = IF g = f THEN x.refs[g] + 1 ELSE x.refs[g]
    BY <1>1
<1>7. \A a \in Env, q \in Page : P[a][q] = IF a = e /\ q = p THEN t ELSE x.pt[a][q]
    BY <1>1
<1> HIDE DEF R, P
<1>8. /\ z \in KType /\ z.h = x.h /\ z.refs = R /\ z.pt = P /\ z.mem = x.mem
      /\ z.dir = w.dir /\ z.ok = x.ok
    BY <1>1, <1>2, <1>4, <1>5 DEF KType
<1> HIDE DEF z
<1>9. \A a \in Env, q \in Page :
         /\ z.pt[a][q].frame = IF a = e /\ q = p THEN f ELSE x.pt[a][q].frame
         /\ z.pt[a][q].present <=> (a = e /\ q = p) \/ x.pt[a][q].present
    BY <1>3, <1>7, <1>8
<1>10. \A g \in Frame : MappedAt(z, g) = IF g = f THEN MappedAt(x, g) \union {<<e, p>>}
                                         ELSE MappedAt(x, g)
  <2>1. \A v \in Env \X Page : v = <<v[1], v[2]>> /\ v[1] \in Env /\ v[2] \in Page
      OBVIOUS
  <2>2. \A v \in Env \X Page : v[1] = e /\ v[2] = p <=> v = <<e, p>>
      BY <2>1
  <2>3. ASSUME NEW g \in Frame
        PROVE  MappedAt(z, g) = IF g = f THEN MappedAt(x, g) \union {<<e, p>>} ELSE MappedAt(x, g)
    <3>1. \A v \in Env \X Page : z.pt[v[1]][v[2]].frame =
                                   IF v = <<e, p>> THEN f ELSE x.pt[v[1]][v[2]].frame
        BY <1>9, <2>1, <2>2
    <3>2. x.pt[<<e, p>>[1]][<<e, p>>[2]].frame = NULL /\ <<e, p>> \in Env \X Page /\ g # NULL
        BY Constants
    <3>3. QED
        BY <3>1, <3>2 DEF MappedAt
  <2>4. QED
      BY <2>3
<1>11. \A g \in Frame : Counted(z, g)
  <2> TAKE g \in Frame
  <2>1. IsFiniteSet(MappedAt(x, g)) /\ x.refs[g] = Cardinality(MappedAt(x, g))
      BY <1>1 DEF Counted
  <2>2. <<e, p>> \notin MappedAt(x, f)
      BY <1>1 DEF MappedAt
  <2>3. CASE g = f
      BY <1>6, <1>8, <1>10, <2>1, <2>2, <2>3, FS_AddElement DEF Counted
  <2>4. CASE g # f
      BY <1>6, <1>8, <1>10, <2>1, <2>4 DEF Counted
  <2>5. QED
      BY <2>3, <2>4
<1>12. Tables(z)
    BY <1>1, <1>2, <1>8, <1>9, <1>11 DEF Tables
<1>13. Unmapped(z) = Unmapped(x) \ {f}
    BY <1>9, Constants DEF Unmapped
<1>14. QED
    BY <1>8, <1>9, <1>12, <1>13 DEF Store, Mapped, z
-----------------------------------------------------------------------------
(* Runs of pages.                                                          *)

\* From va on, e has n pages that are not mapped.
Room(x, e, va, n) ==
    va \in Nat /\ \A i \in 0 .. n - 1 : va + i \in Page /\ x.pt[e][va + i].frame = NULL

\* In y the pages of e from va on have the first n frames of fs; else y is as x.
Laid(x, y, e, va, fs, n) ==
    /\ Store(y) /\ y.mem = x.mem
    /\ \A a \in Env, q \in Page :
          y.pt[a][q].frame = IF a = e /\ q \in va .. va + n - 1 THEN fs[q - va + 1]
                             ELSE x.pt[a][q].frame

\* The address the user library chooses has room, on the heap.
LEMMA PlaceLemma ==
    ASSUME Store(k), NEW e \in Env, NEW n \in Nat \ {0}, Holes(e, n) # {}
    PROVE  Room(k, e, VAFor(e, n), n)
<1> DEFINE H == Holes(e, n)
<1>1. HeapPages \subseteq Page /\ HeapPages \subseteq Nat /\ H \subseteq HeapPages
    BY Constants DEF Page, Holes
<1>2. VAFor(e, n) \in H
  <2>1. \E m \in H : \A j \in H : m <= j
      BY <1>1, LeastNatural
  <2>2. QED
      BY <2>1 DEF VAFor, Min
<1>3. QED
    BY <1>1, <1>2 DEF Room, Holes, Store, Tables

SameOk(x, y) == y.ok = x.ok

\* In y the first n - 1 frames are laid; in a the n-th, f, is off the free list as
\* well, and p is the page for it.
Next(x, y, a, e, va, fs, n, p, f) ==
    /\ Laid(x, y, e, va, fs, n - 1)
    /\ va \in Nat /\ n \in Nat \ {0} /\ p = va + n - 1 /\ p \in Page /\ x.pt[e][p].frame = NULL
    /\ f = fs[n] /\ f \in Frame
    /\ Tables(a) /\ a.pt = y.pt /\ a.mem = y.mem /\ FreeLists(a.h, Unmapped(a) \ {f})

\* One page more.
LEMMA LaidMore ==
    ASSUME NEW x, NEW y, NEW a, NEW e \in Env, NEW va, NEW fs, NEW n, NEW p, NEW f,
           Next(x, y, a, e, va, fs, n, p, f)
    PROVE  LET z == map_frame(a, e, f, p, FALSE)
           IN  Laid(x, z, e, va, fs, n) /\ SameOk(a, z)
<1> DEFINE z == map_frame(a, e, f, p, FALSE)
<1>0. /\ Laid(x, y, e, va, fs, n - 1)
      /\ va \in Nat /\ n \in Nat \ {0} /\ p = va + n - 1 /\ p \in Page /\ x.pt[e][p].frame = NULL
      /\ f = fs[n] /\ f \in Frame
      /\ Tables(a) /\ a.pt = y.pt /\ a.mem = y.mem /\ FreeLists(a.h, Unmapped(a) \ {f})
    BY DEF Next
<1>1. a.pt[e][p].frame = NULL
  <2>1. p \notin va .. va + (n - 1) - 1
      BY <1>0
  <2>2. QED
      BY <1>0, <2>1 DEF Laid
<1>2. Mapped(a, z, e, p, f)
    BY <1>0, <1>1, MapOne
<1> HIDE DEF z
<1>3. ASSUME NEW b \in Env, NEW q \in Page
      PROVE  z.pt[b][q].frame = IF b = e /\ q \in va .. va + n - 1 THEN fs[q - va + 1]
                                ELSE x.pt[b][q].frame
  <2>1. q \in Nat
      BY Constants
  <2>2. /\ q = p => q \in va .. va + n - 1 /\ q - va + 1 = n
        /\ q # p => (q \in va .. va + (n - 1) - 1 <=> q \in va .. va + n - 1)
      BY <1>0, <2>1
  <2>3. y.pt[b][q].frame = IF b = e /\ q \in va .. va + (n - 1) - 1 THEN fs[q - va + 1]
                           ELSE x.pt[b][q].frame
      BY <1>0 DEF Laid
  <2>4. z.pt[b][q].frame = IF b = e /\ q = p THEN f ELSE y.pt[b][q].frame
      BY <1>0, <1>2 DEF Mapped
  <2>5. QED
      BY <1>0, <2>2, <2>3, <2>4
<1>4. Laid(x, z, e, va, fs, n) /\ SameOk(a, z)
    BY <1>0, <1>2, <1>3 DEF Laid, Mapped, SameOk
<1>5. QED
    BY <1>4 DEF z

\* The loop of get_shared_object: the frames fs of an object are mapped one after
\* the other.
MapPages(x, e, va, fs, n) ==
    LET step[j \in 0 .. n] ==
          IF j = 0 THEN x ELSE map_frame(step[j - 1], e, fs[j], va + j - 1, FALSE)
    IN  step[n]

LEMMA GetLoop ==
    ASSUME NEW x, Store(x), NEW e \in Env, NEW va, NEW n \in Nat \ {0}, Room(x, e, va, n), NEW fs,
           \A j \in 1 .. n : fs[j] \in Frame /\ fs[j] \notin Unmapped(x)
    PROVE  Laid(x, MapPages(x, e, va, fs, n), e, va, fs, n) /\ SameOk(x, MapPages(x, e, va, fs, n))
<1> DEFINE Step(j, y) == map_frame(y, e, fs[j], va + j - 1, FALSE)
           Set(j) == {y \in KType : Laid(x, y, e, va, fs, j) /\ y.ok = x.ok}
           I == [j \in 0 .. n |-> Set(j)]
           F == [j \in 1 .. n |-> [y \in KType |-> Step(j, y)]]
<1>1. va \in Nat /\ \A y : Store(y) => y \in KType
    BY DEF Room, Store, Tables
<1>2. x \in Set(0)
  <2>1. \A q \in Page : q \notin va .. va + 0 - 1
      BY <1>1
  <2>2. QED
      BY <1>1, <2>1 DEF Laid
<1>3. ASSUME NEW j \in 1 .. n, NEW y \in Set(j - 1) PROVE Step(j, y) \in Set(j)
  <2>1. Laid(x, y, e, va, fs, j - 1) /\ y.ok = x.ok /\ Store(y)
      BY DEF Laid
  <2>2. fs[j] \in Frame /\ Unmapped(y) \ {fs[j]} = Unmapped(y)
    <3>1. PICK a \in Env, q \in Page : x.pt[a][q].frame = fs[j]
        BY DEF Unmapped
    <3>2. fs[j] \in Frame /\ fs[j] # NULL
        BY Constants
    <3>3. ~(a = e /\ q \in va .. va + n - 1)
      <4>1. SUFFICES ASSUME a = e, q \in va .. va + n - 1 PROVE FALSE
          OBVIOUS
      <4>2. q - va \in 0 .. n - 1 /\ q = va + (q - va)
          BY <1>1, <4>1
      <4>3. x.pt[e][q].frame = NULL
          BY <4>2 DEF Room
      <4>4. QED
          BY <3>1, <3>2, <4>1, <4>3
    <3>4. q \in Nat /\ (q \in va .. va + (j - 1) - 1 => q \in va .. va + n - 1)
        BY <1>1, Constants
    <3>5. y.pt[a][q].frame = fs[j]
        BY <2>1, <3>1, <3>3, <3>4 DEF Laid
    <3>6. QED
        BY <3>2, <3>5 DEF Unmapped
  <2>3. Tables(y) /\ FreeLists(y.h, Unmapped(y) \ {fs[j]})
      BY <2>1, <2>2 DEF Store
  <2>4. Laid(x, Step(j, y), e, va, fs, j) /\ Step(j, y).ok = y.ok
    <3> DEFINE p == va + j - 1
               f == fs[j]
    <3>1. p \in Page /\ x.pt[e][p].frame = NULL /\ j \in Nat \ {0}
      <4>1. j - 1 \in 0 .. n - 1 /\ va + (j - 1) = va + j - 1
          BY <1>1
      <4>2. QED
          BY <4>1 DEF Room
    <3>2. Step(j, y) = map_frame(y, e, f, p, FALSE)
        OBVIOUS
    <3>3. Next(x, y, y, e, va, fs, j, p, f)
        BY <1>1, <2>1, <2>2, <2>3, <3>1 DEF Next
    <3> HIDE DEF p, f, Step
    <3> DEFINE z == map_frame(y, e, f, p, FALSE)
    <3>4. Laid(x, z, e, va, fs, j)
        BY <3>3, LaidMore
    <3>5. SameOk(y, z)
        BY <3>3, LaidMore
    <3>6. QED
        BY <3>2, <3>4, <3>5 DEF SameOk
  <2> HIDE DEF Step
  <2>5. QED
      BY <1>1, <2>1, <2>4 DEF Laid
<1>4. \A j : Set(j) \subseteq KType
    OBVIOUS
<1> HIDE DEF Step
<1>5. I \in [0 .. n -> SUBSET KType] /\ x \in I[0]
    BY <1>2, <1>4
<1>6. \A j \in 1 .. n : \A y \in I[j - 1] : F[j][y] = Step(j, y) /\ F[j][y] \in I[j]
  <2> HIDE DEF Set
  <2> TAKE j \in 1 .. n
  <2>1. j - 1 \in 0 .. n /\ j \in 0 .. n
      OBVIOUS
  <2> TAKE y \in I[j - 1]
  <2>2. y \in Set(j - 1) /\ y \in KType
      BY <1>4, <2>1
  <2>3. F[j][y] = Step(j, y)
      BY <2>2
  <2>4. QED
      BY <1>3, <2>1, <2>2, <2>3
<1>7. PICK g : Loop(g, x, n, F, I)
  <2> HIDE DEF F, I
  <2> QED
      BY <1>5, <1>6, LoopLemma
<1>8. g = [j \in 0 .. n |-> IF j = 0 THEN x ELSE map_frame(g[j - 1], e, fs[j], va + j - 1, FALSE)]
  <2>1. \A j \in 1 .. n : F[j][g[j - 1]] = map_frame(g[j - 1], e, fs[j], va + j - 1, FALSE)
    <3> TAKE j \in 1 .. n
    <3>1. j - 1 \in 0 .. n
        OBVIOUS
    <3>2. g[j - 1] \in I[j - 1]
      <4> HIDE DEF I, F
      <4> QED
          BY <1>7, <3>1 DEF Loop
    <3> HIDE DEF I, F
    <3>3. QED
        BY <1>6, <3>2 DEF Step
  <2> HIDE DEF I, F
  <2>2. g = [j \in 0 .. n |-> IF j = 0 THEN x ELSE F[j][g[j - 1]]]
      BY <1>7 DEF Loop
  <2>3. \A j \in 0 .. n : (IF j = 0 THEN x ELSE F[j][g[j - 1]])
           = IF j = 0 THEN x ELSE map_frame(g[j - 1], e, fs[j], va + j - 1, FALSE)
    <3>1. \A j \in 0 .. n : j # 0 => j \in 1 .. n
        OBVIOUS
    <3>2. QED
        BY <2>1, <3>1, Zenon
  <2>4. QED
      BY <2>2, <2>3
<1> DEFINE step[j \in 0 .. n] ==
             IF j = 0 THEN x ELSE map_frame(step[j - 1], e, fs[j], va + j - 1, FALSE)
<1>9. step = [j \in 0 .. n |-> IF j = 0 THEN x
                               ELSE map_frame(step[j - 1], e, fs[j], va + j - 1, FALSE)]
    BY <1>8, Zenon
<1>10. MapPages(x, e, va, fs, n) = step[n]
    BY DEF MapPages
<1> HIDE DEF step
<1>11. step[0] = x /\ \A j \in 1 .. n : step[j] = Step(j, step[j - 1])
  <2>1. 0 \in 0 .. n /\ \A j \in 1 .. n : j \in 0 .. n /\ j # 0
      OBVIOUS
  <2>2. QED
      BY <1>9, <2>1 DEF Step
<1> DEFINE S == {j \in 0 .. n : step[j] \in Set(j)}
<1>12. 0 \in S /\ \A j \in 1 .. n : j - 1 \in S => j \in S
  <2> HIDE DEF Set
  <2> QED
      BY <1>2, <1>3, <1>11
<1>13. n \in S
  <2> HIDE DEF S
  <2>1. 0 .. n \subseteq S
      BY <1>12, BoundedInduction
  <2>2. QED
      BY <2>1
<1>14. QED
    BY <1>13, <1>10 DEF SameOk

\* What create_shared_object has made after i turns of its loop: frames that were
\* free, each once, on pages of e; i of them unless it found no frame.
Making(x, e, va, i) ==
    {s \in [k : KType, frames : Seq(Frame)] :
       /\ Laid(x, s.k, e, va, s.frames, Len(s.frames)) /\ Len(s.frames) <= i
       /\ s.k.ok => Len(s.frames) = i
       /\ \A j \in 1 .. Len(s.frames) : s.frames[j] \in Unmapped(x)
       /\ \A a, b \in 1 .. Len(s.frames) : s.frames[a] = s.frames[b] => a = b}

\* Of the pages that had room, none was mapped before.
LEMMA RoomPages ==
    ASSUME NEW x, NEW e \in Env, NEW va, NEW n \in Nat, Room(x, e, va, n), NEW m \in 0 .. n
    PROVE  \A q \in va .. va + m - 1 : q \in Page /\ x.pt[e][q].frame = NULL /\ q - va + 1 \in 1 .. m
<1> TAKE q \in va .. va + m - 1
<1>1. va \in Nat /\ q - va \in 0 .. n - 1 /\ q = va + (q - va) /\ q - va + 1 \in 1 .. m
    BY DEF Room
<1>2. QED
    BY <1>1 DEF Room

\* The frames that are free after some were laid were free before, and are not those.
LEMMA LaidFree ==
    ASSUME NEW x, NEW y, NEW e \in Env, NEW va, NEW n \in Nat, Room(x, e, va, n),
           NEW m \in 0 .. n, NEW fs, Laid(x, y, e, va, fs, m)
    PROVE  \A f \in Unmapped(y) : f \in Unmapped(x) /\ \A j \in 1 .. m : fs[j] # f
<1> TAKE f \in Unmapped(y)
<1>1. f \in Frame /\ f # NULL /\ va \in Nat /\ \A a \in Env, q \in Page : y.pt[a][q].frame # f
    BY Constants DEF Unmapped, Room
<1>2. ASSUME NEW a \in Env, NEW q \in Page PROVE x.pt[a][q].frame # f
  <2>1. CASE a = e /\ q \in va .. va + m - 1
      BY <1>1, <2>1, RoomPages
  <2>2. CASE ~(a = e /\ q \in va .. va + m - 1)
      BY <1>1, <2>2 DEF Laid
  <2>3. QED
      BY <2>1, <2>2
<1>3. ASSUME NEW j \in 1 .. m PROVE fs[j] # f
  <2> DEFINE q == va + j - 1
  <2>1. q \in va .. va + m - 1 /\ q - va + 1 = j
      BY <1>1
  <2>2. q \in Page
      BY <2>1, RoomPages
  <2> HIDE DEF q
  <2>3. y.pt[e][q].frame = fs[j]
      BY <2>1, <2>2 DEF Laid
  <2>4. QED
      BY <1>1, <2>2, <2>3
<1>4. QED
    BY <1>1, <1>2, <1>3 DEF Unmapped

\* One turn of the loop.
LEMMA MakeMore ==
    ASSUME NEW x, Store(x), NEW e \in Env, NEW va, NEW n \in Nat \ {0}, Room(x, e, va, n),
           NEW i \in 1 .. n, NEW s \in Making(x, e, va, i - 1)
    PROVE  LET a == allocate_frame(s.k)
               f == FreeFrame(s.k)
           IN  (IF ~a.ok THEN [s EXCEPT !.k.ok = FALSE]
                ELSE [k |-> map_frame(a, e, f, va + i - 1, FALSE), frames |-> Append(s.frames, f)])
                  \in Making(x, e, va, i)
<1> DEFINE y == s.k
           fs == s.frames
           m == Len(fs)
           a == allocate_frame(y)
           f == FreeFrame(y)
           w == [y EXCEPT !.ok = FALSE]
           z == map_frame(a, e, f, va + i - 1, FALSE)
           gs == Append(fs, f)
<1>1. /\ s = [k |-> y, frames |-> fs] /\ y \in KType /\ fs \in Seq(Frame)
      /\ Laid(x, y, e, va, fs, m) /\ m <= i - 1 /\ m \in Nat /\ (y.ok => m = i - 1)
      /\ \A j \in 1 .. m : fs[j] \in Unmapped(x)
      /\ \A b, c \in 1 .. m : fs[b] = fs[c] => b = c
    BY DEF Making
<1>2. va \in Nat /\ m \in 0 .. n /\ i \in Nat
    BY <1>1 DEF Room
<1>3. CASE ~a.ok
  <2>1. /\ w \in KType /\ w.h = y.h /\ w.pt = y.pt /\ w.refs = y.refs /\ w.dir = y.dir
        /\ w.mem = y.mem /\ w.ok = FALSE
      BY <1>1 DEF KType
  <2> HIDE DEF w
  <2>2. Store(w)
      BY <1>1, <2>1, TablesSame DEF Store, Laid
  <2>3. Laid(x, w, e, va, fs, m)
      BY <1>1, <2>1, <2>2 DEF Laid
  <2>4. [k |-> w, frames |-> fs] \in Making(x, e, va, i)
      BY <1>1, <1>2, <2>1, <2>3 DEF Making
  <2>5. [s EXCEPT !.k.ok = FALSE] = [k |-> w, frames |-> fs]
    <3>1. s \in [k : KType, frames : Seq(Frame)]
        BY DEF Making
    <3>2. [s EXCEPT !.k.ok = FALSE] = [s EXCEPT !.k = w]
        BY DEF w
    <3> HIDE DEF w
    <3>3. QED
        BY <3>1, <3>2
  <2>6. QED
      BY <1>3, <2>4, <2>5
<1>4. CASE a.ok
  <2>1. f # NULL
      BY <1>4 DEF allocate_frame, Panic
  <2>2. Store(y)
      BY <1>1 DEF Laid
  <2>3. /\ f \in Unmapped(y) /\ Tables(a) /\ FreeLists(a.h, Unmapped(y) \ {f})
        /\ a.pt = y.pt /\ a.mem = y.mem /\ a.ok = y.ok
      BY <2>1, <2>2, AllocateOne
  <2>4. Unmapped(a) = Unmapped(y)
      BY <2>3 DEF Unmapped
  <2> HIDE DEF a, f
  <2>5. f \in Frame /\ f \in Unmapped(x) /\ (\A j \in 1 .. m : fs[j] # f) /\ m = i - 1
    <3>1. f \in Frame /\ y.ok
        BY <1>4, <2>3 DEF Unmapped
    <3>2. f \in Unmapped(x) /\ \A j \in 1 .. m : fs[j] # f
        BY <1>1, <1>2, <2>3, LaidFree
    <3>3. QED
        BY <1>1, <3>1, <3>2
  <2>6. /\ gs \in Seq(Frame) /\ Len(gs) = i /\ gs[i] = f /\ \A j \in 1 .. m : gs[j] = fs[j]
      BY <1>1, <1>2, <2>5
  <2> DEFINE p == va + i - 1
  <2>7. p \in Page /\ x.pt[e][p].frame = NULL
    <3>1. p \in va .. va + n - 1
        BY <1>2
    <3>2. QED
        BY <3>1, RoomPages
  <2> HIDE DEF gs
  <2>8. Laid(x, y, e, va, gs, i - 1)
    <3>1. \A q \in Page : q \in va .. va + m - 1 => fs[q - va + 1] = gs[q - va + 1]
      <4>1. \A q \in Nat : q \in va .. va + m - 1 => q - va + 1 \in 1 .. m
          BY <1>2
      <4>2. QED
          BY <2>6, <4>1, Constants
    <3>2. QED
        BY <1>1, <2>5, <3>1 DEF Laid
  <2>9. Next(x, y, a, e, va, gs, i, p, f)
      BY <1>2, <2>3, <2>4, <2>5, <2>6, <2>7, <2>8 DEF Next
  <2> HIDE DEF p
  <2> DEFINE u == map_frame(a, e, f, p, FALSE)
  <2>10. Laid(x, u, e, va, gs, i)
      BY <2>9, LaidMore
  <2>11. u \in KType
      BY <2>10 DEF Laid, Store, Tables
  <2>12. /\ \A j \in 1 .. i : gs[j] \in Unmapped(x)
         /\ \A b, c \in 1 .. i : gs[b] = gs[c] => b = c
    <3>1. \A j \in 1 .. i : j # i => j \in 1 .. m
        BY <1>2, <2>5
    <3>2. \A j \in 1 .. i : gs[j] = IF j = i THEN f ELSE fs[j]
        BY <2>6, <3>1
    <3>3. QED
        BY <1>1, <2>5, <3>1, <3>2
  <2> HIDE DEF u
  <2>13. [k |-> u, frames |-> gs] \in Making(x, e, va, i)
      BY <1>2, <2>6, <2>10, <2>11, <2>12 DEF Making
  <2>14. QED
      BY <1>4, <2>13 DEF a, f, u, p, gs
<1>5. QED
    BY <1>3, <1>4

\* The whole loop.
LEMMA CreateLoop ==
    ASSUME NEW x, Store(x), x.ok, NEW e \in Env, NEW va, NEW n \in Nat \ {0}, Room(x, e, va, n)
    PROVE  CreatePages(x, e, va, n) \in Making(x, e, va, n)
<1> DEFINE X == [k : KType, frames : Seq(Frame)]
           Step(i, s) == LET a == allocate_frame(s.k)
                             f == FreeFrame(s.k)
                         IN  IF ~a.ok THEN [s EXCEPT !.k.ok = FALSE]
                             ELSE [k |-> map_frame(a, e, f, va + i - 1, FALSE),
                                   frames |-> Append(s.frames, f)]
           s0 == [k |-> x, frames |-> <<>>]
           I == [i \in 0 .. n |-> Making(x, e, va, i)]
           F == [i \in 1 .. n |-> [s \in X |-> Step(i, s)]]
<1>1. s0 \in Making(x, e, va, 0)
  <2>1. x \in KType /\ va \in Nat /\ <<>> \in Seq(Frame) /\ Len(<<>>) = 0
      BY DEF Store, Tables, Room
  <2>2. Laid(x, x, e, va, <<>>, 0)
    <3>1. \A q \in Page : q \notin va .. va + 0 - 1
        BY <2>1
    <3>2. QED
        BY <3>1 DEF Laid
  <2>3. QED
      BY <2>1, <2>2 DEF Making
<1>2. \A i \in 1 .. n : \A s \in Making(x, e, va, i - 1) : Step(i, s) \in Making(x, e, va, i)
    BY MakeMore
<1>3. \A i : Making(x, e, va, i) \subseteq X
    BY DEF Making
<1> HIDE DEF Step, s0
<1>4. I \in [0 .. n -> SUBSET X] /\ s0 \in I[0]
    BY <1>1, <1>3
<1>5. \A i \in 1 .. n : \A s \in I[i - 1] : F[i][s] = Step(i, s) /\ F[i][s] \in I[i]
  <2> HIDE DEF X
  <2> TAKE i \in 1 .. n
  <2>1. i - 1 \in 0 .. n /\ i \in 0 .. n
      OBVIOUS
  <2> TAKE s \in I[i - 1]
  <2>2. s \in Making(x, e, va, i - 1) /\ s \in X
      BY <1>3, <2>1
  <2>3. F[i][s] = Step(i, s)
      BY <2>2
  <2>4. QED
      BY <1>2, <2>1, <2>2, <2>3
<1>6. PICK g : Loop(g, s0, n, F, I)
  <2> HIDE DEF F, I, X
  <2> QED
      BY <1>4, <1>5, LoopLemma
<1>7. g = [i \in 0 .. n |-> IF i = 0 THEN s0 ELSE Step(i, g[i - 1])]
  <2>1. \A i \in 1 .. n : F[i][g[i - 1]] = Step(i, g[i - 1])
    <3> TAKE i \in 1 .. n
    <3>1. i - 1 \in 0 .. n
        OBVIOUS
    <3> HIDE DEF I, F
    <3>2. g[i - 1] \in I[i - 1]
        BY <1>6, <3>1 DEF Loop
    <3>3. QED
        BY <1>5, <3>2
  <2> HIDE DEF I, F
  <2>2. g = [i \in 0 .. n |-> IF i = 0 THEN s0 ELSE F[i][g[i - 1]]]
      BY <1>6 DEF Loop
  <2>3. \A i \in 0 .. n : (IF i = 0 THEN s0 ELSE F[i][g[i - 1]])
                          = IF i = 0 THEN s0 ELSE Step(i, g[i - 1])
    <3>1. \A i \in 0 .. n : i # 0 => i \in 1 .. n
        OBVIOUS
    <3>2. QED
        BY <2>1, <3>1, Zenon
  <2>4. QED
      BY <2>2, <2>3
<1> DEFINE step[i \in 0 .. n] ==
             IF i = 0 THEN [k |-> x, frames |-> <<>>]
             ELSE LET s == step[i - 1]
                      a == allocate_frame(s.k)
                      f == FreeFrame(s.k)
                  IN  IF ~a.ok THEN [s EXCEPT !.k.ok = FALSE]
                      ELSE [k |-> map_frame(a, e, f, va + i - 1, FALSE),
                            frames |-> Append(s.frames, f)]
<1>8. step = [i \in 0 .. n |-> IF i = 0 THEN s0 ELSE Step(i, step[i - 1])]
  <2>1. \E h : h = [i \in 0 .. n |-> IF i = 0 THEN [k |-> x, frames |-> <<>>]
             ELSE LET s == h[i - 1]
                      a == allocate_frame(s.k)
                      f == FreeFrame(s.k)
                  IN  IF ~a.ok THEN [s EXCEPT !.k.ok = FALSE]
                      ELSE [k |-> map_frame(a, e, f, va + i - 1, FALSE),
                            frames |-> Append(s.frames, f)]]
      BY <1>7, Zenon DEF s0, Step
  <2>2. QED
      BY <2>1, Zenon DEF s0, Step
<1>9. CreatePages(x, e, va, n) = step[n]
    BY DEF CreatePages
<1> HIDE DEF step
<1>10. step[0] = s0 /\ \A i \in 1 .. n : step[i] = Step(i, step[i - 1])
  <2>1. 0 \in 0 .. n /\ \A i \in 1 .. n : i \in 0 .. n /\ i # 0
      OBVIOUS
  <2>2. QED
      BY <1>8, <2>1
<1> DEFINE S == {i \in 0 .. n : step[i] \in Making(x, e, va, i)}
<1>11. 0 \in S /\ \A i \in 1 .. n : i - 1 \in S => i \in S
    BY <1>1, <1>2, <1>10
<1>12. n \in S
  <2> HIDE DEF S
  <2>1. 0 .. n \subseteq S
      BY <1>11, BoundedInduction
  <2>2. QED
      BY <2>1
<1>13. QED
    BY <1>9, <1>12
-----------------------------------------------------------------------------
(* Objects.                                                                *)

\* Pages that had no frame may get one that is not of s: s does not notice.
LEMMA WholeSame ==
    ASSUME NEW x, NEW y, NEW s \in Share, Whole(x, s),
           \A a \in Env, q \in Page :
              y.pt[a][q].frame # x.pt[a][q].frame =>
                 x.pt[a][q].frame = NULL /\ \A j \in DOMAIN s.frames : y.pt[a][q].frame # s.frames[j]
    PROVE  Whole(y, s) /\ \A a \in Env : Has(y, s, a) = Has(x, s, a)
<1>1. \A j \in DOMAIN s.frames : s.frames[j] \in Frame /\ s.frames[j] # NULL
    BY Constants DEF Share
<1>2. \A a \in Env, q \in Page, j \in DOMAIN s.frames :
         y.pt[a][q].frame = s.frames[j] <=> x.pt[a][q].frame = s.frames[j]
    BY <1>1
<1>3. \A a \in Env : Has(y, s, a) = Has(x, s, a)
    BY <1>2 DEF Has
<1>4. All(y, s) = All(x, s)
    BY <1>3 DEF All
<1>5. \A j \in DOMAIN s.frames : s.frames[j] \notin Unmapped(y)
    BY <1>1, <1>2 DEF Whole, Unmapped
<1>6. QED
    BY <1>3, <1>4, <1>5 DEF Whole

\* From x to y the pages J of e have got a copy of s.
Copied(x, y, s, e, J) ==
    /\ J \intersect Has(x, s, e) = {} /\ J \subseteq Page
    /\ \A a \in Env : Has(y, s, a) = IF a = e THEN Has(x, s, a) \union J ELSE Has(x, s, a)
    /\ All(y, s) = All(x, s) \union ({e} \X J) /\ ({e} \X J) \intersect All(x, s) = {}
    /\ \A f \in Unmapped(y) : f \in Unmapped(x)
    /\ \A j \in DOMAIN s.frames : s.frames[j] \notin Unmapped(y)

LEMMA LaidHas ==
    ASSUME NEW x, NEW y, NEW s, s.frames \in Seq(Frame), NEW n \in Nat \ {0}, Len(s.frames) = n,
           NEW e \in Env, NEW va, Room(x, e, va, n), Laid(x, y, e, va, s.frames, n)
    PROVE  Copied(x, y, s, e, va .. va + n - 1)
<1> DEFINE J == va .. va + n - 1
           fs == s.frames
<1>1. /\ DOMAIN fs = 1 .. n /\ va \in Nat
      /\ \A j \in 1 .. n : fs[j] \in Frame /\ fs[j] # NULL
    BY Constants DEF Room
<1>2. \A q \in J : q \in Page /\ x.pt[e][q].frame = NULL /\ q - va + 1 \in 1 .. n
    BY RoomPages
<1>3. \A a \in Env, q \in Page : y.pt[a][q].frame = IF a = e /\ q \in J THEN fs[q - va + 1]
                                                    ELSE x.pt[a][q].frame
    BY DEF Laid
<1>4. \A j \in 1 .. n : va + j - 1 \in J /\ (va + j - 1) - va + 1 = j
    BY <1>1
<1> HIDE DEF J
<1>5. J \intersect Has(x, s, e) = {} /\ J \subseteq Page
    BY <1>1, <1>2 DEF Has
<1>6. ASSUME NEW a \in Env
      PROVE  Has(y, s, a) = IF a = e THEN Has(x, s, a) \union J ELSE Has(x, s, a)
  <2>1. \A q \in Page : q \in Has(y, s, a) <=> q \in Has(x, s, a) \/ (a = e /\ q \in J)
      BY <1>1, <1>2, <1>3 DEF Has
  <2>2. Has(y, s, a) \subseteq Page /\ Has(x, s, a) \subseteq Page
      BY DEF Has
  <2>3. QED
      BY <1>5, <2>1, <2>2
<1>7. All(y, s) = All(x, s) \union ({e} \X J) /\ ({e} \X J) \intersect All(x, s) = {}
  <2>1. \A v \in Env \X Page : v = <<v[1], v[2]>> /\ v[1] \in Env /\ v[2] \in Page
      OBVIOUS
  <2>2. \A v \in {e} \X J : v = <<v[1], v[2]>> /\ v[1] = e /\ v[2] \in J /\ v \in Env \X Page
      BY <1>5
  <2>3. \A v \in Env \X Page : v \in {e} \X J <=> v[1] = e /\ v[2] \in J
      BY <2>1
  <2>4. \A v \in Env \X Page : v \in All(y, s) <=> v \in All(x, s) \/ v \in {e} \X J
      BY <1>6, <2>1, <2>3 DEF All
  <2>5. All(y, s) \subseteq Env \X Page /\ All(x, s) \subseteq Env \X Page
      BY DEF All
  <2>6. \A v \in {e} \X J : v \notin All(x, s)
      BY <1>5, <2>2 DEF All
  <2>7. QED
      BY <2>2, <2>4, <2>5, <2>6
<1>8. \A j \in 1 .. n : fs[j] \notin Unmapped(y)
  <2> TAKE j \in 1 .. n
  <2> DEFINE q == va + j - 1
  <2>1. q \in J /\ q - va + 1 = j
      BY <1>4
  <2>2. q \in Page
      BY <1>2, <2>1
  <2> HIDE DEF q
  <2>3. y.pt[e][q].frame = fs[j]
      BY <1>3, <2>1, <2>2
  <2>4. QED
      BY <2>2, <2>3 DEF Unmapped
<1>9. \A f \in Unmapped(y) : f \in Unmapped(x)
  <2>1. n \in 0 .. n
      OBVIOUS
  <2>2. QED
      BY <2>1, LaidFree
<1>10. QED
    BY <1>1, <1>5, <1>6, <1>7, <1>8, <1>9 DEF J, Copied

\* There are r copies of the n pages of s, c[a] of them a's; the owner has one, or
\* gets its first as e.
Copies(x, s, n, r, c, e) ==
    /\ n \in Nat \ {0} /\ s.frames \in Seq(Frame) /\ Len(s.frames) = n /\ s.size = n
    /\ r \in Nat /\ c \in [Env -> 0 .. r]
    /\ \A a \in Env : /\ IsFiniteSet(Has(x, s, a)) /\ Cardinality(Has(x, s, a)) = c[a] * n
                      /\ a = s.owner => c[a] > 0 \/ a = e
    /\ IsFiniteSet(All(x, s)) /\ Cardinality(All(x, s)) = r * n

\* t is s with r references.
Counting(s, t, r) ==
    t.frames = s.frames /\ t.size = s.size /\ t.owner = s.owner /\ t.references = r

\* One copy more, counted.
LEMMA WholeMore ==
    ASSUME NEW x, NEW y, NEW s, NEW n, NEW r, NEW c, NEW e \in Env, Copies(x, s, n, r, c, e),
           NEW va, Room(x, e, va, n), Laid(x, y, e, va, s.frames, n),
           NEW t, Counting(s, t, r + 1)
    PROVE  Whole(y, t)
<1> DEFINE J == va .. va + n - 1
           d == [a \in Env |-> IF a = e THEN c[a] + 1 ELSE c[a]]
<1>0. /\ n \in Nat \ {0} /\ s.frames \in Seq(Frame) /\ Len(s.frames) = n /\ s.size = n
      /\ r \in Nat /\ c \in [Env -> 0 .. r]
      /\ \A a \in Env : /\ IsFiniteSet(Has(x, s, a)) /\ Cardinality(Has(x, s, a)) = c[a] * n
                        /\ a = s.owner => c[a] > 0 \/ a = e
      /\ IsFiniteSet(All(x, s)) /\ Cardinality(All(x, s)) = r * n
      /\ t.frames = s.frames /\ t.size = n /\ t.owner = s.owner /\ t.references = r + 1
    BY DEF Copies, Counting
<1>1. /\ J \intersect Has(x, s, e) = {}
      /\ \A a \in Env : Has(y, s, a) = IF a = e THEN Has(x, s, a) \union J ELSE Has(x, s, a)
      /\ All(y, s) = All(x, s) \union ({e} \X J) /\ ({e} \X J) \intersect All(x, s) = {}
      /\ \A j \in DOMAIN s.frames : s.frames[j] \notin Unmapped(y)
  <2>1. Copied(x, y, s, e, va .. va + n - 1)
      BY <1>0, LaidHas
  <2> HIDE DEF J
  <2>2. Copied(x, y, s, e, J)
      BY <2>1 DEF J
  <2>3. QED
      BY <2>2 DEF Copied
<1>2. IsFiniteSet(J) /\ Cardinality(J) = n
  <2>1. va \in Int /\ va + n - 1 \in Int /\ ~(va > va + n - 1) /\ (va + n - 1) - va + 1 = n
      BY <1>0 DEF Room
  <2>2. QED
      BY <2>1, FS_Interval
<1>3. IsFiniteSet({e} \X J) /\ Cardinality({e} \X J) = n
  <2>1. IsFiniteSet({e}) /\ Cardinality({e}) = 1
      BY FS_Singleton
  <2> HIDE DEF J
  <2>2. IsFiniteSet({e} \X J) /\ Cardinality({e} \X J) = 1 * n
      BY <1>2, <2>1, FS_Product
  <2>3. QED
      BY <1>0, <2>2
<1> HIDE DEF J
<1>4. ASSUME NEW S, IsFiniteSet(S), NEW T, IsFiniteSet(T), Cardinality(T) = n, S \intersect T = {}
      PROVE  IsFiniteSet(S \union T) /\ Cardinality(S \union T) = Cardinality(S) + n
  <2>1. Cardinality(S \intersect T) = 0 /\ Cardinality(S) \in Nat
      BY <1>4, FS_EmptySet, FS_CardinalityType
  <2>2. Cardinality(S \union T) = Cardinality(S) + Cardinality(T) - Cardinality(S \intersect T)
      BY <1>4, FS_Union
  <2>3. IsFiniteSet(S \union T)
      BY <1>4, FS_Union
  <2>4. QED
      BY <1>0, <1>4, <2>1, <2>2, <2>3
<1>5. \A m \in Nat : (m + 1) * n = m * n + n
    BY <1>0
<1>6. IsFiniteSet(All(y, s)) /\ Cardinality(All(y, s)) = (r + 1) * n
  <2> DEFINE S == All(x, s)
             T == {e} \X J
  <2>0. IsFiniteSet(S) /\ IsFiniteSet(T) /\ Cardinality(T) = n /\ S \intersect T = {}
        /\ Cardinality(S) = r * n /\ All(y, s) = S \union T
      BY <1>0, <1>1, <1>3
  <2> HIDE DEF S, T
  <2>1. IsFiniteSet(All(y, s)) /\ Cardinality(All(y, s)) = r * n + n
      BY <2>0, <1>4
  <2>2. QED
      BY <1>0, <1>5, <2>1
<1>7. ASSUME NEW a \in Env
      PROVE  /\ IsFiniteSet(Has(y, s, a)) /\ Cardinality(Has(y, s, a)) = d[a] * n
             /\ d[a] \in 0 .. r + 1 /\ (a = s.owner => d[a] > 0)
  <2>1. c[a] \in 0 .. r /\ c[a] \in Nat
      BY <1>0
  <2>2. CASE a = e
    <3>1. IsFiniteSet(Has(y, s, a)) /\ Cardinality(Has(y, s, a)) = c[a] * n + n
      <4> DEFINE S == Has(x, s, a)
      <4>1. /\ IsFiniteSet(S) /\ S \intersect J = {} /\ Has(y, s, a) = S \union J
            /\ Cardinality(S) = c[a] * n
          BY <1>0, <1>1, <2>2
      <4> HIDE DEF S
      <4>2. QED
          BY <1>2, <1>4, <4>1
    <3>2. d[a] = c[a] + 1 /\ d[a] > 0 /\ d[a] \in 0 .. r + 1
        BY <1>0, <2>1, <2>2
    <3>3. (c[a] + 1) * n = c[a] * n + n
        BY <1>5, <2>1
    <3>4. QED
        BY <3>1, <3>2, <3>3
  <2>3. CASE a # e
      BY <1>0, <1>1, <2>1, <2>3
  <2>4. QED
      BY <2>2, <2>3
<1>8. \A a : Has(y, t, a) = Has(y, s, a)
    BY <1>0 DEF Has
<1>9. All(y, t) = All(y, s)
    BY <1>8 DEF All
<1> HIDE DEF d
<1>10. QED
    BY <1>0, <1>1, <1>6, <1>7, <1>8, <1>9 DEF Whole
\* Getting the object once more.
LEMMA WholeCopy ==
    ASSUME NEW x, NEW y, NEW s \in Share, Whole(x, s), Len(s.frames) = s.size, NEW e \in Env,
           NEW va, Room(x, e, va, s.size), Laid(x, y, e, va, s.frames, s.size)
    PROVE  Whole(y, [s EXCEPT !.references = @ + 1])
<1> DEFINE n == s.size
           r == s.references
           t == [s EXCEPT !.references = @ + 1]
           c == [a \in Env |-> CHOOSE m \in 0 .. r : /\ Cardinality(Has(x, s, a)) = m * n
                                                     /\ a = s.owner => m > 0]
<1>1. n \in Nat \ {0} /\ r \in Nat /\ s.frames \in Seq(Frame) /\ Len(s.frames) = n
    BY DEF Share
<1>2. Counting(s, t, r + 1)
    BY DEF Share, Counting
<1>3. \A a \in Env : /\ c[a] \in 0 .. r /\ Cardinality(Has(x, s, a)) = c[a] * n
                     /\ a = s.owner => c[a] > 0
    BY DEF Whole
<1>4. /\ \A a \in Env : IsFiniteSet(Has(x, s, a))
      /\ IsFiniteSet(All(x, s)) /\ Cardinality(All(x, s)) = r * n
    BY DEF Whole
<1> HIDE DEF t
<1>5. c \in [Env -> 0 .. r]
  <2> DEFINE v(a) == CHOOSE m \in 0 .. r : /\ Cardinality(Has(x, s, a)) = m * n
                                           /\ a = s.owner => m > 0
  <2>1. \A a \in Env : c[a] = v(a)
      OBVIOUS
  <2> HIDE DEF v
  <2>2. \A a \in Env : v(a) \in 0 .. r
      BY <1>3, <2>1
  <2>3. c = [a \in Env |-> v(a)]
      BY DEF v
  <2> HIDE DEF c
  <2>4. QED
      BY <2>2, <2>3
<1> HIDE DEF c
<1>6. Copies(x, s, n, r, c, e)
    BY <1>1, <1>3, <1>4, <1>5 DEF Copies
<1>7. Whole(y, t)
    BY <1>2, <1>6, WholeMore
<1>8. QED
    BY <1>7 DEF t

\* The first copy, that of the owner.
LEMMA WholeNew ==
    ASSUME NEW x, NEW y, NEW s \in Share, s.references = 1, Len(s.frames) = s.size,
           \A j \in DOMAIN s.frames : s.frames[j] \in Unmapped(x),
           NEW e \in Env, s.owner = e, NEW va, Room(x, e, va, s.size),
           Laid(x, y, e, va, s.frames, s.size)
    PROVE  Whole(y, s) /\ \A a \in Env : a # e => Has(y, s, a) = {}
<1> DEFINE n == s.size
           c == [a \in Env |-> 0]
<1>1. n \in Nat \ {0} /\ s.frames \in Seq(Frame) /\ Len(s.frames) = n
    BY DEF Share
<1>2. \A a \in Env : Has(x, s, a) = {}
    BY DEF Has, Unmapped
<1>3. All(x, s) = {}
    BY <1>2 DEF All
<1>4. 0 * n = 0 /\ s.references = 0 + 1 /\ c \in [Env -> 0 .. 0]
    BY <1>1
<1>5. Copies(x, s, n, 0, c, e)
    BY <1>1, <1>2, <1>3, <1>4, FS_EmptySet DEF Copies
<1>6. Copied(x, y, s, e, va .. va + n - 1)
    BY <1>1, LaidHas
<1> HIDE DEF c
<1>7. Whole(y, s)
  <2>1. Counting(s, s, 0 + 1)
      BY DEF Counting
  <2> HIDE DEF n
  <2>2. Room(x, e, va, n) /\ Laid(x, y, e, va, s.frames, n)
      BY DEF n
  <2>3. QED
      BY <1>5, <2>1, <2>2, WholeMore
<1>8. QED
    BY <1>2, <1>6, <1>7 DEF Copied

\* What does not change the page tables changes no copies.
LEMMA WholeTables ==
    ASSUME NEW x, NEW y, y.pt = x.pt, NEW s
    PROVE  /\ Whole(x, s) => Whole(y, s)
           /\ \A e \in Env : Has(y, s, e) = Has(x, s, e)
<1>1. \A e : Has(y, s, e) = Has(x, s, e)
    BY DEF Has
<1>2. All(y, s) = All(x, s)
    BY <1>1 DEF All
<1>3. Unmapped(y) = Unmapped(x)
    BY DEF Unmapped
<1>4. QED
    BY <1>1, <1>2, <1>3 DEF Whole

\* find_share finds the object, or there is none.
LEMMA FindLemma ==
    ASSUME Apart(shares), NEW o, NEW m
    PROVE  LET i == find_share(o, m) IN
           \/ i = 0 /\ \A j \in DOMAIN shares : ~(shares[j].owner = o /\ shares[j].name = m)
           \/ /\ i \in DOMAIN shares /\ i # 0 /\ shares[i].owner = o /\ shares[i].name = m
              /\ \A j \in DOMAIN shares : shares[j].owner = o /\ shares[j].name = m => j = i
<1> DEFINE found == {i \in DOMAIN shares : shares[i].owner = o /\ shares[i].name = m}
<1>1. DOMAIN shares \subseteq Nat \ {0}
    BY DEF Apart
<1>2. CASE found = {}
    BY <1>2 DEF find_share
<1>3. CASE found # {}
  <2>1. \E i \in found : \A j \in found : i <= j
    <3>1. found \subseteq Nat
        BY <1>1
    <3> HIDE DEF found
    <3>2. QED
        BY <1>3, <3>1, LeastNatural
  <2>2. Min(found) \in found
      BY <2>1 DEF Min
  <2>3. find_share(o, m) = Min(found)
      BY <1>3 DEF find_share
  <2>4. QED
      BY <1>1, <2>2, <2>3 DEF Apart
<1>4. QED
    BY <1>2, <1>3
-----------------------------------------------------------------------------
(* The invariant is kept.                                                  *)

\* Pages of e that were not mapped get frames that no object has: no process has
\* less or more of any object.
LEMMA OthersKeep ==
    ASSUME Apart(shares), NEW i \in DOMAIN shares, Whole(k, shares[i]),
           NEW y, NEW e \in Env, NEW va, NEW n \in Nat, Room(k, e, va, n), NEW m \in 0 .. n,
           NEW fs, Laid(k, y, e, va, fs, m),
           \A b \in 1 .. m : \A j \in DOMAIN shares[i].frames : fs[b] # shares[i].frames[j]
    PROVE  /\ Whole(y, shares[i]) /\ \A a \in Env : Has(y, shares[i], a) = Has(k, shares[i], a)
           /\ Has(k, shares[i], e) \intersect (va .. va + m - 1) = {}
<1> DEFINE s == shares[i]
           J == va .. va + m - 1
<1>1. s \in Share
    BY DEF Apart
<1>2. \A q \in J : q \in Page /\ k.pt[e][q].frame = NULL /\ q - va + 1 \in 1 .. m
    BY RoomPages
<1>3. \A a \in Env, q \in Page : y.pt[a][q].frame = IF a = e /\ q \in J THEN fs[q - va + 1]
                                                    ELSE k.pt[a][q].frame
    BY DEF Laid
<1> HIDE DEF J
<1>4. \A a \in Env, q \in Page :
         y.pt[a][q].frame # k.pt[a][q].frame =>
            k.pt[a][q].frame = NULL /\ \A j \in DOMAIN s.frames : y.pt[a][q].frame # s.frames[j]
    BY <1>2, <1>3
<1>5. Has(k, s, e) \intersect J = {}
  <2>1. \A j \in DOMAIN s.frames : s.frames[j] # NULL
      BY <1>1, Constants DEF Share
  <2>2. QED
      BY <1>2, <2>1 DEF Has
<1> HIDE DEF s
<1>6. Whole(y, s) /\ \A a \in Env : Has(y, s, a) = Has(k, s, a)
    BY <1>1, <1>4, WholeSame DEF s
<1>7. QED
    BY <1>5, <1>6 DEF s, J

\* The holes of the other processes stay.
LEMMA HolesKept ==
    ASSUME Store(k), NEW e \in Env, NEW va, NEW fs, NEW m, Laid(k, k', e, va, fs, m),
           NEW a \in Env, a # e, NEW n
    PROVE  Holes(a, n)' = Holes(a, n)
<1>1. \A q \in Page : k'.pt[a][q].present <=> k.pt[a][q].present
    BY DEF Laid, Store, Tables
<1>2. HeapPages \subseteq Page
    BY DEF Page
<1>3. QED
    BY <1>1, <1>2 DEF Holes

\* Steps that leave the memory and the objects alone.
LEMMA Quiet ==
    ASSUME Inv, UNCHANGED <<k, writable, shares, getting>>,
           status' \in [Env -> {"live", "exit"}]
    PROVE  Inv'
BY DEF Inv, Promised, Protected, Holes
\* smalloc: the object is there already, it is of no pages, or its pages are made.
LEMMA CreateInv ==
    ASSUME Inv, NEW e \in Env, NEW name \in Name, NEW n \in Sizes, NEW w \in BOOLEAN,
           sys_create_shared_object(e, name, n, w)
    PROVE  Inv' /\ (k'.mem = k.mem)
<1> DEFINE va == VAFor(e, n)
           made == CreatePages(k, e, va, n)
           y == made.k
           fs == made.frames
           m == Len(fs)
           x == [y EXCEPT !.ok = TRUE]
           new == alloc_share(e, name, n, w, fs)
           W == {va + i - 1 : i \in DOMAIN fs}
<1>1. /\ Store(k) /\ k.ok /\ Apart(shares) /\ \A i \in DOMAIN shares : Whole(k, shares[i])
      /\ Promised /\ Protected /\ writable \in [Env -> SUBSET Page]
      /\ status \in [Env -> {"live", "exit"}] /\ getting \in [Env -> Asked \union {Idle}]
    BY DEF Inv
<1>2. getting[e] = Idle /\ getting' = getting /\ Holes(e, n) # {}
    BY DEF sys_create_shared_object, Ready
<1>3. CASE find_share(e, name) # 0
  <2>1. UNCHANGED <<k, writable, shares, status>>
      BY <1>3 DEF sys_create_shared_object
  <2>2. QED
      BY <1>1, <1>2, <2>1, Quiet
<1>4. CASE find_share(e, name) = 0 /\ n = 0
  <2>1. UNCHANGED <<k, writable, shares>> /\ status' = [status EXCEPT ![e] = "exit"]
      BY <1>4 DEF sys_create_shared_object
  <2>2. status' \in [Env -> {"live", "exit"}]
      BY <1>1, <2>1
  <2>3. QED
      BY <1>2, <2>1, <2>2, Quiet
<1>5. CASE find_share(e, name) = 0 /\ n > 0
  <2>1. /\ k' = x /\ writable' = [writable EXCEPT ![e] = @ \union W]
        /\ IF y.ok THEN shares' = Append(shares, new) /\ status' = status
           ELSE status' = [status EXCEPT ![e] = "exit"] /\ shares' = shares
      BY <1>5 DEF sys_create_shared_object
  <2>2. n \in Nat \ {0}
      BY <1>5, SharedAssumption
  <2>3. Room(k, e, va, n)
      BY <1>1, <1>2, <2>2, PlaceLemma
  <2> HIDE DEF va
  <2>4. made \in Making(k, e, va, n)
      BY <1>1, <2>2, <2>3, CreateLoop
  <2> HIDE DEF made
  <2>5. /\ y \in KType /\ fs \in Seq(Frame) /\ m \in 0 .. n /\ Laid(k, y, e, va, fs, m)
        /\ (y.ok => m = n) /\ va \in Nat
        /\ \A j \in 1 .. m : fs[j] \in Unmapped(k)
        /\ \A a, b \in 1 .. m : fs[a] = fs[b] => a = b
      BY <2>2, <2>3, <2>4 DEF Making, Room
  <2> HIDE DEF y, fs
  <2>6. /\ x \in KType /\ x.h = y.h /\ x.pt = y.pt /\ x.refs = y.refs /\ x.dir = y.dir
        /\ x.mem = y.mem /\ x.ok = TRUE
      BY <2>5 DEF KType
  <2> HIDE DEF x
  <2>7. Store(x) /\ Laid(k, x, e, va, fs, m)
    <3>1. Store(x)
        BY <2>5, <2>6, TablesSame DEF Store, Laid
    <3>2. QED
        BY <2>5, <2>6, <3>1 DEF Laid
  <2> DEFINE J == va .. va + m - 1
  <2>8. DOMAIN fs = 1 .. m /\ W = J /\ J \subseteq Page
    <3>1. \A q \in J : q - va + 1 \in 1 .. m /\ q = va + (q - va + 1) - 1
        BY <2>5
    <3>2. \A i \in 1 .. m : va + i - 1 \in J
        BY <2>5
    <3>3. J \subseteq Page
        BY <2>2, <2>3, <2>5, RoomPages
    <3>4. DOMAIN fs = 1 .. m
        BY <2>5
    <3> HIDE DEF J, m
    <3>5. W = J
        BY <3>1, <3>2, <3>4
    <3>6. QED
        BY <3>3, <3>4, <3>5
  <2> HIDE DEF J, W, m
  <2>9. ASSUME NEW i \in DOMAIN shares
        PROVE  /\ Whole(x, shares[i]) /\ \A a \in Env : Has(x, shares[i], a) = Has(k, shares[i], a)
               /\ Has(k, shares[i], e) \intersect J = {}
    <3>1. \A b \in 1 .. m : \A j \in DOMAIN shares[i].frames : fs[b] # shares[i].frames[j]
        BY <1>1, <2>5 DEF Whole
    <3>2. n \in Nat /\ m \in 0 .. n /\ Whole(k, shares[i])
        BY <1>1, <2>2, <2>5
    <3>3. QED
        BY <1>1, <2>3, <2>7, <3>1, <3>2, OthersKeep DEF J
  <2>10. ASSUME y.ok
         PROVE  /\ new \in Share /\ Len(new.frames) = new.size /\ Whole(x, new)
                /\ (\A a \in Env : a # e => Has(x, new, a) = {})
                /\ new.owner = e /\ new.name = name /\ new.isWritable = w /\ new.frames = fs
    <3>1. /\ new.owner = e /\ new.name = name /\ new.isWritable = w /\ new.frames = fs
          /\ new.size = n /\ new.references = 1 /\ new \in Share
        BY <2>2, <2>5 DEF alloc_share, Share
    <3> HIDE DEF new
    <3>2. Len(new.frames) = new.size /\ \A j \in DOMAIN new.frames : new.frames[j] \in Unmapped(k)
        BY <2>5, <2>8, <2>10, <3>1 DEF m
    <3>3. Room(k, e, va, new.size) /\ Laid(k, x, e, va, new.frames, new.size)
        BY <2>3, <2>5, <2>7, <2>10, <3>1
    <3>4. Whole(x, new) /\ \A a \in Env : a # e => Has(x, new, a) = {}
        BY <3>1, <3>2, <3>3, WholeNew
    <3>5. QED
        BY <3>1, <3>2, <3>4
  <2> HIDE DEF new
  <2>11. \A i \in DOMAIN shares : i \in DOMAIN shares' /\ shares'[i] = shares[i]
      BY <1>1, <2>1, <2>10 DEF Apart
  <2>12. ASSUME NEW i \in DOMAIN shares', i \notin DOMAIN shares
         PROVE  y.ok /\ i = Len(shares) + 1 /\ shares'[i] = new
      BY <1>1, <2>1, <2>10, <2>12 DEF Apart
  <2>13. Apart(shares')
    <3>1. ASSUME y.ok, NEW i \in DOMAIN shares
          PROVE  /\ Range(shares[i].frames) \intersect Range(fs) = {}
                 /\ shares[i].owner # e \/ shares[i].name # name
      <4>1. \A j \in DOMAIN shares[i].frames : shares[i].frames[j] \notin Unmapped(k)
          BY <1>1 DEF Whole
      <4>2. \A j \in DOMAIN fs : fs[j] \in Unmapped(k)
          BY <2>5, <2>8
      <4>3. shares[i].owner # e \/ shares[i].name # name
          BY <1>1, <1>5, FindLemma
      <4>4. QED
          BY <4>1, <4>2, <4>3 DEF Range
    <3>2. shares' \in Seq(Share)
        BY <1>1, <2>1, <2>10 DEF Apart
    <3>3. ASSUME NEW i \in DOMAIN shares'
          PROVE  /\ Len(shares'[i].frames) = shares'[i].size
                 /\ \A a, b \in DOMAIN shares'[i].frames :
                       shares'[i].frames[a] = shares'[i].frames[b] => a = b
      <4>1. CASE i \in DOMAIN shares
          BY <1>1, <2>11, <4>1 DEF Apart
      <4>2. CASE i \notin DOMAIN shares
          BY <2>5, <2>8, <2>10, <2>12, <4>2
      <4>3. QED
          BY <4>1, <4>2
    <3>4. ASSUME NEW i \in DOMAIN shares', NEW j \in DOMAIN shares', i # j
          PROVE  /\ Range(shares'[i].frames) \intersect Range(shares'[j].frames) = {}
                 /\ shares'[i].owner # shares'[j].owner \/ shares'[i].name # shares'[j].name
      <4>1. CASE i \in DOMAIN shares /\ j \in DOMAIN shares
        <5>1. shares'[i] = shares[i] /\ shares'[j] = shares[j]
            BY <2>11, <4>1
        <5>2. /\ Range(shares[i].frames) \intersect Range(shares[j].frames) = {}
              /\ shares[i].owner # shares[j].owner \/ shares[i].name # shares[j].name
            BY <1>1, <3>4, <4>1 DEF Apart
        <5>3. QED
            BY <5>1, <5>2
      <4>2. CASE i \in DOMAIN shares /\ j \notin DOMAIN shares
          BY <2>10, <2>11, <2>12, <3>1, <4>2
      <4>3. CASE i \notin DOMAIN shares /\ j \in DOMAIN shares
          BY <2>10, <2>11, <2>12, <3>1, <4>3
      <4>4. CASE i \notin DOMAIN shares /\ j \notin DOMAIN shares
          BY <2>12, <3>4, <4>4
      <4>5. QED
          BY <4>1, <4>2, <4>3, <4>4
    <3>5. QED
        BY <3>2, <3>3, <3>4 DEF Apart
  <2>14. \A i \in DOMAIN shares' : Whole(k', shares'[i])
      BY <2>1, <2>9, <2>10, <2>11, <2>12
  <2>15. Promised'
    <3>1. SUFFICES ASSUME NEW a \in Env, getting'[a] # Idle
                   PROVE  /\ \E i \in DOMAIN shares' : /\ shares'[i].owner = getting'[a].owner
                                                       /\ shares'[i].name = getting'[a].name
                                                       /\ shares'[i].size = getting'[a].size
                          /\ Holes(a, getting[a].size)' # {}
        BY <1>2 DEF Promised
    <3>2. a # e /\ getting[a] # Idle
        BY <1>2, <3>1
    <3>3. PICK i \in DOMAIN shares : /\ shares[i].owner = getting[a].owner
                                     /\ shares[i].name = getting[a].name
                                     /\ shares[i].size = getting[a].size
        BY <1>1, <3>2 DEF Promised
    <3>4. Holes(a, getting[a].size)' = Holes(a, getting[a].size)
        BY <1>1, <1>2, <2>1, <2>7, <3>2, HolesKept
    <3>5. Holes(a, getting[a].size) # {}
        BY <1>1, <3>2 DEF Promised
    <3>6. QED
        BY <1>2, <2>11, <3>3, <3>4, <3>5
  <2>16. writable' \in [Env -> SUBSET Page] /\ status' \in [Env -> {"live", "exit"}]
      BY <1>1, <2>1, <2>8
  <2>17. Protected'
    <3>1. SUFFICES ASSUME NEW i \in DOMAIN shares', ~shares'[i].isWritable, NEW a \in Env,
                          a # shares'[i].owner
                   PROVE  Has(x, shares'[i], a) \intersect writable'[a] = {}
        BY <2>1 DEF Protected
    <3>2. CASE i \in DOMAIN shares
      <4>1. Has(k, shares[i], a) \intersect writable[a] = {} /\ shares'[i] = shares[i]
          BY <1>1, <2>11, <3>1, <3>2 DEF Protected
      <4>2. writable'[a] = IF a = e THEN writable[a] \union J ELSE writable[a]
          BY <1>1, <2>1, <2>8
      <4>3. QED
          BY <2>9, <3>2, <4>1, <4>2
    <3>3. CASE i \notin DOMAIN shares
        BY <2>10, <2>12, <3>1, <3>3
    <3>4. QED
        BY <3>2, <3>3
  <2>18. k'.mem = k.mem /\ Store(k') /\ k'.ok
      BY <2>1, <2>6, <2>7 DEF Laid
  <2>19. QED
      BY <1>1, <1>2, <2>13, <2>14, <2>15, <2>16, <2>17, <2>18 DEF Inv
<1>6. n \in Nat
    BY SharedAssumption
<1>7. QED
    BY <1>3, <1>4, <1>5, <1>6

\* The first call of sget.
LEMMA SizeInv ==
    ASSUME Inv, NEW e \in Env, NEW owner \in Env, NEW name \in Name,
           sys_size_of_shared_object(e, owner, name)
    PROVE  Inv' /\ k'.mem = k.mem
<1> DEFINE i == find_share(owner, name)
           g == [owner |-> owner, name |-> name, size |-> shares[i].size]
<1>1. /\ Apart(shares) /\ Promised /\ getting \in [Env -> Asked \union {Idle}]
      /\ DOMAIN shares \subseteq Nat \ {0} /\ \A j \in DOMAIN shares : shares[j].size \in Nat \ {0}
  <2>1. Apart(shares) /\ Promised /\ getting \in [Env -> Asked \union {Idle}]
      BY DEF Inv
  <2>2. shares \in Seq(Share)
      BY <2>1 DEF Apart
  <2>3. DOMAIN shares \subseteq Nat \ {0} /\ \A j \in DOMAIN shares : shares[j] \in Share
      BY <2>2
  <2>4. \A s \in Share : s.size \in Nat \ {0}
      BY DEF Share
  <2>5. QED
      BY <2>1, <2>3, <2>4
<1>2. i \in DOMAIN shares /\ shares[i].owner = owner /\ shares[i].name = name
  <2>1. i # 0
      BY DEF sys_size_of_shared_object, size_of_shared_object
  <2>2. QED
      BY <1>1, <2>1, FindLemma
<1>3. size_of_shared_object(owner, name) = shares[i].size
    BY <1>1, <1>2 DEF size_of_shared_object
<1>4. /\ getting' = [getting EXCEPT ![e] = g] /\ Holes(e, shares[i].size) # {}
      /\ UNCHANGED <<k, writable, shares, status>>
    BY <1>3 DEF sys_size_of_shared_object
<1> HIDE DEF i
<1>5. g \in Asked /\ g.owner = owner /\ g.name = name /\ g.size = shares[i].size
    BY <1>1, <1>2 DEF Asked
<1> HIDE DEF g
<1>6. Promised'
  <2>1. SUFFICES ASSUME NEW a \in Env, getting'[a] # Idle
                 PROVE  /\ \E j \in DOMAIN shares : /\ shares[j].owner = getting'[a].owner
                                                    /\ shares[j].name = getting'[a].name
                                                    /\ shares[j].size = getting'[a].size
                        /\ Holes(a, getting'[a].size) # {}
      BY <1>4 DEF Promised, Holes
  <2>2. CASE a = e
      BY <1>1, <1>2, <1>4, <1>5, <2>2
  <2>3. CASE a # e
      BY <1>1, <1>4, <2>1, <2>3 DEF Promised
  <2>4. QED
      BY <2>2, <2>3
<1>7. getting' \in [Env -> Asked \union {Idle}]
    BY <1>1, <1>4, <1>5
<1>8. Protected'
    BY <1>4 DEF Inv, Protected
<1>9. QED
    BY <1>4, <1>6, <1>7, <1>8 DEF Inv
\* The second: the object is still the one whose size was told, and its frames go
\* where no page is mapped.
LEMMA GetInv ==
    ASSUME Inv, NEW e \in Env, sys_get_shared_object(e)
    PROVE  Inv' /\ k'.mem = k.mem
<1> DEFINE g == getting[e]
           i == find_share(g.owner, g.name)
           s == shares[i]
           n == s.size
           va == VAFor(e, g.size)
           fs == s.frames
           y == MapPages(k, e, va, fs, n)
           J == va .. va + n - 1
           t == [s EXCEPT !.references = @ + 1]
<1>1. /\ Store(k) /\ k.ok /\ Apart(shares) /\ \A j \in DOMAIN shares : Whole(k, shares[j])
      /\ Promised /\ Protected /\ writable \in [Env -> SUBSET Page]
      /\ status \in [Env -> {"live", "exit"}] /\ getting \in [Env -> Asked \union {Idle}]
    BY DEF Inv
<1>2. /\ k' = y /\ g # Idle /\ status' = status
      /\ writable' = [writable EXCEPT ![e] = IF s.isWritable THEN @ \union J ELSE @ \ J]
      /\ shares' = [shares EXCEPT ![i].references = @ + 1]
      /\ getting' = [getting EXCEPT ![e] = Idle]
    BY DEF sys_get_shared_object, GetPermission, MapPages
<1>3. i \in DOMAIN shares /\ s.size = g.size /\ Holes(e, g.size) # {}
  <2> HIDE DEF g
  <2>1. PICK j \in DOMAIN shares : /\ shares[j].owner = g.owner /\ shares[j].name = g.name
                                   /\ shares[j].size = g.size
      BY <1>1, <1>2 DEF Promised, g
  <2>2. i = j
    <3> HIDE DEF i
    <3>1. QED
        BY <1>1, <2>1, FindLemma DEF i
  <2>3. Holes(e, g.size) # {}
      BY <1>1, <1>2 DEF Promised, g
  <2>4. QED
      BY <2>1, <2>2, <2>3
<1> HIDE DEF g, i
<1>4. s \in Share /\ \A j \in DOMAIN shares : shares[j] \in Share
  <2>1. shares \in Seq(Share)
      BY <1>1 DEF Apart
  <2>2. QED
      BY <1>3, <2>1
<1>5. n \in Nat \ {0} /\ fs \in Seq(Frame) /\ Len(fs) = n /\ DOMAIN fs = 1 .. n
  <2>1. n \in Nat \ {0} /\ fs \in Seq(Frame)
      BY <1>4 DEF Share
  <2>2. Len(fs) = n
      BY <1>1, <1>3 DEF Apart
  <2>3. QED
      BY <2>1, <2>2
<1>6. Room(k, e, va, n)
    BY <1>1, <1>3, <1>5, PlaceLemma
<1> HIDE DEF va
<1>7. \A j \in 1 .. n : fs[j] \in Frame /\ fs[j] \notin Unmapped(k)
    BY <1>1, <1>3, <1>5 DEF Whole
<1>8. Laid(k, y, e, va, fs, n) /\ y.ok = k.ok
  <2> HIDE DEF s
  <2>1. Laid(k, y, e, va, fs, n)
      BY <1>1, <1>5, <1>6, <1>7, GetLoop
  <2>2. SameOk(k, y)
      BY <1>1, <1>5, <1>6, <1>7, GetLoop
  <2>3. QED
      BY <2>1, <2>2 DEF SameOk
<1> HIDE DEF y
<1>9. J \subseteq Page
  <2>1. n \in Nat /\ n \in 0 .. n
      BY <1>5
  <2> HIDE DEF n
  <2>2. QED
      BY <1>6, <2>1, RoomPages
<1>10. \A j \in DOMAIN shares :
          /\ j \in DOMAIN shares' /\ shares'[j].frames = shares[j].frames
          /\ shares'[j].owner = shares[j].owner /\ shares'[j].name = shares[j].name
          /\ shares'[j].size = shares[j].size /\ shares'[j].isWritable = shares[j].isWritable
          /\ shares'[j] = IF j = i THEN t ELSE shares[j]
  <2>1. \A j \in DOMAIN shares : j \in DOMAIN shares' /\ shares'[j] = IF j = i THEN t ELSE shares[j]
      BY <1>2, <1>3
  <2>2. /\ t.frames = s.frames /\ t.owner = s.owner /\ t.name = s.name /\ t.size = s.size
        /\ t.isWritable = s.isWritable
      BY <1>4 DEF Share
  <2> HIDE DEF t
  <2>3. QED
      BY <2>1, <2>2
<1>11. DOMAIN shares' = DOMAIN shares
    BY <1>2
<1>12. t \in Share
  <2>1. s.references + 1 \in Nat \ {0}
      BY <1>4 DEF Share
  <2>2. \A r \in Nat \ {0} : [s EXCEPT !.references = r] \in Share
      BY <1>4 DEF Share
  <2>3. QED
      BY <2>1, <2>2
<1>13. ASSUME NEW j \in DOMAIN shares, j # i
       PROVE  /\ Whole(y, shares[j]) /\ \A a \in Env : Has(y, shares[j], a) = Has(k, shares[j], a)
              /\ Has(k, shares[j], e) \intersect J = {}
  <2>1. \A b \in 1 .. n : \A c \in DOMAIN shares[j].frames : fs[b] # shares[j].frames[c]
    <3>1. Range(fs) \intersect Range(shares[j].frames) = {}
        BY <1>1, <1>3, <1>13 DEF Apart
    <3>2. \A b \in 1 .. n : fs[b] \in Range(fs)
        BY <1>5 DEF Range
    <3>3. \A c \in DOMAIN shares[j].frames : shares[j].frames[c] \in Range(shares[j].frames)
        BY DEF Range
    <3>4. QED
        BY <3>1, <3>2, <3>3
  <2>2. n \in Nat /\ n \in 0 .. n /\ Whole(k, shares[j])
      BY <1>1, <1>5
  <2> HIDE DEF n, fs
  <2>3. QED
      BY <1>1, <1>6, <1>8, <2>1, <2>2, OthersKeep
<1>14. Copied(k, y, s, e, J)
  <2>1. s.frames \in Seq(Frame) /\ Len(s.frames) = n
      BY <1>5
  <2> HIDE DEF n, s
  <2>2. QED
      BY <1>5, <1>6, <1>8, <2>1, LaidHas DEF n
<1>15. Whole(y, t)
  <2>1. Whole(k, s) /\ Len(s.frames) = s.size /\ Room(k, e, va, s.size)
        /\ Laid(k, y, e, va, s.frames, s.size)
      BY <1>1, <1>3, <1>5, <1>6, <1>8
  <2> HIDE DEF s
  <2>2. QED
      BY <1>4, <2>1, WholeCopy
<1> HIDE DEF t, J
<1>16. Apart(shares')
  <2>1. shares' \in Seq(Share)
    <3>1. Len(shares) \in Nat /\ DOMAIN shares = 1 .. Len(shares)
        BY <1>1 DEF Apart
    <3>2. \A j \in 1 .. Len(shares) : shares'[j] \in Share
        BY <1>4, <1>10, <1>12, <3>1
    <3>3. shares' = [j \in 1 .. Len(shares) |-> shares'[j]]
        BY <1>2, <3>1
    <3>4. QED
        BY <3>1, <3>2, <3>3
  <2>2. ASSUME NEW j \in DOMAIN shares'
        PROVE  /\ Len(shares'[j].frames) = shares'[j].size
               /\ \A a, b \in DOMAIN shares'[j].frames :
                     shares'[j].frames[a] = shares'[j].frames[b] => a = b
      BY <1>1, <1>10, <1>11 DEF Apart
  <2>3. ASSUME NEW j \in DOMAIN shares', NEW l \in DOMAIN shares', j # l
        PROVE  /\ Range(shares'[j].frames) \intersect Range(shares'[l].frames) = {}
               /\ shares'[j].owner # shares'[l].owner \/ shares'[j].name # shares'[l].name
    <3>1. /\ Range(shares[j].frames) \intersect Range(shares[l].frames) = {}
          /\ shares[j].owner # shares[l].owner \/ shares[j].name # shares[l].name
        BY <1>1, <1>11, <2>3 DEF Apart
    <3>2. QED
        BY <1>10, <1>11, <3>1
  <2>4. QED
      BY <2>1, <2>2, <2>3 DEF Apart
<1>17. \A j \in DOMAIN shares' : Whole(k', shares'[j])
    BY <1>2, <1>10, <1>11, <1>13, <1>15
<1>18. getting' \in [Env -> Asked \union {Idle}]
    BY <1>1, <1>2
<1>19. Promised'
  <2>1. SUFFICES ASSUME NEW a \in Env, getting'[a] # Idle
                 PROVE  /\ \E j \in DOMAIN shares' : /\ shares'[j].owner = getting'[a].owner
                                                     /\ shares'[j].name = getting'[a].name
                                                     /\ shares'[j].size = getting'[a].size
                        /\ {p \in HeapPages : \A b \in 0 .. getting'[a].size - 1 :
                              p + b \in HeapPages /\ ~k'.pt[a][p + b].present} # {}
      BY DEF Promised, Holes
  <2>2. a # e /\ getting'[a] = getting[a]
      BY <1>1, <1>2, <2>1
  <2>3. PICK j \in DOMAIN shares : /\ shares[j].owner = getting[a].owner
                                   /\ shares[j].name = getting[a].name
                                   /\ shares[j].size = getting[a].size
      BY <1>1, <2>1, <2>2 DEF Promised
  <2>4. ASSUME NEW b PROVE Holes(a, b)' = Holes(a, b)
      BY <1>1, <1>2, <1>8, <2>2, HolesKept
  <2>5. Holes(a, getting[a].size) # {}
      BY <1>1, <2>1, <2>2 DEF Promised
  <2>6. ASSUME NEW b, Holes(a, b) # {}
        PROVE  {p \in HeapPages : \A c \in 0 .. b - 1 :
                  p + c \in HeapPages /\ ~k'.pt[a][p + c].present} # {}
      BY <2>4, <2>6 DEF Holes
  <2>7. QED
      BY <1>10, <2>2, <2>3, <2>5, <2>6
<1>20. writable' \in [Env -> SUBSET Page]
    BY <1>1, <1>2, <1>9
<1>21. Protected'
  <2>1. SUFFICES ASSUME NEW j \in DOMAIN shares, ~shares[j].isWritable, NEW a \in Env,
                        a # shares[j].owner
                 PROVE  Has(y, shares'[j], a) \intersect writable'[a] = {}
      BY <1>2, <1>10, <1>11 DEF Protected
  <2>2. Has(y, shares'[j], a) = Has(y, shares[j], a)
      BY <1>10 DEF Has
  <2>3. Has(k, shares[j], a) \intersect writable[a] = {}
      BY <1>1, <2>1 DEF Protected
  <2>4. writable'[a] = IF a = e THEN (IF s.isWritable THEN writable[a] \union J ELSE writable[a] \ J)
                       ELSE writable[a]
      BY <1>1, <1>2
  <2>5. CASE j = i
      BY <1>14, <2>1, <2>2, <2>3, <2>4, <2>5 DEF Copied
  <2>6. CASE j # i
      BY <1>13, <2>2, <2>3, <2>4, <2>6
  <2>7. QED
      BY <2>5, <2>6
<1>22. k'.mem = k.mem /\ Store(k') /\ k'.ok
    BY <1>1, <1>2, <1>8 DEF Laid
<1>23. QED
    BY <1>1, <1>2, <1>16, <1>17, <1>18, <1>19, <1>20, <1>21, <1>22 DEF Inv

\* A store changes the contents of one frame, or ends the process.
LEMMA WriteInv ==
    ASSUME Inv, NEW e \in Env, NEW p \in Page, Write(e, p)
    PROVE  /\ Inv' /\ shares' = shares
           /\ \A f \in Frame : k'.mem[f] # k.mem[f] =>
                 k'.mem[f] = e /\ p \in writable[e] /\ k.pt[e][p].frame = f
<1>1. /\ Store(k) /\ k.ok /\ Apart(shares) /\ \A j \in DOMAIN shares : Whole(k, shares[j])
      /\ Promised /\ Protected /\ writable \in [Env -> SUBSET Page]
      /\ status \in [Env -> {"live", "exit"}] /\ getting \in [Env -> Asked \union {Idle}]
      /\ k \in KType
    BY DEF Inv, Store, Tables
<1>2. UNCHANGED <<writable, shares, shareslock, getting>> /\ k.pt[e][p].present
    BY DEF Write
<1>3. CASE p \notin writable[e]
  <2>1. k' = k /\ status' = [status EXCEPT ![e] = "exit"]
      BY <1>3 DEF Write
  <2>2. status' \in [Env -> {"live", "exit"}]
      BY <1>1, <2>1
  <2>3. QED
      BY <1>2, <2>1, <2>2, Quiet
<1>4. CASE p \in writable[e]
  <2> DEFINE f == k.pt[e][p].frame
             M == [k.mem EXCEPT ![f] = e]
  <2>1. k' = [k EXCEPT !.mem[f] = e] /\ status' = status
      BY <1>4 DEF Write
  <2>2. f \in Frame
      BY <1>1, <1>2, Fields DEF Store, Tables
  <2> HIDE DEF f
  <2>3. M \in [Frame -> Env \union {NULL}] /\ \A b \in Frame : M[b] = IF b = f THEN e ELSE k.mem[b]
      BY <1>1, <2>2, Fields
  <2>4. k' = [k EXCEPT !.mem = M]
      BY <2>1
  <2> HIDE DEF M
  <2>5. /\ k' \in KType /\ k'.h = k.h /\ k'.pt = k.pt /\ k'.refs = k.refs /\ k'.dir = k.dir
        /\ k'.mem = M /\ k'.ok = k.ok
      BY <1>1, <2>3, <2>4 DEF KType
  <2>6. Store(k')
      BY <1>1, <2>5, TablesSame DEF Store
  <2>7. \A j \in DOMAIN shares : Whole(k', shares[j])
      BY <1>1, <2>5, WholeTables
  <2>8. Promised'
      BY <1>1, <1>2, <2>5 DEF Promised, Holes
  <2>9. Protected'
      BY <1>1, <1>2, <2>5, WholeTables DEF Protected
  <2>10. Inv'
      BY <1>1, <1>2, <2>1, <2>5, <2>6, <2>7, <2>8, <2>9 DEF Inv
  <2>11. QED
      BY <1>2, <1>4, <2>3, <2>5, <2>10 DEF f
<1>5. QED
    BY <1>3, <1>4

LEMMA LockLeftInv ==
    ASSUME Inv, NEW e \in Env, LockLeft(e)
    PROVE  Inv' /\ k' = k
<1>1. /\ UNCHANGED <<k, writable, shares, getting>> /\ status' = [status EXCEPT ![e] = "exit"]
      /\ status \in [Env -> {"live", "exit"}]
    BY DEF LockLeft, Inv
<1>2. QED
    BY <1>1, Quiet

LEMMA InitInv == SharedInit => Inv
<1> SUFFICES ASSUME SharedInit PROVE Inv
    OBVIOUS
<1> DEFINE g == initialize_paging([first |-> Unlisted, last |-> Unlisted, size |-> [l \in Lists |-> 0],
                                   next |-> Unlinked, prev |-> Unlinked], Ascending(Frame))
<1>1. FreeLists(g, Frame) /\ g \in Heap
    BY ListStart
<1>2. /\ k = [h |-> g, refs |-> [f \in Frame |-> 0], mem |-> [f \in Frame |-> NULL],
              dir |-> [e \in Env |-> {}], pt |-> [e \in Env |-> [p \in Page |-> NoEntry]], ok |-> TRUE]
      /\ writable = [e \in Env |-> {}] /\ shares = <<>>
      /\ status = [e \in Env |-> "live"] /\ getting = [e \in Env |-> Idle]
    BY DEF SharedInit
<1> HIDE DEF g
<1>3. NoEntry \in Entry /\ NoEntry.frame = NULL /\ ~NoEntry.present
    BY DEF NoEntry, Entry
<1>4. k \in KType /\ k.h = g /\ k.ok /\ k.refs = [f \in Frame |-> 0]
      /\ \A e \in Env, p \in Page : k.pt[e][p] = NoEntry
    BY <1>1, <1>2, <1>3 DEF KType
<1>5. \A f \in Frame : MappedAt(k, f) = {}
  <2>1. \A v \in Env \X Page : k.pt[v[1]][v[2]].frame = NULL
      BY <1>3, <1>4
  <2>2. QED
      BY <2>1, Constants DEF MappedAt
<1>6. Tables(k)
    BY <1>3, <1>4, <1>5, FS_EmptySet DEF Tables, Counted
<1>7. Unmapped(k) = Frame
    BY <1>3, <1>4, Constants DEF Unmapped
<1>8. Store(k)
    BY <1>1, <1>4, <1>6, <1>7 DEF Store
<1>9. Apart(shares) /\ \A i \in DOMAIN shares : Whole(k, shares[i])
    BY <1>2 DEF Apart
<1>10. Promised /\ Protected
    BY <1>2 DEF Promised, Protected
<1>11. QED
    BY <1>2, <1>4, <1>8, <1>9, <1>10 DEF Inv
-----------------------------------------------------------------------------
(* The theorems.                                                           *)

LEMMA NextInv == Inv /\ [SharedNext]_svars => Inv'
<1> SUFFICES ASSUME Inv, [SharedNext]_svars PROVE Inv'
    OBVIOUS
<1>1. CASE UNCHANGED svars
  <2>1. UNCHANGED <<k, writable, shares, getting>> /\ status' \in [Env -> {"live", "exit"}]
      BY <1>1 DEF svars, Inv
  <2>2. QED
      BY <2>1, Quiet
<1>2. ASSUME NEW e \in Env, Create(e) PROVE Inv'
    BY <1>2, CreateInv DEF Create
<1>3. ASSUME NEW e \in Env, Size(e) PROVE Inv'
    BY <1>3, SizeInv DEF Size
<1>4. ASSUME NEW e \in Env, sys_get_shared_object(e) PROVE Inv'
    BY <1>4, GetInv
<1>5. ASSUME NEW e \in Env, LockLeft(e) PROVE Inv'
    BY <1>5, LockLeftInv
<1>6. ASSUME NEW e \in Env, Use(e) PROVE Inv'
    BY <1>6, WriteInv DEF Use
<1>7. QED
    BY <1>1, <1>2, <1>3, <1>4, <1>5, <1>6 DEF SharedNext

\* The inductive invariant holds in every reachable state: the free frames are
\* those mapped nowhere, and every process has whole copies of an object or none,
\* each counted as one reference.
THEOREM InvAlways == SharedSpec => []Inv
<1>1. SharedInit => Inv
    BY InitInv
<1>2. Inv /\ [SharedNext]_svars => Inv'
    BY NextInv
<1>3. QED
    BY <1>1, <1>2, PTL DEF SharedSpec

LEMMA StoreFrames ==
    ASSUME Store(k)
    PROVE  FramesAccounted(k)
<1> DEFINE free == Walk(k.h, FL)
<1>1. Unmapped(k) \in SUBSET Frame /\ FreeLists(k.h, Unmapped(k))
    BY DEF Unmapped, Store
<1>2. Represents(k.h, FL, free) /\ Unmapped(k) = {free[i] : i \in DOMAIN free}
    BY <1>1, ListWalk
<1> HIDE DEF free
<1>3. ASSUME NEW f \in Frame
      PROVE  k.refs[f] = Cardinality(MappedAt(k, f)) /\ (k.refs[f] = 0 <=> f \in Unmapped(k))
  <2> DEFINE A == MappedAt(k, f)
  <2>1. IsFiniteSet(A) /\ k.refs[f] = Cardinality(A)
      BY DEF Store, Tables, Counted
  <2>2. A = {} <=> f \in Unmapped(k)
    <3>1. ASSUME NEW e \in Env, NEW p \in Page, k.pt[e][p].frame = f
          PROVE  <<e, p>> \in A
        BY <3>1 DEF MappedAt
    <3>2. QED
        BY <3>1 DEF Unmapped, MappedAt
  <2> HIDE DEF A
  <2>3. Cardinality(A) = 0 <=> A = {}
      BY <2>1, FS_EmptySet
  <2>4. QED
      BY <2>1, <2>2, <2>3 DEF A
<1>4. QED
    BY <1>2, <1>3 DEF FramesAccounted, free, FL

\* shared_memory_manager.c:203-209, 259-263: an owner has one object of a name, the
\* size sget asked for stays that of the object, every process has an object whole
\* or not at all, its references count the copies, and no frame is lost or free
\* while mapped: for any number of processes, objects, pages and frames.
THEOREM SharesAccountedAlways == SharedSpec => []SharesAccounted
<1>1. ASSUME Inv PROVE SharesAccounted
  <2>1. /\ Store(k) /\ Apart(shares) /\ \A i \in DOMAIN shares : Whole(k, shares[i])
        /\ Promised
      BY <1>1 DEF Inv
  <2>2. ASSUME NEW e \in Env, getting[e] # Idle
        PROVE  size_of_shared_object(getting[e].owner, getting[e].name) = getting[e].size
    <3> DEFINE g == getting[e]
               i == find_share(g.owner, g.name)
    <3>1. PICK j \in DOMAIN shares : /\ shares[j].owner = g.owner /\ shares[j].name = g.name
                                     /\ shares[j].size = g.size
        BY <2>1, <2>2 DEF Promised
    <3> HIDE DEF g
    <3>2. i = j /\ i # 0
      <4> HIDE DEF i
      <4>1. QED
          BY <2>1, <3>1, FindLemma DEF i
    <3>3. QED
        BY <3>1, <3>2 DEF size_of_shared_object, g
  <2>3. \A s, e : Mapping(s, e) = Has(k, s, e)
      BY DEF Mapping, Has
  <2>4. \A s : {x \in Env \X Page : x[2] \in Mapping(s, x[1])} = All(k, s)
      BY <2>3 DEF All
  <2>5. ASSUME NEW i \in DOMAIN shares
        PROVE  /\ \A e \in Env : \E n \in 0 .. shares[i].references :
                     /\ Cardinality(Mapping(shares[i], e)) = n * shares[i].size
                     /\ e = shares[i].owner => n > 0
               /\ shares[i].references * shares[i].size =
                     Cardinality({x \in Env \X Page : x[2] \in Mapping(shares[i], x[1])})
      BY <2>1, <2>3, <2>4 DEF Whole
  <2>6. QED
      BY <2>1, <2>2, <2>5, StoreFrames DEF SharesAccounted, Apart
<1>2. QED
    BY <1>1, InvAlways, PTL

\* shared_memory_manager.h:30: what a read-only object holds is only ever changed by
\* its owner, whatever else is mapped, and in whatever order.
THEOREM ReadOnlyKeptAlways == SharedSpec => ReadOnlyKept
<1> DEFINE Kept == \A i \in DOMAIN shares : ~shares[i].isWritable =>
                      \A j \in DOMAIN shares[i].frames :
                         k'.mem[shares[i].frames[j]] \in {k.mem[shares[i].frames[j]], shares[i].owner}
<1>1. ASSUME Inv, SharedNext PROVE Kept
  <2>1. k'.mem = k.mem \/ \E e \in Env, p \in Page : Write(e, p)
      BY <1>1, CreateInv, SizeInv, GetInv, LockLeftInv DEF SharedNext, Create, Size, Use
  <2>2. ASSUME NEW e \in Env, NEW p \in Page, Write(e, p),
               NEW i \in DOMAIN shares, ~shares[i].isWritable, NEW j \in DOMAIN shares[i].frames
        PROVE  k'.mem[shares[i].frames[j]] \in {k.mem[shares[i].frames[j]], shares[i].owner}
    <3> DEFINE f == shares[i].frames[j]
    <3>1. f \in Frame
      <4>1. shares[i] \in Share
          BY <1>1 DEF Inv, Apart
      <4>2. QED
          BY <4>1, <2>2 DEF Share
    <3>2. k'.mem[f] # k.mem[f] => k'.mem[f] = e /\ p \in writable[e] /\ k.pt[e][p].frame = f
        BY <1>1, <2>2, <3>1, WriteInv
    <3>3. p \in writable[e] /\ k.pt[e][p].frame = f => e = shares[i].owner
        BY <1>1, <2>2 DEF Inv, Protected, Has
    <3> HIDE DEF f
    <3>4. QED
        BY <3>2, <3>3 DEF f
  <2>3. QED
      BY <2>1, <2>2
<1>2. ASSUME Inv, [SharedNext]_svars PROVE [Kept]_svars
    BY <1>1, <1>2
<1>3. QED
  <2>1. Inv /\ [SharedNext]_svars => [Kept]_svars
      BY <1>2
  <2>2. QED
      BY <2>1, InvAlways, PTL DEF SharedSpec, ReadOnlyKept
=============================================================================
