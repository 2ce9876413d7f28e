------------------------ MODULE VirtualMemoryProofs -------------------------
(***************************************************************************)
(* VirtualMemory proved, for any number of processes, pages and frames and *)
(* any size of working set: no frame of memory or of the page file is ever *)
(* lost or has two owners, the present pages are those of the working set, *)
(* what a program wrote is what it finds, and the page a fault evicts is   *)
(* the one its policy means.  This holds until a process is ended for a    *)
(* page outside all regions: its frame is freed twice then                 *)
(* (fault_handler.c:458-462), and nothing is said of what follows.         *)
(***************************************************************************)
EXTENDS VirtualMemory, QueueLemmas, SequenceTheorems

FL == "free_frame_list"
DL == "disk_free_frame_list"
FrameLists == {FL, DL}

L == INSTANCE ListProofs WITH Elm <- Frame \union DFrame, List <- FrameLists,
         h <- <<>>, seq <- <<>>, loop <- <<>>

Algos == {"CLOCK", "ModifiedCLOCK", "LRU", "OPTIMAL"}

\* The free lists h are well formed and hold the frames F and the disk frames D.
Parts(F, D) == [l \in FrameLists |-> IF l = FL THEN F ELSE D]
Lists(h, F, D) == L!Holding(h, Parts(F, D))

-----------------------------------------------------------------------------
(* Types, and the parts of the invariant.                                  *)

Entry == [frame : Frame \union {NULL}, present : BOOLEAN, used : BOOLEAN,
          modified : BOOLEAN, uhpage : BOOLEAN]

Regions == {"prog", "heap", "stack", "outside", "kernel"}

\* What a frame may hold.
Content == Value \union {Image(p) : p \in Page}

Element == [va : Page, stamp : Nat]

KType ==
    [h : Heap, refs : [Frame -> Nat], mem : [Frame -> Content], dmem : [DFrame -> Content],
     dir : [Env -> SUBSET Regions], pt : [Env -> [Page -> Entry]],
     dpt : [Env -> [Page -> DFrame \union {NULL}]], ws : [Env -> Seq(Element)],
     hand : [Env -> Page \union {NULL}], active : Seq(Element),
     optimal_initialized : BOOLEAN, stream : [Env -> Seq(Page)],
     last : (Env \union {NULL}) \X (Page \union {0}), num : Nat,
     status : [Env -> {"free", "live", "exit"}], algo : Algos, max : Nat \ {0},
     ok : BOOLEAN]

Unmapped(x) == {f \in Frame : \A e \in Env, p \in Page : x.pt[e][p].frame # f}
Unfiled(x) == {d \in DFrame : \A e \in Env, p \in Page : x.dpt[e][p] # d}

\* What is mapped nowhere is free and what holds no page of the page file is
\* free, nothing else is; nothing has two owners.
Store(x) ==
    /\ Lists(x.h, Unmapped(x), Unfiled(x))
    /\ \A f \in Frame : x.refs[f] = IF f \in Unmapped(x) THEN 0 ELSE 1
    /\ \A e, a \in Env, p, q \in Page :
          /\ x.pt[e][p].frame # NULL /\ x.pt[e][p].frame = x.pt[a][q].frame => e = a /\ p = q
          /\ x.dpt[e][p] # NULL /\ x.dpt[e][p] = x.dpt[a][q] => e = a /\ p = q

\* A page that is mapped or marked has a table, a present one is mapped.
Tables(x) ==
    \A e \in Env, p \in Page :
       /\ x.pt[e][p].frame # NULL \/ x.pt[e][p].uhpage => PDX(p) \in x.dir[e]
       /\ x.pt[e][p].present => x.pt[e][p].frame # NULL

\* An environment that is not in use has no pages.
Fresh(x) ==
    \A e \in Env : x.status[e] = "free" =>
       \A p \in Page : x.pt[e][p] = NoEntry /\ x.dpt[e][p] = NULL

\* What holds after a panic too.
Base(x) == x \in KType /\ Store(x) /\ Tables(x)

\* Of e, the pages of W are in memory and no others.
Resident(x, e, W) ==
    \A p \in Page : /\ x.pt[e][p].frame # NULL <=> p \in W
                    /\ x.pt[e][p].present <=> p \in W

\* The working set of e has each page once and is no longer than it may be.
OrderOk(x, e) ==
    /\ \A i, j \in DOMAIN x.ws[e] : x.ws[e][i].va = x.ws[e][j].va => i = j
    /\ Len(x.ws[e]) <= x.max

HandOk(x, e) == Full(x, e) /\ x.algo # "LRU" => ~HandLost(x, e)

\* Under every policy but OPTIMAL, the working set of e is what it has in memory.
WorkingSetOk(x, e) ==
    x.algo # "OPTIMAL" => /\ Resident(x, e, WSPages(x, e))
                          /\ OrderOk(x, e) /\ HandOk(x, e) /\ x.active = <<>>

\* Of its heap, e has in memory only what is marked, and pages of P.
MarkedOk(x, e, P) ==
    x.algo # "OPTIMAL" =>
       \A p \in HeapPages \ P : x.pt[e][p].frame # NULL => x.pt[e][p].uhpage

\* The program of e is in the page file.
LoadedOk(x, e) ==
    x.status[e] # "free" => \A p \in ProgPages : x.dpt[e][p] # NULL

\* The page p of e holds w: in memory, or on disk, or on both unless modified.
Holds(x, e, p, w) ==
    IF x.pt[e][p].frame = NULL THEN x.dpt[e][p] # NULL /\ x.dmem[x.dpt[e][p]] = w
    ELSE /\ x.mem[x.pt[e][p].frame] = w
         /\ ~x.pt[e][p].modified => x.dpt[e][p] # NULL /\ x.dmem[x.dpt[e][p]] = w

\* What e is owed while nothing has gone wrong; w is what it put in its pages.
Good(x, e, w) ==
    /\ WorkingSetOk(x, e) /\ MarkedOk(x, e, {}) /\ LoadedOk(x, e)
    /\ \A p \in Page : w[p] # Unknown => Holds(x, e, p, w[p])

World(x, w) ==
    Base(x) /\ Fresh(x) /\ (x.ok => \A e \in Env : Good(x, e, w[e]))

Sound ==
    /\ World(k, want)
    /\ pending \in [Env -> {NULL} \union (Page \X (Value \union {NULL}))]
    /\ want \in [Env -> [Page -> Content \union {Unknown}]]

\* The inductive invariant.
Inv == ~strayed => Sound

-----------------------------------------------------------------------------
(* The free lists.                                                         *)

LEMMA Constants ==
    /\ L!ListConstants
    /\ NULL \notin Frame \union DFrame /\ L!IsFiniteSet(Frame \union DFrame)
    /\ SizeMod \in Nat /\ SizeMod > L!Cardinality(Frame \union DFrame)
    /\ Frame \intersect DFrame = {} /\ Frame \union DFrame \subseteq Nat /\ Page \subseteq Nat
<1>1. L!IsFiniteSet(Frame \union DFrame) <=> IsFiniteSet(Frame \union DFrame)
    BY DEF IsFiniteSet, L!IsFiniteSet
<1>2. L!Cardinality(Frame \union DFrame) = Cardinality(Frame \union DFrame)
    BY <1>1 DEF Cardinality, L!Cardinality, IsFiniteSet, L!IsFiniteSet
<1>3. L!ListConstants
    BY FramesAssumption, LengthBound DEF L!ListConstants
<1>4. QED
    BY <1>1, <1>2, <1>3, FramesAssumption

\* The list operators of the model are those the list lemmas are about.
LEMMA SameLists ==
    /\ Heap = L!Heap /\ Pointer = L!Pointer
    /\ \A h, q, e : LIST_INSERT_HEAD(h, q, e) = L!LIST_INSERT_HEAD(h, q, e)
    /\ \A h, q, e : LIST_REMOVE(h, q, e) = L!LIST_REMOVE(h, q, e)
    /\ \A h, q, s : Represents(h, q, s) = L!Represents(h, q, s)
    /\ \A h, q : Walk(h, q) = L!Walk(h, q)
    /\ \A h, q, s : InsertAll(h, q, s) = L!InsertAll(h, q, s)
<1>1. Pointer = L!Pointer
    BY DEF Pointer, L!Pointer
<1>2. Heap = L!Heap
    BY <1>1 DEF Heap, L!Heap, FrameLists, FL, DL
<1>3. ASSUME NEW h, NEW q, NEW e PROVE LIST_INSERT_HEAD(h, q, e) = L!LIST_INSERT_HEAD(h, q, e)
    BY DEF LIST_INSERT_HEAD, L!LIST_INSERT_HEAD, Put, L!Put, SizePlus, L!SizePlus
<1>4. ASSUME NEW h, NEW q, NEW e PROVE LIST_REMOVE(h, q, e) = L!LIST_REMOVE(h, q, e)
    BY DEF LIST_REMOVE, L!LIST_REMOVE, Put, L!Put, SizePlus, L!SizePlus
<1>5. ASSUME NEW h, NEW q, NEW s PROVE Represents(h, q, s) = L!Represents(h, q, s)
    BY DEF Represents, L!Represents
<1>6. ASSUME NEW h, NEW q PROVE Walk(h, q) = L!Walk(h, q)
    BY DEF Walk, L!Walk, LOOP_LIST_NEXT, L!LOOP_LIST_NEXT, Cardinality, L!Cardinality,
           IsFiniteSet, L!IsFiniteSet
<1>7. ASSUME NEW h, NEW q, NEW s PROVE InsertAll(h, q, s) = L!InsertAll(h, q, s)
    BY DEF InsertAll, L!InsertAll, LIST_INIT, L!LIST_INIT, LIST_INSERT_HEAD, L!LIST_INSERT_HEAD,
           Put, L!Put, SizePlus, L!SizePlus
<1>8. QED
    BY <1>1, <1>2, <1>3, <1>4, <1>5, <1>6, <1>7

LEMMA PartsType ==
    ASSUME NEW F \in SUBSET Frame, NEW D \in SUBSET DFrame
    PROVE  /\ Parts(F, D) \in [FrameLists -> SUBSET (Frame \union DFrame)]
           /\ Parts(F, D)[FL] = F /\ Parts(F, D)[DL] = D
           /\ FL # DL /\ FL \in FrameLists /\ DL \in FrameLists
           /\ \A G : [Parts(F, D) EXCEPT ![FL] = G] = Parts(G, D)
           /\ \A G : [Parts(F, D) EXCEPT ![DL] = G] = Parts(F, G)
BY DEF Parts, FrameLists, FL, DL

\* The first element of a list is free, and only an empty list has none.
LEMMA ListFirst ==
    ASSUME NEW h, NEW F \in SUBSET Frame, NEW D \in SUBSET DFrame, Lists(h, F, D)
    PROVE  /\ h \in Heap
           /\ h.first[FL] \in F \/ (h.first[FL] = NULL /\ F = {})
           /\ h.first[DL] \in D \/ (h.first[DL] = NULL /\ D = {})
<1> DEFINE C == Parts(F, D)
<1>1. C \in [FrameLists -> SUBSET (Frame \union DFrame)] /\ L!Holding(h, C)
    BY PartsType DEF Lists
<1> HIDE DEF C
<1>2. h \in L!Heap /\ \A l \in FrameLists : h.first[l] \in C[l] \/ (h.first[l] = NULL /\ C[l] = {})
    BY <1>1, Constants, L!HoldingFirst
<1>3. QED
    BY <1>2, PartsType, SameLists DEF C

LEMMA ListHeap ==
    ASSUME NEW h, NEW F, NEW D, Lists(h, F, D)
    PROVE  h \in Heap
BY SameLists DEF Lists, L!Holding, L!Stands

\* Taking an element out of a list, and putting in one that is in none.
LEMMA ListTake ==
    ASSUME NEW h, NEW F \in SUBSET Frame, NEW D \in SUBSET DFrame, Lists(h, F, D)
    PROVE  /\ \A f \in F : Lists(LIST_REMOVE(h, FL, f), F \ {f}, D)
           /\ \A d \in D : Lists(LIST_REMOVE(h, DL, d), F, D \ {d})
<1> DEFINE C == Parts(F, D)
<1>1. ASSUME NEW l \in FrameLists, NEW e \in C[l]
      PROVE  L!Holding(LIST_REMOVE(h, l, e), [C EXCEPT ![l] = C[l] \ {e}])
    BY <1>1, PartsType, Constants, SameLists, L!HoldingRemove DEF Lists
<1>2. QED
    BY <1>1, PartsType DEF Lists

LEMMA ListGive ==
    ASSUME NEW h, NEW F \in SUBSET Frame, NEW D \in SUBSET DFrame, Lists(h, F, D)
    PROVE  /\ \A f \in Frame \ F : Lists(LIST_INSERT_HEAD(h, FL, f), F \union {f}, D)
           /\ \A d \in DFrame \ D : Lists(LIST_INSERT_HEAD(h, DL, d), F, D \union {d})
<1> DEFINE C == Parts(F, D)
<1>1. ASSUME NEW l \in FrameLists, NEW e \in Frame \union DFrame, e \notin F, e \notin D
      PROVE  L!Holding(LIST_INSERT_HEAD(h, l, e), [C EXCEPT ![l] = C[l] \union {e}])
  <2>1. \A m \in FrameLists : e \notin C[m]
      BY <1>1 DEF Parts
  <2>2. QED
      BY <2>1, PartsType, Constants, SameLists, L!HoldingInsert DEF Lists
<1>2. ASSUME NEW f \in Frame \ F PROVE Lists(LIST_INSERT_HEAD(h, FL, f), F \union {f}, D)
  <2>1. f \notin D /\ f \in Frame \union DFrame /\ f \notin F
      BY Constants
  <2>2. L!Holding(LIST_INSERT_HEAD(h, FL, f), [C EXCEPT ![FL] = C[FL] \union {f}])
      BY <1>1, <2>1, PartsType
  <2>3. [C EXCEPT ![FL] = C[FL] \union {f}] = Parts(F \union {f}, D)
    <3>1. C[FL] = F /\ \A G : [C EXCEPT ![FL] = G] = Parts(G, D)
        BY PartsType
    <3> HIDE DEF C
    <3>2. QED
        BY <3>1
  <2>4. QED
      BY <2>2, <2>3 DEF Lists
<1>3. ASSUME NEW d \in DFrame \ D PROVE Lists(LIST_INSERT_HEAD(h, DL, d), F, D \union {d})
  <2>1. d \notin D /\ d \in Frame \union DFrame /\ d \notin F
      BY Constants
  <2>2. L!Holding(LIST_INSERT_HEAD(h, DL, d), [C EXCEPT ![DL] = C[DL] \union {d}])
      BY <1>1, <2>1, PartsType
  <2>3. [C EXCEPT ![DL] = C[DL] \union {d}] = Parts(F, D \union {d})
    <3>1. C[DL] = D /\ \A G : [C EXCEPT ![DL] = G] = Parts(F, G)
        BY PartsType
    <3> HIDE DEF C
    <3>2. QED
        BY <3>1
  <2>4. QED
      BY <2>2, <2>3 DEF Lists
<1>4. QED
    BY <1>2, <1>3

\* Clearing the links of an element that is in no list changes no list.
LEMMA ListClear ==
    ASSUME NEW h, NEW F \in SUBSET Frame, NEW D \in SUBSET DFrame, Lists(h, F, D),
           NEW f \in Frame \union DFrame, f \notin F, f \notin D,
           NEW g, g.first = h.first, g.last = h.last, g.size = h.size, g \in Heap,
           g.next = [h.next EXCEPT ![f] = NULL], g.prev = [h.prev EXCEPT ![f] = NULL]
    PROVE  Lists(g, F, D)
<1>1. \A m \in FrameLists : f \notin Parts(F, D)[m]
    BY DEF Parts
<1>2. QED
    BY <1>1, PartsType, Constants, SameLists, L!HoldingClear DEF Lists

-----------------------------------------------------------------------------
(* What changes of tables and lists do to the storage.                     *)

\* The fields that the memory operations leave alone.
Rest(x, y) ==
    /\ y.ws = x.ws /\ y.hand = x.hand /\ y.active = x.active /\ y.stream = x.stream
    /\ y.optimal_initialized = x.optimal_initialized /\ y.last = x.last /\ y.num = x.num
    /\ y.status = x.status /\ y.algo = x.algo /\ y.max = x.max

\* What every page holds in x it holds in y.
Keeps(x, y) ==
    \A e \in Env, p \in Page : \A w : Holds(x, e, p, w) => Holds(y, e, p, w)

LEMMA Fields ==
    ASSUME NEW x \in KType
    PROVE  /\ x.h \in Heap /\ x.refs \in [Frame -> Nat] /\ x.mem \in [Frame -> Content]
           /\ x.dmem \in [DFrame -> Content] /\ x.dir \in [Env -> SUBSET Regions]
           /\ x.pt \in [Env -> [Page -> Entry]] /\ x.dpt \in [Env -> [Page -> DFrame \union {NULL}]]
           /\ x.ws \in [Env -> Seq(Element)] /\ x.hand \in [Env -> Page \union {NULL}]
           /\ x.active \in Seq(Element) /\ x.optimal_initialized \in BOOLEAN
           /\ x.stream \in [Env -> Seq(Page)]
           /\ x.last \in (Env \union {NULL}) \X (Page \union {0}) /\ x.num \in Nat
           /\ x.status \in [Env -> {"free", "live", "exit"}] /\ x.algo \in Algos
           /\ x.max \in Nat \ {0} /\ x.ok \in BOOLEAN
BY DEF KType

LEMMA EntryFields ==
    ASSUME NEW x \in KType, NEW e \in Env, NEW p \in Page
    PROVE  /\ x.pt[e][p] \in Entry /\ x.pt[e] \in [Page -> Entry]
           /\ x.pt[e][p].frame \in Frame \union {NULL} /\ x.pt[e][p].present \in BOOLEAN
           /\ x.pt[e][p].used \in BOOLEAN /\ x.pt[e][p].modified \in BOOLEAN
           /\ x.pt[e][p].uhpage \in BOOLEAN /\ x.dpt[e][p] \in DFrame \union {NULL}
BY Fields DEF Entry

LEMMA Regional ==
    ASSUME NEW p \in Page
    PROVE  PDX(p) \in Regions
BY DEF PDX, Page, Regions

\* In y, and not yet in x, the page p of e has the entry t and the frame f.
Maps(x, y, e, p, f, t) ==
    /\ y \in KType /\ y.dpt = x.dpt /\ t \in Entry /\ t.frame = f
    /\ Lists(y.h, Unmapped(x) \ {f}, Unfiled(x))
    /\ \A g \in Frame : y.refs[g] = IF g = f THEN 1 ELSE x.refs[g]
    /\ \A a \in Env, q \in Page : y.pt[a][q] = IF a = e /\ q = p THEN t ELSE x.pt[a][q]
    /\ PDX(p) \in y.dir[e] /\ \A a \in Env : x.dir[a] \subseteq y.dir[a]

\* In x, and no more in y, the page p of e has the frame f; t is left of its entry.
Unmaps(x, y, e, p, f, t) ==
    /\ y \in KType /\ y.dpt = x.dpt /\ y.dir = x.dir
    /\ t \in Entry /\ t.frame = NULL /\ ~t.present /\ t.uhpage = x.pt[e][p].uhpage
    /\ Lists(y.h, Unmapped(x) \union {f}, Unfiled(x))
    /\ \A g \in Frame : y.refs[g] = IF g = f THEN 0 ELSE x.refs[g]
    /\ \A a \in Env, q \in Page : y.pt[a][q] = IF a = e /\ q = p THEN t ELSE x.pt[a][q]

\* From x to y entries change, and frames stay where they are.
Marks(x, y) ==
    /\ y \in KType /\ y.h = x.h /\ y.refs = x.refs /\ y.dpt = x.dpt
    /\ \A a \in Env : x.dir[a] \subseteq y.dir[a]
    /\ \A a \in Env, q \in Page :
          /\ y.pt[a][q].frame = x.pt[a][q].frame
          /\ y.pt[a][q].present => x.pt[a][q].frame # NULL
          /\ y.pt[a][q].uhpage => PDX(q) \in y.dir[a]

\* A page that had no frame gets one that was mapped nowhere.
LEMMA StoreMap ==
    ASSUME NEW x, Base(x), NEW e \in Env, NEW p \in Page, x.pt[e][p].frame = NULL,
           NEW f \in Unmapped(x), NEW y, NEW t, Maps(x, y, e, p, f, t)
    PROVE  Base(y)
<1>1. /\ x \in KType /\ Store(x) /\ Tables(x) /\ f \in Frame /\ f # NULL
      /\ y \in KType /\ y.dpt = x.dpt /\ t \in Entry /\ t.frame = f
    BY Constants DEF Base, Unmapped, Maps
<1>2. \A a \in Env, q \in Page : y.pt[a][q] = IF a = e /\ q = p THEN t ELSE x.pt[a][q]
    BY DEF Maps
<1>3. Unmapped(y) = Unmapped(x) \ {f} /\ Unfiled(y) = Unfiled(x)
    BY <1>1, <1>2, Constants DEF Unmapped, Unfiled
<1>4. \A g \in Frame : y.refs[g] = IF g \in Unmapped(y) THEN 0 ELSE 1
    BY <1>1, <1>3 DEF Store, Maps
<1>5. \A a, b \in Env, q, r \in Page :
         y.pt[a][q].frame # NULL /\ y.pt[a][q].frame = y.pt[b][r].frame => a = b /\ q = r
    BY <1>1, <1>2, SMTT(30) DEF Store, Unmapped
<1>6. Store(y)
    BY <1>1, <1>3, <1>4, <1>5 DEF Store, Maps
<1>7. Tables(y)
    BY <1>1, <1>2 DEF Tables, Maps
<1>8. QED
    BY <1>1, <1>6, <1>7 DEF Base

\* The frame of a page is given back with the entry.
LEMMA StoreUnmap ==
    ASSUME NEW x, Base(x), NEW e \in Env, NEW p \in Page, NEW f \in Frame,
           x.pt[e][p].frame = f, NEW y, NEW t, Unmaps(x, y, e, p, f, t)
    PROVE  Base(y)
<1>1. /\ x \in KType /\ Store(x) /\ Tables(x) /\ f # NULL
      /\ y \in KType /\ y.dpt = x.dpt /\ t.frame = NULL /\ ~t.present
    BY Constants DEF Base, Unmaps
<1>2. \A a \in Env, q \in Page : y.pt[a][q] = IF a = e /\ q = p THEN t ELSE x.pt[a][q]
    BY DEF Unmaps
<1>3. Unmapped(y) = Unmapped(x) \union {f} /\ Unfiled(y) = Unfiled(x)
  <2>1. \A a \in Env, q \in Page : x.pt[a][q].frame = f => a = e /\ q = p
      BY <1>1 DEF Store
  <2>2. QED
      BY <1>1, <1>2, <2>1, Constants DEF Unmapped, Unfiled
<1>4. \A g \in Frame : y.refs[g] = IF g \in Unmapped(y) THEN 0 ELSE 1
    BY <1>1, <1>3 DEF Store, Unmaps
<1>5. \A a, b \in Env, q, r \in Page :
         y.pt[a][q].frame # NULL /\ y.pt[a][q].frame = y.pt[b][r].frame => a = b /\ q = r
    BY <1>1, <1>2 DEF Store
<1>6. Store(y)
    BY <1>1, <1>3, <1>4, <1>5 DEF Store, Unmaps
<1>7. Tables(y)
    BY <1>1, <1>2 DEF Tables, Unmaps
<1>8. QED
    BY <1>1, <1>6, <1>7 DEF Base

LEMMA StoreBits ==
    ASSUME NEW x, Base(x), NEW y, Marks(x, y)
    PROVE  Base(y)
<1>1. Unmapped(y) = Unmapped(x) /\ Unfiled(y) = Unfiled(x)
    BY DEF Unmapped, Unfiled, Marks
<1>2. Store(x) /\ Tables(x)
    BY DEF Base
<1>3. Store(y)
    BY <1>1, <1>2 DEF Store, Marks
<1>4. Tables(y)
    BY <1>2 DEF Tables, Marks
<1>5. QED
    BY <1>3, <1>4 DEF Base, Marks

-----------------------------------------------------------------------------
(* Frames.                                                                 *)

\* The links of a structure are cleared: initialize_frame_info on the heap.
LEMMA ClearType ==
    ASSUME NEW h \in Heap, NEW f \in Frame
    PROVE  LET g == [h EXCEPT !.next[f] = NULL, !.prev[f] = NULL]
           IN  /\ g \in Heap /\ g.first = h.first /\ g.last = h.last /\ g.size = h.size
               /\ g.next = [h.next EXCEPT ![f] = NULL] /\ g.prev = [h.prev EXCEPT ![f] = NULL]
<1>1. NULL \in Pointer
    BY DEF Pointer
<1>2. QED
    BY <1>1 DEF Heap

\* allocate_frame gives out the first free frame.
LEMMA AllocateLemma ==
    ASSUME NEW x, Base(x), FreeFrame(x) # NULL
    PROVE  LET f == FreeFrame(x)
               a == allocate_frame(x)
           IN  /\ f \in Frame /\ f \in Unmapped(x)
               /\ Lists(a.h, Unmapped(x) \ {f}, Unfiled(x))
               /\ a \in KType /\ a.refs = [x.refs EXCEPT ![f] = 0] /\ a.pt = x.pt
               /\ a.dpt = x.dpt /\ a.mem = x.mem /\ a.dmem = x.dmem /\ a.dir = x.dir
               /\ Rest(x, a) /\ a.ok = x.ok
<1> DEFINE f == FreeFrame(x)
           g == LIST_REMOVE(x.h, FL, f)
           c == [g EXCEPT !.next[f] = NULL, !.prev[f] = NULL]
<1>1. /\ x \in KType /\ Lists(x.h, Unmapped(x), Unfiled(x))
      /\ Unmapped(x) \in SUBSET Frame /\ Unfiled(x) \in SUBSET DFrame
      /\ x.refs \in [Frame -> Nat]
    BY Fields DEF Base, Store, Unmapped, Unfiled
<1>2. f \in Frame /\ f \in Unmapped(x) /\ f \notin Unfiled(x)
  <2>1. f \in Unmapped(x)
      BY <1>1, ListFirst DEF FreeFrame, FL
  <2>2. QED
      BY <1>1, <2>1, Constants
<1> HIDE DEF f
<1>3. Lists(g, Unmapped(x) \ {f}, Unfiled(x))
    BY <1>1, <1>2, ListTake
<1>4. g \in Heap
    BY <1>3, ListHeap
<1> HIDE DEF g
<1>5. Lists(c, Unmapped(x) \ {f}, Unfiled(x))
  <2>1. /\ c \in Heap /\ c.first = g.first /\ c.last = g.last /\ c.size = g.size
        /\ c.next = [g.next EXCEPT ![f] = NULL] /\ c.prev = [g.prev EXCEPT ![f] = NULL]
      BY <1>2, <1>4, ClearType
  <2>2. Unmapped(x) \ {f} \in SUBSET Frame /\ f \notin Unmapped(x) \ {f}
      BY <1>1
  <2> HIDE DEF c
  <2>3. QED
      BY <1>1, <1>2, <1>3, <2>1, <2>2, ListClear
<1>6. allocate_frame(x) = [x EXCEPT !.h = c, !.refs = [x.refs EXCEPT ![f] = 0]]
  <2>1. allocate_frame(x) = initialize_frame_info([x EXCEPT !.h = g], f)
      BY DEF allocate_frame, f, g, FL
  <2> DEFINE m == [x EXCEPT !.h = g]
  <2>2. m.h = g /\ m.refs = x.refs
      BY <1>1 DEF KType
  <2>3. initialize_frame_info(m, f) = [m EXCEPT !.refs = [x.refs EXCEPT ![f] = 0], !.h = c]
      BY <1>1, <1>4, <2>2 DEF KType, initialize_frame_info, Heap
  <2>4. QED
      BY <1>1, <2>1, <2>3, ZenonT(30) DEF KType
<1>7. c \in Heap
    BY <1>5, ListHeap
<1> HIDE DEF c
<1>8. [x.refs EXCEPT ![f] = 0] \in [Frame -> Nat]
    BY <1>1, <1>2
<1> DEFINE a == allocate_frame(x)
<1>9. /\ a \in KType /\ a.h = c /\ a.refs = [x.refs EXCEPT ![f] = 0] /\ a.pt = x.pt
      /\ a.dpt = x.dpt /\ a.mem = x.mem /\ a.dmem = x.dmem /\ a.dir = x.dir
      /\ Rest(x, a) /\ a.ok = x.ok
    BY <1>1, <1>6, <1>7, <1>8, ZenonT(30) DEF KType, Rest
<1>10. QED
    BY <1>2, <1>5, <1>9 DEF f

\* A frame that is not free goes to the free list.
LEMMA FreeLemma ==
    ASSUME NEW x \in KType, NEW F \in SUBSET Frame, NEW D \in SUBSET DFrame,
           Lists(x.h, F, D), NEW f \in Frame \ F
    PROVE  LET y == free_frame(x, f)
           IN  /\ Lists(y.h, F \union {f}, D)
               /\ y = [x EXCEPT !.h = y.h, !.refs = [x.refs EXCEPT ![f] = 0]]
<1> DEFINE c == [x.h EXCEPT !.next[f] = NULL, !.prev[f] = NULL]
           g == LIST_INSERT_HEAD(c, FL, f)
<1>1. x.h \in Heap /\ f \notin D
    BY Fields, Constants
<1>2. Lists(c, F, D)
  <2>1. /\ c \in Heap /\ c.first = x.h.first /\ c.last = x.h.last /\ c.size = x.h.size
        /\ c.next = [x.h.next EXCEPT ![f] = NULL] /\ c.prev = [x.h.prev EXCEPT ![f] = NULL]
      BY <1>1, ClearType
  <2> HIDE DEF c
  <2>2. QED
      BY <1>1, <2>1, ListClear
<1>3. free_frame(x, f) = [x EXCEPT !.h = g, !.refs = [x.refs EXCEPT ![f] = 0]]
  <2>1. initialize_frame_info(x, f) = [x EXCEPT !.refs = [x.refs EXCEPT ![f] = 0], !.h = c]
      BY <1>1 DEF KType, initialize_frame_info, Heap
  <2> HIDE DEF c
  <2>2. QED
      BY <2>1 DEF KType, free_frame, FL
<1> HIDE DEF c
<1>4. Lists(g, F \union {f}, D)
    BY <1>2, ListGive
<1> HIDE DEF g
<1>5. free_frame(x, f).h = g
    BY <1>3 DEF KType
<1>6. QED
    BY <1>3, <1>4, <1>5

\* unmap_frame frees the frame of a page that has one, for no other page has it.
LEMMA UnmapLemma ==
    ASSUME NEW x, Base(x), NEW e \in Env, NEW p \in Page, x.pt[e][p].frame # NULL
    PROVE  LET y == unmap_frame(x, e, p)
               t == [NoEntry EXCEPT !.uhpage = x.pt[e][p].uhpage]
           IN  /\ Base(y) /\ Rest(x, y) /\ y.ok = x.ok
               /\ y.mem = x.mem /\ y.dmem = x.dmem /\ y.dpt = x.dpt /\ y.dir = x.dir
               /\ y.pt = [x.pt EXCEPT ![e][p] = t]
<1> DEFINE f == x.pt[e][p].frame
           t == [NoEntry EXCEPT !.uhpage = x.pt[e][p].uhpage]
           g == free_frame(x, f)
           y == unmap_frame(x, e, p)
<1>1. /\ x \in KType /\ Lists(x.h, Unmapped(x), Unfiled(x))
      /\ Unmapped(x) \in SUBSET Frame /\ Unfiled(x) \in SUBSET DFrame
      /\ x.refs \in [Frame -> Nat] /\ f \in Frame \ Unmapped(x)
      /\ x.pt \in [Env -> [Page -> Entry]] /\ x.pt[e][p].frame = f
    BY Fields, EntryFields DEF Base, Store, Unmapped, Unfiled
<1>2. x.refs[f] = 1 /\ get_frame_info(x, e, p) = f
    BY <1>1 DEF Base, Store, Tables, get_frame_info, get_page_table
<1>3. y = [g EXCEPT !.pt[e][p] = t]
    BY <1>1, <1>2 DEF unmap_frame, decrement_references
<1>4. /\ t \in Entry /\ t.frame = NULL /\ ~t.present /\ t.uhpage = x.pt[e][p].uhpage
    BY EntryFields, <1>1 DEF NoEntry, Entry
<1> HIDE DEF t, f
<1>5. /\ Lists(g.h, Unmapped(x) \union {f}, Unfiled(x))
      /\ g = [x EXCEPT !.h = g.h, !.refs = [x.refs EXCEPT ![f] = 0]]
    BY <1>1, FreeLemma
<1> HIDE DEF g
<1>6. g.h \in Heap
    BY <1>5, ListHeap
<1>7. y = [x EXCEPT !.h = g.h, !.refs = [x.refs EXCEPT ![f] = 0],
                    !.pt = [x.pt EXCEPT ![e][p] = t]]
    BY <1>1, <1>3, <1>5 DEF KType
<1> HIDE DEF y
<1>8. /\ y \in KType /\ y.h = g.h /\ y.refs = [x.refs EXCEPT ![f] = 0]
      /\ y.pt = [x.pt EXCEPT ![e][p] = t]
      /\ y.mem = x.mem /\ y.dmem = x.dmem /\ y.dpt = x.dpt /\ y.dir = x.dir
      /\ Rest(x, y) /\ y.ok = x.ok
    BY <1>1, <1>4, <1>6, <1>7, ZenonT(30) DEF KType, Rest
<1>9. Base(y)
  <2>1. Unmaps(x, y, e, p, f, t)
      BY <1>1, <1>4, <1>5, <1>8 DEF Unmaps
  <2>2. QED
      BY <1>1, <2>1, StoreUnmap
<1>10. QED
    BY <1>8, <1>9 DEF y, t

-----------------------------------------------------------------------------
(* The page file.                                                          *)

\* From x to y the page p of e gets the disk frame d, or gives up the one it
\* has when d is NULL.
Files(x, y, e, p, d) ==
    /\ y \in KType /\ y.pt = x.pt /\ y.refs = x.refs /\ y.dir = x.dir
    /\ \A a \in Env, q \in Page : y.dpt[a][q] = IF a = e /\ q = p THEN d ELSE x.dpt[a][q]
    /\ Lists(y.h, Unmapped(x), IF d = NULL THEN Unfiled(x) \union {x.dpt[e][p]}
                               ELSE Unfiled(x) \ {d})

LEMMA StoreFile ==
    ASSUME NEW x, Base(x), NEW e \in Env, NEW p \in Page, NEW d, NEW y, Files(x, y, e, p, d),
           \/ d = NULL /\ x.dpt[e][p] # NULL
           \/ d \in Unfiled(x) /\ x.dpt[e][p] = NULL
    PROVE  Base(y)
<1>1. /\ x \in KType /\ Store(x) /\ Tables(x) /\ y \in KType /\ y.pt = x.pt
      /\ x.dpt[e][p] \in DFrame \union {NULL} /\ (d # NULL => d \in DFrame)
    BY EntryFields DEF Base, Files, Unfiled
<1>2. \A a \in Env, q \in Page : y.dpt[a][q] = IF a = e /\ q = p THEN d ELSE x.dpt[a][q]
    BY DEF Files
<1>3. Unmapped(y) = Unmapped(x)
    BY <1>1 DEF Unmapped
<1>4. \A a \in Env, q \in Page : /\ x.dpt[e][p] # NULL /\ x.dpt[a][q] = x.dpt[e][p] => a = e /\ q = p
                                 /\ d # NULL => x.dpt[a][q] # d
    BY <1>1 DEF Store, Unfiled
<1>5. Unfiled(y) = IF d = NULL THEN Unfiled(x) \union {x.dpt[e][p]} ELSE Unfiled(x) \ {d}
  <2>1. CASE d = NULL
      BY <1>1, <1>2, <1>4, <2>1, Constants DEF Unfiled
  <2>2. CASE d # NULL
      BY <1>1, <1>2, <1>4, <2>2, Constants DEF Unfiled
  <2>3. QED
      BY <2>1, <2>2
<1>6. \A a, b \in Env, q, r \in Page :
         y.dpt[a][q] # NULL /\ y.dpt[a][q] = y.dpt[b][r] => a = b /\ q = r
    BY <1>1, <1>2, <1>4 DEF Store
<1>7. Store(y)
    BY <1>1, <1>3, <1>5, <1>6 DEF Store, Files
<1>8. Tables(y)
    BY <1>1 DEF Tables, Files
<1>9. QED
    BY <1>1, <1>7, <1>8 DEF Base

\* A page gets a disk frame, unless it has one, or there is a panic.
LEMMA AddEmptyLemma ==
    ASSUME NEW x, Base(x), NEW e \in Env, NEW p \in Page
    PROVE  LET y == pf_add_empty_env_page(x, e, p)
           IN  /\ Base(y) /\ Rest(x, y) /\ y.mem = x.mem /\ y.dmem = x.dmem /\ y.pt = x.pt
               /\ x.dpt[e][p] # NULL => y = x
               /\ \A a \in Env, q \in Page : a # e \/ q # p => y.dpt[a][q] = x.dpt[a][q]
               /\ y.ok => x.ok /\ y.dpt[e][p] # NULL
<1> DEFINE d == FreeDiskFrame(x)
           g == LIST_REMOVE(x.h, DL, d)
           y == pf_add_empty_env_page(x, e, p)
<1>1. /\ x \in KType /\ Lists(x.h, Unmapped(x), Unfiled(x))
      /\ Unmapped(x) \in SUBSET Frame /\ Unfiled(x) \in SUBSET DFrame
      /\ x.dpt \in [Env -> [Page -> DFrame \union {NULL}]] /\ x.ok \in BOOLEAN
    BY Fields DEF Base, Store, Unmapped, Unfiled
<1>2. CASE x.dpt[e][p] # NULL
  <2>1. y = x
      BY <1>2 DEF pf_add_empty_env_page, DiskFrameOf
  <2>2. QED
      BY <1>2, <2>1 DEF Rest
<1>3. CASE x.dpt[e][p] = NULL /\ d = NULL
  <2>1. y = [x EXCEPT !.ok = FALSE]
      BY <1>3 DEF pf_add_empty_env_page, DiskFrameOf, Panic
  <2>2. /\ y \in KType /\ Rest(x, y) /\ y.h = x.h /\ y.refs = x.refs /\ y.mem = x.mem
        /\ y.dmem = x.dmem /\ y.pt = x.pt /\ y.dpt = x.dpt /\ y.dir = x.dir /\ ~y.ok
      BY <1>1, <2>1, ZenonT(30) DEF KType, Rest
  <2>3. Base(y)
      BY <2>2 DEF Base, Store, Tables, Unmapped, Unfiled
  <2>4. QED
      BY <1>3, <2>2, <2>3
<1>4. CASE x.dpt[e][p] = NULL /\ d # NULL
  <2>1. d \in Unfiled(x) /\ d \in DFrame
      BY <1>1, <1>4, ListFirst DEF FreeDiskFrame, DL
  <2>2. Lists(g, Unmapped(x), Unfiled(x) \ {d})
      BY <1>1, <2>1, ListTake
  <2>3. g \in Heap
      BY <2>2, ListHeap
  <2>4. y = [[x EXCEPT !.h = g] EXCEPT !.dpt[e][p] = d]
      BY <1>4 DEF pf_add_empty_env_page, DiskFrameOf, allocate_disk_frame, DL
  <2> HIDE DEF d, g
  <2>5. y = [x EXCEPT !.h = g, !.dpt = [x.dpt EXCEPT ![e][p] = d]]
      BY <1>1, <2>4 DEF KType
  <2> HIDE DEF y
  <2>6. /\ y \in KType /\ y.h = g /\ y.dpt = [x.dpt EXCEPT ![e][p] = d]
        /\ Rest(x, y) /\ y.refs = x.refs /\ y.mem = x.mem
        /\ y.dmem = x.dmem /\ y.pt = x.pt /\ y.dir = x.dir /\ y.ok = x.ok
      BY <1>1, <2>1, <2>3, <2>5, ZenonT(30) DEF KType, Rest
  <2>7. \A a \in Env, q \in Page : y.dpt[a][q] = IF a = e /\ q = p THEN d ELSE x.dpt[a][q]
      BY <1>1, <2>6
  <2>8. Files(x, y, e, p, d)
      BY <1>4, <2>2, <2>6, <2>7 DEF Files
  <2>9. Base(y)
      BY <1>4, <2>1, <2>8, StoreFile
  <2>10. QED
      BY <1>4, <2>6, <2>7, <2>9 DEF y
<1>5. QED
    BY <1>2, <1>3, <1>4

\* A page gives its disk frame back.
LEMMA RemoveLemma ==
    ASSUME NEW x, Base(x), NEW e \in Env, NEW p \in Page
    PROVE  LET y == pf_remove_env_page(x, e, p)
           IN  /\ Base(y) /\ Rest(x, y) /\ y.mem = x.mem /\ y.dmem = x.dmem /\ y.pt = x.pt
               /\ y.dpt[e][p] = NULL /\ y.ok = x.ok
               /\ \A a \in Env, q \in Page : a # e \/ q # p => y.dpt[a][q] = x.dpt[a][q]
<1> DEFINE d == x.dpt[e][p]
           g == LIST_INSERT_HEAD(x.h, DL, d)
           y == pf_remove_env_page(x, e, p)
<1>1. /\ x \in KType /\ Lists(x.h, Unmapped(x), Unfiled(x))
      /\ Unmapped(x) \in SUBSET Frame /\ Unfiled(x) \in SUBSET DFrame
      /\ x.dpt \in [Env -> [Page -> DFrame \union {NULL}]] /\ d \in DFrame \union {NULL}
    BY Fields DEF Base, Store, Unmapped, Unfiled
<1>2. CASE d = NULL
  <2>1. y = [x EXCEPT !.dpt[e][p] = NULL]
      BY <1>2 DEF pf_remove_env_page, DiskFrameOf, free_disk_frame
  <2>2. [x.dpt EXCEPT ![e][p] = NULL] = x.dpt
      BY <1>1, <1>2
  <2>3. y = x
      BY <1>1, <2>1, <2>2 DEF KType
  <2>4. QED
      BY <1>2, <2>3 DEF Rest
<1>3. CASE d # NULL
  <2>1. d \in DFrame \ Unfiled(x)
      BY <1>1, <1>3 DEF Unfiled
  <2>2. Lists(g, Unmapped(x), Unfiled(x) \union {d})
      BY <1>1, <2>1, ListGive
  <2>3. g \in Heap
      BY <2>2, ListHeap
  <2>4. y = [[x EXCEPT !.h = g] EXCEPT !.dpt[e][p] = NULL]
      BY <1>3 DEF pf_remove_env_page, DiskFrameOf, free_disk_frame, DL
  <2> HIDE DEF g
  <2>5. y = [x EXCEPT !.h = g, !.dpt = [x.dpt EXCEPT ![e][p] = NULL]]
      BY <1>1, <2>4 DEF KType
  <2> HIDE DEF y
  <2>6. /\ y \in KType /\ y.h = g /\ y.dpt = [x.dpt EXCEPT ![e][p] = NULL]
        /\ Rest(x, y) /\ y.refs = x.refs /\ y.mem = x.mem
        /\ y.dmem = x.dmem /\ y.pt = x.pt /\ y.dir = x.dir /\ y.ok = x.ok
      BY <1>1, <2>3, <2>5, ZenonT(30) DEF KType, Rest
  <2>7. \A a \in Env, q \in Page : y.dpt[a][q] = IF a = e /\ q = p THEN NULL ELSE x.dpt[a][q]
      BY <1>1, <2>6
  <2>8. Files(x, y, e, p, NULL)
      BY <1>3, <2>2, <2>6, <2>7 DEF Files
  <2>9. Base(y)
      BY <1>3, <2>8, StoreFile
  <2>10. QED
      BY <2>6, <2>7, <2>9 DEF y
<1>4. QED
    BY <1>2, <1>3


\* Of the environments, only e has other entries or disk frames in y than in x.
Only(x, y, e) == \A a \in Env \ {e} : y.pt[a] = x.pt[a] /\ y.dpt[a] = x.dpt[a]

\* The bits of an entry change one by one.
LEMMA EntryBits ==
    ASSUME NEW t \in Entry, NEW b \in BOOLEAN
    PROVE  /\ LET u == [t EXCEPT !.modified = b]
              IN  /\ u \in Entry /\ u.frame = t.frame /\ u.present = t.present
                  /\ u.uhpage = t.uhpage /\ u.modified = b
           /\ LET u == [t EXCEPT !.used = b]
              IN  /\ u \in Entry /\ u.frame = t.frame /\ u.present = t.present
                  /\ u.uhpage = t.uhpage /\ u.modified = t.modified
           /\ LET u == [t EXCEPT !.present = b]
              IN  /\ u \in Entry /\ u.frame = t.frame /\ u.present = b
                  /\ u.uhpage = t.uhpage /\ u.modified = t.modified
           /\ LET u == [t EXCEPT !.uhpage = b]
              IN  /\ u \in Entry /\ u.frame = t.frame /\ u.present = t.present
                  /\ u.uhpage = b /\ u.modified = t.modified
           /\ LET u == [t EXCEPT !.used = TRUE, !.modified = FALSE]
              IN  /\ u \in Entry /\ u.frame = t.frame /\ u.present = t.present
                  /\ u.uhpage = t.uhpage /\ u.modified = FALSE
BY DEF Entry

\* Panic sets ok and nothing else.
LEMMA PanicLemma ==
    ASSUME NEW x, Base(x)
    PROVE  LET y == Panic(x)
           IN  /\ Base(y) /\ Rest(x, y) /\ ~y.ok /\ y.pt = x.pt /\ y.dpt = x.dpt
               /\ y.mem = x.mem /\ y.dmem = x.dmem /\ y.dir = x.dir
<1> DEFINE y == Panic(x)
<1>1. /\ y \in KType /\ y.h = x.h /\ y.refs = x.refs /\ y.dpt = x.dpt /\ y.dir = x.dir
      /\ y.pt = x.pt /\ y.mem = x.mem /\ y.dmem = x.dmem /\ Rest(x, y) /\ ~y.ok
    BY ZenonT(30) DEF Panic, Base, KType, Rest
<1> HIDE DEF y
<1>2. Base(y)
    BY <1>1 DEF Base, Store, Tables, Unmapped, Unfiled
<1>3. QED
    BY <1>1, <1>2 DEF y

\* A page is written to its disk frame, which it may get now, and is clean.
LEMMA UpdateLemma ==
    ASSUME NEW x, Base(x), x.ok, NEW e \in Env, NEW p \in Page, x.pt[e][p].frame # NULL
    PROVE  LET y == pf_update_env_page(x, e, p)
           IN  /\ Base(y) /\ Rest(x, y) /\ Only(x, y, e) /\ y.mem = x.mem
               /\ y.ok =>
                    /\ Keeps(x, y) /\ y.dpt[e][p] # NULL
                    /\ y.dmem[y.dpt[e][p]] = x.mem[x.pt[e][p].frame]
                    /\ \A q \in Page : /\ x.dpt[e][q] # NULL => y.dpt[e][q] # NULL
                                       /\ q # p => y.pt[e][q] = x.pt[e][q]
                    /\ y.pt[e][p].frame = x.pt[e][p].frame
                    /\ y.pt[e][p].present = x.pt[e][p].present
                    /\ y.pt[e][p].uhpage = x.pt[e][p].uhpage
                    /\ ~y.pt[e][p].modified
<1> DEFINE m == IF x.dpt[e][p] # NULL \/ MayBeNew(p) THEN pf_add_empty_env_page(x, e, p)
                ELSE Panic(x)
           y == pf_update_env_page(x, e, p)
<1>1. y = WriteBack(m, e, p)
    BY DEF pf_update_env_page, pf_add_empty_env_page, DiskFrameOf
<1>2. /\ Base(m) /\ Rest(x, m) /\ m.mem = x.mem /\ m.dmem = x.dmem /\ m.pt = x.pt
      /\ x.dpt[e][p] # NULL => m.dpt[e][p] = x.dpt[e][p]
      /\ \A a \in Env, q \in Page : a # e \/ q # p => m.dpt[a][q] = x.dpt[a][q]
      /\ m.ok => m.dpt[e][p] # NULL
    BY AddEmptyLemma, PanicLemma, SMTT(30)
<1>3. x \in KType /\ m \in KType
    BY <1>2 DEF Base
<1> HIDE DEF m
<1>4. Only(x, m, e)
  <2>1. ASSUME NEW a \in Env \ {e} PROVE m.dpt[a] = x.dpt[a]
    <3>1. m.dpt[a] \in [Page -> DFrame \union {NULL}] /\ x.dpt[a] \in [Page -> DFrame \union {NULL}]
        BY <1>3, Fields
    <3>2. QED
        BY <1>2, <2>1, <3>1
  <2>2. QED
      BY <1>2, <2>1 DEF Only
<1>5. CASE ~m.ok
  <2>1. y = m
      BY <1>1, <1>5 DEF WriteBack
  <2>2. QED
      BY <1>2, <1>4, <1>5, <2>1
<1>6. CASE m.ok
  <2> DEFINE d == m.dpt[e][p]
             f == x.pt[e][p].frame
             t == [x.pt[e][p] EXCEPT !.modified = FALSE]
  <2>1. y = [[m EXCEPT !.dmem[d] = m.mem[f]] EXCEPT !.pt[e][p].modified = FALSE]
      BY <1>1, <1>2, <1>6 DEF WriteBack, write_disk_page
  <2>2. /\ d \in DFrame /\ f \in Frame /\ m.mem[f] \in Content
        /\ m.pt \in [Env -> [Page -> Entry]] /\ m.dmem \in [DFrame -> Content]
        /\ x.dmem \in [DFrame -> Content]
      BY <1>2, <1>3, <1>6, Fields, EntryFields, SMTT(30)
  <2>3. /\ t \in Entry /\ t.frame = f /\ t.present = x.pt[e][p].present
        /\ t.uhpage = x.pt[e][p].uhpage /\ ~t.modified
      BY <1>3, EntryFields, EntryBits, ZenonT(30)
  <2>4. y = [m EXCEPT !.dmem = [m.dmem EXCEPT ![d] = m.mem[f]],
                      !.pt = [m.pt EXCEPT ![e][p] = t]]
      BY <1>2, <1>3, <2>1, <2>2 DEF KType
  <2> HIDE DEF d, f, t, y
  <2>5. /\ y \in KType /\ y.h = m.h /\ y.refs = m.refs /\ y.dpt = m.dpt /\ y.dir = m.dir
        /\ y.mem = m.mem /\ Rest(m, y) /\ y.ok = m.ok
        /\ y.dmem = [m.dmem EXCEPT ![d] = m.mem[f]] /\ y.pt = [m.pt EXCEPT ![e][p] = t]
      BY <1>3, <2>2, <2>3, <2>4, ZenonT(30) DEF KType, Rest
  <2>6. /\ \A a \in Env, q \in Page : y.pt[a][q] = IF a = e /\ q = p THEN t ELSE x.pt[a][q]
        /\ \A b \in DFrame : y.dmem[b] = IF b = d THEN x.mem[f] ELSE x.dmem[b]
        /\ \A a \in Env \ {e} : y.pt[a] = x.pt[a]
      BY <1>2, <2>2, <2>5
  <2>7. Tables(m)
      BY <1>2 DEF Base
  <2>8. Marks(m, y)
    <3>1. \A a \in Env, q \in Page : /\ y.pt[a][q].frame = m.pt[a][q].frame
                                     /\ y.pt[a][q].present = m.pt[a][q].present
                                     /\ y.pt[a][q].uhpage = m.pt[a][q].uhpage
        BY <1>2, <2>3, <2>6 DEF f
    <3>2. QED
        BY <2>5, <2>7, <3>1 DEF Marks, Tables
  <2>9. Base(y)
      BY <1>2, <2>8, StoreBits
  <2>10. Keeps(x, y)
    <3> SUFFICES ASSUME NEW a \in Env, NEW q \in Page, NEW w, Holds(x, a, q, w)
                 PROVE  Holds(y, a, q, w)
        BY DEF Keeps
    <3>1. CASE a = e /\ q = p
      <4>1. /\ y.pt[a][q].frame = f /\ f # NULL /\ x.mem[f] = w /\ y.mem[f] = w
            /\ y.dpt[a][q] = d /\ d # NULL /\ y.dmem[d] = w
          BY <1>2, <2>2, <2>3, <2>5, <2>6, <3>1, Constants, SMTT(30) DEF Holds, d, f
      <4>2. QED
          BY <4>1, SMTT(30) DEF Holds
    <3>2. CASE a # e \/ q # p
      <4>1. y.pt[a][q] = x.pt[a][q] /\ y.dpt[a][q] = x.dpt[a][q] /\ y.mem = x.mem
          BY <1>2, <2>5, <2>6, <3>2
      <4>2. x.dpt[a][q] # NULL => x.dpt[a][q] \in DFrame /\ x.dpt[a][q] # d
        <5>1. m.dpt[a][q] = m.dpt[e][p] /\ m.dpt[a][q] # NULL => a = e /\ q = p
            BY <1>2 DEF Base, Store
        <5>2. m.dpt[a][q] = x.dpt[a][q] /\ x.dpt[a][q] \in DFrame \union {NULL}
            BY <1>2, <1>3, <3>2, EntryFields
        <5>3. QED
            BY <3>2, <5>1, <5>2 DEF d
      <4>3. x.dpt[a][q] # NULL => y.dmem[x.dpt[a][q]] = x.dmem[x.dpt[a][q]]
          BY <2>6, <4>2
      <4>4. QED
          BY <4>1, <4>3 DEF Holds
    <3>3. QED
        BY <3>1, <3>2
  <2>11. Rest(x, y)
      BY <1>2, <2>5 DEF Rest
  <2>12. Only(x, y, e)
      BY <1>4, <2>5, <2>6 DEF Only
  <2>13. /\ y.dpt[e][p] # NULL /\ y.dmem[y.dpt[e][p]] = x.mem[f]
         /\ \A q \in Page : /\ x.dpt[e][q] # NULL => y.dpt[e][q] # NULL
                            /\ q # p => y.pt[e][q] = x.pt[e][q]
         /\ y.pt[e][p] = t
    <3>1. y.dpt = m.dpt /\ y.dpt[e][p] = d /\ d # NULL
        BY <2>2, <2>5, Constants DEF d
    <3>2. \A q \in Page : x.dpt[e][q] # NULL => y.dpt[e][q] # NULL
        BY <1>2, <3>1
    <3>3. QED
        BY <2>2, <2>6, <3>1, <3>2
  <2>14. y.mem = x.mem
      BY <1>2, <2>5
  <2>15. QED
      BY <2>3, <2>9, <2>10, <2>11, <2>12, <2>13, <2>14 DEF y, f
<1>7. QED
    BY <1>5, <1>6


\* A mapped page is read from the page file, if it is there, and is clean.
LEMMA ReadLemma ==
    ASSUME NEW x, Base(x), NEW e \in Env, NEW p \in Page, x.pt[e][p].frame # NULL
    PROVE  LET y == pf_read_env_page(x, e, p)
               f == x.pt[e][p].frame
           IN  /\ Base(y) /\ Rest(x, y) /\ y.dpt = x.dpt /\ y.dmem = x.dmem /\ y.ok = x.ok
               /\ \A a \in Env, q \in Page : a # e \/ q # p => y.pt[a][q] = x.pt[a][q]
               /\ y.pt[e][p].frame = f /\ y.pt[e][p].present = x.pt[e][p].present
               /\ y.pt[e][p].uhpage = x.pt[e][p].uhpage
               /\ \A g \in Frame : g # f => y.mem[g] = x.mem[g]
               /\ x.dpt[e][p] # NULL => /\ y.mem[f] = x.dmem[x.dpt[e][p]]
                                        /\ ~y.pt[e][p].modified
               /\ x.dpt[e][p] = NULL => y = x
<1> DEFINE d == x.dpt[e][p]
           f == x.pt[e][p].frame
           y == pf_read_env_page(x, e, p)
           t == [x.pt[e][p] EXCEPT !.used = TRUE, !.modified = FALSE]
<1>1. CASE d = NULL
  <2>1. y = x
      BY <1>1, SMTT(30) DEF pf_read_env_page, InPageFile, DiskFrameOf
  <2>2. QED
      BY <1>1, <2>1 DEF Rest
<1>2. CASE d # NULL
  <2>1. /\ x \in KType /\ d \in DFrame /\ f \in Frame /\ x.dmem[d] \in Content
        /\ x.pt \in [Env -> [Page -> Entry]] /\ x.mem \in [Frame -> Content]
      BY <1>2, Fields, EntryFields, SMTT(30) DEF Base
  <2>2. /\ t \in Entry /\ t.frame = f /\ t.present = x.pt[e][p].present
        /\ t.uhpage = x.pt[e][p].uhpage /\ ~t.modified
      BY <2>1, EntryFields, EntryBits
  <2>3. y = [[x EXCEPT !.mem[f] = x.dmem[d]] EXCEPT !.pt[e][p].used = TRUE,
                                                   !.pt[e][p].modified = FALSE]
      BY <1>2 DEF pf_read_env_page, InPageFile, DiskFrameOf, read_disk_page
  <2>4. y = [x EXCEPT !.mem = [x.mem EXCEPT ![f] = x.dmem[d]],
                      !.pt = [x.pt EXCEPT ![e][p] = t]]
    <3> DEFINE w == [x EXCEPT !.mem[f] = x.dmem[d]]
    <3>1. w = [x EXCEPT !.mem = [x.mem EXCEPT ![f] = x.dmem[d]]] /\ w.pt = x.pt
        BY <2>1 DEF KType
    <3>2. [x.pt EXCEPT ![e][p].used = TRUE, ![e][p].modified = FALSE] = [x.pt EXCEPT ![e][p] = t]
        BY <2>1
    <3>3. y = [w EXCEPT !.pt = [w.pt EXCEPT ![e][p].used = TRUE, ![e][p].modified = FALSE]]
        BY <2>3
    <3> HIDE DEF w, t
    <3>4. QED
        BY <2>1, <3>1, <3>2, <3>3 DEF KType
  <2> HIDE DEF d, f, t, y
  <2>5. /\ y \in KType /\ y.h = x.h /\ y.refs = x.refs /\ y.dpt = x.dpt /\ y.dir = x.dir
        /\ y.dmem = x.dmem /\ Rest(x, y) /\ y.ok = x.ok
        /\ y.mem = [x.mem EXCEPT ![f] = x.dmem[d]] /\ y.pt = [x.pt EXCEPT ![e][p] = t]
      BY <2>1, <2>2, <2>4, ZenonT(30) DEF KType, Rest
  <2>6. /\ \A a \in Env, q \in Page : y.pt[a][q] = IF a = e /\ q = p THEN t ELSE x.pt[a][q]
        /\ \A g \in Frame : y.mem[g] = IF g = f THEN x.dmem[d] ELSE x.mem[g]
      BY <2>1, <2>5
  <2>7. Marks(x, y)
    <3>1. \A a \in Env, q \in Page : /\ y.pt[a][q].frame = x.pt[a][q].frame
                                     /\ y.pt[a][q].present = x.pt[a][q].present
                                     /\ y.pt[a][q].uhpage = x.pt[a][q].uhpage
        BY <2>2, <2>6 DEF f
    <3>2. QED
        BY <2>5, <3>1 DEF Marks, Tables, Base
  <2>8. Base(y)
      BY <2>7, StoreBits
  <2>9. QED
      BY <1>2, <2>1, <2>2, <2>5, <2>6, <2>8 DEF d, f, y
<1>3. QED
    BY <1>1, <1>2

-----------------------------------------------------------------------------
(* Mapping.                                                                *)

LEMMA WithTableLemma ==
    ASSUME NEW x \in KType, NEW e \in Env, NEW p \in Page
    PROVE  LET g == [x.dir EXCEPT ![e] = @ \union {PDX(p)}]
           IN  WithTable(x, e, p) = [x EXCEPT !.dir = g] /\ g \in [Env -> SUBSET Regions]
<1>1. x.dir \in [Env -> SUBSET Regions] /\ PDX(p) \in Regions
    BY Fields, Regional
<1>2. CASE PDX(p) \in x.dir[e]
  <2>1. [x.dir EXCEPT ![e] = @ \union {PDX(p)}] = x.dir
      BY <1>1, <1>2
  <2>2. x = [x EXCEPT !.dir = x.dir]
      BY DEF KType
  <2>3. QED
      BY <1>1, <1>2, <2>1, <2>2 DEF WithTable, get_page_table
<1>3. CASE PDX(p) \notin x.dir[e]
    BY <1>1, <1>3 DEF WithTable, get_page_table, create_page_table
<1>4. QED
    BY <1>2, <1>3

\* From x to y the page p of e, which had no frame, gets a free one.
Placed(x, y, e, p, f, u) ==
    /\ Base(y) /\ Rest(x, y) /\ y.ok = x.ok /\ y.mem = x.mem /\ y.dmem = x.dmem /\ y.dpt = x.dpt
    /\ f \in Frame /\ \A a \in Env, q \in Page : x.pt[a][q].frame # f
    /\ \A a \in Env, q \in Page : a # e \/ q # p => y.pt[a][q] = x.pt[a][q]
    /\ y.pt[e][p].frame = f /\ y.pt[e][p].present
    /\ ~y.pt[e][p].modified /\ y.pt[e][p].uhpage = u

\* Both ways of mapping a frame that was just allocated.
LEMMA MapLemma ==
    ASSUME NEW x, Base(x), FreeFrame(x) # NULL, NEW e \in Env, NEW p \in Page,
           x.pt[e][p].frame = NULL, NEW used \in BOOLEAN
    PROVE  LET f == FreeFrame(x) IN
           /\ Placed(x, map_frame(allocate_frame(x), e, f, p, used), e, p, f, x.pt[e][p].uhpage)
           /\ Placed(x, loadtime_map_frame(allocate_frame(x), e, f, p), e, p, f, FALSE)
<1> DEFINE f == FreeFrame(x)
           a == allocate_frame(x)
           D == [x.dir EXCEPT ![e] = @ \union {PDX(p)}]
           R == [x.refs EXCEPT ![f] = 1]
           t1 == [x.pt[e][p] EXCEPT !.frame = f, !.present = TRUE, !.used = used,
                                    !.modified = FALSE]
           t2 == [NoEntry EXCEPT !.frame = f, !.present = TRUE]
<1>1. /\ x \in KType /\ f \in Frame /\ f \in Unmapped(x) /\ f # NULL
      /\ Lists(a.h, Unmapped(x) \ {f}, Unfiled(x))
      /\ a \in KType /\ a.refs = [x.refs EXCEPT ![f] = 0] /\ a.pt = x.pt
      /\ a.dpt = x.dpt /\ a.mem = x.mem /\ a.dmem = x.dmem /\ a.dir = x.dir
      /\ Rest(x, a) /\ a.ok = x.ok /\ ~x.pt[e][p].present
    BY AllocateLemma, Constants DEF Base, Tables
<1> HIDE DEF f, a
<1>2. /\ a.h \in Heap /\ x.refs \in [Frame -> Nat] /\ x.pt \in [Env -> [Page -> Entry]]
      /\ x.dir \in [Env -> SUBSET Regions] /\ x.pt[e][p] \in Entry
    BY <1>1, ListHeap, Fields, EntryFields
<1>3. /\ a \in KType /\ a.refs = [x.refs EXCEPT ![f] = 0] /\ a.pt = x.pt /\ a.dir = x.dir
    BY <1>1
<1>4. WithTable(a, e, p) = [a EXCEPT !.dir = D] /\ D \in [Env -> SUBSET Regions]
    BY <1>3, WithTableLemma
<1>5. /\ t1 \in Entry /\ t1.frame = f /\ t1.present /\ ~t1.modified
      /\ t1.uhpage = x.pt[e][p].uhpage
      /\ t2 \in Entry /\ t2.frame = f /\ t2.present /\ ~t2.modified /\ t2.uhpage = FALSE
  <2>1. /\ t1 \in Entry /\ t1.frame = f /\ t1.present /\ ~t1.modified
        /\ t1.uhpage = x.pt[e][p].uhpage
    <3>1. ASSUME NEW n \in Entry
          PROVE  LET u == [n EXCEPT !.frame = f, !.present = TRUE, !.used = used,
                                    !.modified = FALSE]
                 IN  /\ u \in Entry /\ u.frame = f /\ u.present
                     /\ ~u.modified /\ u.uhpage = n.uhpage
        BY <1>1 DEF Entry
    <3>2. QED
        BY <1>2, <3>1
  <2>2. NoEntry \in Entry /\ ~NoEntry.modified /\ NoEntry.uhpage = FALSE
      BY DEF NoEntry, Entry
  <2>3. ASSUME NEW n \in Entry
        PROVE  LET u == [n EXCEPT !.frame = f, !.present = TRUE]
               IN  /\ u \in Entry /\ u.frame = f /\ u.present
                   /\ u.modified = n.modified /\ u.uhpage = n.uhpage
      BY <1>1 DEF Entry
  <2>4. QED
      BY <2>1, <2>2, <2>3
<1>6. map_frame(a, e, f, p, used) =
        [a EXCEPT !.dir = D, !.refs = R, !.pt = [x.pt EXCEPT ![e][p] = t1]]
  <2> DEFINE w == [a EXCEPT !.dir = D]
  <2>1. /\ w.pt = x.pt /\ w.refs = [x.refs EXCEPT ![f] = 0] /\ w.dir = D
        /\ w \in KType
      BY <1>3, <1>4, ZenonT(30) DEF KType
  <2>2. map_frame(a, e, f, p, used) =
          [w EXCEPT !.refs[f] = @ + 1,
                    !.pt[e][p] = [@ EXCEPT !.frame = f, !.present = TRUE,
                                           !.used = used, !.modified = FALSE]]
      BY <1>1, <1>4, <2>1 DEF map_frame, MapInto
  <2>3. [[x.refs EXCEPT ![f] = 0] EXCEPT ![f] = @ + 1] = R
      BY <1>1, <1>2
  <2> HIDE DEF w
  <2>4. map_frame(a, e, f, p, used) = [w EXCEPT !.refs = R, !.pt = [x.pt EXCEPT ![e][p] = t1]]
      BY <1>2, <2>1, <2>2, <2>3 DEF KType
  <2>5. QED
      BY <1>3, <2>4 DEF w, KType
<1>7. loadtime_map_frame(a, e, f, p) =
        [a EXCEPT !.dir = D, !.refs = R, !.pt = [x.pt EXCEPT ![e][p] = t2]]
  <2> DEFINE w == [a EXCEPT !.dir = D]
  <2>1. /\ w.pt = x.pt /\ w.refs = [x.refs EXCEPT ![f] = 0] /\ w.dir = D
        /\ w \in KType
      BY <1>3, <1>4, ZenonT(30) DEF KType
  <2>2. loadtime_map_frame(a, e, f, p) = [w EXCEPT !.refs[f] = @ + 1, !.pt[e][p] = t2]
      BY <1>4 DEF loadtime_map_frame
  <2>3. [[x.refs EXCEPT ![f] = 0] EXCEPT ![f] = @ + 1] = R
      BY <1>1, <1>2
  <2> HIDE DEF w, t2
  <2>4. loadtime_map_frame(a, e, f, p) = [w EXCEPT !.refs = R, !.pt = [x.pt EXCEPT ![e][p] = t2]]
      BY <1>2, <2>1, <2>2, <2>3 DEF KType
  <2>5. QED
      BY <1>3, <2>4 DEF w, KType
<1> HIDE DEF t1, t2
<1>8. ASSUME NEW t, NEW u, t \in Entry, t.frame = f, t.present, ~t.modified, t.uhpage = u,
             NEW y, y = [a EXCEPT !.dir = D, !.refs = R, !.pt = [x.pt EXCEPT ![e][p] = t]]
      PROVE  Placed(x, y, e, p, f, u)
  <2>1. D \in [Env -> SUBSET Regions] /\ R \in [Frame -> Nat] /\ PDX(p) \in D[e]
        /\ \A b \in Env : x.dir[b] \subseteq D[b]
      BY <1>2, <1>4
  <2> DEFINE P == [x.pt EXCEPT ![e][p] = t]
  <2>2. P \in [Env -> [Page -> Entry]]
      BY <1>2, <1>8
  <2>0. y = [a EXCEPT !.dir = D, !.refs = R, !.pt = P]
      BY <1>8
  <2> HIDE DEF D, R, P
  <2>3. /\ y \in KType /\ y.h = a.h /\ y.refs = R /\ y.dir = D /\ y.pt = P /\ y.dpt = a.dpt
        /\ y.mem = a.mem /\ y.dmem = a.dmem /\ Rest(a, y) /\ y.ok = a.ok
      BY <1>3, <2>0, <2>1, <2>2, ZenonT(30) DEF KType, Rest
  <2>4. y.dpt = x.dpt /\ y.mem = x.mem /\ y.dmem = x.dmem /\ Rest(x, y) /\ y.ok = x.ok
      BY <1>1, <2>3 DEF Rest
  <2>5. \A b \in Env, q \in Page : y.pt[b][q] = IF b = e /\ q = p THEN t ELSE x.pt[b][q]
      BY <1>2, <2>3 DEF P
  <2>6. \A g \in Frame : y.refs[g] = IF g = f THEN 1 ELSE x.refs[g]
      BY <1>2, <2>3 DEF R
  <2>7. Maps(x, y, e, p, f, t)
      BY <1>1, <1>8, <2>1, <2>3, <2>4, <2>5, <2>6 DEF Maps
  <2>8. Base(y)
      BY <1>1, <2>7, StoreMap
  <2>9. QED
      BY <1>1, <1>8, <2>4, <2>5, <2>8 DEF Placed, Unmapped
<1>9. QED
    BY <1>5, <1>6, <1>7, <1>8 DEF f, a

-----------------------------------------------------------------------------
(* Moving pages between memory and the page file.                          *)

\* What a step of e may do to the storage when of its pages only those of P
\* can come into memory.
Moves(x, y, e, P) ==
    /\ Base(y) /\ y.algo = x.algo /\ y.max = x.max /\ y.status = x.status
    /\ x.algo # "OPTIMAL" => y.active = x.active
    /\ Only(x, y, e) /\ \A a \in Env \ {e} : y.ws[a] = x.ws[a] /\ y.hand[a] = x.hand[a]
    /\ y.ok => /\ x.ok /\ Keeps(x, y)
               /\ \A q \in Page :
                     /\ y.pt[e][q].uhpage = x.pt[e][q].uhpage
                     /\ x.dpt[e][q] # NULL => y.dpt[e][q] # NULL
                     /\ y.pt[e][q].frame # NULL => x.pt[e][q].frame # NULL \/ q \in P

LEMMA MovesTrans ==
    ASSUME NEW x, NEW y, NEW z, NEW e, NEW P, Moves(x, y, e, P), Moves(y, z, e, P)
    PROVE  Moves(x, z, e, P)
<1>1. Only(x, z, e)
    BY DEF Moves, Only
<1>2. z.ok => Keeps(x, z)
    BY DEF Moves, Keeps
<1>3. QED
    BY <1>1, <1>2 DEF Moves

LEMMA OnlyFrom ==
    ASSUME NEW x \in KType, NEW y \in KType, NEW e \in Env,
           \A a \in Env \ {e}, q \in Page : /\ y.pt[a][q] = x.pt[a][q]
                                            /\ y.dpt[a][q] = x.dpt[a][q]
    PROVE  Only(x, y, e)
<1> SUFFICES ASSUME NEW a \in Env \ {e} PROVE y.pt[a] = x.pt[a] /\ y.dpt[a] = x.dpt[a]
    BY DEF Only
<1>1. /\ x.pt[a] \in [Page -> Entry] /\ y.pt[a] \in [Page -> Entry]
      /\ x.dpt[a] \in [Page -> DFrame \union {NULL}]
      /\ y.dpt[a] \in [Page -> DFrame \union {NULL}]
    BY Fields
<1>2. QED
    BY <1>1

\* A page holds what it held if neither its place nor what is there changes.
LEMMA HoldsSame ==
    ASSUME NEW x, NEW y, NEW a, NEW q, NEW w, Holds(x, a, q, w),
           y.pt[a][q].frame = x.pt[a][q].frame, y.pt[a][q].modified = x.pt[a][q].modified,
           y.dpt[a][q] = x.dpt[a][q],
           x.pt[a][q].frame # NULL => y.mem[x.pt[a][q].frame] = x.mem[x.pt[a][q].frame],
           x.dpt[a][q] # NULL => y.dmem[x.dpt[a][q]] = x.dmem[x.dpt[a][q]]
    PROVE  Holds(y, a, q, w)
BY DEF Holds

\* A page that was given a frame gets its contents from the page file.
LEMMA PlacedRead ==
    ASSUME NEW x, Base(x), NEW e \in Env, NEW p \in Page, x.pt[e][p].frame = NULL,
           NEW m, NEW f, Placed(x, m, e, p, f, x.pt[e][p].uhpage)
    PROVE  LET y == pf_read_env_page(m, e, p)
           IN  /\ Moves(x, y, e, {p}) /\ Rest(x, y) /\ y.dpt = x.dpt
               /\ \A q \in Page : q # p => y.pt[e][q] = x.pt[e][q]
               /\ y.pt[e][p].frame # NULL /\ y.pt[e][p].present
<1> DEFINE y == pf_read_env_page(m, e, p)
<1>1. /\ Base(m) /\ Rest(x, m) /\ m.ok = x.ok /\ m.mem = x.mem /\ m.dmem = x.dmem
      /\ m.dpt = x.dpt /\ f \in Frame /\ f # NULL
      /\ \A a \in Env, q \in Page : x.pt[a][q].frame # f
      /\ \A a \in Env, q \in Page : a # e \/ q # p => m.pt[a][q] = x.pt[a][q]
      /\ m.pt[e][p].frame = f /\ m.pt[e][p].present
      /\ ~m.pt[e][p].modified /\ m.pt[e][p].uhpage = x.pt[e][p].uhpage
    BY Constants DEF Placed
<1>2. /\ Base(y) /\ Rest(m, y) /\ y.dpt = x.dpt /\ y.dmem = x.dmem /\ y.ok = x.ok
      /\ \A a \in Env, q \in Page : a # e \/ q # p => y.pt[a][q] = x.pt[a][q]
      /\ y.pt[e][p].frame = f /\ y.pt[e][p].present
      /\ y.pt[e][p].uhpage = x.pt[e][p].uhpage
      /\ \A g \in Frame : g # f => y.mem[g] = x.mem[g]
      /\ x.dpt[e][p] # NULL => y.mem[f] = x.dmem[x.dpt[e][p]] /\ ~y.pt[e][p].modified
  <2>1. /\ Base(y) /\ Rest(m, y) /\ y.dpt = m.dpt /\ y.dmem = m.dmem /\ y.ok = m.ok
        /\ \A a \in Env, q \in Page : a # e \/ q # p => y.pt[a][q] = m.pt[a][q]
        /\ y.pt[e][p].frame = m.pt[e][p].frame /\ y.pt[e][p].present = m.pt[e][p].present
        /\ y.pt[e][p].uhpage = m.pt[e][p].uhpage
        /\ \A g \in Frame : g # m.pt[e][p].frame => y.mem[g] = m.mem[g]
        /\ m.dpt[e][p] # NULL => /\ y.mem[m.pt[e][p].frame] = m.dmem[m.dpt[e][p]]
                                 /\ ~y.pt[e][p].modified
    <3>1. Base(m) /\ m.pt[e][p].frame # NULL
        BY <1>1
    <3>2. QED
        BY <3>1, ReadLemma
  <2> HIDE DEF y
  <2>2. QED
      BY <1>1, <2>1, SMTT(30)
<1> HIDE DEF y
<1>3. x \in KType /\ y \in KType
    BY <1>2 DEF Base
<1>4. Only(x, y, e)
    BY <1>2, <1>3, OnlyFrom
<1>5. Keeps(x, y)
  <2> SUFFICES ASSUME NEW a \in Env, NEW q \in Page, NEW w, Holds(x, a, q, w)
               PROVE  Holds(y, a, q, w)
      BY DEF Keeps
  <2>1. CASE a = e /\ q = p
      BY <1>1, <1>2, <2>1, SMTT(30) DEF Holds
  <2>2. CASE a # e \/ q # p
    <3>1. x.pt[a][q].frame # NULL => y.mem[x.pt[a][q].frame] = x.mem[x.pt[a][q].frame]
        BY <1>1, <1>2, <1>3, EntryFields
    <3>2. QED
        BY <1>2, <2>2, <3>1, HoldsSame, SMTT(30)
  <2>3. QED
      BY <2>1, <2>2
<1>6. Rest(x, y)
    BY <1>1, <1>2 DEF Rest
<1>7. Moves(x, y, e, {p})
    BY <1>1, <1>2, <1>4, <1>5, <1>6 DEF Moves, Rest
<1>8. QED
    BY <1>1, <1>2, <1>6, <1>7 DEF y

LEMMA PanicMoves ==
    ASSUME NEW x, Base(x), NEW e, NEW P
    PROVE  Moves(x, Panic(x), e, P) /\ ~Panic(x).ok
BY PanicLemma DEF Moves, Only, Rest

\* A page of the page file, or a new one of the heap or the stack, is brought in.
LEMMA BringLemma ==
    ASSUME NEW x, Base(x), NEW e \in Env, NEW p \in Page, x.pt[e][p].frame = NULL,
           x.dpt[e][p] # NULL \/ MayBeNew(p), NEW used \in BOOLEAN
    PROVE  LET y == Bring(x, e, p, used)
           IN  /\ Moves(x, y, e, {p}) /\ Rest(x, y)
               /\ y.ok => /\ \A q \in Page : q # p => y.pt[e][q] = x.pt[e][q]
                          /\ y.pt[e][p].frame # NULL /\ y.pt[e][p].present
<1> DEFINE y == Bring(x, e, p, used)
           f == FreeFrame(x)
           m == map_frame(allocate_frame(x), e, f, p, used)
<1>1. CASE f = NULL
  <2>1. y = Panic(x)
      BY <1>1 DEF Bring, allocate_frame
  <2>2. QED
      BY <2>1, PanicMoves, PanicLemma
<1>2. CASE f # NULL
  <2>1. Placed(x, m, e, p, f, x.pt[e][p].uhpage)
      BY <1>2, MapLemma
  <2>2. m.dpt = x.dpt
      BY <2>1 DEF Placed
  <2>3. y = pf_read_env_page(m, e, p)
      BY <1>2, <2>2 DEF Bring, ReadInto, InPageFile, DiskFrameOf
  <2> HIDE DEF m, f
  <2>4. LET z == pf_read_env_page(m, e, p)
        IN  /\ Moves(x, z, e, {p}) /\ Rest(x, z) /\ z.dpt = x.dpt
            /\ \A q \in Page : q # p => z.pt[e][q] = x.pt[e][q]
            /\ z.pt[e][p].frame # NULL /\ z.pt[e][p].present
      BY <2>1, PlacedRead
  <2>5. QED
      BY <2>3, <2>4
<1>3. QED
    BY <1>1, <1>2

\* A page goes, after it was written to the page file if it was modified.
LEMMA EvictLemma ==
    ASSUME NEW x, Base(x), x.ok, NEW e \in Env, NEW v \in Page, x.pt[e][v].frame # NULL,
           NEW P
    PROVE  LET y == Evict(x, e, v)
           IN  /\ Moves(x, y, e, P) /\ Rest(x, y)
               /\ y.ok => /\ \A q \in Page : q # v => y.pt[e][q] = x.pt[e][q]
                          /\ y.pt[e][v].frame = NULL /\ ~y.pt[e][v].present
<1> DEFINE m == IF x.pt[e][v].modified THEN pf_update_env_page(x, e, v) ELSE x
           y == Evict(x, e, v)
<1>1. y = IF m.ok THEN unmap_frame(m, e, v) ELSE m
    BY DEF Evict, Drop
<1>2. /\ Base(m) /\ Rest(x, m) /\ Only(x, m, e)
      /\ m.ok => /\ Keeps(x, m)
                 /\ \A q \in Page : /\ x.dpt[e][q] # NULL => m.dpt[e][q] # NULL
                                    /\ q # v => m.pt[e][q] = x.pt[e][q]
                 /\ m.pt[e][v].frame = x.pt[e][v].frame
                 /\ m.pt[e][v].uhpage = x.pt[e][v].uhpage
                 /\ ~m.pt[e][v].modified
  <2>1. CASE x.pt[e][v].modified
      BY <2>1, UpdateLemma
  <2>2. CASE ~x.pt[e][v].modified
      BY <2>2 DEF Rest, Only, Keeps
  <2>3. QED
      BY <2>1, <2>2
<1> HIDE DEF m
<1>3. CASE ~m.ok
  <2>1. y = m
      BY <1>1, <1>3
  <2>2. QED
      BY <1>2, <1>3, <2>1 DEF Moves, Rest
<1>4. CASE m.ok
  <2> DEFINE t == [NoEntry EXCEPT !.uhpage = m.pt[e][v].uhpage]
  <2>1. /\ Base(y) /\ Rest(m, y) /\ y.ok = m.ok
        /\ y.mem = m.mem /\ y.dmem = m.dmem /\ y.dpt = m.dpt
        /\ y.pt = [m.pt EXCEPT ![e][v] = t]
    <3>1. y = unmap_frame(m, e, v) /\ m.pt[e][v].frame # NULL
        BY <1>1, <1>2, <1>4
    <3>2. QED
        BY <1>2, <3>1, UnmapLemma
  <2>2. t.frame = NULL /\ ~t.present /\ t.uhpage = m.pt[e][v].uhpage
      BY DEF NoEntry
  <2> HIDE DEF t, y
  <2>3. m \in KType /\ y \in KType
      BY <1>2, <2>1 DEF Base
  <2>4. \A a \in Env, q \in Page : y.pt[a][q] = IF a = e /\ q = v THEN t ELSE m.pt[a][q]
      BY <2>1, <2>3, Fields
  <2>5. Only(m, y, e)
    <3>1. \A a \in Env \ {e}, q \in Page : y.pt[a][q] = m.pt[a][q] /\ y.dpt[a][q] = m.dpt[a][q]
        BY <2>1, <2>4
    <3>2. QED
        BY <2>3, <3>1, OnlyFrom
  <2>6. Keeps(m, y)
    <3> SUFFICES ASSUME NEW a \in Env, NEW q \in Page, NEW w, Holds(m, a, q, w)
                 PROVE  Holds(y, a, q, w)
        BY DEF Keeps
    <3>1. CASE a = e /\ q = v
        BY <1>2, <1>4, <2>1, <2>2, <2>4, <3>1 DEF Holds
    <3>2. CASE a # e \/ q # v
      <4>1. y.pt[a][q] = m.pt[a][q] /\ y.dpt = m.dpt /\ y.mem = m.mem /\ y.dmem = m.dmem
          BY <2>1, <2>4, <3>2
      <4>2. QED
          BY <4>1, HoldsSame
    <3>3. QED
        BY <3>1, <3>2
  <2>7. Rest(x, y) /\ Only(x, y, e) /\ Keeps(x, y)
    <3>1. Rest(x, y)
        BY <1>2, <2>1 DEF Rest
    <3>2. Only(x, y, e)
        BY <1>2, <2>5 DEF Only
    <3>3. Keeps(x, y)
        BY <1>2, <1>4, <2>6 DEF Keeps
    <3>4. QED
        BY <3>1, <3>2, <3>3
  <2>8. /\ \A q \in Page : q # v => y.pt[e][q] = x.pt[e][q]
        /\ y.pt[e][v].frame = NULL /\ ~y.pt[e][v].present
        /\ y.pt[e][v].uhpage = x.pt[e][v].uhpage
        /\ \A q \in Page : x.dpt[e][q] # NULL => y.dpt[e][q] # NULL
      BY <1>2, <1>4, <2>1, <2>2, <2>4
  <2>9. Moves(x, y, e, P)
      BY <2>1, <2>7, <2>8 DEF Moves, Rest
  <2>10. QED
      BY <2>7, <2>8, <2>9 DEF y
<1>5. QED
    BY <1>3, <1>4

-----------------------------------------------------------------------------
(* Working sets as sequences.                                              *)

Vas(s) == {s[i].va : i \in DOMAIN s}

Once(s) == \A i, j \in DOMAIN s : s[i].va = s[j].va => i = j

\* t is s without the element of v.
Less(s, t, v) ==
    t \in Seq(Element) /\ Once(t) /\ Len(t) = Len(s) - 1 /\ Vas(t) = Vas(s) \ {v}

LEMMA IndexLemma ==
    ASSUME NEW s \in Seq(Element), NEW v \in Vas(s)
    PROVE  IndexOf(s, v) \in DOMAIN s /\ s[IndexOf(s, v)].va = v /\ v \in Page
<1>1. PICK i \in DOMAIN s : s[i].va = v
    BY DEF Vas
<1>2. v \in Page
  <2>1. s[i] \in Element
      OBVIOUS
  <2>2. QED
      BY <1>1, <2>1 DEF Element
<1>3. QED
    BY <1>1, <1>2 DEF IndexOf

\* Leaving out the i-th element of a sequence, in whatever order the others are.
LEMMA LessFrom ==
    ASSUME NEW s \in Seq(Element), Once(s), NEW i \in DOMAIN s,
           NEW t, t \in Seq(Element), Len(t) = Len(s) - 1,
           NEW g \in [DOMAIN t -> DOMAIN s \ {i}],
           \A j \in DOMAIN t : t[j] = s[g[j]],
           \A j, l \in DOMAIN t : g[j] = g[l] => j = l,
           \A n \in DOMAIN s \ {i} : \E j \in DOMAIN t : g[j] = n
    PROVE  Less(s, t, s[i].va)
<1>1. Once(t)
    BY DEF Once
<1>2. Vas(t) = Vas(s) \ {s[i].va}
  <2>1. ASSUME NEW v \in Vas(t) PROVE v \in Vas(s) \ {s[i].va}
      BY <2>1 DEF Vas, Once
  <2>2. ASSUME NEW v \in Vas(s), v # s[i].va PROVE v \in Vas(t)
    <3>1. PICK n \in DOMAIN s : s[n].va = v
        BY <2>2 DEF Vas
    <3>2. PICK j \in DOMAIN t : g[j] = n
        BY <2>2, <3>1
    <3>3. QED
        BY <3>1, <3>2 DEF Vas
  <2>3. QED
      BY <2>1, <2>2
<1>3. QED
    BY <1>1, <1>2 DEF Less

LEMMA RemoveLess ==
    ASSUME NEW s \in Seq(Element), Once(s), NEW i \in DOMAIN s
    PROVE  Less(s, RemoveAt(s, i), s[i].va)
<1> DEFINE t == RemoveAt(s, i)
           g == [j \in DOMAIN t |-> IF j < i THEN j ELSE j + 1]
<1>1. i \in 1 .. Len(s) /\ Len(s) \in Nat
    OBVIOUS
<1>2. /\ t \in Seq(Element) /\ Len(t) = Len(s) - 1 /\ DOMAIN t = 1 .. Len(s) - 1
      /\ \A j \in 1 .. Len(s) - 1 : t[j] = IF j < i THEN s[j] ELSE s[j + 1]
  <2> DEFINE a == SubSeq(s, 1, i - 1)
             b == SubSeq(s, i + 1, Len(s))
  <2>1. /\ a \in Seq(Element) /\ Len(a) = i - 1 /\ b \in Seq(Element) /\ Len(b) = Len(s) - i
        /\ \A j \in 1 .. i - 1 : a[j] = s[j]
        /\ \A j \in 1 .. Len(s) - i : b[j] = s[i + j]
      BY <1>1
  <2>2. t = a \o b
      BY DEF RemoveAt
  <2> HIDE DEF a, b, t
  <2>3. /\ t \in Seq(Element) /\ Len(t) = Len(s) - 1
        /\ \A j \in 1 .. i - 1 : t[j] = a[j]
        /\ \A j \in i .. Len(s) - 1 : t[j] = b[j - (i - 1)]
    <3>1. /\ t \in Seq(Element) /\ Len(t) = Len(a) + Len(b)
          /\ \A j \in 1 .. Len(a) + Len(b) :
                t[j] = IF j <= Len(a) THEN a[j] ELSE b[j - Len(a)]
        BY <2>1, <2>2, ConcatProperties
    <3>2. Len(a) = i - 1 /\ Len(a) + Len(b) = Len(s) - 1
        BY <1>1, <2>1
    <3>3. \A j \in i .. Len(s) - 1 : j \in 1 .. Len(s) - 1 /\ ~(j <= i - 1)
        BY <1>1
    <3>4. \A j \in 1 .. i - 1 : j \in 1 .. Len(s) - 1 /\ j <= i - 1
        BY <1>1
    <3>5. QED
        BY <3>1, <3>2, <3>3, <3>4
  <2>4. ASSUME NEW j \in 1 .. Len(s) - 1 PROVE t[j] = IF j < i THEN s[j] ELSE s[j + 1]
    <3>1. CASE j < i
        BY <1>1, <2>1, <2>3, <3>1, SMTT(30)
    <3>2. CASE j >= i
      <4>1. j - (i - 1) \in 1 .. Len(s) - i /\ i + (j - (i - 1)) = j + 1 /\ j \in i .. Len(s) - 1
          BY <1>1, <3>2
      <4>2. t[j] = b[j - (i - 1)] /\ b[j - (i - 1)] = s[j + 1]
          BY <2>1, <2>3, <4>1
      <4>3. QED
          BY <1>1, <3>2, <4>2
    <3>3. QED
        BY <1>1, <3>1, <3>2
  <2>5. QED
      BY <1>1, <2>3, <2>4
<1> HIDE DEF t
<1>3. /\ g \in [DOMAIN t -> DOMAIN s \ {i}] /\ \A j \in DOMAIN t : t[j] = s[g[j]]
      /\ \A j, l \in DOMAIN t : g[j] = g[l] => j = l
    BY <1>1, <1>2
<1>4. ASSUME NEW n \in DOMAIN s \ {i} PROVE \E j \in DOMAIN t : g[j] = n
  <2>1. CASE n < i
    <3>1. n \in DOMAIN t /\ g[n] = n
        BY <1>1, <1>2, <2>1
    <3>2. QED
        BY <3>1
  <2>2. CASE n > i
    <3>1. n - 1 \in DOMAIN t /\ g[n - 1] = n
        BY <1>1, <1>2, <2>2
    <3>2. QED
        BY <3>1
  <2>3. QED
      BY <1>1, <1>4, <2>1, <2>2
<1> HIDE DEF g
<1>5. QED
    BY <1>2, <1>3, <1>4, LessFrom DEF t

\* The list turned until the i-th element is first, and that removed.
LEMMA TurnLess ==
    ASSUME NEW s \in Seq(Element), Once(s), NEW i \in DOMAIN s
    PROVE  Less(s, SubSeq(s, i + 1, Len(s)) \o SubSeq(s, 1, i - 1), s[i].va)
<1> DEFINE a == SubSeq(s, i + 1, Len(s))
           b == SubSeq(s, 1, i - 1)
           t == a \o b
           m == Len(s) - i
           g == [j \in DOMAIN t |-> IF j <= m THEN j + i ELSE j - m]
<1>1. i \in 1 .. Len(s) /\ Len(s) \in Nat
    OBVIOUS
<1>2. /\ t \in Seq(Element) /\ Len(t) = Len(s) - 1 /\ DOMAIN t = 1 .. Len(s) - 1
      /\ \A j \in 1 .. Len(s) - 1 : t[j] = IF j <= m THEN s[j + i] ELSE s[j - m]
  <2>1. /\ b \in Seq(Element) /\ Len(b) = i - 1 /\ a \in Seq(Element) /\ Len(a) = m
        /\ \A j \in 1 .. i - 1 : b[j] = s[j]
        /\ \A j \in 1 .. m : a[j] = s[i + j]
      BY <1>1
  <2>2. t = a \o b
      OBVIOUS
  <2> HIDE DEF a, b, t
  <2>3. /\ t \in Seq(Element) /\ Len(t) = Len(s) - 1
        /\ \A j \in 1 .. m : t[j] = a[j]
        /\ \A j \in m + 1 .. Len(s) - 1 : t[j] = b[j - m]
    <3>1. /\ t \in Seq(Element) /\ Len(t) = Len(a) + Len(b)
          /\ \A j \in 1 .. Len(a) + Len(b) :
                t[j] = IF j <= Len(a) THEN a[j] ELSE b[j - Len(a)]
        BY <2>1, <2>2, ConcatProperties
    <3>2. Len(a) = m /\ Len(a) + Len(b) = Len(s) - 1
        BY <1>1, <2>1
    <3>3. \A j \in m + 1 .. Len(s) - 1 : j \in 1 .. Len(s) - 1 /\ ~(j <= m)
        BY <1>1
    <3>4. \A j \in 1 .. m : j \in 1 .. Len(s) - 1 /\ j <= m
        BY <1>1
    <3>5. QED
        BY <3>1, <3>2, <3>3, <3>4
  <2>4. ASSUME NEW j \in 1 .. Len(s) - 1 PROVE t[j] = IF j <= m THEN s[j + i] ELSE s[j - m]
    <3>1. CASE j <= m
      <4>1. j \in 1 .. m /\ i + j = j + i
          BY <1>1, <3>1
      <4>2. t[j] = a[j] /\ a[j] = s[j + i]
          BY <2>1, <2>3, <4>1
      <4>3. QED
          BY <3>1, <4>2
    <3>2. CASE j > m
      <4>1. j - m \in 1 .. i - 1 /\ j \in m + 1 .. Len(s) - 1
          BY <1>1, <3>2
      <4>2. t[j] = b[j - m] /\ b[j - m] = s[j - m]
          BY <2>1, <2>3, <4>1
      <4>3. QED
          BY <1>1, <3>2, <4>2
    <3>3. QED
        BY <1>1, <3>1, <3>2
  <2>5. DOMAIN t = 1 .. Len(s) - 1
      BY <1>1, <2>3
  <2> HIDE DEF m
  <2>6. QED
      BY <2>3, <2>4, <2>5
<1> HIDE DEF t
<1>3. /\ g \in [DOMAIN t -> DOMAIN s \ {i}] /\ \A j \in DOMAIN t : t[j] = s[g[j]]
      /\ \A j, l \in DOMAIN t : g[j] = g[l] => j = l
  <2>1. DOMAIN s = 1 .. Len(s) /\ m \in Nat
      BY <1>1
  <2>2. \A j \in DOMAIN t : /\ j <= m => g[j] = j + i
                            /\ ~(j <= m) => g[j] = j - m
      OBVIOUS
  <2>3. ASSUME NEW j \in DOMAIN t
        PROVE  g[j] \in DOMAIN s \ {i} /\ t[j] = s[g[j]]
    <3>1. CASE j <= m
      <4>1. g[j] = j + i /\ t[j] = s[j + i] /\ j + i \in 1 .. Len(s) /\ j + i # i
          BY <1>1, <1>2, <2>2, <3>1, SMTT(30)
      <4>2. QED
          BY <2>1, <4>1
    <3>2. CASE ~(j <= m)
      <4>1. g[j] = j - m /\ t[j] = s[j - m] /\ j - m \in 1 .. Len(s) /\ j - m # i
          BY <1>1, <1>2, <2>2, <3>2
      <4>2. QED
          BY <2>1, <4>1
    <3>3. QED
        BY <3>1, <3>2
  <2>4. ASSUME NEW j \in DOMAIN t, NEW l \in DOMAIN t, g[j] = g[l]
        PROVE  j = l
      BY <1>1, <1>2, <2>1, <2>2, <2>4, SMTT(30)
  <2>5. QED
      BY <2>3, <2>4
<1>4. ASSUME NEW n \in DOMAIN s \ {i} PROVE \E j \in DOMAIN t : g[j] = n
  <2>1. CASE n < i
    <3>1. n + m \in DOMAIN t /\ g[n + m] = n
        BY <1>1, <1>2, <2>1
    <3>2. QED
        BY <3>1
  <2>2. CASE n > i
    <3>1. n - i \in DOMAIN t /\ g[n - i] = n
        BY <1>1, <1>2, <2>2
    <3>2. QED
        BY <3>1
  <2>3. QED
      BY <1>1, <1>4, <2>1, <2>2
<1> HIDE DEF g
<1>5. QED
    BY <1>2, <1>3, <1>4, LessFrom, ZenonT(30) DEF t

\* A new page at the tail.
LEMMA TailMore ==
    ASSUME NEW s \in Seq(Element), Once(s), NEW p \in Page, p \notin Vas(s)
    PROVE  LET t == Append(s, env_page_ws_list_create_element(p))
           IN  /\ t \in Seq(Element) /\ Once(t) /\ Len(t) = Len(s) + 1
               /\ Vas(t) = Vas(s) \union {p} /\ t[1].va \in Vas(t)
<1> DEFINE c == [va |-> p, stamp |-> 0]
           t == Append(s, c)
           n == Len(s)
<1>1. c \in Element /\ n \in Nat /\ DOMAIN s = 1 .. n
    BY DEF Element
<1>2. /\ t \in Seq(Element) /\ Len(t) = n + 1 /\ DOMAIN t = 1 .. n + 1
      /\ \A i \in 1 .. n : t[i] = s[i]
      /\ t[n + 1] = c
    BY <1>1
<1>3. c.va = p
    OBVIOUS
<1> HIDE DEF c, t, n
<1>4. \A i \in 1 .. n : s[i].va # p
    BY <1>1 DEF Vas
<1>5. Once(t)
    BY <1>1, <1>2, <1>3, <1>4 DEF Once
<1>6. Vas(t) = Vas(s) \union {p}
  <2>1. ASSUME NEW v \in Vas(t) PROVE v \in Vas(s) \union {p}
    <3>1. PICK i \in 1 .. n + 1 : t[i].va = v
        BY <1>2, <2>1 DEF Vas
    <3>2. CASE i = n + 1
        BY <1>2, <1>3, <3>1, <3>2
    <3>3. CASE i # n + 1
      <4>1. i \in DOMAIN s /\ s[i].va = v
          BY <1>1, <1>2, <3>1, <3>3
      <4>2. QED
          BY <4>1 DEF Vas
    <3>4. QED
        BY <3>2, <3>3
  <2>2. ASSUME NEW v \in Vas(s) PROVE v \in Vas(t)
    <3>1. PICK i \in 1 .. n : s[i].va = v
        BY <1>1, <2>2 DEF Vas
    <3>2. i \in DOMAIN t /\ t[i].va = v
        BY <1>1, <1>2, <3>1
    <3>3. QED
        BY <3>2 DEF Vas
  <2>3. n + 1 \in DOMAIN t /\ t[n + 1].va = p
      BY <1>1, <1>2, <1>3
  <2>4. p \in Vas(t)
      BY <2>3 DEF Vas
  <2>5. QED
      BY <2>1, <2>2, <2>4
<1>7. 1 \in DOMAIN t
    BY <1>1, <1>2
<1>8. t[1].va \in Vas(t)
    BY <1>7 DEF Vas
<1>9. QED
    BY <1>2, <1>5, <1>6, <1>8 DEF t, c, n, env_page_ws_list_create_element

-----------------------------------------------------------------------------
(* Placement and replacement.                                              *)

\* From x to y the storage is the same, and only what e has in lists changes.
Arranges(x, y, e) ==
    /\ y \in KType /\ y.h = x.h /\ y.refs = x.refs /\ y.mem = x.mem /\ y.dmem = x.dmem
    /\ y.dir = x.dir /\ y.pt = x.pt /\ y.dpt = x.dpt /\ y.ok = x.ok
    /\ y.algo = x.algo /\ y.max = x.max /\ y.status = x.status
    /\ x.algo # "OPTIMAL" => y.active = x.active
    /\ \A a \in Env \ {e} : y.ws[a] = x.ws[a] /\ y.hand[a] = x.hand[a]

LEMMA ArrangesMoves ==
    ASSUME NEW x, Base(x), NEW e \in Env, NEW y, Arranges(x, y, e), NEW P
    PROVE  Moves(x, y, e, P) /\ Base(y) /\ \A W : Resident(x, e, W) => Resident(y, e, W)
<1>1. Base(y)
    BY DEF Arranges, Base, Store, Tables, Unmapped, Unfiled
<1>2. Keeps(x, y)
    BY DEF Arranges, Keeps, Holds
<1>3. Only(x, y, e)
    BY DEF Arranges, Only
<1>4. \A W : Resident(x, e, W) => Resident(y, e, W)
    BY DEF Arranges, Resident
<1>5. QED
    BY <1>1, <1>2, <1>3, <1>4 DEF Arranges, Moves

LEMMA ArrangesTrans ==
    ASSUME NEW x, NEW y, NEW z, NEW e, Arranges(x, y, e), Arranges(y, z, e)
    PROVE  Arranges(x, z, e)
BY DEF Arranges

LEMMA SetWs ==
    ASSUME NEW x \in KType, NEW e \in Env, NEW t \in Seq(Element)
    PROVE  LET y == [x EXCEPT !.ws[e] = t]
           IN  Arranges(x, y, e) /\ y.ws[e] = t /\ y.hand = x.hand
<1> DEFINE W == [x.ws EXCEPT ![e] = t]
           y == [x EXCEPT !.ws = W]
<1>1. x.ws \in [Env -> Seq(Element)]
    BY Fields
<1>2. W \in [Env -> Seq(Element)] /\ W[e] = t /\ \A a \in Env \ {e} : W[a] = x.ws[a]
    BY <1>1
<1> HIDE DEF W
<1>3. y \in KType /\ y.ws = W /\ y.hand = x.hand
    BY <1>2 DEF KType
<1>4. Arranges(x, y, e)
    BY <1>2, <1>3 DEF Arranges, KType
<1>5. QED
    BY <1>2, <1>3, <1>4 DEF W

LEMMA PutHand ==
    ASSUME NEW x \in KType, NEW e \in Env, NEW p \in Page \union {NULL}
    PROVE  LET y == [x EXCEPT !.hand[e] = p]
           IN  Arranges(x, y, e) /\ y.hand[e] = p /\ y.ws = x.ws
<1> DEFINE H == [x.hand EXCEPT ![e] = p]
           y == [x EXCEPT !.hand = H]
<1>1. x.hand \in [Env -> Page \union {NULL}]
    BY Fields
<1>2. H \in [Env -> Page \union {NULL}] /\ H[e] = p /\ \A a \in Env \ {e} : H[a] = x.hand[a]
    BY <1>1
<1> HIDE DEF H
<1>3. y \in KType /\ y.hand = H /\ y.ws = x.ws
    BY <1>2, ZenonT(30) DEF KType
<1>4. Arranges(x, y, e)
    BY <1>2, <1>3, ZenonT(30) DEF Arranges, KType
<1>5. QED
    BY <1>2, <1>3, <1>4 DEF H

\* In y, e has p at the tail of the working set it has in x, and its hand right.
Tailed(x, y, e, p) ==
    /\ Arranges(x, y, e) /\ Once(y.ws[e]) /\ Len(y.ws[e]) = Len(x.ws[e]) + 1
    /\ Vas(y.ws[e]) = Vas(x.ws[e]) \union {p} /\ HandOk(y, e)

LEMMA InsertLemma ==
    ASSUME NEW x \in KType, NEW e \in Env, NEW p \in Page, Once(x.ws[e]), p \notin Vas(x.ws[e])
    PROVE  /\ Tailed(x, SetHand(InsertTail(x, e, p), e), e, p)
           /\ x.algo = "LRU" => Tailed(x, InsertTail(x, e, p), e, p)
<1> DEFINE t == Append(x.ws[e], env_page_ws_list_create_element(p))
           m == InsertTail(x, e, p)
           d == IF Full(m, e) /\ m.algo # "LRU" THEN m.ws[e][1].va ELSE NULL
           y == SetHand(m, e)
<1>1. /\ t \in Seq(Element) /\ Once(t) /\ Len(t) = Len(x.ws[e]) + 1
      /\ Vas(t) = Vas(x.ws[e]) \union {p} /\ t[1].va \in Vas(t)
  <2>1. x.ws[e] \in Seq(Element)
      BY Fields
  <2>2. QED
      BY <2>1, TailMore
<1>2. m = [x EXCEPT !.ws[e] = t]
    BY DEF InsertTail
<1>3. t[1].va \in Page
  <2>1. x.ws[e] \in Seq(Element)
      BY Fields
  <2>2. 1 \in DOMAIN t /\ t[1] \in Element
      BY <1>1, <2>1
  <2>3. QED
      BY <2>2 DEF Element
<1> HIDE DEF t, m
<1>4. Arranges(x, m, e) /\ m.ws[e] = t /\ m.hand = x.hand
    BY <1>1, <1>2, SetWs
<1>5. m \in KType /\ d \in Page \union {NULL} /\ m.algo = x.algo
    BY <1>3, <1>4 DEF Arranges
<1>6. y = [m EXCEPT !.hand[e] = d]
    BY DEF SetHand
<1> HIDE DEF d, y
<1>7. Arranges(m, y, e) /\ y.hand[e] = d /\ y.ws = m.ws
    BY <1>5, <1>6, PutHand
<1>8. Arranges(x, y, e)
    BY <1>4, <1>7, ArrangesTrans
<1>9. HandOk(y, e)
    BY <1>1, <1>4, <1>7, SMTT(30) DEF HandOk, HandLost, Full, Vas, WSPages, Arranges, d
<1>10. x.algo = "LRU" => HandOk(m, e)
    BY <1>5 DEF HandOk
<1>11. QED
    BY <1>1, <1>4, <1>7, <1>8, <1>9, <1>10 DEF Tailed, m, y

\* The page p of e is to be brought into memory, where e has just the pages of
\* its working set and there is a place.
Ready(x, e, p) ==
    /\ Base(x) /\ x.status[e] = "live" /\ x.algo # "OPTIMAL" /\ x.active = <<>>
    /\ Resident(x, e, Vas(x.ws[e])) /\ Once(x.ws[e]) /\ Len(x.ws[e]) < x.max
    /\ p \notin Vas(x.ws[e]) /\ (x.dpt[e][p] # NULL \/ MayBeNew(p))

\* That was done, or there was a panic.
Done(x, y, e, p) ==
    Moves(x, y, e, {p}) /\ (y.ok => WorkingSetOk(y, e) /\ y.pt[e][p].frame # NULL)

LEMMA PutLemma ==
    ASSUME NEW x, NEW e \in Env, NEW p \in Page, Ready(x, e, p), NEW used \in BOOLEAN,
           NEW y, \/ y = InsertAndSetHand(Bring(x, e, p, used), e, p)
                  \/ x.algo = "LRU" /\ y = Insert(Bring(x, e, p, used), e, p)
    PROVE  Done(x, y, e, p)
<1> DEFINE m == Bring(x, e, p, used)
<1>1. /\ Moves(x, m, e, {p}) /\ Rest(x, m)
      /\ m.ok => /\ \A q \in Page : q # p => m.pt[e][q] = x.pt[e][q]
                 /\ m.pt[e][p].frame # NULL /\ m.pt[e][p].present
  <2>1. Base(x) /\ x.pt[e][p].frame = NULL /\ (x.dpt[e][p] # NULL \/ MayBeNew(p))
      BY DEF Ready, Resident
  <2>2. QED
      BY <2>1, BringLemma
<1> HIDE DEF m
<1>2. CASE ~m.ok
  <2>1. y = m
      BY <1>2 DEF InsertAndSetHand, Insert, Goes, m
  <2>2. QED
      BY <1>1, <1>2, <2>1 DEF Done
<1>3. CASE m.ok
  <2>1. m \in KType /\ Base(m) /\ m.status[e] = "live" /\ m.ws = x.ws
      BY <1>1 DEF Moves, Rest, Base, Ready
  <2>2. Tailed(m, y, e, p)
    <3>1. \/ y = SetHand(InsertTail(m, e, p), e)
          \/ m.algo = "LRU" /\ y = InsertTail(m, e, p)
        BY <1>1, <1>3, <2>1 DEF InsertAndSetHand, Insert, Goes, Rest, m
    <3>2. Once(m.ws[e]) /\ p \notin Vas(m.ws[e])
        BY <2>1 DEF Ready
    <3>3. QED
        BY <2>1, <3>1, <3>2, InsertLemma
  <2>3. Moves(m, y, e, {p}) /\ \A W : Resident(m, e, W) => Resident(y, e, W)
      BY <2>1, <2>2, ArrangesMoves DEF Tailed
  <2>4. Moves(x, y, e, {p})
      BY <1>1, <2>3, MovesTrans
  <2>5. Resident(m, e, Vas(x.ws[e]) \union {p})
      BY <1>1, <1>3 DEF Ready, Resident
  <2>6. Resident(y, e, WSPages(y, e))
      BY <2>1, <2>2, <2>3, <2>5 DEF Tailed, WSPages, Vas
  <2>7. OrderOk(y, e)
    <3>1. /\ x.max \in Nat /\ x.ws[e] \in Seq(Element) /\ y.max = x.max
          /\ Len(y.ws[e]) = Len(x.ws[e]) + 1 /\ Len(x.ws[e]) < x.max
        BY <1>1, <2>1, <2>2, Fields DEF Tailed, Arranges, Rest, Ready
    <3>2. Len(y.ws[e]) <= y.max
        BY <3>1
    <3>3. QED
        BY <2>2, <3>2 DEF OrderOk, Tailed, Once
  <2>8. y.active = <<>> /\ HandOk(y, e) /\ y.pt[e][p].frame # NULL
      BY <1>1, <1>3, <2>1, <2>2, <2>4 DEF Tailed, Arranges, Moves, Ready
  <2>9. QED
      BY <2>4, <2>6, <2>7, <2>8 DEF WorkingSetOk, Done
<1>4. QED
    BY <1>2, <1>3

\* The page p of e, which runs and is not out of step, is to be brought in.
Busy(x, e, p) ==
    /\ Base(x) /\ x.ok /\ x.status[e] = "live" /\ x.algo # "OPTIMAL" /\ WorkingSetOk(x, e)
    /\ p \notin WSPages(x, e) /\ (x.dpt[e][p] # NULL \/ MayBeNew(p))

\* With v gone from memory and from the working set there is a place for p.
LEMMA CutLemma ==
    ASSUME NEW x, NEW e \in Env, NEW p \in Page, Busy(x, e, p), NEW v \in WSPages(x, e),
           Evict(x, e, v).ok, NEW t, Less(x.ws[e], t, v)
    PROVE  LET z == [Evict(x, e, v) EXCEPT !.ws[e] = t]
           IN  Ready(z, e, p) /\ Moves(x, z, e, {p})
<1> DEFINE m == Evict(x, e, v)
           z == [m EXCEPT !.ws[e] = t]
<1>1. /\ x \in KType /\ x.ws[e] \in Seq(Element) /\ v \in Vas(x.ws[e])
      /\ Base(x) /\ x.ok /\ x.max \in Nat
    BY Fields DEF Busy, Base, WSPages, Vas
<1>2. v \in Page /\ x.pt[e][v].frame # NULL
    BY <1>1, IndexLemma DEF Busy, WorkingSetOk, Resident
<1>3. /\ Moves(x, m, e, {p}) /\ Rest(x, m) /\ m.ok
      /\ \A q \in Page : q # v => m.pt[e][q] = x.pt[e][q]
      /\ m.pt[e][v].frame = NULL /\ ~m.pt[e][v].present
    BY <1>1, <1>2, EvictLemma
<1> HIDE DEF m
<1>4. m \in KType /\ Base(m) /\ t \in Seq(Element)
    BY <1>3 DEF Moves, Base, Less
<1>5. Arranges(m, z, e) /\ z.ws[e] = t
    BY <1>4, SetWs
<1> HIDE DEF z
<1>6. Moves(m, z, e, {p}) /\ Base(z) /\ \A W : Resident(m, e, W) => Resident(z, e, W)
    BY <1>4, <1>5, ArrangesMoves
<1>7. Moves(x, z, e, {p})
    BY <1>3, <1>6, MovesTrans
<1>8. Resident(x, e, Vas(x.ws[e])) /\ Once(x.ws[e]) /\ Len(x.ws[e]) <= x.max
    BY DEF Busy, WorkingSetOk, OrderOk, Once, WSPages, Vas
<1>9. Resident(m, e, Vas(t))
    BY <1>3, <1>8 DEF Resident, Less
<1>10. Len(t) < x.max
    BY <1>1, <1>8 DEF Less
<1>11. p \notin Vas(t) /\ Once(t)
    BY DEF Less, Busy, WSPages, Vas
<1>12. /\ z.status = x.status /\ z.algo = x.algo /\ z.max = x.max
       /\ x.algo # "OPTIMAL" => z.active = x.active
       /\ x.dpt[e][p] # NULL => z.dpt[e][p] # NULL
    BY <1>3, <1>5, <1>7, <1>1 DEF Moves, Arranges
<1>13. Ready(z, e, p)
    BY <1>5, <1>6, <1>9, <1>10, <1>11, <1>12 DEF Ready, Busy, WorkingSetOk
<1>14. QED
    BY <1>7, <1>13 DEF z, m

LEMMA DoneAfter ==
    ASSUME NEW x, NEW y, NEW z, NEW e, NEW p, Moves(x, y, e, {p}), Done(y, z, e, p)
    PROVE  Done(x, z, e, p)
BY MovesTrans DEF Done

\* A victim of the working set gives its place to p.
LEMMA ReplaceLemma ==
    ASSUME NEW x, NEW e \in Env, NEW p \in Page, Busy(x, e, p), NEW v \in WSPages(x, e)
    PROVE  Done(x, Replace(x, e, p, v), e, p)
<1> DEFINE m == Evict(x, e, v)
           i == IndexOf(x.ws[e], v)
           t == SubSeq(x.ws[e], i + 1, Len(x.ws[e])) \o SubSeq(x.ws[e], 1, i - 1)
           z == [m EXCEPT !.ws[e] = t]
<1>1. /\ x \in KType /\ x.ws[e] \in Seq(Element) /\ v \in Vas(x.ws[e]) /\ Base(x) /\ x.ok
      /\ Once(x.ws[e])
    BY Fields DEF Busy, Base, WSPages, Vas, WorkingSetOk, OrderOk, Once
<1>2. v \in Page /\ x.pt[e][v].frame # NULL /\ i \in DOMAIN x.ws[e] /\ x.ws[e][i].va = v
    BY <1>1, IndexLemma DEF Busy, WorkingSetOk, Resident
<1>3. Moves(x, m, e, {p}) /\ m.ws = x.ws
  <2>1. Moves(x, m, e, {p}) /\ Rest(x, m)
      BY <1>1, <1>2, EvictLemma
  <2>2. QED
      BY <2>1 DEF Rest
<1>4. CASE ~m.ok
  <2>1. Replace(x, e, p, v) = m
      BY <1>4 DEF Replace, Succeed
  <2>2. QED
      BY <1>3, <1>4, <2>1 DEF Done
<1>5. CASE m.ok
  <2>1. Replace(x, e, p, v) = Placement(TurnTo(m, e, v), e, p)
      BY <1>5 DEF Replace, Succeed
  <2>2. TurnTo(m, e, v) = z
      BY <1>3 DEF TurnTo
  <2>3. Less(x.ws[e], t, v)
      BY <1>1, <1>2, TurnLess
  <2> HIDE DEF i, t
  <2>4. Ready(z, e, p) /\ Moves(x, z, e, {p})
      BY <1>5, <2>3, CutLemma
  <2> HIDE DEF z, m
  <2>5. Done(z, Placement(z, e, p), e, p)
      BY <2>4, PutLemma DEF Placement
  <2>6. QED
      BY <2>1, <2>2, <2>4, <2>5, DoneAfter
<1>6. QED
    BY <1>4, <1>5

-----------------------------------------------------------------------------
(* The policies.                                                           *)

\* From x to y only bits of entries of e change, those for modified excepted.
Bits(x, y, e) ==
    /\ y \in KType /\ Rest(x, y) /\ y.h = x.h /\ y.refs = x.refs /\ y.mem = x.mem
    /\ y.dmem = x.dmem /\ y.dpt = x.dpt /\ y.dir = x.dir /\ y.ok = x.ok
    /\ \A a \in Env \ {e} : y.pt[a] = x.pt[a]
    /\ \A q \in Page : /\ y.pt[e][q].frame = x.pt[e][q].frame
                       /\ y.pt[e][q].modified = x.pt[e][q].modified
                       /\ y.pt[e][q].uhpage = x.pt[e][q].uhpage
                       /\ y.pt[e][q].present => x.pt[e][q].frame # NULL

LEMMA BitsMoves ==
    ASSUME NEW x, Base(x), NEW e \in Env, NEW y, Bits(x, y, e), NEW P
    PROVE  Moves(x, y, e, P) /\ Base(y)
<1>1. \A a \in Env, q \in Page : /\ y.pt[a][q].frame = x.pt[a][q].frame
                                 /\ y.pt[a][q].modified = x.pt[a][q].modified
                                 /\ y.pt[a][q].uhpage = x.pt[a][q].uhpage
                                 /\ y.pt[a][q].present => x.pt[a][q].frame # NULL
    BY DEF Bits, Base, Tables
<1>2. Marks(x, y)
    BY <1>1 DEF Marks, Bits, Base, Tables
<1>3. Base(y)
    BY <1>2, StoreBits
<1>4. Keeps(x, y)
    BY <1>1 DEF Keeps, Holds, Bits
<1>5. QED
    BY <1>3, <1>4 DEF Moves, Bits, Rest, Only

LEMMA SetPt ==
    ASSUME NEW x \in KType, NEW e \in Env, NEW G \in [Page -> Entry],
           \A q \in Page : /\ G[q].frame = x.pt[e][q].frame
                           /\ G[q].modified = x.pt[e][q].modified
                           /\ G[q].uhpage = x.pt[e][q].uhpage
                           /\ G[q].present => x.pt[e][q].frame # NULL
    PROVE  LET y == [x EXCEPT !.pt[e] = G]
           IN  Bits(x, y, e) /\ y.pt[e] = G
<1> DEFINE W == [x.pt EXCEPT ![e] = G]
           y == [x EXCEPT !.pt = W]
<1>1. x.pt \in [Env -> [Page -> Entry]]
    BY Fields
<1>2. W \in [Env -> [Page -> Entry]] /\ W[e] = G /\ \A a \in Env \ {e} : W[a] = x.pt[a]
    BY <1>1
<1> HIDE DEF W
<1>3. /\ y \in KType /\ Rest(x, y) /\ y.h = x.h /\ y.refs = x.refs /\ y.mem = x.mem
      /\ y.dmem = x.dmem /\ y.dpt = x.dpt /\ y.dir = x.dir /\ y.ok = x.ok /\ y.pt = W
    BY <1>2, ZenonT(30) DEF KType, Rest
<1> HIDE DEF y
<1>4. Bits(x, y, e) /\ y.pt[e] = G
    BY <1>2, <1>3 DEF Bits
<1>5. QED
    BY <1>4 DEF y, W

LEMMA ClearLemma ==
    ASSUME NEW x, Base(x), NEW e \in Env, NEW S
    PROVE  LET y == ClearUsed(x, e, S)
           IN  /\ Bits(x, y, e)
               /\ \A q \in Page : y.pt[e][q].present = x.pt[e][q].present
<1> DEFINE G == [q \in Page |-> IF q \in S THEN [x.pt[e][q] EXCEPT !.used = FALSE]
                                ELSE x.pt[e][q]]
<1>1. x \in KType /\ Tables(x)
    BY DEF Base
<1>2. \A q \in Page : /\ G[q] \in Entry /\ G[q].frame = x.pt[e][q].frame
                      /\ G[q].modified = x.pt[e][q].modified
                      /\ G[q].uhpage = x.pt[e][q].uhpage
                      /\ G[q].present = x.pt[e][q].present
  <2> SUFFICES ASSUME NEW q \in Page
               PROVE  /\ G[q] \in Entry /\ G[q].frame = x.pt[e][q].frame
                      /\ G[q].modified = x.pt[e][q].modified
                      /\ G[q].uhpage = x.pt[e][q].uhpage
                      /\ G[q].present = x.pt[e][q].present
      OBVIOUS
  <2>1. x.pt[e][q] \in Entry
      BY <1>1, EntryFields
  <2>2. G[q] = IF q \in S THEN [x.pt[e][q] EXCEPT !.used = FALSE] ELSE x.pt[e][q]
      OBVIOUS
  <2> HIDE DEF G
  <2>3. LET u == [x.pt[e][q] EXCEPT !.used = FALSE]
        IN  /\ u \in Entry /\ u.frame = x.pt[e][q].frame /\ u.present = x.pt[e][q].present
            /\ u.uhpage = x.pt[e][q].uhpage /\ u.modified = x.pt[e][q].modified
      BY <2>1, EntryBits
  <2>4. QED
      BY <2>1, <2>2, <2>3
<1>3. G \in [Page -> Entry]
    BY <1>2
<1>4. ClearUsed(x, e, S) = [x EXCEPT !.pt[e] = G]
    BY DEF ClearUsed
<1>5. \A q \in Page : G[q].present => x.pt[e][q].frame # NULL
    BY <1>1, <1>2 DEF Tables
<1> HIDE DEF G
<1>6. QED
    BY <1>1, <1>2, <1>3, <1>4, <1>5, SetPt

\* The hand meets every page of the working set.
LEMMA FromHandLemma ==
    ASSUME NEW x \in KType, NEW e \in Env, ~HandLost(x, e)
    PROVE  LET s == FromHand(x, e)
           IN  /\ DOMAIN s = 1 .. Len(x.ws[e]) /\ 1 \in DOMAIN s
               /\ \A n \in DOMAIN s : s[n] \in WSPages(x, e)
               /\ \A v \in WSPages(x, e) : \E n \in DOMAIN s : s[n] = v
<1> DEFINE w == x.ws[e]
           i == IndexOf(w, x.hand[e])
           s == FromHand(x, e)
           l == Len(w)
<1>1. w \in Seq(Element) /\ l \in Nat /\ DOMAIN w = 1 .. l
    BY Fields
<1>2. i \in 1 .. l
    BY <1>1, IndexLemma DEF HandLost, WSPages, Vas
<1>3. DOMAIN s = 1 .. l /\ \A n \in 1 .. l : s[n] = w[((i + n - 2) % l) + 1].va
    BY DEF FromHand
<1> HIDE DEF w, i, s, l
<1>4. 1 \in DOMAIN s
    BY <1>1, <1>2, <1>3
<1>5. ASSUME NEW n \in 1 .. l PROVE s[n] \in {w[j].va : j \in DOMAIN w}
  <2>1. (i + n - 2) % l \in 0 .. l - 1
      BY <1>1, <1>2
  <2>2. ((i + n - 2) % l) + 1 \in DOMAIN w
      BY <1>1, <2>1
  <2>3. QED
      BY <1>3, <2>2
<1>6. ASSUME NEW j \in 1 .. l PROVE \E n \in 1 .. l : s[n] = w[j].va
  <2>1. CASE j >= i
    <3>1. j - i + 1 \in 1 .. l /\ i + (j - i + 1) - 2 = j - 1 /\ j - 1 \in 0 .. l - 1
        BY <1>1, <1>2, <2>1
    <3>2. (j - 1) % l = j - 1
        BY <1>1, <3>1
    <3>3. s[j - i + 1] = w[(j - 1) + 1].va
        BY <1>3, <3>1, <3>2
    <3>4. QED
        BY <3>1, <3>3
  <2>2. CASE j < i
    <3>1. /\ j - i + 1 + l \in 1 .. l /\ i + (j - i + 1 + l) - 2 = (j - 1) + l
          /\ j - 1 \in 0 .. l - 1
        BY <1>1, <1>2, <2>2
    <3>2. ((j - 1) + l) % l = j - 1
        BY <1>1, <1>2, <3>1
    <3>3. s[j - i + 1 + l] = w[(j - 1) + 1].va
        BY <1>3, <3>1, <3>2
    <3>4. QED
        BY <3>1, <3>3
  <2>3. QED
      BY <1>1, <1>2, <2>1, <2>2
<1>7. WSPages(x, e) = {w[j].va : j \in DOMAIN w}
    BY DEF WSPages, w
<1>8. ASSUME NEW v \in WSPages(x, e) PROVE \E n \in DOMAIN s : s[n] = v
  <2>1. PICK j \in 1 .. l : w[j].va = v
      BY <1>1, <1>7, <1>8
  <2>2. PICK n \in 1 .. l : s[n] = w[j].va
      BY <1>6
  <2>3. QED
      BY <1>3, <2>1, <2>2
<1>9. QED
    BY <1>3, <1>4, <1>5, <1>7, <1>8 DEF s, w, l

LEMMA FirstInLemma ==
    ASSUME NEW s, NEW l \in Nat, DOMAIN s = 1 .. l, NEW S, \E n \in DOMAIN s : s[n] \in S
    PROVE  FirstIn(s, S) \in S
<1> DEFINE T == {n \in DOMAIN s : s[n] \in S}
<1>1. PICK n \in T : \A j \in T : n <= j
  <2>1. T \subseteq Nat /\ T # {}
      OBVIOUS
  <2> HIDE DEF T
  <2>2. QED
      BY <2>1, LeastNatural
<1>2. n \in DOMAIN s /\ s[n] \in S /\ \A j \in 1 .. n - 1 : s[j] \notin S
    BY <1>1
<1>3. QED
    BY <1>2 DEF FirstIn

LEMMA PanicDone ==
    ASSUME NEW x, Base(x), NEW e, NEW p
    PROVE  Done(x, Panic(x), e, p)
BY PanicMoves DEF Done

\* Clearing bits for used changes nothing of that.
LEMMA ClearedBusy ==
    ASSUME NEW x, NEW e \in Env, NEW p \in Page, Busy(x, e, p), NEW S
    PROVE  LET c == ClearUsed(x, e, S)
           IN  /\ Busy(c, e, p) /\ Moves(x, c, e, {p}) /\ WSPages(c, e) = WSPages(x, e)
               /\ \A q \in Page : c.pt[e][q].frame = x.pt[e][q].frame
<1> DEFINE c == ClearUsed(x, e, S)
<1>1. /\ Bits(x, c, e) /\ \A q \in Page : c.pt[e][q].present = x.pt[e][q].present
    BY ClearLemma DEF Busy
<1> HIDE DEF c
<1>2. Moves(x, c, e, {p}) /\ Base(c)
    BY <1>1, BitsMoves DEF Busy
<1>3. WSPages(c, e) = WSPages(x, e)
    BY <1>1 DEF Bits, Rest, WSPages
<1>4. Resident(c, e, WSPages(x, e))
    BY <1>1 DEF Bits, Resident, Busy, WorkingSetOk
<1>5. OrderOk(c, e) /\ HandOk(c, e)
    BY <1>1, <1>3 DEF Bits, Rest, Busy, WorkingSetOk, OrderOk, HandOk, Full, HandLost
<1>6. Busy(c, e, p)
    BY <1>1, <1>2, <1>3, <1>4, <1>5 DEF Busy, WorkingSetOk, Bits, Rest
<1>7. QED
    BY <1>1, <1>2, <1>3, <1>6 DEF Bits, c

LEMMA ClearedReplace ==
    ASSUME NEW x, NEW e \in Env, NEW p \in Page, Busy(x, e, p), NEW v \in WSPages(x, e), NEW S
    PROVE  Done(x, Replace(ClearUsed(x, e, S), e, p, v), e, p)
<1> DEFINE c == ClearUsed(x, e, S)
<1>1. Busy(c, e, p) /\ Moves(x, c, e, {p}) /\ WSPages(c, e) = WSPages(x, e)
    BY ClearedBusy
<1> HIDE DEF c
<1>2. Done(c, Replace(c, e, p, v), e, p)
    BY <1>1, ReplaceLemma
<1>3. QED
    BY <1>1, <1>2, DoneAfter DEF c

LEMMA ClockLemma ==
    ASSUME NEW x, NEW e \in Env, NEW p \in Page, Busy(x, e, p)
    PROVE  Done(x, replacement_CLOCK(x, e, p), e, p)
<1> DEFINE s == FromHand(x, e)
           unused == {q \in WSPages(x, e) : ~x.pt[e][q].used}
           v == IF unused = {} THEN s[1] ELSE FirstIn(s, unused)
           passed == IF unused = {} THEN WSPages(x, e) ELSE Before(s, v)
<1>1. CASE HandLost(x, e)
    BY <1>1, PanicDone DEF replacement_CLOCK, Busy
<1>2. CASE ~HandLost(x, e)
  <2>1. /\ DOMAIN s = 1 .. Len(x.ws[e]) /\ 1 \in DOMAIN s /\ Len(x.ws[e]) \in Nat
        /\ \A n \in DOMAIN s : s[n] \in WSPages(x, e)
        /\ \A q \in WSPages(x, e) : \E n \in DOMAIN s : s[n] = q
    <3>1. x \in KType /\ x.ws[e] \in Seq(Element)
        BY Fields DEF Busy, Base
    <3>2. QED
        BY <1>2, <3>1, FromHandLemma
  <2>2. unused # {} => \E n \in DOMAIN s : s[n] \in unused
      BY <2>1
  <2>3. replacement_CLOCK(x, e, p) = Replace(ClearUsed(x, e, passed), e, p, v)
      BY <1>2 DEF replacement_CLOCK
  <2> HIDE DEF s
  <2>4. v \in WSPages(x, e)
    <3>1. CASE unused = {}
        BY <2>1, <3>1
    <3>2. CASE unused # {}
      <4> HIDE DEF unused
      <4>1. FirstIn(s, unused) \in unused
          BY <2>1, <2>2, <3>2, FirstInLemma
      <4>2. QED
          BY <3>2, <4>1 DEF unused
    <3>3. QED
        BY <3>1, <3>2
  <2> HIDE DEF v, passed
  <2>5. QED
      BY <2>3, <2>4, ClearedReplace
<1>3. QED
    BY <1>1, <1>2

LEMMA ModifiedClockLemma ==
    ASSUME NEW x, NEW e \in Env, NEW p \in Page, Busy(x, e, p)
    PROVE  Done(x, replacement_ModifiedCLOCK(x, e, p), e, p)
<1> DEFINE s == FromHand(x, e)
           unused == {q \in WSPages(x, e) : ~x.pt[e][q].used}
           clean == {q \in WSPages(x, e) : ~x.pt[e][q].modified}
           v == CASE unused \intersect clean # {} -> FirstIn(s, unused \intersect clean)
                  [] unused # {} /\ unused \intersect clean = {} -> FirstIn(s, unused)
                  [] unused = {} /\ clean # {} -> FirstIn(s, clean)
                  [] OTHER -> s[1]
           passed == CASE unused \intersect clean # {} -> {}
                       [] unused # {} /\ unused \intersect clean = {} -> Before(s, v)
                       [] OTHER -> WSPages(x, e)
<1>1. CASE HandLost(x, e)
    BY <1>1, PanicDone DEF replacement_ModifiedCLOCK, Busy
<1>2. CASE ~HandLost(x, e)
  <2>1. /\ DOMAIN s = 1 .. Len(x.ws[e]) /\ 1 \in DOMAIN s /\ Len(x.ws[e]) \in Nat
        /\ \A n \in DOMAIN s : s[n] \in WSPages(x, e)
        /\ \A q \in WSPages(x, e) : \E n \in DOMAIN s : s[n] = q
    <3>1. x \in KType /\ x.ws[e] \in Seq(Element)
        BY Fields DEF Busy, Base
    <3>2. QED
        BY <1>2, <3>1, FromHandLemma
  <2>2. replacement_ModifiedCLOCK(x, e, p) = Replace(ClearUsed(x, e, passed), e, p, v)
      BY <1>2 DEF replacement_ModifiedCLOCK
  <2> HIDE DEF s
  <2>3. ASSUME NEW S \in SUBSET WSPages(x, e), S # {} PROVE FirstIn(s, S) \in WSPages(x, e)
    <3>1. \E n \in DOMAIN s : s[n] \in S
        BY <2>1, <2>3
    <3>2. FirstIn(s, S) \in S
        BY <2>1, <3>1, FirstInLemma
    <3>3. QED
        BY <3>2
  <2>4. unused \in SUBSET WSPages(x, e) /\ clean \in SUBSET WSPages(x, e)
      OBVIOUS
  <2> HIDE DEF unused, clean
  <2>5. v \in WSPages(x, e)
    <3>1. CASE unused \intersect clean # {}
        BY <2>3, <2>4, <3>1
    <3>2. CASE unused # {} /\ unused \intersect clean = {}
        BY <2>3, <2>4, <3>2
    <3>3. CASE unused = {} /\ clean # {}
        BY <2>3, <2>4, <3>3
    <3>4. CASE unused = {} /\ clean = {}
        BY <2>1, <3>4
    <3>5. QED
        BY <3>1, <3>2, <3>3, <3>4
  <2> HIDE DEF v, passed
  <2>6. QED
      BY <2>2, <2>5, ClearedReplace
<1>3. QED
    BY <1>1, <1>2

LEMMA LRULemma ==
    ASSUME NEW x, NEW e \in Env, NEW p \in Page, Busy(x, e, p), x.algo = "LRU"
    PROVE  Done(x, replacement_LRU(x, e, p), e, p)
<1> DEFINE w == x.ws[e]
           old == Oldest(w)
           i == CHOOSE i \in old : \A j \in old : i <= j
           v == w[i].va
           m == Evict(x, e, v)
           z == [m EXCEPT !.ws[e] = RemoveAt(w, i)]
<1>1. CASE old = {}
    BY <1>1, PanicDone DEF replacement_LRU, Busy
<1>2. CASE old # {}
  <2>1. w \in Seq(Element) /\ Once(w) /\ Base(x) /\ x.ok
      BY Fields DEF Busy, Base, WorkingSetOk, OrderOk, Once
  <2>2. i \in DOMAIN w
    <3>1. old \subseteq DOMAIN w /\ DOMAIN w \subseteq Nat
        BY <2>1 DEF Oldest
    <3> HIDE DEF old
    <3>2. \E j \in old : \A n \in old : j <= n
        BY <1>2, <3>1, LeastNatural
    <3>3. QED
        BY <3>1, <3>2
  <2>3. replacement_LRU(x, e, p) = SucceedAt(m, e, p, i)
      BY <1>2 DEF replacement_LRU
  <2> HIDE DEF i
  <2>4. v \in WSPages(x, e) /\ Less(w, RemoveAt(w, i), v)
      BY <2>1, <2>2, RemoveLess, SMTT(30) DEF WSPages
  <2>5. v \in Page /\ x.pt[e][v].frame # NULL
      BY <2>1, <2>4, IndexLemma DEF Busy, WorkingSetOk, Resident, Vas, WSPages
  <2> HIDE DEF v
  <2>6. Moves(x, m, e, {p}) /\ m.ws = x.ws /\ m.algo = x.algo
    <3>1. Moves(x, m, e, {p}) /\ Rest(x, m)
        BY <2>1, <2>5, EvictLemma
    <3>2. QED
        BY <3>1 DEF Rest
  <2>7. CASE ~m.ok
    <3>1. SucceedAt(m, e, p, i) = m
        BY <2>7 DEF SucceedAt
    <3> HIDE DEF m
    <3>2. QED
        BY <2>3, <2>6, <2>7, <3>1 DEF Done
  <2>8. CASE m.ok
    <3>1. SucceedAt(m, e, p, i) = Insert(Bring(z, e, p, TRUE), e, p)
        BY <2>6, <2>8 DEF SucceedAt
    <3>2. Ready(z, e, p) /\ Moves(x, z, e, {p})
        BY <2>4, <2>8, CutLemma
    <3> HIDE DEF z, m
    <3>3. z.algo = "LRU"
        BY <3>2 DEF Moves
    <3>4. Done(z, Insert(Bring(z, e, p, TRUE), e, p), e, p)
        BY <3>2, <3>3, PutLemma
    <3>5. QED
        BY <2>3, <3>1, <3>2, <3>4, DoneAfter
  <2>9. QED
      BY <2>7, <2>8
<1>3. QED
    BY <1>1, <1>2

\* Under every policy but OPTIMAL the handler brings the page in.
LEMMA HandlerLemma ==
    ASSUME NEW x, NEW e \in Env, NEW p \in Page, Busy(x, e, p)
    PROVE  Done(x, page_fault_handler(x, e, p), e, p)
<1>1. /\ x \in KType /\ x.ws[e] \in Seq(Element) /\ Len(x.ws[e]) \in Nat
      /\ x.max \in Nat /\ x.algo \in Algos \ {"OPTIMAL"} /\ x.active = <<>>
    BY Fields DEF Busy, Base, WorkingSetOk
<1>2. CASE Len(x.ws[e]) < x.max
  <2>1. page_fault_handler(x, e, p) = Placement(x, e, p)
      BY <1>1, <1>2 DEF page_fault_handler, Algos
  <2>2. Ready(x, e, p)
      BY <1>1, <1>2 DEF Busy, Ready, WorkingSetOk, OrderOk, Once, WSPages, Vas
  <2>3. QED
      BY <2>1, <2>2, PutLemma DEF Placement
<1>3. CASE Len(x.ws[e]) >= x.max /\ x.algo = "LRU"
  <2>1. page_fault_handler(x, e, p) = replacement_LRU(x, e, p)
      BY <1>1, <1>3 DEF page_fault_handler, Algos
  <2>2. QED
      BY <1>3, <2>1, LRULemma
<1>4. CASE Len(x.ws[e]) >= x.max /\ x.algo \in {"CLOCK", "ModifiedCLOCK"}
  <2>1. ~is_page_in_ws(x, p)
      BY <1>1 DEF is_page_in_ws
  <2>2. page_fault_handler(x, e, p) = IF x.algo = "CLOCK" THEN replacement_CLOCK(x, e, p)
                                      ELSE replacement_ModifiedCLOCK(x, e, p)
      BY <1>1, <1>4, <2>1 DEF page_fault_handler, Algos
  <2>3. QED
      BY <2>2, ClockLemma, ModifiedClockLemma
<1>5. QED
    BY <1>1, <1>2, <1>3, <1>4 DEF Algos

-----------------------------------------------------------------------------
(* OPTIMAL, which leaves every page it brings in in memory.                *)

\* A change of one entry.
LEMMA SetEntry ==
    ASSUME NEW x \in KType, NEW e \in Env, NEW p \in Page, NEW t \in Entry,
           t.frame = x.pt[e][p].frame, t.modified = x.pt[e][p].modified,
           t.uhpage = x.pt[e][p].uhpage, t.present => x.pt[e][p].frame # NULL, Tables(x)
    PROVE  LET y == [x EXCEPT !.pt[e][p] = t]
           IN  Bits(x, y, e) /\ \A q \in Page : y.pt[e][q] = IF q = p THEN t ELSE x.pt[e][q]
<1> DEFINE G == [x.pt[e] EXCEPT ![p] = t]
<1>1. x.pt[e] \in [Page -> Entry]
    BY Fields
<1>2. G \in [Page -> Entry] /\ \A q \in Page : G[q] = IF q = p THEN t ELSE x.pt[e][q]
    BY <1>1
<1>3. [x EXCEPT !.pt[e][p] = t] = [x EXCEPT !.pt[e] = G]
    OBVIOUS
<1> HIDE DEF G
<1>4. \A q \in Page : /\ G[q].frame = x.pt[e][q].frame
                      /\ G[q].modified = x.pt[e][q].modified
                      /\ G[q].uhpage = x.pt[e][q].uhpage
                      /\ G[q].present => x.pt[e][q].frame # NULL
    BY <1>2 DEF Tables
<1>5. LET y == [x EXCEPT !.pt[e] = G] IN Bits(x, y, e) /\ y.pt[e] = G
    BY <1>2, <1>4, SetPt
<1>6. QED
    BY <1>2, <1>3, <1>5

LEMMA OptimalInit ==
    ASSUME NEW x, Base(x), NEW e \in Env, x.algo = "OPTIMAL"
    PROVE  Arranges(x, optimal_init(x, e), e)
<1> DEFINE a == [i \in DOMAIN x.ws[e] |-> env_page_ws_list_create_element(x.ws[e][i].va)]
<1>1. x \in KType /\ x.ws[e] \in Seq(Element)
    BY Fields DEF Base
<1>2. CASE x.optimal_initialized
    BY <1>1, <1>2 DEF optimal_init, Arranges
<1>3. CASE ~x.optimal_initialized
  <2>1. a \in Seq(Element)
    <3>1. ASSUME NEW i \in DOMAIN x.ws[e]
          PROVE  env_page_ws_list_create_element(x.ws[e][i].va) \in Element
      <4>1. x.ws[e][i] \in Element
          BY <1>1
      <4>2. QED
          BY <4>1 DEF Element, env_page_ws_list_create_element
    <3>2. Len(x.ws[e]) \in Nat /\ DOMAIN x.ws[e] = 1 .. Len(x.ws[e])
        BY <1>1
    <3>3. a \in [1 .. Len(x.ws[e]) -> Element]
        BY <3>1, <3>2
    <3>4. QED
        BY <3>2, <3>3, SeqDef
  <2>2. optimal_init(x, e) = [x EXCEPT !.optimal_initialized = TRUE, !.active = a]
      BY <1>3 DEF optimal_init
  <2> HIDE DEF a
  <2> DEFINE y == [x EXCEPT !.optimal_initialized = TRUE, !.active = a]
  <2>3. /\ y.h = x.h /\ y.refs = x.refs /\ y.mem = x.mem /\ y.dmem = x.dmem
        /\ y.dir = x.dir /\ y.pt = x.pt /\ y.dpt = x.dpt /\ y.ok = x.ok /\ y.algo = x.algo
        /\ y.max = x.max /\ y.status = x.status /\ y.ws = x.ws /\ y.hand = x.hand
      BY <1>1 DEF KType
  <2>4. y \in KType
      BY <1>1, <2>1 DEF KType
  <2> HIDE DEF y
  <2>5. Arranges(x, y, e)
      BY <2>3, <2>4, x.algo = "OPTIMAL" DEF Arranges
  <2>6. QED
      BY <2>2, <2>5 DEF y
<1>4. QED
    BY <1>2, <1>3

LEMMA OptimalPresent ==
    ASSUME NEW x, Base(x), NEW e \in Env, NEW p \in Page
    PROVE  LET y == optimal_present(x, e, p)
           IN  Moves(x, y, e, {p}) /\ (y.ok => y.pt[e][p].frame # NULL)
<1> DEFINE f == FreeFrame(x)
           t == [x.pt[e][p] EXCEPT !.present = TRUE]
           m == map_frame(allocate_frame(x), e, f, p, FALSE)
           y == optimal_present(x, e, p)
<1>1. /\ x \in KType /\ Tables(x) /\ get_frame_info(x, e, p) = x.pt[e][p].frame
      /\ x.pt[e][p].frame # NULL => get_page_table(x, e, p)
    BY DEF Base, Tables, get_frame_info, get_page_table
<1>2. CASE x.pt[e][p].frame # NULL
  <2>1. y = [x EXCEPT !.pt[e][p] = t]
      BY <1>1, <1>2, SMTT(30) DEF optimal_present, pt_set_page_permissions
  <2>2. /\ t \in Entry /\ t.frame = x.pt[e][p].frame /\ t.modified = x.pt[e][p].modified
        /\ t.uhpage = x.pt[e][p].uhpage
      BY <1>1, EntryFields, EntryBits
  <2> HIDE DEF t, y
  <2>3. Bits(x, y, e) /\ y.pt[e][p] = t
      BY <1>1, <1>2, <2>1, <2>2, SetEntry
  <2>4. Moves(x, y, e, {p})
      BY <2>3, BitsMoves
  <2>5. QED
      BY <1>2, <2>2, <2>3, <2>4 DEF y
<1>3. CASE x.pt[e][p].frame = NULL /\ f = NULL
  <2>1. y = Panic(x)
      BY <1>1, <1>3 DEF optimal_present, allocate_frame
  <2>2. QED
      BY <2>1, PanicMoves
<1>4. CASE x.pt[e][p].frame = NULL /\ f # NULL
  <2>1. Placed(x, m, e, p, f, x.pt[e][p].uhpage)
      BY <1>4, MapLemma
  <2>2. y = pf_read_env_page(m, e, p)
      BY <1>1, <1>4 DEF optimal_present
  <2> HIDE DEF m, f
  <2>3. LET z == pf_read_env_page(m, e, p)
        IN  Moves(x, z, e, {p}) /\ z.pt[e][p].frame # NULL
      BY <1>4, <2>1, PlacedRead
  <2>4. QED
      BY <2>2, <2>3
<1>5. QED
    BY <1>2, <1>3, <1>4

LEMMA OptimalRecord ==
    ASSUME NEW x, Base(x), NEW e \in Env, NEW p \in Page, x.algo = "OPTIMAL"
    PROVE  LET y == optimal_record(x, e, p)
           IN  Moves(x, y, e, {p}) /\ (y.ok => y.pt[e][p].frame = x.pt[e][p].frame)
<1> DEFINE reset == Len(x.active) = x.max
           gone == {x.active[i].va : i \in DOMAIN x.active}
           a == Append(IF reset THEN <<>> ELSE x.active, env_page_ws_list_create_element(p))
           s == [x.stream EXCEPT ![e] = Append(@, p)]
           m == [x EXCEPT !.active = a, !.stream = s]
           G == [q \in Page |-> IF reset /\ q \in gone THEN [x.pt[e][q] EXCEPT !.present = FALSE]
                                ELSE x.pt[e][q]]
           y == optimal_record(x, e, p)
<1>1. /\ x \in KType /\ Tables(x) /\ x.active \in Seq(Element) /\ x.stream \in [Env -> Seq(Page)]
    BY Fields DEF Base
<1>2. CASE is_page_in_ws(x, p) \/ ~x.ok
  <2>1. y = x
      BY <1>2 DEF optimal_record
  <2>2. Arranges(x, x, e)
      BY <1>1 DEF Arranges
  <2>3. QED
      BY <2>1, <2>2, ArrangesMoves
<1>3. CASE ~(is_page_in_ws(x, p) \/ ~x.ok)
  <2>1. a \in Seq(Element)
    <3>1. env_page_ws_list_create_element(p) \in Element
        BY DEF env_page_ws_list_create_element, Element
    <3>2. QED
        BY <1>1, <3>1
  <2>2. s \in [Env -> Seq(Page)]
      BY <1>1
  <2>3. y = [m EXCEPT !.pt[e] = G]
      BY <1>1, <1>3, ZenonT(30) DEF optimal_record, KType
  <2> HIDE DEF a, s, reset, gone
  <2>4. Arranges(x, m, e)
      BY <1>1, <2>1, <2>2, ZenonT(30) DEF Arranges, KType
  <2>5. m \in KType /\ m.pt = x.pt /\ Base(m) /\ Moves(x, m, e, {p})
      BY <2>4, ArrangesMoves DEF Arranges
  <2>6. \A q \in Page : /\ G[q] \in Entry /\ G[q].frame = x.pt[e][q].frame
                        /\ G[q].modified = x.pt[e][q].modified
                        /\ G[q].uhpage = x.pt[e][q].uhpage
                        /\ G[q].present => x.pt[e][q].frame # NULL
    <3> SUFFICES ASSUME NEW q \in Page
                 PROVE  /\ G[q] \in Entry /\ G[q].frame = x.pt[e][q].frame
                        /\ G[q].modified = x.pt[e][q].modified
                        /\ G[q].uhpage = x.pt[e][q].uhpage
                        /\ G[q].present => x.pt[e][q].frame # NULL
        OBVIOUS
    <3>1. x.pt[e][q] \in Entry /\ (x.pt[e][q].present => x.pt[e][q].frame # NULL)
        BY <1>1, EntryFields DEF Tables
    <3>2. G[q] = x.pt[e][q] \/ G[q] = [x.pt[e][q] EXCEPT !.present = FALSE]
        OBVIOUS
    <3> HIDE DEF G
    <3>3. LET u == [x.pt[e][q] EXCEPT !.present = FALSE]
          IN  /\ u \in Entry /\ u.frame = x.pt[e][q].frame /\ u.present = FALSE
              /\ u.uhpage = x.pt[e][q].uhpage /\ u.modified = x.pt[e][q].modified
        BY <3>1, EntryBits
    <3>4. QED
        BY <3>1, <3>2, <3>3
  <2>7. G \in [Page -> Entry]
      BY <2>6
  <2> HIDE DEF G, m
  <2>8. Bits(m, y, e) /\ y.pt[e] = G
      BY <2>3, <2>5, <2>6, <2>7, SetPt, SMTT(30)
  <2>9. Moves(m, y, e, {p})
      BY <2>5, <2>8, BitsMoves
  <2>10. QED
      BY <2>5, <2>6, <2>8, <2>9, MovesTrans
<1>4. QED
    BY <1>2, <1>3

LEMMA OptimalLemma ==
    ASSUME NEW x, Base(x), NEW e \in Env, NEW p \in Page, x.algo = "OPTIMAL"
    PROVE  Done(x, page_fault_handler(x, e, p), e, p)
<1> DEFINE m == optimal_init(x, e)
           n == optimal_present(m, e, p)
           y == optimal_record(n, e, p)
<1>1. page_fault_handler(x, e, p) = y
    BY DEF page_fault_handler, page_fault_handler_OPTIMAL
<1>2. Moves(x, m, e, {p}) /\ Base(m)
    BY OptimalInit, ArrangesMoves
<1> HIDE DEF m
<1>3. Moves(m, n, e, {p}) /\ (n.ok => n.pt[e][p].frame # NULL)
    BY <1>2, OptimalPresent
<1> HIDE DEF n
<1>4. Base(n) /\ n.algo = "OPTIMAL"
    BY <1>2, <1>3 DEF Moves
<1>5. Moves(n, y, e, {p}) /\ (y.ok => y.pt[e][p].frame = n.pt[e][p].frame)
    BY <1>4, OptimalRecord
<1> HIDE DEF y
<1>6. Moves(x, n, e, {p})
    BY <1>2, <1>3, MovesTrans
<1>7. Moves(x, y, e, {p})
    BY <1>5, <1>6, MovesTrans
<1>8. y.algo = "OPTIMAL" /\ (y.ok => n.ok)
    BY <1>5, <1>7 DEF Moves
<1>9. QED
    BY <1>1, <1>3, <1>5, <1>7, <1>8 DEF Done, WorkingSetOk

-----------------------------------------------------------------------------
(* Page faults.                                                            *)

\* From x to y nothing changes that decides how a fault at a page of e goes.
Alike(x, y, e) ==
    /\ Base(y) /\ \A P : Moves(x, y, e, P)
    /\ y.ok = x.ok /\ y.dpt = x.dpt /\ y.dir = x.dir /\ y.mem = x.mem /\ y.dmem = x.dmem
    /\ \A q \in Page : /\ y.pt[e][q].frame = x.pt[e][q].frame
                       /\ y.pt[e][q].present = x.pt[e][q].present
                       /\ y.pt[e][q].uhpage = x.pt[e][q].uhpage
                       /\ y.pt[e][q].modified = x.pt[e][q].modified
    /\ WSPages(y, e) = WSPages(x, e) /\ (OrderOk(x, e) => OrderOk(y, e))
    /\ Full(y, e) = Full(x, e) /\ y.hand = x.hand

LEMMA AlikeOk ==
    ASSUME NEW x, NEW y, NEW e, Alike(x, y, e), WorkingSetOk(x, e)
    PROVE  WorkingSetOk(y, e)
<1>1. Moves(x, y, e, {})
    BY DEF Alike
<1>2. QED
    BY <1>1 DEF Alike, Moves, WorkingSetOk, Resident, HandOk, HandLost

\* The stamps of the working set are shifted, and what was used is no more so.
LEMMA AgeLemma ==
    ASSUME NEW x, Base(x), NEW e \in Env
    PROVE  Alike(x, update_WS_time_stamps(x, e), e)
<1> DEFINE w == x.ws[e]
           u(i) == Shifted(w[i], x.pt[e][w[i].va].used)
           t == [i \in DOMAIN w |-> u(i)]
           m == [x EXCEPT !.ws[e] = t]
           G == [p \in Page |-> IF p \in WSPages(x, e) THEN [x.pt[e][p] EXCEPT !.used = FALSE]
                                ELSE x.pt[e][p]]
           y == update_WS_time_stamps(x, e)
<1>1. /\ x \in KType /\ Tables(x) /\ w \in Seq(Element) /\ Len(w) \in Nat
      /\ DOMAIN w = 1 .. Len(w)
    BY Fields DEF Base
<1>2. y = [m EXCEPT !.pt[e] = G]
  <2>1. y = [x EXCEPT !.ws[e] = t, !.pt[e] = G]
      BY <1>1 DEF update_WS_time_stamps, KType
  <2> HIDE DEF t, G, y
  <2>2. QED
      BY <1>1, <2>1 DEF KType
<1>3. ASSUME NEW i \in DOMAIN w PROVE u(i) \in Element /\ u(i).va = w[i].va
  <2> DEFINE b == IF x.pt[e][w[i].va].used THEN TopBit ELSE 0
  <2>1. w[i] \in Element /\ w[i].stamp \in Nat
    <3>1. w[i] \in Element
        BY <1>1
    <3>2. QED
        BY <3>1 DEF Element
  <2>2. b \in Nat
      BY WorkingSetAssumption
  <2>3. u(i) = [w[i] EXCEPT !.stamp = (w[i].stamp \div 2) + b]
      BY <2>1 DEF Element, Shifted
  <2> HIDE DEF b, u
  <2>4. (w[i].stamp \div 2) + b \in Nat
      BY <2>1, <2>2
  <2>5. QED
      BY <2>1, <2>3, <2>4 DEF Element
<1>4. /\ t \in Seq(Element) /\ Len(t) = Len(w) /\ DOMAIN t = DOMAIN w
      /\ \A i \in DOMAIN w : t[i].va = w[i].va
  <2>1. t \in [1 .. Len(w) -> Element]
      BY <1>1, <1>3, SMTT(30)
  <2>2. t \in Seq(Element)
      BY <1>1, <2>1, SeqDef, SMTT(30)
  <2>3. DOMAIN t = 1 .. Len(w) /\ \A i \in DOMAIN w : t[i].va = w[i].va
      BY <1>1, <1>3, ZenonT(30)
  <2> HIDE DEF t
  <2>4. QED
      BY <1>1, <2>2, <2>3, SMTT(30)
<1> HIDE DEF t, u, G
<1>5. Arranges(x, m, e) /\ m.ws[e] = t /\ m.hand = x.hand
    BY <1>1, <1>4, SetWs, SMTT(30)
<1>6. m \in KType /\ m.pt = x.pt /\ Base(m) /\ \A P : Moves(x, m, e, P)
    BY <1>5, ArrangesMoves DEF Arranges
<1>7. ASSUME NEW q \in Page
      PROVE  /\ G[q] \in Entry /\ G[q].frame = x.pt[e][q].frame
             /\ G[q].modified = x.pt[e][q].modified
             /\ G[q].uhpage = x.pt[e][q].uhpage
             /\ G[q].present = x.pt[e][q].present
  <2>1. x.pt[e][q] \in Entry
      BY <1>1, EntryFields
  <2>2. G[q] = x.pt[e][q] \/ G[q] = [x.pt[e][q] EXCEPT !.used = FALSE]
      BY DEF G
  <2>3. LET n == [x.pt[e][q] EXCEPT !.used = FALSE]
        IN  /\ n \in Entry /\ n.frame = x.pt[e][q].frame /\ n.present = x.pt[e][q].present
            /\ n.uhpage = x.pt[e][q].uhpage /\ n.modified = x.pt[e][q].modified
      BY <2>1, EntryBits
  <2>4. QED
      BY <2>1, <2>2, <2>3
<1>8. G \in [Page -> Entry]
    BY <1>7 DEF G
<1>9. \A q \in Page : G[q].present => x.pt[e][q].frame # NULL
    BY <1>1, <1>7 DEF Tables
<1> HIDE DEF m
<1>10. Bits(m, y, e) /\ y.pt[e] = G
    BY <1>2, <1>6, <1>7, <1>8, <1>9, SetPt
<1> HIDE DEF y
<1>11. Base(y) /\ \A P : Moves(m, y, e, P)
    BY <1>6, <1>10, BitsMoves
<1>12. \A P : Moves(x, y, e, P)
    BY <1>6, <1>11, MovesTrans
<1>13. y.ws[e] = t /\ y.hand = x.hand /\ y.max = x.max
    BY <1>5, <1>10 DEF Bits, Rest, Arranges
<1>14. WSPages(y, e) = WSPages(x, e)
    BY <1>4, <1>13 DEF WSPages
<1>15. (OrderOk(x, e) => OrderOk(y, e)) /\ Full(y, e) = Full(x, e)
    BY <1>4, <1>13 DEF OrderOk, Full
<1>16. /\ y.ok = x.ok /\ y.dpt = x.dpt /\ y.dir = x.dir /\ y.mem = x.mem /\ y.dmem = x.dmem
    BY <1>5, <1>10 DEF Bits, Arranges
<1>17. QED
    BY <1>7, <1>10, <1>11, <1>12, <1>13, <1>14, <1>15, <1>16 DEF Alike, y

LEMMA CountLemma ==
    ASSUME NEW x, Base(x), NEW e \in Env, NEW p \in Page
    PROVE  Alike(x, CountFault(x, e, p), e)
<1> DEFINE n == IF x.last = <<e, p>> THEN x.num + 1 ELSE 0
           y == [x EXCEPT !.last = <<e, p>>, !.num = n]
<1>1. x \in KType /\ x.num \in Nat
    BY Fields DEF Base
<1>2. n \in Nat /\ <<e, p>> \in (Env \union {NULL}) \X (Page \union {0})
    BY <1>1
<1>3. CountFault(x, e, p) = y
    BY DEF CountFault
<1> HIDE DEF n
<1>4. /\ y.h = x.h /\ y.refs = x.refs /\ y.mem = x.mem /\ y.dmem = x.dmem
      /\ y.dir = x.dir /\ y.pt = x.pt /\ y.dpt = x.dpt /\ y.ok = x.ok /\ y.algo = x.algo
      /\ y.max = x.max /\ y.status = x.status /\ y.ws = x.ws /\ y.hand = x.hand
      /\ y.active = x.active
    BY <1>1 DEF KType
<1>5. y \in KType
    BY <1>1, <1>2, ZenonT(30) DEF KType
<1> HIDE DEF y
<1>6. Arranges(x, y, e)
    BY <1>4, <1>5 DEF Arranges
<1>7. Base(y) /\ \A P : Moves(x, y, e, P)
    BY <1>6, ArrangesMoves
<1>8. QED
    BY <1>3, <1>4, <1>7 DEF Alike, WSPages, OrderOk, Full, y

LEMMA AlikeTrans ==
    ASSUME NEW x, NEW y, NEW z, NEW e, Alike(x, y, e), Alike(y, z, e)
    PROVE  Alike(x, z, e)
<1>1. \A P : Moves(x, z, e, P)
    BY MovesTrans DEF Alike
<1>2. QED
    BY <1>1 DEF Alike

\* A page table is made.
LEMMA TableLemma ==
    ASSUME NEW x, Base(x), NEW e \in Env, NEW p \in Page
    PROVE  LET y == create_page_table(x, e, p)
           IN  /\ \A P : Moves(x, y, e, P)
               /\ WorkingSetOk(x, e) => WorkingSetOk(y, e)
<1> DEFINE D == [x.dir EXCEPT ![e] = @ \union {PDX(p)}]
           y == create_page_table(x, e, p)
<1>1. x \in KType /\ Tables(x) /\ x.dir \in [Env -> SUBSET Regions] /\ PDX(p) \in Regions
    BY Fields, Regional DEF Base
<1>2. D \in [Env -> SUBSET Regions] /\ \A a \in Env : x.dir[a] \subseteq D[a]
    BY <1>1
<1>3. y = [x EXCEPT !.dir = D]
    BY DEF create_page_table
<1> HIDE DEF D, y
<1>4. /\ y \in KType /\ Rest(x, y) /\ y.h = x.h /\ y.refs = x.refs /\ y.mem = x.mem
      /\ y.dmem = x.dmem /\ y.dpt = x.dpt /\ y.pt = x.pt /\ y.ok = x.ok /\ y.dir = D
    BY <1>1, <1>2, <1>3, ZenonT(30) DEF KType, Rest
<1>5. Marks(x, y)
    BY <1>1, <1>2, <1>4 DEF Marks, Tables
<1>6. Base(y)
    BY <1>5, StoreBits
<1>7. Only(x, y, e) /\ Keeps(x, y)
    BY <1>4 DEF Only, Keeps, Holds
<1>8. \A P : Moves(x, y, e, P)
    BY <1>4, <1>6, <1>7 DEF Moves, Rest
<1>9. WorkingSetOk(x, e) => WorkingSetOk(y, e)
    BY <1>4 DEF WorkingSetOk, Resident, WSPages, OrderOk, HandOk, HandLost, Full, Rest
<1>10. QED
    BY <1>8, <1>9 DEF y

\* A page that e may use is absent.
Faulting(x, e, p, userTrap) ==
    /\ Base(x) /\ x.ok /\ x.status[e] = "live" /\ WorkingSetOk(x, e)
    /\ \/ x.algo = "OPTIMAL" \/ x.dpt[e][p] # NULL \/ MayBeNew(p)
       \/ userTrap /\ p \in AbovePages

\* After the fault nothing has come into memory, and then the process may have
\* ended, or the page has come in, for which it had a table and was valid.
Handled(x, y, e, p, userTrap) ==
    \E z : \/ /\ Moves(x, z, e, {}) /\ (z.ok => WorkingSetOk(z, e))
              /\ y = z \/ (y = env_exit(z, e) /\ userTrap)
              /\ get_page_table(x, e, p) /\ ~userTrap => ~z.ok
           \/ /\ Done(x, z, e, p) /\ y = z
              /\ get_page_table(x, e, p) /\ ~(userTrap /\ InvalidPointer(x, e, p))

LEMMA HandleLemma ==
    ASSUME NEW x, NEW e \in Env, NEW p \in Page, NEW userTrap \in BOOLEAN,
           Faulting(x, e, p, userTrap)
    PROVE  Handled(x, HandleFault(x, e, p, userTrap), e, p, userTrap)
<1> DEFINE y == HandleFault(x, e, p, userTrap)
<1>1. Base(x) /\ x \in KType /\ WorkingSetOk(x, e) /\ x.algo \in Algos
    BY Fields DEF Faulting, Base
<1>2. Moves(x, Panic(x), e, {}) /\ ~Panic(x).ok
    BY <1>1, PanicMoves
<1>3. CASE x.num = 3
  <2>1. y = Panic(x)
      BY <1>3 DEF HandleFault
  <2>2. QED
      BY <1>2, <2>1 DEF Handled
<1>4. CASE x.num # 3 /\ userTrap /\ InvalidPointer(x, e, p)
  <2>1. y = env_exit(x, e)
      BY <1>4 DEF HandleFault
  <2>2. Arranges(x, x, e)
      BY <1>1 DEF Arranges
  <2>3. Moves(x, x, e, {})
      BY <1>1, <2>2, ArrangesMoves
  <2>4. QED
      BY <1>1, <1>4, <2>1, <2>3 DEF Handled
<1>5. CASE x.num # 3 /\ ~(userTrap /\ InvalidPointer(x, e, p))
  <2>1. y = IF ~get_page_table(x, e, p) THEN table_fault_handler(x, e, p)
            ELSE IF x.pt[e][p].present THEN Panic(x) ELSE page_fault_handler(x, e, p)
      BY <1>5 DEF HandleFault
  <2>2. CASE ~get_page_table(x, e, p)
    <3>1. y = create_page_table(x, e, p)
        BY <2>1, <2>2 DEF table_fault_handler
    <3>2. Moves(x, y, e, {}) /\ WorkingSetOk(y, e)
        BY <1>1, <3>1, TableLemma
    <3> HIDE DEF y
    <3>3. QED
        BY <2>2, <3>2 DEF Handled, y
  <2>3. CASE get_page_table(x, e, p) /\ x.pt[e][p].present
    <3>1. y = Panic(x)
        BY <2>1, <2>3
    <3>2. QED
        BY <1>2, <3>1 DEF Handled
  <2>4. CASE get_page_table(x, e, p) /\ ~x.pt[e][p].present
    <3>1. y = page_fault_handler(x, e, p)
        BY <2>1, <2>4
    <3>2. Done(x, y, e, p)
      <4>1. CASE x.algo = "OPTIMAL"
          BY <1>1, <3>1, <4>1, OptimalLemma
      <4>2. CASE x.algo # "OPTIMAL"
        <5>1. x.dpt[e][p] # NULL \/ MayBeNew(p)
            BY <1>5, <4>2 DEF Faulting, InvalidPointer
        <5>2. Busy(x, e, p)
            BY <2>4, <4>2, <5>1 DEF Busy, Faulting, WorkingSetOk, Resident
        <5>3. QED
            BY <3>1, <5>2, HandlerLemma
      <4>3. QED
          BY <4>1, <4>2
    <3> HIDE DEF y
    <3>3. QED
        BY <1>5, <2>4, <3>2 DEF Handled, y
  <2>5. QED
      BY <2>2, <2>3, <2>4
<1>6. QED
    BY <1>3, <1>4, <1>5

\* As the handler finds it: the working set aged, the fault counted.
Counted(x, e, p) ==
    CountFault(IF x.algo = "LRU" THEN update_WS_time_stamps(x, e) ELSE x, e, p)

LEMMA CountedLemma ==
    ASSUME NEW x, NEW e \in Env, NEW p \in Page, NEW userTrap \in BOOLEAN,
           Faulting(x, e, p, userTrap)
    PROVE  LET c == Counted(x, e, p)
           IN  /\ PageFault(x, e, p, userTrap) = HandleFault(c, e, p, userTrap)
               /\ Alike(x, c, e) /\ Faulting(c, e, p, userTrap)
<1> DEFINE u == IF x.algo = "LRU" THEN update_WS_time_stamps(x, e) ELSE x
           c == CountFault(u, e, p)
<1>1. PageFault(x, e, p, userTrap) = HandleFault(c, e, p, userTrap) /\ c = Counted(x, e, p)
    BY DEF PageFault, fault_handler, Counted
<1>2. x \in KType /\ Base(x)
    BY DEF Faulting, Base
<1>3. Alike(x, u, e)
  <2>1. CASE x.algo = "LRU"
      BY <1>2, <2>1, AgeLemma
  <2>2. CASE x.algo # "LRU"
    <3>1. Arranges(x, x, e)
        BY <1>2 DEF Arranges
    <3>2. \A P : Moves(x, x, e, P)
        BY <1>2, <3>1, ArrangesMoves
    <3>3. QED
        BY <1>2, <2>2, <3>2 DEF Alike
  <2>3. QED
      BY <2>1, <2>2
<1> HIDE DEF u
<1>4. Base(u)
    BY <1>3 DEF Alike
<1>5. Alike(u, c, e)
    BY <1>4, CountLemma
<1> HIDE DEF c
<1>6. Alike(x, c, e)
    BY <1>3, <1>5, AlikeTrans
<1>7. WorkingSetOk(c, e)
    BY <1>6, AlikeOk DEF Faulting
<1>8. Moves(x, c, e, {})
    BY <1>6 DEF Alike
<1>9. Faulting(c, e, p, userTrap)
    BY <1>6, <1>7, <1>8 DEF Alike, Moves, Faulting
<1>10. QED
    BY <1>1, <1>6, <1>9

LEMMA PageFaultLemma ==
    ASSUME NEW x, NEW e \in Env, NEW p \in Page, NEW userTrap \in BOOLEAN,
           Faulting(x, e, p, userTrap)
    PROVE  Handled(x, PageFault(x, e, p, userTrap), e, p, userTrap)
<1> DEFINE c == Counted(x, e, p)
           y == HandleFault(c, e, p, userTrap)
<1>1. /\ PageFault(x, e, p, userTrap) = y
      /\ Alike(x, c, e) /\ Faulting(c, e, p, userTrap)
    BY CountedLemma
<1> HIDE DEF c
<1>2. Handled(c, y, e, p, userTrap)
    BY <1>1, HandleLemma
<1> HIDE DEF y
<1>3. /\ get_page_table(c, e, p) = get_page_table(x, e, p)
      /\ InvalidPointer(c, e, p) = InvalidPointer(x, e, p)
    BY <1>1 DEF Alike, get_page_table, InvalidPointer, pt_get_page_permissions
<1>4. PICK z : \/ /\ Moves(c, z, e, {}) /\ (z.ok => WorkingSetOk(z, e))
                  /\ y = z \/ (y = env_exit(z, e) /\ userTrap)
                  /\ get_page_table(c, e, p) /\ ~userTrap => ~z.ok
               \/ /\ Done(c, z, e, p) /\ y = z
                  /\ get_page_table(c, e, p) /\ ~(userTrap /\ InvalidPointer(c, e, p))
    BY <1>2 DEF Handled
<1>5. Moves(x, c, e, {}) /\ Moves(x, c, e, {p})
    BY <1>1 DEF Alike
<1>6. /\ Moves(c, z, e, {}) => Moves(x, z, e, {})
      /\ Done(c, z, e, p) => Done(x, z, e, p)
    BY <1>5, MovesTrans, DoneAfter
<1>7. Handled(x, y, e, p, userTrap)
    BY <1>3, <1>4, <1>6 DEF Handled
<1>8. QED
    BY <1>1, <1>7

-----------------------------------------------------------------------------
(* The steps of a program.                                                 *)

\* What another environment is owed does not change with e.
LEMMA OthersGood ==
    ASSUME NEW x, NEW y, NEW e \in Env, NEW a \in Env \ {e}, NEW w, Good(x, a, w),
           y.algo = x.algo, y.max = x.max, y.status[a] = x.status[a],
           x.algo # "OPTIMAL" => y.active = x.active, Only(x, y, e),
           y.ws[a] = x.ws[a], y.hand[a] = x.hand[a],
           \A p \in Page : \A v : Holds(x, a, p, v) => Holds(y, a, p, v)
    PROVE  Good(y, a, w)
<1>1. y.pt[a] = x.pt[a] /\ y.dpt[a] = x.dpt[a]
    BY DEF Only
<1>2. WorkingSetOk(y, a)
    BY <1>1 DEF Good, WorkingSetOk, Resident, WSPages, OrderOk, HandOk, HandLost, Full
<1>3. MarkedOk(y, a, {}) /\ LoadedOk(y, a)
    BY <1>1 DEF Good, MarkedOk, LoadedOk
<1>4. QED
    BY <1>2, <1>3 DEF Good

\* What e does with its own storage keeps every promise, if the pages that come
\* into memory are marked.
LEMMA MovesWorld ==
    ASSUME NEW x, NEW w, World(x, w), NEW e \in Env, x.status[e] # "free",
           NEW P, \A q \in HeapPages : q \in P => x.pt[e][q].uhpage,
           NEW y, Moves(x, y, e, P), y.ok => WorkingSetOk(y, e)
    PROVE  World(y, w)
<1>1. Base(y) /\ Only(x, y, e)
    BY DEF Moves
<1>2. Fresh(y)
    BY DEF World, Fresh, Moves, Only
<1>3. ASSUME y.ok, NEW a \in Env PROVE Good(y, a, w[a])
  <2>1. x.ok /\ Good(x, a, w[a])
      BY <1>3 DEF Moves, World
  <2>2. CASE a # e
    <3>1. /\ y.algo = x.algo /\ y.max = x.max /\ y.status[a] = x.status[a]
          /\ x.algo # "OPTIMAL" => y.active = x.active
          /\ y.ws[a] = x.ws[a] /\ y.hand[a] = x.hand[a]
          /\ \A p \in Page : \A v : Holds(x, a, p, v) => Holds(y, a, p, v)
        BY <1>3, <2>2 DEF Moves, Keeps
    <3>2. QED
        BY <1>1, <2>1, <2>2, <3>1, OthersGood
  <2>3. CASE a = e
    <3>1. MarkedOk(y, e, {})
      <4>1. HeapPages \subseteq Page
          BY DEF Page
      <4>2. QED
          BY <1>3, <2>1, <2>3, <4>1 DEF Good, MarkedOk, Moves
    <3>2. LoadedOk(y, e)
      <4>1. ProgPages \subseteq Page
          BY DEF Page
      <4>2. QED
          BY <1>3, <2>1, <2>3, <4>1 DEF Good, LoadedOk, Moves
    <3>3. \A p \in Page : w[e][p] # Unknown => Holds(y, e, p, w[e][p])
        BY <1>3, <2>1, <2>3 DEF Good, Moves, Keeps
    <3>4. QED
        BY <1>3, <2>3, <3>1, <3>2, <3>3 DEF Good
  <2>4. QED
      BY <2>2, <2>3
<1>4. QED
    BY <1>1, <1>2, <1>3 DEF World

LEMMA ExitWorld ==
    ASSUME NEW x, NEW w, World(x, w), NEW e \in Env, x.status[e] # "free"
    PROVE  World(env_exit(x, e), w)
<1> DEFINE s == [x.status EXCEPT ![e] = "exit"]
           y == env_exit(x, e)
<1>1. x \in KType /\ x.status \in [Env -> {"free", "live", "exit"}]
    BY Fields DEF World, Base
<1>2. /\ s \in [Env -> {"free", "live", "exit"}]
      /\ \A a \in Env : s[a] = "free" <=> x.status[a] = "free"
    BY <1>1
<1>3. y = [x EXCEPT !.status = s]
    BY DEF env_exit
<1> HIDE DEF s, y
<1>4. /\ y \in KType /\ y.h = x.h /\ y.refs = x.refs /\ y.mem = x.mem /\ y.dmem = x.dmem
      /\ y.dir = x.dir /\ y.pt = x.pt /\ y.dpt = x.dpt /\ y.ok = x.ok /\ y.algo = x.algo
      /\ y.max = x.max /\ y.status = s /\ y.ws = x.ws /\ y.hand = x.hand
      /\ y.active = x.active
    BY <1>1, <1>2, <1>3, ZenonT(30) DEF KType
<1>5. Base(y)
    BY <1>4 DEF World, Base, Store, Tables, Unmapped, Unfiled
<1>6. Fresh(y)
    BY <1>2, <1>4 DEF World, Fresh
<1>7. ASSUME x.ok, NEW a \in Env PROVE Good(y, a, w[a])
  <2>1. Good(x, a, w[a])
      BY <1>7 DEF World
  <2>2. WorkingSetOk(y, a)
      BY <1>4, <2>1 DEF Good, WorkingSetOk, Resident, WSPages, OrderOk, HandOk, HandLost, Full
  <2>3. MarkedOk(y, a, {}) /\ LoadedOk(y, a)
      BY <1>2, <1>4, <2>1 DEF Good, MarkedOk, LoadedOk
  <2>4. \A p \in Page : w[a][p] # Unknown => Holds(y, a, p, w[a][p])
      BY <1>4, <2>1 DEF Good, Holds
  <2>5. QED
      BY <2>2, <2>3, <2>4 DEF Good
<1>8. QED
    BY <1>4, <1>5, <1>6, <1>7 DEF World, y

\* A page that is in use can be brought in, or ends the process.
LEMMA FaultingLemma ==
    ASSUME NEW x, NEW w, World(x, w), x.ok, NEW e \in Env, x.status[e] = "live",
           NEW p \in Page, p \notin OutsidePages \/ x.algo = "OPTIMAL",
           NEW userTrap \in BOOLEAN,
           p \in AbovePages => userTrap
    PROVE  Faulting(x, e, p, userTrap)
<1>1. WorkingSetOk(x, e) /\ LoadedOk(x, e) /\ Base(x)
    BY DEF World, Good
<1>2. p \in ProgPages => x.dpt[e][p] # NULL
    BY <1>1 DEF LoadedOk
<1>3. QED
    BY <1>1, <1>2 DEF Faulting, MayBeNew, Page

LEMMA FaultWorld ==
    ASSUME NEW x, NEW w, World(x, w), x.ok, NEW e \in Env, x.status[e] = "live",
           NEW p \in Page, p \notin OutsidePages \/ x.algo = "OPTIMAL"
    PROVE  World(PageFault(x, e, p, TRUE), w)
<1> DEFINE y == PageFault(x, e, p, TRUE)
<1>1. Handled(x, y, e, p, TRUE)
    BY FaultingLemma, PageFaultLemma
<1> HIDE DEF y
<1>2. PICK z : \/ /\ Moves(x, z, e, {}) /\ (z.ok => WorkingSetOk(z, e))
                  /\ y = z \/ y = env_exit(z, e)
               \/ /\ Done(x, z, e, p) /\ y = z
                  /\ get_page_table(x, e, p) /\ ~InvalidPointer(x, e, p)
    BY <1>1 DEF Handled
<1>3. CASE Done(x, z, e, p) /\ y = z /\ get_page_table(x, e, p) /\ ~InvalidPointer(x, e, p)
  <2>1. \A q \in HeapPages : q \in {p} => x.pt[e][q].uhpage
      BY <1>3 DEF InvalidPointer, pt_get_page_permissions
  <2>2. Moves(x, z, e, {p}) /\ (z.ok => WorkingSetOk(z, e))
      BY <1>3 DEF Done
  <2>3. World(z, w)
      BY <2>1, <2>2, MovesWorld
  <2>4. QED
      BY <1>3, <2>3 DEF y
<1>4. CASE /\ Moves(x, z, e, {}) /\ (z.ok => WorkingSetOk(z, e))
           /\ y = z \/ y = env_exit(z, e)
  <2>1. World(z, w)
      BY <1>4, MovesWorld
  <2>2. z.status[e] # "free"
      BY <1>4 DEF Moves
  <2>3. World(env_exit(z, e), w)
      BY <2>1, <2>2, ExitWorld
  <2>4. QED
      BY <1>4, <2>1, <2>3 DEF y
<1>5. QED
    BY <1>2, <1>3, <1>4

LEMMA AgeWorld ==
    ASSUME NEW x, NEW w, World(x, w), x.ok, NEW e \in Env, x.status[e] # "free"
    PROVE  World(update_WS_time_stamps(x, e), w)
<1>1. Alike(x, update_WS_time_stamps(x, e), e)
    BY AgeLemma DEF World
<1>2. WorkingSetOk(update_WS_time_stamps(x, e), e)
    BY <1>1, AlikeOk DEF World, Good
<1>3. Moves(x, update_WS_time_stamps(x, e), e, {})
    BY <1>1 DEF Alike
<1>4. QED
    BY <1>2, <1>3, MovesWorld

\* From x to y, what may go wrong goes wrong for the page p of e only.
Nears(x, y, e, p) ==
    /\ Base(y) /\ y.algo = x.algo /\ y.max = x.max /\ y.status = x.status
    /\ x.algo # "OPTIMAL" => y.active = x.active
    /\ Only(x, y, e) /\ \A a \in Env \ {e} : y.ws[a] = x.ws[a] /\ y.hand[a] = x.hand[a]
    /\ y.ok => /\ x.ok
               /\ \A a \in Env, q \in Page : a # e \/ q # p =>
                     \A v : Holds(x, a, q, v) => Holds(y, a, q, v)
               /\ \A q \in Page \ {p} :
                     /\ y.pt[e][q].uhpage = x.pt[e][q].uhpage
                     /\ x.dpt[e][q] # NULL => y.dpt[e][q] # NULL
                     /\ y.pt[e][q].frame # NULL => x.pt[e][q].frame # NULL

LEMMA NearsTrans ==
    ASSUME NEW x, NEW y, NEW z, NEW e, NEW p, Nears(x, y, e, p), Nears(y, z, e, p)
    PROVE  Nears(x, z, e, p)
<1>1. Only(x, z, e)
    BY DEF Nears, Only
<1>2. QED
    BY <1>1 DEF Nears

LEMMA NearsMoves ==
    ASSUME NEW x, NEW y, NEW e, NEW p, Moves(x, y, e, {p})
    PROVE  Nears(x, y, e, p)
BY DEF Moves, Nears, Keeps

\* That is enough when the page p is right again: v is what it is to hold.
LEMMA NearsWorld ==
    ASSUME NEW x, NEW w, World(x, w), NEW C, w \in [Env -> [Page -> C]],
           NEW e \in Env, x.status[e] # "free", NEW p \in Page, NEW y, Nears(x, y, e, p), NEW v,
           y.ok => /\ WorkingSetOk(y, e)
                   /\ p \in HeapPages /\ y.algo # "OPTIMAL" /\ y.pt[e][p].frame # NULL
                         => y.pt[e][p].uhpage
                   /\ p \in ProgPages => y.dpt[e][p] # NULL
                   /\ v # Unknown => Holds(y, e, p, v)
    PROVE  World(y, [w EXCEPT ![e][p] = v])
<1> DEFINE W == [w EXCEPT ![e][p] = v]
<1>1. /\ \A a \in Env \ {e} : W[a] = w[a]
      /\ \A q \in Page : W[e][q] = IF q = p THEN v ELSE w[e][q]
    OBVIOUS
<1> HIDE DEF W
<1>2. Base(y) /\ Only(x, y, e)
    BY DEF Nears
<1>3. Fresh(y)
    BY DEF World, Fresh, Nears, Only
<1>4. ASSUME y.ok, NEW a \in Env PROVE Good(y, a, W[a])
  <2>1. x.ok /\ Good(x, a, w[a])
      BY <1>4 DEF Nears, World
  <2>2. CASE a # e
    <3>1. /\ y.algo = x.algo /\ y.max = x.max /\ y.status[a] = x.status[a]
          /\ x.algo # "OPTIMAL" => y.active = x.active
          /\ y.ws[a] = x.ws[a] /\ y.hand[a] = x.hand[a]
          /\ \A q \in Page : \A u : Holds(x, a, q, u) => Holds(y, a, q, u)
        BY <1>4, <2>2 DEF Nears
    <3>2. Good(y, a, w[a])
        BY <1>2, <2>1, <2>2, <3>1, OthersGood
    <3>3. QED
        BY <1>1, <2>2, <3>2
  <2>3. CASE a = e
    <3>1. MarkedOk(y, e, {})
      <4>1. HeapPages \subseteq Page
          BY DEF Page
      <4>2. QED
          BY <1>4, <2>1, <2>3, <4>1 DEF Good, MarkedOk, Nears
    <3>2. LoadedOk(y, e)
      <4>1. ProgPages \subseteq Page
          BY DEF Page
      <4>2. QED
          BY <1>4, <2>1, <2>3, <4>1 DEF Good, LoadedOk, Nears
    <3>3. \A q \in Page : W[e][q] # Unknown => Holds(y, e, q, W[e][q])
        BY <1>1, <1>4, <2>1, <2>3 DEF Good, Nears
    <3>4. QED
        BY <1>4, <2>3, <3>1, <3>2, <3>3 DEF Good
  <2>4. QED
      BY <2>2, <2>3
<1>5. World(y, W)
    BY <1>2, <1>3, <1>4 DEF World
<1>6. QED
    BY <1>5 DEF W

LEMMA BitsOk ==
    ASSUME NEW x, NEW y, NEW e \in Env, Bits(x, y, e), WorkingSetOk(x, e),
           x.algo # "OPTIMAL" => \A q \in Page : y.pt[e][q].present = x.pt[e][q].present
    PROVE  WorkingSetOk(y, e)
<1>1. WSPages(y, e) = WSPages(x, e)
    BY DEF Bits, Rest, WSPages
<1>2. QED
    BY <1>1 DEF Bits, Rest, WorkingSetOk, Resident, OrderOk, HandOk, HandLost, Full

-----------------------------------------------------------------------------
(* An access.                                                              *)

\* The processor marks a page used.
LEMMA UseLemma ==
    ASSUME NEW x, Base(x), NEW e \in Env, NEW p \in Page, WorkingSetOk(x, e)
    PROVE  LET y == [x EXCEPT !.pt[e][p].used = TRUE]
           IN  /\ Bits(x, y, e) /\ WorkingSetOk(y, e) /\ Moves(x, y, e, {}) /\ Base(y)
               /\ y.pt[e][p] \in Entry
<1> DEFINE t == [x.pt[e][p] EXCEPT !.used = TRUE]
           y == [x EXCEPT !.pt[e][p] = t]
<1>1. x \in KType /\ Tables(x)
    BY DEF Base
<1>2. [x EXCEPT !.pt[e][p].used = TRUE] = y
    OBVIOUS
<1>3. /\ t \in Entry /\ t.frame = x.pt[e][p].frame /\ t.modified = x.pt[e][p].modified
      /\ t.uhpage = x.pt[e][p].uhpage /\ t.present = x.pt[e][p].present
  <2>1. x.pt[e][p] \in Entry
      BY <1>1, EntryFields, SMTT(30)
  <2>2. QED
      BY <2>1, EntryBits
<1> HIDE DEF t
<1>4. Bits(x, y, e) /\ \A q \in Page : y.pt[e][q] = IF q = p THEN t ELSE x.pt[e][q]
    BY <1>1, <1>3, SetEntry DEF Tables
<1> HIDE DEF y
<1>5. WorkingSetOk(y, e)
    BY <1>3, <1>4, BitsOk
<1>6. Moves(x, y, e, {}) /\ Base(y)
    BY <1>4, BitsMoves
<1>7. QED
    BY <1>2, <1>3, <1>4, <1>5, <1>6

\* A page in memory gets the contents v and the entry t.
Filled(x, e, p, t, v) == [x EXCEPT !.pt[e][p] = t, !.mem[x.pt[e][p].frame] = v]

Fills(x, y, e, p, t, v) ==
    /\ Nears(x, y, e, p) /\ Rest(x, y) /\ y.ok = x.ok /\ y.dpt = x.dpt
    /\ y.pt[e][p] = t /\ t.frame # NULL /\ y.mem[t.frame] = v
    /\ \A q \in Page : q # p => y.pt[e][q] = x.pt[e][q]

LEMMA FillLemma ==
    ASSUME NEW x, Base(x), NEW e \in Env, NEW p \in Page, x.pt[e][p].frame # NULL,
           NEW v \in Content, NEW t \in Entry, t.frame = x.pt[e][p].frame,
           t.present = x.pt[e][p].present, t.uhpage = x.pt[e][p].uhpage
    PROVE  Fills(x, Filled(x, e, p, t, v), e, p, t, v)
<1> DEFINE f == x.pt[e][p].frame
           P == [x.pt EXCEPT ![e][p] = t]
           M == [x.mem EXCEPT ![f] = v]
           y == [x EXCEPT !.pt = P, !.mem = M]
<1>1. /\ x \in KType /\ Tables(x) /\ f \in Frame
      /\ x.pt \in [Env -> [Page -> Entry]] /\ x.mem \in [Frame -> Content]
    BY Fields, EntryFields DEF Base
<1>2. Filled(x, e, p, t, v) = y
    BY DEF Filled
<1> HIDE DEF f
<1>4. /\ P \in [Env -> [Page -> Entry]] /\ M \in [Frame -> Content]
      /\ \A a \in Env, q \in Page : P[a][q] = IF a = e /\ q = p THEN t ELSE x.pt[a][q]
      /\ \A a \in Env \ {e} : P[a] = x.pt[a]
      /\ \A g \in Frame : M[g] = IF g = f THEN v ELSE x.mem[g]
    BY <1>1
<1> HIDE DEF P, M
<1>5. /\ y \in KType /\ Rest(x, y) /\ y.h = x.h /\ y.refs = x.refs /\ y.mem = M
      /\ y.dmem = x.dmem /\ y.dpt = x.dpt /\ y.pt = P /\ y.ok = x.ok /\ y.dir = x.dir
    BY <1>1, <1>4, ZenonT(30) DEF KType, Rest
<1> HIDE DEF y
<1>6. \A a \in Env, q \in Page : /\ y.pt[a][q].frame = x.pt[a][q].frame
                                 /\ y.pt[a][q].present = x.pt[a][q].present
                                 /\ y.pt[a][q].uhpage = x.pt[a][q].uhpage
                                 /\ a # e \/ q # p => y.pt[a][q] = x.pt[a][q]
    BY <1>4, <1>5 DEF f
<1>7. Marks(x, y)
    BY <1>1, <1>5, <1>6 DEF Marks, Tables
<1>8. Base(y)
    BY <1>7, StoreBits, SMTT(30)
<1>10. ASSUME NEW a \in Env, NEW q \in Page, a # e \/ q # p, NEW u, Holds(x, a, q, u)
       PROVE  Holds(y, a, q, u)
  <2>1. x.pt[a][q].frame # NULL => x.pt[a][q].frame \in Frame /\ x.pt[a][q].frame # f
    <3>1. x.pt[a][q].frame \in Frame \union {NULL}
        BY <1>1, EntryFields
    <3>2. QED
        BY <1>10, <3>1 DEF Base, Store, f
  <2>2. x.pt[a][q].frame # NULL => y.mem[x.pt[a][q].frame] = x.mem[x.pt[a][q].frame]
      BY <1>4, <1>5, <2>1
  <2>3. y.pt[a][q] = x.pt[a][q] /\ y.dpt = x.dpt /\ y.dmem = x.dmem
      BY <1>5, <1>6, <1>10
  <2>4. QED
      BY <1>10, <2>2, <2>3, HoldsSame
<1>11. Only(x, y, e)
    BY <1>4, <1>5 DEF Only
<1>12. Nears(x, y, e, p)
    BY <1>5, <1>6, <1>8, <1>10, <1>11 DEF Nears, Rest
<1>13. y.pt[e][p] = t /\ t.frame # NULL /\ y.mem[t.frame] = v
    BY <1>1, <1>4, <1>5 DEF f
<1>14. QED
    BY <1>2, <1>5, <1>6, <1>12, <1>13 DEF Fills

\* The working set is right as long as the same pages are mapped and present.
LEMMA SameWorkingSet ==
    ASSUME NEW x, NEW y, NEW e, WorkingSetOk(x, e), Rest(x, y),
           x.algo # "OPTIMAL" =>
             \A q \in Page : /\ y.pt[e][q].frame = x.pt[e][q].frame
                             /\ y.pt[e][q].present = x.pt[e][q].present
    PROVE  WorkingSetOk(y, e)
<1>1. WSPages(y, e) = WSPages(x, e)
    BY DEF Rest, WSPages
<1>2. QED
    BY <1>1 DEF Rest, WorkingSetOk, Resident, OrderOk, HandOk, HandLost, Full

\* A program writes v to a page in memory.
Written(x, e, p, v) == [x EXCEPT !.pt[e][p].modified = TRUE, !.mem[x.pt[e][p].frame] = v]

LEMMA WriteLemma ==
    ASSUME NEW x, Base(x), NEW e \in Env, NEW p \in Page, x.pt[e][p].frame # NULL,
           NEW v \in Value, WorkingSetOk(x, e)
    PROVE  LET y == Written(x, e, p, v)
           IN  /\ Nears(x, y, e, p) /\ WorkingSetOk(y, e) /\ Holds(y, e, p, v)
               /\ y.dpt = x.dpt /\ y.pt[e][p].uhpage = x.pt[e][p].uhpage /\ y.algo = x.algo
<1> DEFINE t == [x.pt[e][p] EXCEPT !.modified = TRUE]
           y == Filled(x, e, p, t, v)
<1>1. x.pt[e][p] \in Entry /\ v \in Content
    BY EntryFields DEF Base, Content
<1>2. Written(x, e, p, v) = y
    BY DEF Written, Filled
<1>3. /\ t \in Entry /\ t.frame = x.pt[e][p].frame /\ t.modified
      /\ t.uhpage = x.pt[e][p].uhpage /\ t.present = x.pt[e][p].present
    BY <1>1, EntryBits
<1> HIDE DEF t
<1>4. Fills(x, y, e, p, t, v)
    BY <1>1, <1>3, FillLemma
<1> HIDE DEF y
<1>5. Holds(y, e, p, v)
    BY <1>3, <1>4 DEF Fills, Holds
<1>6. \A q \in Page : /\ y.pt[e][q].frame = x.pt[e][q].frame
                      /\ y.pt[e][q].present = x.pt[e][q].present
    BY <1>3, <1>4 DEF Fills
<1>7. WorkingSetOk(y, e)
    BY <1>4, <1>6, SameWorkingSet DEF Fills
<1>8. QED
    BY <1>2, <1>3, <1>4, <1>5, <1>7 DEF Fills, Rest

LEMMA TouchWorld ==
    ASSUME NEW x, NEW w, World(x, w), NEW C, w \in [Env -> [Page -> C]], x.ok,
           NEW e \in Env, x.status[e] = "live", NEW p \in Page, x.pt[e][p].present,
           NEW v \in Value \union {NULL}
    PROVE  World(Touch(x, e, p, v), [w EXCEPT ![e][p] = IF v = NULL THEN w[e][p] ELSE v])
<1> DEFINE u == [x EXCEPT !.pt[e][p].used = TRUE]
           y == Written(u, e, p, v)
<1>1. Base(x) /\ Good(x, e, w[e]) /\ WorkingSetOk(x, e) /\ x.pt[e][p].frame # NULL
    BY DEF World, Good, Base, Tables
<1>2. Bits(x, u, e) /\ WorkingSetOk(u, e) /\ Moves(x, u, e, {}) /\ Base(u)
    BY <1>1, UseLemma
<1> HIDE DEF u
<1>3. World(u, w)
    BY <1>2, MovesWorld
<1>4. CASE v = NULL
  <2>1. Touch(x, e, p, v) = u
      BY <1>4 DEF Touch, u
  <2>2. [w EXCEPT ![e][p] = w[e][p]] = w
      OBVIOUS
  <2>3. QED
      BY <1>3, <1>4, <2>1, <2>2
<1>5. CASE v # NULL
  <2>1. u.pt[e][p].frame = x.pt[e][p].frame /\ u.pt[e][p].uhpage = x.pt[e][p].uhpage
      BY <1>2 DEF Bits
  <2>2. Touch(x, e, p, v) = y
      BY <1>5, <2>1 DEF Touch, u, Written
  <2>3. /\ Nears(u, y, e, p) /\ WorkingSetOk(y, e) /\ Holds(y, e, p, v)
        /\ y.dpt = u.dpt /\ y.pt[e][p].uhpage = u.pt[e][p].uhpage /\ y.algo = u.algo
    <3>1. Base(u) /\ WorkingSetOk(u, e) /\ u.pt[e][p].frame # NULL /\ v \in Value
        BY <1>1, <1>2, <1>5, <2>1
    <3>2. QED
        BY <3>1, WriteLemma
  <2> HIDE DEF y
  <2>4. u.ok /\ u.status[e] = "live" /\ Good(u, e, w[e])
      BY <1>2, <1>3 DEF World, Bits, Rest
  <2>5. p \in ProgPages => y.dpt[e][p] # NULL
      BY <2>3, <2>4 DEF Good, LoadedOk
  <2>6. p \in HeapPages /\ y.algo # "OPTIMAL" => y.pt[e][p].uhpage
      BY <1>1, <2>1, <2>3, <2>4 DEF Good, MarkedOk
  <2>7. World(y, [w EXCEPT ![e][p] = v])
      BY <1>3, <2>3, <2>4, <2>5, <2>6, NearsWorld
  <2>8. QED
      BY <1>5, <2>2, <2>7
<1>6. QED
    BY <1>4, <1>5

-----------------------------------------------------------------------------
(* Allocating a page of the user heap.                                     *)

LEMMA Disjoint ==
    /\ HeapPages \intersect ProgPages = {} /\ StackPages \intersect ProgPages = {}
    /\ StackPages \intersect HeapPages = {}
<1> DEFINE r == <<ProgPages, HeapPages, StackPages, OutsidePages, AbovePages>>
<1>1. \A i, j \in 1 .. 5 : i # j => r[i] \intersect r[j] = {}
    BY FramesAssumption
<1>2. r[1] \intersect r[2] = {} /\ r[1] \intersect r[3] = {} /\ r[2] \intersect r[3] = {}
  <2> HIDE DEF r
  <2> QED
      BY <1>1
<1>3. QED
    BY <1>2

LEMMA EntryMark ==
    ASSUME NEW t \in Entry, NEW b \in BOOLEAN
    PROVE  /\ LET u == [t EXCEPT !.uhpage = TRUE, !.present = FALSE]
              IN  /\ u \in Entry /\ u.frame = t.frame /\ u.uhpage /\ ~u.present
                  /\ u.modified = t.modified
           /\ LET u == [t EXCEPT !.uhpage = FALSE]
              IN  /\ u \in Entry /\ u.frame = t.frame /\ ~u.uhpage /\ u.present = t.present
                  /\ u.modified = t.modified
BY DEF Entry

\* From x to y the entry of p becomes t, which has the same frame.
Marked(x, y, e, p, t) ==
    /\ Nears(x, y, e, p) /\ Rest(x, y) /\ y.ok = x.ok /\ y.dpt = x.dpt
    /\ y.pt[e][p] = t /\ PDX(p) \in y.dir[e]
    /\ \A q \in Page : q # p => y.pt[e][q] = x.pt[e][q]
    /\ \A v : Holds(x, e, p, v) => Holds(y, e, p, v)

\* A change of the bits of one entry, its table being made first.
LEMMA MarkLemma ==
    ASSUME NEW x, Base(x), NEW e \in Env, NEW p \in Page, NEW t \in Entry,
           t.frame = x.pt[e][p].frame, t.modified = x.pt[e][p].modified,
           t.present => x.pt[e][p].present
    PROVE  Marked(x, pt_set_page_permissions(WithTable(x, e, p), e, p, t), e, p, t)
<1> DEFINE g == [x.dir EXCEPT ![e] = @ \union {PDX(p)}]
           P == [x.pt EXCEPT ![e][p] = t]
           y == [x EXCEPT !.dir = g, !.pt = P]
<1>1. x \in KType /\ Tables(x) /\ x.pt \in [Env -> [Page -> Entry]]
      /\ x.dir \in [Env -> SUBSET Regions]
    BY Fields DEF Base
<1>2. WithTable(x, e, p) = [x EXCEPT !.dir = g] /\ g \in [Env -> SUBSET Regions]
    BY <1>1, WithTableLemma
<1>3. PDX(p) \in g[e] /\ \A a \in Env : x.dir[a] \subseteq g[a]
    BY <1>1
<1>4. [x EXCEPT !.dir = g].dir = g
    BY <1>1 DEF KType
<1> HIDE DEF g
<1>5. pt_set_page_permissions(WithTable(x, e, p), e, p, t) = [[x EXCEPT !.dir = g] EXCEPT !.pt[e][p] = t]
    BY <1>2, <1>3, <1>4 DEF pt_set_page_permissions, get_page_table
<1>6. pt_set_page_permissions(WithTable(x, e, p), e, p, t) = y
    BY <1>1, <1>5 DEF KType
<1>7. /\ P \in [Env -> [Page -> Entry]]
      /\ \A a \in Env, q \in Page : P[a][q] = IF a = e /\ q = p THEN t ELSE x.pt[a][q]
      /\ \A a \in Env \ {e} : P[a] = x.pt[a]
    BY <1>1
<1> HIDE DEF P
<1>8. /\ y \in KType /\ Rest(x, y) /\ y.h = x.h /\ y.refs = x.refs /\ y.mem = x.mem
      /\ y.dmem = x.dmem /\ y.dpt = x.dpt /\ y.pt = P /\ y.ok = x.ok /\ y.dir = g
    BY <1>1, <1>2, <1>7, ZenonT(30) DEF KType, Rest
<1> HIDE DEF y
<1>9. \A a \in Env, q \in Page : /\ y.pt[a][q].frame = x.pt[a][q].frame
                                 /\ y.pt[a][q].modified = x.pt[a][q].modified
                                 /\ a # e \/ q # p => y.pt[a][q] = x.pt[a][q]
    BY <1>7, <1>8
<1>10. Marks(x, y)
    BY <1>1, <1>3, <1>7, <1>8, <1>9 DEF Marks, Tables
<1>11. Base(y)
    BY <1>10, StoreBits
<1>12. Keeps(x, y)
    BY <1>8, <1>9, HoldsSame DEF Keeps
<1>13. Only(x, y, e)
    BY <1>7, <1>8 DEF Only
<1>14. Nears(x, y, e, p)
    BY <1>8, <1>9, <1>11, <1>12, <1>13 DEF Nears, Rest, Keeps
<1>15. y.pt[e][p] = t
    BY <1>7, <1>8
<1>16. \A v : Holds(x, e, p, v) => Holds(y, e, p, v)
    BY <1>12, SMTT(30) DEF Keeps
<1>17. QED
    BY <1>3, <1>6, <1>8, <1>9, <1>14, <1>15, <1>16 DEF Marked

LEMMA MallocWorld ==
    ASSUME NEW x, NEW w, World(x, w), NEW C, w \in [Env -> [Page -> C]], x.ok,
           NEW e \in Env, x.status[e] = "live", NEW p \in HeapPages, ~x.pt[e][p].uhpage
    PROVE  LET y == pt_set_page_permissions(WithTable(x, e, p), e, p,
                      [x.pt[e][p] EXCEPT !.uhpage = TRUE, !.present = FALSE])
           IN  World(y, w) /\ y.ws = x.ws
<1> DEFINE t == [x.pt[e][p] EXCEPT !.uhpage = TRUE, !.present = FALSE]
           y == pt_set_page_permissions(WithTable(x, e, p), e, p, t)
<1>1. Base(x) /\ Good(x, e, w[e]) /\ WorkingSetOk(x, e) /\ p \in Page /\ p \notin ProgPages
    BY Disjoint DEF World, Good, Page
<1>2. t \in Entry /\ t.frame = x.pt[e][p].frame /\ t.uhpage /\ ~t.present
      /\ t.modified = x.pt[e][p].modified
  <2>1. x.pt[e][p] \in Entry
      BY <1>1, EntryFields DEF Base
  <2>2. QED
      BY <2>1, EntryMark
<1> HIDE DEF t
<1>3. Marked(x, y, e, p, t)
  <2>1. /\ Base(x) /\ p \in Page /\ t \in Entry /\ t.frame = x.pt[e][p].frame
        /\ t.modified = x.pt[e][p].modified /\ (t.present => x.pt[e][p].present)
      BY <1>1, <1>2
  <2>2. QED
      BY <2>1, MarkLemma
<1> HIDE DEF y
<1>4. WorkingSetOk(y, e)
  <2>1. x.algo # "OPTIMAL" => x.pt[e][p].frame = NULL
      BY <1>1 DEF Good, MarkedOk
  <2>2. x.algo # "OPTIMAL" => ~x.pt[e][p].present
      BY <1>1, <2>1 DEF Base, Tables
  <2>3. x.pt[e][p].present \in BOOLEAN /\ t.present \in BOOLEAN
      BY <1>1, <1>2, EntryFields DEF Base, Entry
  <2>4. x.algo # "OPTIMAL" =>
             \A q \in Page : /\ y.pt[e][q].frame = x.pt[e][q].frame
                             /\ y.pt[e][q].present = x.pt[e][q].present
      BY <1>2, <1>3, <2>2, <2>3 DEF Marked
  <2>5. QED
      BY <1>1, <1>3, <2>4, SameWorkingSet DEF Marked
<1>5. x.status[e] # "free"
    OBVIOUS
<1>6. w[e][p] # Unknown => Holds(y, e, p, w[e][p])
    BY <1>1, <1>3 DEF Good, Marked
<1>7. World(y, [w EXCEPT ![e][p] = w[e][p]])
    BY <1>1, <1>2, <1>3, <1>4, <1>5, <1>6, NearsWorld DEF Marked
<1>8. [w EXCEPT ![e][p] = w[e][p]] = w
    OBVIOUS
<1>9. QED
    BY <1>3, <1>7, <1>8 DEF Marked, Rest, y, t

-----------------------------------------------------------------------------
(* Freeing a page of the user heap.                                        *)

\* The page is brought in if it is to be read.
LEMMA FaultInLemma ==
    ASSUME NEW x, NEW e \in Env, NEW p \in Page, Faulting(x, e, p, FALSE), get_page_table(x, e, p),
           NEW y, y = IF InPageFile(x, e, p) /\ ~x.pt[e][p].present
                      THEN PageFault(x, e, p, FALSE) ELSE x
    PROVE  Moves(x, y, e, {p})
           /\ (y.ok => WorkingSetOk(y, e) /\ (InPageFile(y, e, p) => y.pt[e][p].frame # NULL))
<1>1. CASE InPageFile(x, e, p) /\ ~x.pt[e][p].present
  <2>1. Handled(x, y, e, p, FALSE)
    <3>1. y = PageFault(x, e, p, FALSE) /\ FALSE \in BOOLEAN
        BY <1>1
    <3>2. QED
        BY <3>1, PageFaultLemma
  <2>2. PICK z : \/ /\ Moves(x, z, e, {}) /\ y = z /\ ~z.ok
                 \/ Done(x, z, e, p) /\ y = z
      BY <2>1 DEF Handled
  <2>3. Moves(x, z, e, {}) => Moves(x, z, e, {p})
      BY DEF Moves
  <2>4. QED
      BY <2>2, <2>3 DEF Done
<1>2. CASE ~(InPageFile(x, e, p) /\ ~x.pt[e][p].present)
  <2>1. y = x
      BY <1>2
  <2>2. Base(x) /\ WorkingSetOk(x, e) /\ x.ok
      BY DEF Faulting
  <2>3. Moves(x, x, e, {p})
    <3>1. Bits(x, x, e)
        BY <2>2 DEF Bits, Rest, Base, Tables
    <3>2. QED
        BY <2>2, <3>1, BitsMoves
  <2>4. InPageFile(x, e, p) => x.pt[e][p].frame # NULL
      BY <1>2, <2>2 DEF Base, Tables
  <2>5. QED
      BY <2>1, <2>2, <2>3, <2>4
<1>3. QED
    BY <1>1, <1>2

\* It is read, and its place in the page file given up.
LEMMA FromFileLemma ==
    ASSUME NEW x, Base(x), NEW e \in Env, NEW p \in Page, x.ok => WorkingSetOk(x, e),
           x.ok /\ InPageFile(x, e, p) => x.pt[e][p].frame # NULL
    PROVE  LET y == RemoveFromFile(x, e, p)
           IN  /\ Nears(x, y, e, p) /\ (y.ok => WorkingSetOk(y, e)) /\ Rest(x, y)
               /\ \A q \in Page : q # p => y.pt[e][q] = x.pt[e][q]
               /\ y.pt[e][p].uhpage = x.pt[e][p].uhpage
<1>1. CASE ~(x.ok /\ InPageFile(x, e, p))
  <2>1. RemoveFromFile(x, e, p) = x
      BY <1>1 DEF RemoveFromFile
  <2>2. Nears(x, x, e, p)
      BY DEF Nears, Only
  <2>3. QED
      BY <2>1, <2>2 DEF Rest
<1>2. CASE x.ok /\ InPageFile(x, e, p)
  <2> DEFINE r == pf_read_env_page(x, e, p)
             y == pf_remove_env_page(r, e, p)
             f == x.pt[e][p].frame
  <2>1. RemoveFromFile(x, e, p) = y
      BY <1>2 DEF RemoveFromFile
  <2>2. f # NULL
      BY <1>2
  <2>3. /\ Base(r) /\ Rest(x, r) /\ r.dpt = x.dpt /\ r.dmem = x.dmem /\ r.ok = x.ok
        /\ \A a \in Env, q \in Page : a # e \/ q # p => r.pt[a][q] = x.pt[a][q]
        /\ r.pt[e][p].frame = f /\ r.pt[e][p].present = x.pt[e][p].present
        /\ r.pt[e][p].uhpage = x.pt[e][p].uhpage
        /\ \A g \in Frame : g # f => r.mem[g] = x.mem[g]
      BY <2>2, ReadLemma
  <2> HIDE DEF r
  <2>4. /\ Base(y) /\ Rest(r, y) /\ y.mem = r.mem /\ y.dmem = r.dmem /\ y.pt = r.pt
        /\ y.ok = r.ok
        /\ \A a \in Env, q \in Page : a # e \/ q # p => y.dpt[a][q] = r.dpt[a][q]
      BY <2>3, RemoveLemma, SMTT(30)
  <2> HIDE DEF y, f
  <2>5. /\ Rest(x, y) /\ y.dmem = x.dmem /\ y.ok = x.ok
        /\ \A a \in Env, q \in Page : a # e \/ q # p => /\ y.pt[a][q] = x.pt[a][q]
                                                        /\ y.dpt[a][q] = x.dpt[a][q]
        /\ \A q \in Page : /\ y.pt[e][q].frame = x.pt[e][q].frame
                           /\ y.pt[e][q].present = x.pt[e][q].present
      BY <2>3, <2>4 DEF Rest, f
  <2>6. Only(x, y, e)
      BY <2>4, <2>5, OnlyFrom DEF Base
  <2>7. ASSUME NEW a \in Env, NEW q \in Page, a # e \/ q # p, NEW v, Holds(x, a, q, v)
        PROVE  Holds(y, a, q, v)
    <3>1. x.pt[a][q].frame # NULL => x.pt[a][q].frame \in Frame /\ x.pt[a][q].frame # f
      <4>1. x.pt[a][q].frame \in Frame \union {NULL}
          BY EntryFields DEF Base
      <4>2. QED
          BY <2>7, <4>1 DEF Base, Store, f
    <3>2. x.pt[a][q].frame # NULL => y.mem[x.pt[a][q].frame] = x.mem[x.pt[a][q].frame]
        BY <2>3, <2>4, <3>1
    <3>3. y.pt[a][q] = x.pt[a][q] /\ y.dpt[a][q] = x.dpt[a][q] /\ y.dmem = x.dmem
        BY <2>5, <2>7
    <3>4. QED
        BY <2>7, <3>2, <3>3, HoldsSame
  <2>8. Nears(x, y, e, p)
      BY <2>4, <2>5, <2>6, <2>7 DEF Nears, Rest
  <2>9. WorkingSetOk(y, e)
      BY <1>2, <2>5, SameWorkingSet
  <2>10. QED
      BY <2>1, <2>3, <2>4, <2>5, <2>8, <2>9
<1>3. QED
    BY <1>1, <1>2

\* Taking a page out of memory, a table entry holding its frame or not.
LEMMA UnmapNears ==
    ASSUME NEW x, Base(x), NEW e \in Env, NEW p \in Page
    PROVE  LET y == unmap_frame(x, e, p)
           IN  /\ Nears(x, y, e, p) /\ Rest(x, y) /\ y.ok = x.ok
               /\ \A q \in Page : q # p => y.pt[e][q] = x.pt[e][q]
               /\ y.pt[e][p].frame = NULL /\ ~y.pt[e][p].present
               /\ y.pt[e][p].uhpage = x.pt[e][p].uhpage
<1>1. CASE x.pt[e][p].frame = NULL
  <2>1. unmap_frame(x, e, p) = x
      BY <1>1 DEF unmap_frame, get_frame_info
  <2>2. Nears(x, x, e, p)
      BY DEF Nears, Only
  <2>3. ~x.pt[e][p].present
      BY <1>1 DEF Base, Tables
  <2>4. QED
      BY <1>1, <2>1, <2>2, <2>3 DEF Rest
<1>2. CASE x.pt[e][p].frame # NULL
  <2> DEFINE y == unmap_frame(x, e, p)
             t == [NoEntry EXCEPT !.uhpage = x.pt[e][p].uhpage]
  <2>1. /\ Base(y) /\ Rest(x, y) /\ y.ok = x.ok
        /\ y.mem = x.mem /\ y.dmem = x.dmem /\ y.dpt = x.dpt
        /\ y.pt = [x.pt EXCEPT ![e][p] = t]
      BY <1>2, UnmapLemma
  <2> HIDE DEF y
  <2>2. t.frame = NULL /\ ~t.present /\ t.uhpage = x.pt[e][p].uhpage
      BY DEF NoEntry
  <2> HIDE DEF t
  <2>3. /\ \A a \in Env, q \in Page : y.pt[a][q] = IF a = e /\ q = p THEN t ELSE x.pt[a][q]
        /\ \A a \in Env \ {e} : y.pt[a] = x.pt[a]
    <3>1. x.pt \in [Env -> [Page -> Entry]]
        BY Fields DEF Base
    <3>2. QED
        BY <2>1, <3>1
  <2>4. Only(x, y, e)
      BY <2>1, <2>3 DEF Only
  <2>5. \A a \in Env, q \in Page : a # e \/ q # p =>
                     \A v : Holds(x, a, q, v) => Holds(y, a, q, v)
      BY <2>1, <2>3, HoldsSame, ZenonT(30)
  <2>6. Nears(x, y, e, p)
      BY <2>1, <2>3, <2>4, <2>5 DEF Nears, Rest
  <2>7. QED
      BY <2>1, <2>2, <2>3, <2>6 DEF y
<1>3. QED
    BY <1>1, <1>2

LEMMA RemoveAtType ==
    ASSUME NEW s \in Seq(Element), NEW i \in DOMAIN s
    PROVE  RemoveAt(s, i) \in Seq(Element)
<1>1. SubSeq(s, 1, i - 1) \in Seq(Element) /\ SubSeq(s, i + 1, Len(s)) \in Seq(Element)
    OBVIOUS
<1>2. QED
    BY <1>1 DEF RemoveAt

\* The page leaves memory and the working set.
LEMMA InvalidateLemma ==
    ASSUME NEW x, Base(x), NEW e \in Env, NEW p \in Page, x.ok => WorkingSetOk(x, e)
    PROVE  LET y == Invalidate(x, e, p)
           IN  /\ Nears(x, y, e, p)
               /\ \A q \in Page : q # p => y.pt[e][q] = x.pt[e][q]
               /\ y.pt[e][p].uhpage = x.pt[e][p].uhpage
               /\ y.ok => /\ WorkingSetOk(y, e)
                          /\ y.algo # "OPTIMAL" => y.pt[e][p].frame = NULL
<1>1. CASE ~x.ok \/ p \notin WSPages(x, e)
  <2>1. Invalidate(x, e, p) = x
      BY <1>1 DEF Invalidate, env_page_ws_invalidate
  <2>2. Nears(x, x, e, p)
      BY DEF Nears, Only
  <2>3. x.ok /\ x.algo # "OPTIMAL" => x.pt[e][p].frame = NULL
      BY <1>1 DEF WorkingSetOk, Resident
  <2>4. QED
      BY <2>1, <2>2, <2>3
<1>2. CASE x.ok /\ p \in WSPages(x, e)
  <2> DEFINE s == x.ws[e]
             i == IndexOf(s, p)
             u == unmap_frame(x, e, p)
             t == RemoveAt(s, i)
             n == IF i = Len(s) THEN NULL ELSE s[i + 1].va
             H == IF x.hand[e] = p THEN n ELSE x.hand[e]
             m == [u EXCEPT !.ws[e] = t]
             y == [m EXCEPT !.hand[e] = H]
  <2>1. /\ x \in KType /\ s \in Seq(Element) /\ x.hand[e] \in Page \union {NULL}
      BY Fields DEF Base
  <2>2. i \in DOMAIN s /\ s[i].va = p
    <3>1. p \in Vas(s)
        BY <1>2 DEF WSPages, Vas
    <3>2. QED
        BY <2>1, <3>1, IndexLemma
  <2>3. /\ Nears(x, u, e, p) /\ Rest(x, u) /\ u.ok = x.ok
        /\ \A q \in Page : q # p => u.pt[e][q] = x.pt[e][q]
        /\ u.pt[e][p].frame = NULL /\ ~u.pt[e][p].present
        /\ u.pt[e][p].uhpage = x.pt[e][p].uhpage
      BY UnmapNears
  <2>4. t \in Seq(Element)
      BY <2>1, <2>2, RemoveAtType
  <2>5. n \in Page \union {NULL}
    <3>1. i \in 1 .. Len(s) /\ Len(s) \in Nat
        BY <2>1, <2>2
    <3>2. CASE i # Len(s)
      <4>1. i + 1 \in 1 .. Len(s)
          BY <3>1, <3>2
      <4>2. s[i + 1] \in Element
          BY <2>1, <4>1
      <4>3. QED
          BY <3>2, <4>2 DEF Element
    <3>3. QED
        BY <3>2
  <2>6. H \in Page \union {NULL}
      BY <2>1, <2>5
  <2>7. Invalidate(x, e, p) = y
    <3>1. u \in KType /\ u.ws[e] = s /\ u.hand[e] = x.hand[e]
        BY <2>3 DEF Nears, Base, Rest
    <3>2. Invalidate(x, e, p) =
            [u EXCEPT !.ws[e] = RemoveAt(@, i), !.hand[e] = IF @ = p THEN n ELSE @]
        BY <1>2 DEF Invalidate, env_page_ws_invalidate
    <3> HIDE DEF u, i, s, n
    <3>3. QED
        BY <3>1, <3>2 DEF KType
  <2> HIDE DEF t, n, H, u
  <2>8. Arranges(u, m, e) /\ m.ws[e] = t /\ m.hand = u.hand
      BY <2>3, <2>4, SetWs DEF Nears, Base
  <2> HIDE DEF m
  <2>9. Arranges(m, y, e) /\ y.ws = m.ws
      BY <2>6, <2>8, PutHand DEF Arranges
  <2> HIDE DEF y
  <2>10. Arranges(u, y, e) /\ y.ws[e] = t
      BY <2>8, <2>9, ArrangesTrans
  <2>11. Nears(x, y, e, p)
    <3>1. Moves(u, y, e, {p})
        BY <2>3, <2>10, ArrangesMoves DEF Nears
    <3>2. QED
        BY <2>3, <3>1, NearsMoves, NearsTrans
  <2>12. y.pt = u.pt /\ y.algo = x.algo /\ y.max = x.max /\ y.ok = x.ok
         /\ (x.algo # "OPTIMAL" => y.active = x.active)
      BY <2>3, <2>10 DEF Arranges, Rest
  <2>13. ASSUME x.algo # "OPTIMAL" PROVE WorkingSetOk(y, e)
    <3>1. /\ Resident(x, e, WSPages(x, e)) /\ Once(s) /\ Len(s) <= x.max /\ x.active = <<>>
        BY <1>2, <2>13 DEF WorkingSetOk, OrderOk, Once
    <3>2. Less(s, t, p)
        BY <2>1, <2>2, <3>1, RemoveLess DEF t
    <3>3. WSPages(y, e) = WSPages(x, e) \ {p}
        BY <2>10, <3>2 DEF Less, Vas, WSPages
    <3>4. Resident(y, e, WSPages(y, e))
        BY <2>3, <2>12, <3>1, <3>3 DEF Resident
    <3>5. Len(y.ws[e]) < y.max
      <4>1. Len(s) \in Nat /\ x.max \in Nat
          BY <2>1 DEF KType
      <4>2. QED
          BY <2>10, <2>12, <3>1, <3>2, <4>1 DEF Less
    <3>6. OrderOk(y, e)
      <4>1. Len(y.ws[e]) \in Nat /\ y.max \in Nat
          BY <2>4, <2>10, Fields DEF Arranges
      <4>2. QED
          BY <2>10, <3>2, <3>5, <4>1 DEF OrderOk, Less, Once
    <3>7. HandOk(y, e)
      <4>1. Len(y.ws[e]) \in Nat /\ y.max \in Nat
          BY <2>4, <2>10, Fields DEF Arranges
      <4>2. QED
          BY <3>5, <4>1 DEF HandOk, Full
    <3>8. QED
        BY <2>12, <2>13, <3>1, <3>4, <3>6, <3>7 DEF WorkingSetOk
  <2>14. WorkingSetOk(y, e)
      BY <2>12, <2>13 DEF WorkingSetOk
  <2>15. QED
      BY <2>3, <2>7, <2>11, <2>12, <2>14
<1>3. QED
    BY <1>1, <1>2

\* The page p of e is no more marked in u; in z it is in memory if it is to be
\* read; in y it is in neither place.
Freeing(x, u, z, y, e, p) ==
    /\ u = pt_set_page_permissions(x, e, p, [x.pt[e][p] EXCEPT !.uhpage = FALSE])
    /\ z = IF InPageFile(u, e, p) /\ ~u.pt[e][p].present THEN PageFault(u, e, p, FALSE) ELSE u
    /\ y = Invalidate(RemoveFromFile(z, e, p), e, p)

\* Only p has been disturbed, and is not in memory.
Freed(x, u, z, y, e, p) ==
    /\ Marked(x, u, e, p, u.pt[e][p]) /\ ~u.pt[e][p].uhpage
    /\ WorkingSetOk(u, e) /\ Faulting(u, e, p, FALSE)
    /\ Moves(u, z, e, {p}) /\ Nears(z, y, e, p) /\ Nears(x, y, e, p)
    /\ \A q \in Page : q # p => y.pt[e][q] = z.pt[e][q]
    /\ y.pt[e][p].uhpage = z.pt[e][p].uhpage
    /\ y.ok => WorkingSetOk(y, e) /\ (y.algo # "OPTIMAL" => y.pt[e][p].frame = NULL)

LEMMA FreeNears ==
    ASSUME NEW x, NEW w, World(x, w), x.ok, NEW e \in Env, x.status[e] = "live",
           NEW p \in HeapPages, x.pt[e][p].uhpage,
           NEW u, NEW z, NEW y, Freeing(x, u, z, y, e, p)
    PROVE  Freed(x, u, z, y, e, p)
<1> DEFINE t == [x.pt[e][p] EXCEPT !.uhpage = FALSE]
           r == RemoveFromFile(z, e, p)
<1>1. Base(x) /\ WorkingSetOk(x, e) /\ p \in Page
    BY DEF World, Good, Page
<1>2. t \in Entry /\ t.frame = x.pt[e][p].frame /\ t.present = x.pt[e][p].present
      /\ t.modified = x.pt[e][p].modified /\ ~t.uhpage
  <2>1. x.pt[e][p] \in Entry
      BY <1>1, EntryFields, SMTT(30) DEF Base
  <2>2. QED
      BY <2>1, EntryMark
<1> HIDE DEF t
<1>3. Marked(x, u, e, p, t)
  <2>1. WithTable(x, e, p) = x
      BY <1>1 DEF WithTable, get_page_table, Base, Tables
  <2>2. /\ Base(x) /\ p \in Page /\ t \in Entry /\ t.frame = x.pt[e][p].frame
        /\ t.modified = x.pt[e][p].modified /\ (t.present => x.pt[e][p].present)
      BY <1>1, <1>2
  <2>3. Marked(x, pt_set_page_permissions(WithTable(x, e, p), e, p, t), e, p, t)
      BY <2>2, MarkLemma
  <2>4. QED
      BY <2>1, <2>3 DEF Freeing, t
<1>4. Nears(x, u, e, p) /\ Base(u) /\ WorkingSetOk(u, e) /\ u.ok /\ u.status = x.status
  <2>1. \A q \in Page : /\ u.pt[e][q].frame = x.pt[e][q].frame
                        /\ u.pt[e][q].present = x.pt[e][q].present
      BY <1>2, <1>3 DEF Marked
  <2>2. WorkingSetOk(u, e)
      BY <1>1, <1>3, <2>1, SameWorkingSet DEF Marked
  <2>3. QED
      BY <1>3, <2>2 DEF Marked, Nears
<1>5. Faulting(u, e, p, FALSE) /\ get_page_table(u, e, p)
    BY <1>3, <1>4, SMTT(30) DEF Faulting, MayBeNew, Marked, get_page_table
<1>6. Moves(u, z, e, {p})
      /\ (z.ok => WorkingSetOk(z, e) /\ (InPageFile(z, e, p) => z.pt[e][p].frame # NULL))
    BY <1>1, <1>5, FaultInLemma, ZenonT(30) DEF Freeing
<1>7. Base(z)
    BY <1>6 DEF Moves
<1>8. /\ Nears(z, r, e, p) /\ (r.ok => WorkingSetOk(r, e)) /\ Base(r)
      /\ \A q \in Page : q # p => r.pt[e][q] = z.pt[e][q]
      /\ r.pt[e][p].uhpage = z.pt[e][p].uhpage
  <2>1. /\ Nears(z, r, e, p) /\ (r.ok => WorkingSetOk(r, e))
        /\ \A q \in Page : q # p => r.pt[e][q] = z.pt[e][q]
        /\ r.pt[e][p].uhpage = z.pt[e][p].uhpage
      BY <1>1, <1>6, <1>7, FromFileLemma, SMTT(30)
  <2>2. QED
      BY <2>1 DEF Nears
<1>9. y = Invalidate(r, e, p)
    BY DEF Freeing
<1> HIDE DEF r
<1>10. /\ Nears(r, y, e, p)
       /\ \A q \in Page : q # p => y.pt[e][q] = r.pt[e][q]
       /\ y.pt[e][p].uhpage = r.pt[e][p].uhpage
       /\ y.ok => WorkingSetOk(y, e) /\ (y.algo # "OPTIMAL" => y.pt[e][p].frame = NULL)
    BY <1>1, <1>8, <1>9, InvalidateLemma
<1>11. Nears(z, y, e, p)
    BY <1>8, <1>10, NearsTrans
<1>12. Nears(x, y, e, p)
    BY <1>4, <1>6, <1>11, NearsMoves, NearsTrans
<1>13. u.pt[e][p] = t
    BY <1>3 DEF Marked
<1>14. QED
    BY <1>2, <1>3, <1>4, <1>5, <1>6, <1>8, <1>10, <1>11, <1>12, <1>13 DEF Freed

LEMMA FreeWorld ==
    ASSUME NEW x, NEW w, World(x, w), NEW C, w \in [Env -> [Page -> C]], x.ok,
           NEW e \in Env, x.status[e] = "live", NEW p \in HeapPages, x.pt[e][p].uhpage,
           NEW u, NEW z, NEW y, Freeing(x, u, z, y, e, p)
    PROVE  World(y, [w EXCEPT ![e][p] = Unknown])
<1>1. p \in Page /\ p \notin ProgPages
    BY Disjoint DEF Page
<1>2. /\ Nears(x, y, e, p)
      /\ y.ok => WorkingSetOk(y, e) /\ (y.algo # "OPTIMAL" => y.pt[e][p].frame = NULL)
  <2>1. Freed(x, u, z, y, e, p)
      BY FreeNears
  <2>2. QED
      BY <2>1 DEF Freed
<1>3. x.status[e] # "free"
    OBVIOUS
<1>4. QED
    BY <1>1, <1>2, <1>3, NearsWorld

-----------------------------------------------------------------------------
(* Loading a program.                                                      *)

\* From x to y nothing changes for the other environments.
Others(x, y, e) ==
    /\ Base(y) /\ y.algo = x.algo /\ y.max = x.max /\ y.status = x.status
    /\ x.algo # "OPTIMAL" => y.active = x.active
    /\ Only(x, y, e) /\ \A a \in Env \ {e} : y.ws[a] = x.ws[a] /\ y.hand[a] = x.hand[a]
    /\ y.ok => /\ x.ok
               /\ \A a \in Env \ {e}, q \in Page :
                     \A v : Holds(x, a, q, v) => Holds(y, a, q, v)

LEMMA NearsOthers ==
    ASSUME NEW x, NEW y, NEW e, NEW p, Nears(x, y, e, p)
    PROVE  Others(x, y, e)
BY DEF Nears, Others

LEMMA OthersTrans ==
    ASSUME NEW x, NEW y, NEW z, NEW e, Others(x, y, e), Others(y, z, e)
    PROVE  Others(x, z, e)
<1>1. Only(x, z, e)
    BY DEF Others, Only
<1>2. QED
    BY <1>1 DEF Others

\* The pages S of e have been loaded, some of them in memory too.
Loading(x, e, S) ==
    /\ Base(x) /\ Once(x.ws[e]) /\ Vas(x.ws[e]) \subseteq S
    /\ Resident(x, e, Vas(x.ws[e]))
    /\ x.ok => \A q \in S : x.dpt[e][q] # NULL /\ Holds(x, e, q, Image(q))

\* The page p, which is to hold v, has a frame or not, and none on disk yet.
Halfway(x, y, e, p, v) ==
    /\ Nears(x, y, e, p) /\ Once(y.ws[e]) /\ Vas(y.ws[e]) \subseteq Vas(x.ws[e]) \union {p}
    /\ Resident(y, e, Vas(y.ws[e]))
    /\ y.ok /\ y.pt[e][p].frame # NULL => y.mem[y.pt[e][p].frame] = v

LEMMA PlacedNears ==
    ASSUME NEW x, NEW y, NEW e \in Env, NEW p \in Page, NEW f, NEW u, Base(x),
           Placed(x, y, e, p, f, u)
    PROVE  Nears(x, y, e, p)
<1>1. \A a \in Env, q \in Page : a # e \/ q # p =>
                     \A v : Holds(x, a, q, v) => Holds(y, a, q, v)
    BY HoldsSame DEF Placed
<1>2. Only(x, y, e)
    BY OnlyFrom DEF Placed, Base
<1>3. QED
    BY <1>1, <1>2 DEF Placed, Nears, Rest

\* A page gets a frame with its contents, and a place in the working set.
LEMMA PlaceLemma ==
    ASSUME NEW x, NEW e \in Env, NEW S, Loading(x, e, S), NEW p \in Page, p \notin S,
           FreeFrame(x) # NULL, NEW v \in Content, NEW m,
           m = loadtime_map_frame(allocate_frame(x), e, FreeFrame(x), p),
           NEW t \in Entry, t.frame = m.pt[e][p].frame, t.present = m.pt[e][p].present,
           t.uhpage = m.pt[e][p].uhpage
    PROVE  LET y == SetHand(InsertTail(Filled(m, e, p, t, v), e, p), e)
           IN  /\ Halfway(x, y, e, p, v) /\ HandOk(y, e)
               /\ Len(y.ws[e]) = Len(x.ws[e]) + 1 /\ y.pt[e][p] = t /\ y.ok = x.ok
<1> DEFINE c == Filled(m, e, p, t, v)
           y == SetHand(InsertTail(c, e, p), e)
           f == FreeFrame(x)
<1>1. Base(x) /\ Once(x.ws[e]) /\ Resident(x, e, Vas(x.ws[e])) /\ p \notin Vas(x.ws[e])
    BY DEF Loading
<1>2. x.pt[e][p].frame = NULL
    BY <1>1 DEF Resident
<1>3. Placed(x, m, e, p, f, FALSE)
  <2>1. FALSE \in BOOLEAN
      OBVIOUS
  <2>2. QED
      BY <1>1, <1>2, <2>1, MapLemma
<1>4. Base(m) /\ m.pt[e][p].frame # NULL
  <2>1. f \in Frame
      BY <1>3 DEF Placed
  <2>2. QED
      BY <1>3, <2>1, Constants DEF Placed
<1> HIDE DEF f
<1>5. Fills(m, c, e, p, t, v)
    BY <1>4, FillLemma
<1> HIDE DEF c
<1>6. Nears(x, c, e, p) /\ Base(c) /\ c.ws = x.ws
  <2>1. Nears(x, m, e, p) /\ Nears(m, c, e, p)
      BY <1>1, <1>3, <1>5, PlacedNears DEF Fills
  <2>2. Base(c) /\ c.ws = x.ws
      BY <1>3, <1>5 DEF Placed, Fills, Rest, Nears
  <2>3. QED
      BY <2>1, <2>2, NearsTrans
<1>7. Tailed(c, y, e, p)
    BY <1>1, <1>6, InsertLemma DEF Base
<1> HIDE DEF y
<1>8. Nears(x, y, e, p)
  <2>1. Arranges(c, y, e)
      BY <1>7 DEF Tailed
  <2>2. Moves(c, y, e, {p})
      BY <1>6, <2>1, ArrangesMoves
  <2>3. QED
      BY <1>6, <2>2, NearsMoves, NearsTrans
<1>9. y.pt = c.pt /\ y.mem = c.mem
    BY <1>7 DEF Tailed, Arranges
<1>10. Vas(y.ws[e]) = Vas(x.ws[e]) \union {p} /\ Once(y.ws[e]) /\ HandOk(y, e)
       /\ Len(y.ws[e]) = Len(x.ws[e]) + 1
    BY <1>6, <1>7 DEF Tailed
<1>11. t.frame # NULL /\ t.present /\ y.pt[e][p] = t /\ y.mem[t.frame] = v
    BY <1>3, <1>5, <1>9 DEF Fills, Placed
<1>12. \A q \in Page : q # p => y.pt[e][q] = x.pt[e][q]
    BY <1>3, <1>5, <1>9 DEF Fills, Placed
<1>13. Resident(y, e, Vas(y.ws[e]))
    BY <1>1, <1>10, <1>11, <1>12 DEF Resident
<1>14. Halfway(x, y, e, p, v)
    BY <1>8, <1>10, <1>11, <1>13 DEF Halfway
<1>15. y.ok = x.ok
    BY <1>3, <1>5, <1>7 DEF Placed, Fills, Tailed, Arranges
<1>16. QED
    BY <1>10, <1>11, <1>14, <1>15 DEF y, c

\* The page is written to the page file.
LEMMA AddLemma ==
    ASSUME NEW x, Base(x), NEW e \in Env, NEW p \in Page, NEW v \in Content
    PROVE  LET y == AddToFile(x, e, p, v)
           IN  /\ Nears(x, y, e, p) /\ Rest(x, y) /\ y.pt = x.pt /\ y.mem = x.mem
               /\ y.ok => y.dpt[e][p] # NULL /\ y.dmem[y.dpt[e][p]] = v
<1>1. CASE ~x.ok
  <2>1. AddToFile(x, e, p, v) = x
      BY <1>1 DEF AddToFile
  <2>2. Nears(x, x, e, p) /\ Rest(x, x)
      BY DEF Nears, Only, Rest
  <2>3. QED
      BY <1>1, <2>1, <2>2
<1>2. CASE x.ok
  <2> DEFINE n == pf_add_empty_env_page(x, e, p)
             d == n.dpt[e][p]
             D == [n.dmem EXCEPT ![d] = v]
             y == [n EXCEPT !.dmem = D]
  <2>1. /\ Base(n) /\ Rest(x, n) /\ n.mem = x.mem /\ n.dmem = x.dmem /\ n.pt = x.pt
        /\ \A a \in Env, q \in Page : a # e \/ q # p => n.dpt[a][q] = x.dpt[a][q]
        /\ n.ok => x.ok /\ n.dpt[e][p] # NULL
      BY AddEmptyLemma
  <2> HIDE DEF n
  <2>2. Only(x, n, e)
      BY <2>1, OnlyFrom DEF Base
  <2>3. Nears(x, n, e, p)
    <3>1. \A a \in Env, q \in Page : a # e \/ q # p =>
                     \A u : Holds(x, a, q, u) => Holds(n, a, q, u)
        BY <2>1, HoldsSame
    <3>2. QED
        BY <2>1, <2>2, <3>1 DEF Nears, Rest
  <2>4. CASE ~n.ok
    <3>1. AddToFile(x, e, p, v) = n
        BY <1>2, <2>4 DEF AddToFile, pf_add_env_page, WriteOut, n
    <3>2. QED
        BY <2>1, <2>3, <2>4, <3>1
  <2>5. CASE n.ok
    <3>1. AddToFile(x, e, p, v) = y
        BY <1>2, <2>5 DEF AddToFile, pf_add_env_page, WriteOut, write_disk_page, n
    <3>2. n \in KType /\ n.dmem \in [DFrame -> Content] /\ d \in DFrame
        BY <2>1, <2>5, Fields, EntryFields DEF Base
    <3> HIDE DEF d
    <3>3. D \in [DFrame -> Content] /\ \A g \in DFrame : D[g] = IF g = d THEN v ELSE n.dmem[g]
        BY <3>2
    <3> HIDE DEF D
    <3>4. /\ y \in KType /\ Rest(n, y) /\ y.h = n.h /\ y.refs = n.refs /\ y.mem = n.mem
          /\ y.dmem = D /\ y.dpt = n.dpt /\ y.pt = n.pt /\ y.ok = n.ok /\ y.dir = n.dir
        BY <3>2, <3>3, ZenonT(30) DEF KType, Rest
    <3> HIDE DEF y
    <3>5. Marks(n, y)
        BY <2>1, <3>4 DEF Marks, Base, Tables
    <3>6. Base(y)
        BY <2>1, <3>5, StoreBits
    <3>7. ASSUME NEW a \in Env, NEW q \in Page, a # e \/ q # p, NEW u, Holds(n, a, q, u)
          PROVE  Holds(y, a, q, u)
      <4>1. n.dpt[a][q] # NULL => n.dpt[a][q] \in DFrame /\ n.dpt[a][q] # d
        <5>1. n.dpt[a][q] \in DFrame \union {NULL}
            BY <3>2, EntryFields
        <5>2. QED
            BY <2>1, <3>7, <5>1 DEF Base, Store, d
      <4>2. n.dpt[a][q] # NULL => y.dmem[n.dpt[a][q]] = n.dmem[n.dpt[a][q]]
          BY <3>3, <3>4, <4>1
      <4>3. QED
          BY <3>4, <3>7, <4>2, HoldsSame
    <3>8. Nears(n, y, e, p)
      <4>1. Only(n, y, e)
          BY <3>4 DEF Only
      <4>2. QED
          BY <2>1, <3>4, <3>6, <3>7, <4>1 DEF Nears, Rest
    <3>9. Nears(x, y, e, p)
        BY <2>3, <3>8, NearsTrans
    <3>10. Rest(x, y)
        BY <2>1, <3>4 DEF Rest
    <3>11. y.dpt[e][p] # NULL /\ y.dmem[y.dpt[e][p]] = v
        BY <2>1, <2>5, <3>2, <3>3, <3>4 DEF d
    <3>12. QED
        BY <2>1, <3>1, <3>4, <3>9, <3>10, <3>11
  <2>6. QED
      BY <2>4, <2>5
<1>3. QED
    BY <1>1, <1>2

\* And then it has a place in the page file; so have the pages S.
Filed(x, y, z, e, p, v, S) ==
    /\ Nears(x, z, e, p) /\ Rest(y, z) /\ z.pt = y.pt
    /\ Base(z) /\ Once(z.ws[e]) /\ Vas(z.ws[e]) \subseteq S \union {p}
    /\ Resident(z, e, Vas(z.ws[e]))
    /\ z.ok => /\ z.dpt[e][p] # NULL /\ Holds(z, e, p, v)
               /\ \A q \in S \ {p} : q \in Page => /\ z.dpt[e][q] # NULL
                                                   /\ Holds(z, e, q, Image(q))

\* Whatever is in memory of a page half way holds what goes to the page file.
LEMMA FiledLemma ==
    ASSUME NEW x, NEW e \in Env, NEW p \in Page, NEW v \in Content, NEW y, Halfway(x, y, e, p, v),
           NEW S, Loading(x, e, S), NEW z, z = AddToFile(y, e, p, v)
    PROVE  Filed(x, y, z, e, p, v, S)
<1>1. Nears(x, y, e, p) /\ Base(y)
    BY DEF Halfway, Nears
<1>2. /\ Nears(y, z, e, p) /\ Rest(y, z) /\ z.pt = y.pt /\ z.mem = y.mem
      /\ z.ok => z.dpt[e][p] # NULL /\ z.dmem[z.dpt[e][p]] = v
    BY <1>1, AddLemma
<1>3. Nears(x, z, e, p)
    BY <1>1, <1>2, NearsTrans
<1>4. Base(z)
    BY <1>3 DEF Nears
<1>5. z.ws = y.ws /\ Once(z.ws[e]) /\ Vas(z.ws[e]) \subseteq S \union {p}
      /\ Resident(z, e, Vas(z.ws[e]))
    BY <1>2, SMTT(30) DEF Halfway, Loading, Rest, Resident
<1>6. z.ok => z.dpt[e][p] # NULL /\ Holds(z, e, p, v)
    BY <1>2, SMTT(30) DEF Nears, Halfway, Holds
<1>7. ASSUME z.ok, NEW q \in S \ {p}, q \in Page
      PROVE  z.dpt[e][q] # NULL /\ Holds(z, e, q, Image(q))
  <2>1. x.ok /\ x.dpt[e][q] # NULL /\ Holds(x, e, q, Image(q))
      BY <1>3, <1>7 DEF Nears, Loading
  <2>2. QED
      BY <1>3, <1>7, <2>1 DEF Nears
<1>8. QED
    BY <1>2, <1>3, <1>4, <1>5, <1>6, <1>7 DEF Filed

\* A page of a segment in memory, or not for want of frames.
LEMMA SegmentLemma ==
    ASSUME NEW x, NEW e \in Env, NEW S, Loading(x, e, S), NEW p \in Page, p \notin S
    PROVE  LET y == program_segment_alloc_map_copy_workingset(x, e, p)
           IN  Halfway(x, y, e, p, Image(p)) /\ Len(y.ws[e]) <= Len(x.ws[e]) + 1
<1>1. Base(x) /\ x.ws[e] \in Seq(Element)
    BY Fields DEF Loading, Base
<1>2. Len(x.ws[e]) \in Nat
    BY <1>1
<1>3. CASE FreeFrame(x) = NULL
  <2>1. program_segment_alloc_map_copy_workingset(x, e, p) = Panic(x)
      BY <1>3 DEF program_segment_alloc_map_copy_workingset, allocate_frame
  <2>2. Moves(x, Panic(x), e, {p}) /\ ~Panic(x).ok
      BY <1>1, PanicMoves
  <2>3. Rest(x, Panic(x)) /\ Panic(x).pt = x.pt
      BY <1>1, PanicLemma
  <2>4. Halfway(x, Panic(x), e, p, Image(p))
      BY <2>2, <2>3, NearsMoves DEF Halfway, Loading, Rest, Resident
  <2>5. QED
      BY <1>2, <2>1, <2>3, <2>4 DEF Rest
<1>4. CASE FreeFrame(x) # NULL
  <2> DEFINE f == FreeFrame(x)
             m == loadtime_map_frame(allocate_frame(x), e, f, p)
             t == [m.pt[e][p] EXCEPT !.used = TRUE]
             y == SetHand(InsertTail(Filled(m, e, p, t, Image(p)), e, p), e)
  <2>1. x.pt[e][p].frame = NULL
      BY DEF Loading, Resident
  <2>2. m.pt[e][p] \in Entry /\ m.pt[e][p].frame = f
    <3>1. FALSE \in BOOLEAN
        OBVIOUS
    <3>2. Placed(x, m, e, p, f, FALSE)
        BY <1>1, <1>4, <2>1, <3>1, MapLemma
    <3>3. QED
        BY <3>2, EntryFields DEF Placed, Base
  <2> HIDE DEF m, f
  <2>3. /\ t \in Entry /\ t.frame = m.pt[e][p].frame /\ t.present = m.pt[e][p].present
        /\ t.uhpage = m.pt[e][p].uhpage
      BY <2>2, EntryBits
  <2>4. program_segment_alloc_map_copy_workingset(x, e, p) = y
    <3>1. [m EXCEPT !.mem[f] = Image(p), !.pt[e][p].used = TRUE] = Filled(m, e, p, t, Image(p))
        BY <2>2 DEF Filled
    <3>2. program_segment_alloc_map_copy_workingset(x, e, p) =
            SetHand(InsertTail([m EXCEPT !.mem[f] = Image(p), !.pt[e][p].used = TRUE], e, p), e)
        BY <1>4 DEF program_segment_alloc_map_copy_workingset, m, f
    <3>3. QED
        BY <3>1, <3>2
  <2> HIDE DEF t
  <2>5. Image(p) \in Content
      BY DEF Content
  <2>6. Halfway(x, y, e, p, Image(p)) /\ Len(y.ws[e]) = Len(x.ws[e]) + 1
      BY <1>4, <2>3, <2>5, PlaceLemma DEF m, f
  <2>7. QED
      BY <1>2, <2>4, <2>6
<1>5. QED
    BY <1>3, <1>4

\* One turn of the loop over the pages of the program.
LEMMA LoadPageLemma ==
    ASSUME NEW x, NEW e \in Env, NEW S \in SUBSET Page, Loading(x, e, S), NEW p \in Page,
           p \notin S, NEW room \in BOOLEAN
    PROVE  LET z == LoadPage(x, e, p, room)
           IN  /\ Others(x, z, e) /\ Loading(z, e, S \union {p})
               /\ Len(z.ws[e]) <= Len(x.ws[e]) + (IF room THEN 1 ELSE 0)
<1> DEFINE y == IF room THEN program_segment_alloc_map_copy_workingset(x, e, p) ELSE x
           z == AddToFile(y, e, p, Image(p))
<1>1. Base(x) /\ Len(x.ws[e]) \in Nat
    BY Fields DEF Loading, Base
<1>2. Halfway(x, y, e, p, Image(p)) /\ Len(y.ws[e]) <= Len(x.ws[e]) + (IF room THEN 1 ELSE 0)
  <2>1. CASE room
      BY <2>1, SegmentLemma
  <2>2. CASE ~room
    <3>1. Nears(x, x, e, p)
        BY <1>1 DEF Nears, Only
    <3>2. x.pt[e][p].frame = NULL
        BY DEF Loading, Resident
    <3>3. QED
        BY <1>1, <2>2, <3>1, <3>2 DEF Halfway, Loading
  <2>3. QED
      BY <2>1, <2>2
<1> HIDE DEF y
<1>3. Image(p) \in Content /\ z = AddToFile(y, e, p, Image(p))
    BY DEF Content
<1>4. LoadPage(x, e, p, room) = z
    BY DEF LoadPage, y
<1> HIDE DEF z
<1>5. Filed(x, y, z, e, p, Image(p), S)
    BY <1>2, <1>3, FiledLemma
<1>6. Loading(z, e, S \union {p})
    BY <1>5 DEF Loading, Filed
<1>7. z.ws = y.ws
    BY <1>5 DEF Rest, Filed
<1>8. Others(x, z, e)
    BY <1>5, NearsOthers DEF Filed
<1>9. QED
    BY <1>2, <1>4, <1>6, <1>7, <1>8

-----------------------------------------------------------------------------
(* Loops over the frames and over the pages of a program.                  *)

\* The pages of the program that the first n turns of the loop load.
Got(n) == {Ascending(ProgPages)[i] : i \in 1 .. n}

\* The states after n turns that began in x.
Turns(x, e, n) ==
    {y \in KType : /\ Others(x, y, e) /\ Loading(y, e, Got(n))
                   /\ Len(y.ws[e]) <= n /\ Len(y.ws[e]) <= x.max - 1}

\* The order of frames_info[], and of the program's pages, has each element once.
LEMMA InOrder ==
    ASSUME NEW X \in SUBSET Nat, IsFiniteSet(X)
    PROVE  /\ Cardinality(X) \in Nat /\ \A i \in 1 .. Cardinality(X) : Ascending(X)[i] \in X
           /\ \A i, j \in 1 .. Cardinality(X) : Ascending(X)[i] = Ascending(X)[j] => i = j
           /\ \A x \in X : \E i \in 1 .. Cardinality(X) : Ascending(X)[i] = x
           /\ Len(Ascending(X)) = Cardinality(X)
<1> DEFINE A == Ascending(X)
<1>1. A = [i \in 1 .. Cardinality(X) |-> CHOOSE x \in X : Cardinality({y \in X : y <= x}) = i]
    BY DEF Ascending
<1> HIDE DEF A
<1>2. QED
    BY <1>1, AscendingLemma DEF A

LEMMA TurnLemma ==
    ASSUME NEW x, Base(x), NEW e \in Env, NEW n \in 1 .. Cardinality(ProgPages),
           NEW y \in Turns(x, e, n - 1)
    PROVE  LoadPage(y, e, Ascending(ProgPages)[n], n <= x.max - 1) \in Turns(x, e, n)
<1> DEFINE p == Ascending(ProgPages)[n]
           z == LoadPage(y, e, p, n <= x.max - 1)
           N == Cardinality(ProgPages)
<1>1. /\ N \in Nat /\ ProgPages \subseteq Page /\ n \in Nat /\ n - 1 \in 0 .. N
      /\ \A i \in 1 .. N : Ascending(ProgPages)[i] \in ProgPages
      /\ \A i, j \in 1 .. N : Ascending(ProgPages)[i] = Ascending(ProgPages)[j] => i = j
  <2>1. ProgPages \in SUBSET Nat /\ IsFiniteSet(ProgPages) /\ ProgPages \subseteq Page
      BY LoadAssumption, Constants DEF Page
  <2>2. QED
      BY <2>1, InOrder
<1>2. p \in Page /\ p \notin Got(n - 1) /\ Got(n - 1) \subseteq Page /\ Got(n) = Got(n - 1) \union {p}
  <2>1. 1 .. n = (1 .. n - 1) \union {n} /\ n \notin 1 .. n - 1
      BY <1>1
  <2>2. \A i \in 1 .. n - 1 : i \in 1 .. N /\ i # n
      BY <1>1
  <2>3. QED
      BY <1>1, <2>1, <2>2 DEF Got
<1>3. /\ y \in KType /\ Others(x, y, e) /\ Loading(y, e, Got(n - 1))
      /\ Len(y.ws[e]) <= n - 1 /\ Len(y.ws[e]) <= x.max - 1
    BY DEF Turns
<1>4. x.max \in Nat \ {0} /\ Len(y.ws[e]) \in Nat
    BY <1>3, Fields DEF Base
<1>5. (n <= x.max - 1) \in BOOLEAN
    OBVIOUS
<1> DEFINE room == n <= x.max - 1
<1>6. /\ Others(y, z, e) /\ Loading(z, e, Got(n - 1) \union {p})
      /\ Len(z.ws[e]) <= Len(y.ws[e]) + (IF room THEN 1 ELSE 0)
  <2>1. /\ Got(n - 1) \in SUBSET Page /\ Loading(y, e, Got(n - 1)) /\ p \in Page
        /\ p \notin Got(n - 1) /\ room \in BOOLEAN
      BY <1>2, <1>3
  <2> HIDE DEF room, p
  <2>2. z = LoadPage(y, e, p, room)
      BY DEF room
  <2> HIDE DEF z
  <2>3. QED
      BY <2>1, <2>2, LoadPageLemma
<1> HIDE DEF z, p
<1>7. Others(x, z, e)
    BY <1>3, <1>6, OthersTrans
<1>8. z \in KType
    BY <1>6 DEF Others, Base
<1>9. Len(z.ws[e]) \in Nat
    BY <1>8, Fields
<1>10. Len(z.ws[e]) <= n /\ Len(z.ws[e]) <= x.max - 1
  <2>1. CASE n <= x.max - 1
    <3>1. Len(z.ws[e]) <= Len(y.ws[e]) + 1
        BY <1>6, <2>1
    <3>2. \A l, m, j, c \in Nat : m <= j - 1 /\ j <= c - 1 /\ l <= m + 1 => l <= j /\ l <= c - 1
        OBVIOUS
    <3> HIDE DEF room
    <3>3. QED
        BY <1>1, <1>3, <1>4, <1>9, <2>1, <3>1, <3>2
  <2>2. CASE ~(n <= x.max - 1)
    <3>1. Len(z.ws[e]) <= Len(y.ws[e])
        BY <1>4, <1>6, <2>2
    <3>2. \A l, m, j, c \in Nat : m <= j - 1 /\ m <= c - 1 /\ l <= m => l <= j /\ l <= c - 1
        OBVIOUS
    <3> HIDE DEF room
    <3>3. QED
        BY <1>1, <1>3, <1>4, <1>9, <3>1, <3>2
  <2>3. QED
      BY <2>1, <2>2
<1>11. z \in Turns(x, e, n)
    BY <1>2, <1>6, <1>7, <1>8, <1>10 DEF Turns
<1>12. QED
    BY <1>11 DEF z, p

\* All of the program is loaded, and there is a place left for the stack.
LEMMA SegmentsLemma ==
    ASSUME NEW x, NEW e \in Env, Loading(x, e, {}), x.ws[e] = <<>>
    PROVE  LET y == LoadSegments(x, e)
           IN  Others(x, y, e) /\ Loading(y, e, ProgPages) /\ Len(y.ws[e]) < x.max
<1> DEFINE N == Cardinality(ProgPages)
           A == Ascending(ProgPages)
           Step(n, y) == LoadPage(y, e, A[n], n <= x.max - 1)
           I == [n \in 0 .. N |-> Turns(x, e, n)]
           F == [n \in 1 .. N |-> [y \in KType |-> Step(n, y)]]
<1>1. N \in Nat /\ Got(N) = ProgPages /\ Got(0) = {}
  <2>1. ProgPages \in SUBSET Nat /\ IsFiniteSet(ProgPages)
      BY LoadAssumption, Constants DEF Page
  <2>2. N \in Nat /\ (\A i \in 1 .. N : A[i] \in ProgPages)
        /\ \A p \in ProgPages : \E i \in 1 .. N : A[i] = p
      BY <2>1, InOrder
  <2>3. QED
      BY <2>2 DEF Got
<1>2. Base(x) /\ x.max \in Nat \ {0} /\ x \in KType
    BY Fields DEF Loading, Base
<1>3. x \in Turns(x, e, 0)
  <2>1. Others(x, x, e)
      BY <1>2 DEF Others, Only
  <2>2. Len(x.ws[e]) = 0 /\ 0 <= x.max - 1
      BY <1>2
  <2>3. Len(x.ws[e]) <= 0 /\ Len(x.ws[e]) <= x.max - 1
      BY <2>2
  <2>4. Loading(x, e, Got(0))
      BY <1>1
  <2>5. QED
      BY <1>2, <2>1, <2>3, <2>4 DEF Turns
<1>4. \A n \in 1 .. N : \A y \in Turns(x, e, n - 1) : Step(n, y) \in Turns(x, e, n)
    BY <1>2, TurnLemma
<1>5. \A n : Turns(x, e, n) \subseteq KType
    BY DEF Turns
<1> HIDE DEF N, Step
<1>6. I \in [0 .. N -> SUBSET KType] /\ x \in I[0]
    BY <1>1, <1>3, <1>5
<1>7. \A n \in 1 .. N : \A y \in I[n - 1] : F[n][y] \in I[n]
  <2> TAKE n \in 1 .. N
  <2>1. n - 1 \in 0 .. N /\ n \in 0 .. N
      BY <1>1
  <2> TAKE y \in I[n - 1]
  <2>2. y \in Turns(x, e, n - 1) /\ y \in KType
      BY <1>5, <2>1
  <2>3. F[n][y] = Step(n, y)
      BY <2>2
  <2>4. QED
      BY <1>4, <2>1, <2>2, <2>3
<1>8. PICK g : /\ g = [n \in 0 .. N |-> IF n = 0 THEN x ELSE F[n][g[n - 1]]]
               /\ \A n \in 0 .. N : g[n] \in I[n]
  <2> HIDE DEF I, F
  <2>1. \E g : Loop(g, x, N, F, I)
      BY <1>1, <1>6, <1>7, LoopLemma
  <2>2. QED
      BY <2>1 DEF Loop
<1>9. \A n \in 1 .. N : F[n][g[n - 1]] = Step(n, g[n - 1])
  <2> TAKE n \in 1 .. N
  <2>1. n - 1 \in 0 .. N
      BY <1>1
  <2>2. g[n - 1] \in KType
      BY <1>5, <1>8, <2>1
  <2>3. QED
      BY <2>2
<1> HIDE DEF F
<1>10. \E f : f = [n \in 0 .. N |-> IF n = 0 THEN x ELSE LoadPage(f[n - 1], e, A[n], n <= x.max - 1)]
  <2>1. g = [n \in 0 .. N |-> IF n = 0 THEN x ELSE LoadPage(g[n - 1], e, A[n], n <= x.max - 1)]
    <3>1. \A n \in 0 .. N : (IF n = 0 THEN x ELSE F[n][g[n - 1]])
                          = IF n = 0 THEN x ELSE LoadPage(g[n - 1], e, A[n], n <= x.max - 1)
        BY <1>1, <1>9 DEF Step
    <3>2. QED
        BY <1>8, <3>1
  <2>2. QED
      BY <2>1
<1> DEFINE b[n \in 0 .. N] ==
             IF n = 0 THEN x ELSE LoadPage(b[n - 1], e, A[n], n <= x.max - 1)
<1>11. b = [n \in 0 .. N |-> IF n = 0 THEN x ELSE LoadPage(b[n - 1], e, A[n], n <= x.max - 1)]
    BY <1>10, Zenon
<1>12. LoadSegments(x, e) = b[N]
    BY DEF LoadSegments, N
<1> HIDE DEF b
<1>13. b[0] = x /\ \A n \in 1 .. N : b[n] = Step(n, b[n - 1])
    BY <1>1, <1>11 DEF Step
<1> DEFINE S == {n \in 0 .. N : b[n] \in Turns(x, e, n)}
<1>14. 0 \in S /\ \A n \in 1 .. N : n - 1 \in S => n \in S
    BY <1>1, <1>3, <1>4, <1>13
<1>15. N \in S
  <2> HIDE DEF S
  <2>1. 0 .. N \subseteq S
      BY <1>1, <1>14, BoundedInduction
  <2>2. QED
      BY <1>1, <2>1
<1>16. b[N] \in Turns(x, e, N)
    BY <1>15
<1>17. b[N] \in KType /\ Len(b[N].ws[e]) <= x.max - 1
    BY <1>16 DEF Turns
<1>18. Len(b[N].ws[e]) \in Nat
    BY <1>17, Fields
<1>19. Len(b[N].ws[e]) < x.max
    BY <1>2, <1>17, <1>18
<1>20. QED
    BY <1>1, <1>12, <1>16, <1>19 DEF Turns

\* A program that is loaded: its segments, and its stack on the page p.
Loaded(x, e, p) ==
    /\ Once(x.ws[e]) /\ Len(x.ws[e]) <= x.max /\ HandOk(x, e)
    /\ Vas(x.ws[e]) \subseteq ProgPages \union {p} /\ Resident(x, e, Vas(x.ws[e]))
    /\ \A q \in ProgPages : x.dpt[e][q] # NULL /\ Holds(x, e, q, Image(q))
    /\ Holds(x, e, p, Zero)

LEMMA StackLemma ==
    ASSUME NEW x, NEW e \in Env, Loading(x, e, ProgPages), Len(x.ws[e]) < x.max
    PROVE  LET z == LoadStack(x, e)
           IN  Others(x, z, e) /\ (z.ok => Loaded(z, e, StackTop))
<1> DEFINE p == StackTop
<1>1. p \in StackPages /\ p \in Page /\ p \notin ProgPages /\ ProgPages \subseteq Page
  <2>1. p \in StackPages
      BY LoadAssumption DEF StackTop
  <2>2. QED
      BY <2>1, Disjoint DEF Page
<1>2. Base(x) /\ x.max \in Nat /\ Len(x.ws[e]) \in Nat
    BY Fields DEF Loading, Base
<1> HIDE DEF p
<1>3. CASE ~x.ok
  <2>1. LoadStack(x, e) = x
      BY <1>3 DEF LoadStack
  <2>2. Others(x, x, e)
      BY <1>2 DEF Others, Only
  <2>3. QED
      BY <1>3, <2>1, <2>2
<1>4. CASE x.ok /\ FreeFrame(x) = NULL
  <2>1. LoadStack(x, e) = Panic(x)
      BY <1>4 DEF LoadStack, allocate_frame
  <2>2. Moves(x, Panic(x), e, {p}) /\ ~Panic(x).ok
      BY <1>2, PanicMoves
  <2>3. Others(x, Panic(x), e)
      BY <2>2, NearsMoves, NearsOthers
  <2>4. QED
      BY <2>1, <2>2, <2>3
<1>5. CASE x.ok /\ FreeFrame(x) # NULL
  <2> DEFINE f == FreeFrame(x)
             m == loadtime_map_frame(allocate_frame(x), e, f, p)
             t == [m.pt[e][p] EXCEPT !.used = TRUE, !.modified = TRUE]
             y == SetHand(InsertTail(Filled(m, e, p, t, Zero), e, p), e)
             z == AddToFile(y, e, p, Zero)
  <2>1. x.pt[e][p].frame = NULL
      BY <1>1 DEF Loading, Resident
  <2>2. m.pt[e][p] \in Entry /\ m.pt[e][p].frame = f /\ m \in KType
    <3>1. FALSE \in BOOLEAN
        OBVIOUS
    <3>2. Placed(x, m, e, p, f, FALSE)
        BY <1>1, <1>2, <1>5, <2>1, <3>1, MapLemma
    <3>3. QED
        BY <1>1, <3>2, EntryFields DEF Placed, Base
  <2> HIDE DEF m, f
  <2>3. /\ t \in Entry /\ t.frame = m.pt[e][p].frame /\ t.present = m.pt[e][p].present
        /\ t.uhpage = m.pt[e][p].uhpage
      BY <2>2 DEF Entry
  <2>4. Zero \in Content
      BY PageFileAssumption DEF Content
  <2>5. [m EXCEPT !.mem[f] = Zero, !.pt[e][p] = [@ EXCEPT !.used = TRUE, !.modified = TRUE]]
          = Filled(m, e, p, t, Zero)
      BY <2>2 DEF Filled
  <2> HIDE DEF t
  <2>6. Halfway(x, y, e, p, Zero) /\ HandOk(y, e) /\ Len(y.ws[e]) = Len(x.ws[e]) + 1 /\ y.ok = x.ok
    <3>1. /\ m = loadtime_map_frame(allocate_frame(x), e, FreeFrame(x), p)
          /\ Loading(x, e, ProgPages) /\ FreeFrame(x) # NULL /\ p \in Page /\ p \notin ProgPages
        BY <1>1, <1>5 DEF m, f
    <3>2. QED
        BY <2>3, <2>4, <3>1, PlaceLemma
  <2>7. LoadStack(x, e) = z
    <3>1. LoadStack(x, e) = pf_add_env_page(y, e, p, Zero)
        BY <1>5, <2>5 DEF LoadStack, m, f, p
    <3>2. z = pf_add_env_page(y, e, p, Zero)
        BY <1>5, <2>6 DEF AddToFile
    <3>3. QED
        BY <3>1, <3>2
  <2> HIDE DEF y
  <2>8. z = AddToFile(y, e, p, Zero)
      OBVIOUS
  <2> HIDE DEF z
  <2>9. Filed(x, y, z, e, p, Zero, ProgPages)
      BY <1>1, <2>4, <2>6, <2>8, FiledLemma
  <2>10. HandOk(z, e)
      BY <2>6, <2>9 DEF Filed, Rest, HandOk, HandLost, Full, WSPages
  <2>11. Len(z.ws[e]) <= z.max
    <3>1. z.ws = y.ws /\ z.max = x.max
        BY <2>9 DEF Filed, Rest, Nears
    <3>2. QED
        BY <1>2, <2>6, <3>1
  <2>12. z.ok => \A q \in ProgPages : z.dpt[e][q] # NULL /\ Holds(z, e, q, Image(q))
      BY <1>1, <2>9 DEF Filed
  <2>13. z.ok => Loaded(z, e, p)
      BY <2>9, <2>10, <2>11, <2>12 DEF Filed, Loaded
  <2>14. Others(x, z, e)
      BY <2>9, NearsOthers DEF Filed
  <2>15. QED
      BY <2>7, <2>13, <2>14 DEF p
<1>6. QED
    BY <1>3, <1>4, <1>5

\* A process structure from the free list.
LEMMA StructureLemma ==
    ASSUME NEW x, Base(x), Fresh(x), NEW e \in Env, x.status[e] = "free"
    PROVE  LET y == initialize_environment(x, e)
           IN  /\ Loading(y, e, {}) /\ y.ws[e] = <<>> /\ y.pt = x.pt /\ y.dpt = x.dpt
               /\ y.mem = x.mem /\ y.dmem = x.dmem /\ y.ok = x.ok /\ y.algo = x.algo
               /\ y.max = x.max /\ y.active = x.active
               /\ y.status = [x.status EXCEPT ![e] = "live"]
               /\ \A a \in Env \ {e} : y.ws[a] = x.ws[a] /\ y.hand[a] = x.hand[a]
<1> DEFINE s == [x.status EXCEPT ![e] = "live"]
           d == [x.dir EXCEPT ![e] = {"kernel"}]
           w == [x.ws EXCEPT ![e] = <<>>]
           h == [x.hand EXCEPT ![e] = NULL]
           r == [x.stream EXCEPT ![e] = <<>>]
           P == [x.pt EXCEPT ![e] = [p \in Page |-> NoEntry]]
           D == [x.dpt EXCEPT ![e] = [p \in Page |-> NULL]]
           y == [x EXCEPT !.status = s, !.dir = d, !.ws = w, !.hand = h, !.stream = r]
<1>1. /\ x \in KType /\ Store(x) /\ Tables(x)
      /\ x.pt \in [Env -> [Page -> Entry]] /\ x.dpt \in [Env -> [Page -> DFrame \union {NULL}]]
      /\ x.ws \in [Env -> Seq(Element)] /\ x.hand \in [Env -> Page \union {NULL}]
      /\ x.dir \in [Env -> SUBSET Regions] /\ x.stream \in [Env -> Seq(Page)]
      /\ x.status \in [Env -> {"free", "live", "exit"}]
    BY Fields DEF Base
<1>2. \A p \in Page : x.pt[e][p] = NoEntry /\ x.dpt[e][p] = NULL
    BY DEF Fresh
<1>3. P = x.pt /\ D = x.dpt
  <2>1. x.pt[e] = [p \in Page |-> NoEntry] /\ x.dpt[e] = [p \in Page |-> NULL]
    <3>1. x.pt[e] \in [Page -> Entry] /\ x.dpt[e] \in [Page -> DFrame \union {NULL}]
        BY <1>1
    <3>2. QED
        BY <1>2, <3>1
  <2>2. QED
      BY <1>1, <2>1, ZenonT(30)
<1>4. initialize_environment(x, e) = y
  <2>1. initialize_environment(x, e) =
          [x EXCEPT !.status = s, !.dir = d, !.ws = w, !.pt = P, !.dpt = D, !.hand = h,
                    !.stream = r]
      BY DEF initialize_environment
  <2> HIDE DEF s, d, w, h, r, P, D
  <2>2. [x EXCEPT !.status = s, !.dir = d, !.ws = w, !.pt = x.pt, !.dpt = x.dpt, !.hand = h,
                  !.stream = r] = y
      BY <1>1 DEF KType
  <2>3. QED
      BY <1>3, <2>1, <2>2
<1>5. /\ s \in [Env -> {"free", "live", "exit"}] /\ d \in [Env -> SUBSET Regions]
      /\ w \in [Env -> Seq(Element)] /\ h \in [Env -> Page \union {NULL}]
      /\ r \in [Env -> Seq(Page)]
  <2>1. {"kernel"} \in SUBSET Regions /\ <<>> \in Seq(Element) /\ <<>> \in Seq(Page)
      BY DEF Regions
  <2>2. QED
      BY <1>1, <2>1
<1>6. /\ w[e] = <<>> /\ \A a \in Env \ {e} : w[a] = x.ws[a] /\ h[a] = x.hand[a] /\ d[a] = x.dir[a]
    BY <1>1
<1> HIDE DEF d, w, h, r, s
<1>7. /\ y \in KType /\ y.pt = x.pt /\ y.dpt = x.dpt /\ y.mem = x.mem /\ y.dmem = x.dmem
      /\ y.ok = x.ok /\ y.algo = x.algo /\ y.max = x.max /\ y.active = x.active
      /\ y.status = s /\ y.dir = d /\ y.ws = w /\ y.hand = h /\ y.h = x.h /\ y.refs = x.refs
    BY <1>1, <1>5, ZenonT(30) DEF KType
<1> HIDE DEF y
<1>8. Store(y)
    BY <1>1, <1>7 DEF Store, Unmapped, Unfiled
<1>9. Tables(y)
  <2>1. ASSUME NEW a \in Env, NEW p \in Page
        PROVE  /\ y.pt[a][p].frame # NULL \/ y.pt[a][p].uhpage => PDX(p) \in y.dir[a]
               /\ y.pt[a][p].present => y.pt[a][p].frame # NULL
    <3>1. CASE a = e
        BY <1>2, <1>7, <3>1 DEF NoEntry
    <3>2. CASE a # e
        BY <1>1, <1>6, <1>7, <3>2 DEF Tables
    <3>3. QED
        BY <3>1, <3>2
  <2>2. QED
      BY <2>1 DEF Tables
<1>10. Vas(y.ws[e]) = {} /\ Once(y.ws[e])
  <2>1. y.ws[e] = <<>> /\ DOMAIN <<>> = {}
      BY <1>6, <1>7
  <2>2. QED
      BY <2>1 DEF Vas, Once
<1>11. Resident(y, e, {})
    BY <1>2, <1>7 DEF Resident, NoEntry
<1>12. Loading(y, e, {})
    BY <1>7, <1>8, <1>9, <1>10, <1>11 DEF Loading, Base
<1>13. QED
    BY <1>4, <1>6, <1>7, <1>12 DEF s

LEMMA CreateWorld ==
    ASSUME NEW x, NEW w, World(x, w), NEW C, w \in [Env -> [Page -> C]], x.ok,
           NEW e \in Env, x.status[e] = "free", NEW v,
           v = [p \in Page |-> IF p \in ProgPages THEN Image(p)
                               ELSE IF p = StackTop THEN Zero ELSE Unknown]
    PROVE  LET y == LoadStack(LoadSegments(initialize_environment(x, e), e), e)
           IN  World(y, [w EXCEPT ![e] = v]) /\ \A a \in Env \ {e} : y.ws[a] = x.ws[a]
<1> DEFINE i == initialize_environment(x, e)
           s == LoadSegments(i, e)
           z == LoadStack(s, e)
           W == [w EXCEPT ![e] = v]
<1>1. Base(x) /\ Fresh(x) /\ \A a \in Env : Good(x, a, w[a])
    BY DEF World
<1>2. /\ Loading(i, e, {}) /\ i.ws[e] = <<>> /\ i.pt = x.pt /\ i.dpt = x.dpt
      /\ i.mem = x.mem /\ i.dmem = x.dmem /\ i.ok = x.ok /\ i.algo = x.algo
      /\ i.max = x.max /\ i.active = x.active
      /\ i.status = [x.status EXCEPT ![e] = "live"]
      /\ \A a \in Env \ {e} : i.ws[a] = x.ws[a] /\ i.hand[a] = x.hand[a]
    BY <1>1, StructureLemma, ZenonT(30)
<1> HIDE DEF i
<1>3. Others(i, s, e) /\ Loading(s, e, ProgPages) /\ Len(s.ws[e]) < i.max
    BY <1>2, SegmentsLemma
<1> HIDE DEF s
<1>4. s.max = i.max
    BY <1>3 DEF Others
<1>5. Others(s, z, e) /\ (z.ok => Loaded(z, e, StackTop))
    BY <1>3, <1>4, StackLemma
<1> HIDE DEF z
<1>6. Others(i, z, e)
    BY <1>3, <1>5, OthersTrans
<1>7. /\ Base(z) /\ z.algo = x.algo /\ z.max = x.max /\ Only(x, z, e)
      /\ x.algo # "OPTIMAL" => z.active = x.active
      /\ \A a \in Env \ {e} : z.ws[a] = x.ws[a] /\ z.hand[a] = x.hand[a]
    BY <1>2, <1>6 DEF Others, Only
<1>8. z.status[e] = "live" /\ \A a \in Env \ {e} : z.status[a] = x.status[a]
  <2>1. x.status \in [Env -> {"free", "live", "exit"}]
      BY <1>1, Fields DEF Base
  <2>2. QED
      BY <1>2, <1>6, <2>1 DEF Others
<1>9. Fresh(z)
    BY <1>1, <1>7, <1>8 DEF Fresh, Only
<1>10. W[e] = v /\ \A a \in Env \ {e} : W[a] = w[a]
    OBVIOUS
<1> HIDE DEF W
<1>11. ASSUME z.ok, NEW a \in Env \ {e} PROVE Good(z, a, W[a])
  <2>1. \A p \in Page : \A u : Holds(x, a, p, u) => Holds(z, a, p, u)
    <3>1. \A p \in Page : \A u : Holds(x, a, p, u) => Holds(i, a, p, u)
        BY <1>2 DEF Holds
    <3>2. QED
        BY <1>6, <1>11, <3>1 DEF Others
  <2>2. Good(x, a, w[a]) /\ z.status[a] = x.status[a] /\ z.ws[a] = x.ws[a] /\ z.hand[a] = x.hand[a]
      BY <1>1, <1>7, <1>8
  <2>3. Good(z, a, w[a])
      BY <1>7, <2>1, <2>2, OthersGood
  <2>4. QED
      BY <1>10, <2>3
<1>12. ASSUME z.ok PROVE Good(z, e, W[e])
  <2> DEFINE t == StackTop
  <2>1. Loaded(z, e, t)
      BY <1>5, <1>12
  <2>2. t \in StackPages /\ t \notin HeapPages /\ ProgPages \intersect HeapPages = {}
        /\ HeapPages \subseteq Page
    <3>1. t \in StackPages
        BY LoadAssumption DEF StackTop
    <3>2. QED
        BY <3>1, Disjoint DEF Page
  <2> HIDE DEF t
  <2>3. WSPages(z, e) = Vas(z.ws[e])
      BY DEF WSPages, Vas
  <2>4. z.algo # "OPTIMAL" => z.active = <<>>
      BY <1>1, <1>7 DEF Good, WorkingSetOk
  <2>5. WorkingSetOk(z, e)
      BY <2>1, <2>3, <2>4 DEF WorkingSetOk, Loaded, OrderOk, Once
  <2>6. MarkedOk(z, e, {})
    <3>1. \A p \in HeapPages : z.pt[e][p].frame = NULL
        BY <2>1, <2>2 DEF Loaded, Resident
    <3>2. QED
        BY <3>1 DEF MarkedOk
  <2>7. LoadedOk(z, e)
      BY <2>1 DEF LoadedOk, Loaded
  <2>8. ASSUME NEW p \in Page, v[p] # Unknown PROVE Holds(z, e, p, v[p])
    <3>1. v[p] = IF p \in ProgPages THEN Image(p) ELSE IF p = t THEN Zero ELSE Unknown
        BY DEF t
    <3>2. CASE p \in ProgPages
        BY <2>1, <3>1, <3>2 DEF Loaded
    <3>3. CASE p \notin ProgPages
        BY <2>1, <2>8, <3>1, <3>3 DEF Loaded
    <3>4. QED
        BY <3>2, <3>3
  <2>9. QED
      BY <1>10, <2>5, <2>6, <2>7, <2>8 DEF Good
<1>13. World(z, W)
    BY <1>7, <1>9, <1>11, <1>12 DEF World
<1>14. QED
    BY <1>7, <1>13 DEF z, s, i, W

-----------------------------------------------------------------------------
(* The first state.                                                        *)

\* The free lists with every frame on its list.
LEMMA InitLists ==
    LET h == [first |-> NoLists, last |-> NoLists, size |-> [l \in DOMAIN NoLists |-> 0],
              next |-> NoLinks, prev |-> NoLinks]
    IN  Lists(initialize_disk_page_file(initialize_paging(h, Ascending(Frame)),
                                        Ascending(DFrame)), Frame, DFrame)
<1> DEFINE h == [first |-> NoLists, last |-> NoLists, size |-> [l \in DOMAIN NoLists |-> 0],
                 next |-> NoLinks, prev |-> NoLinks]
           g == InsertAll(h, FL, Ascending(Frame))
<1>1. SizeMod \in Nat /\ 0 \in 0 .. SizeMod - 1
  <2>1. Cardinality(Frame \union DFrame) \in Nat
      BY FramesAssumption, FS_CardinalityType
  <2>2. QED
      BY <2>1, FramesAssumption
<1>2. h \in L!Heap
  <2>1. /\ h.first \in [FrameLists -> L!Pointer] /\ h.last \in [FrameLists -> L!Pointer]
        /\ h.next \in [Frame \union DFrame -> L!Pointer]
        /\ h.prev \in [Frame \union DFrame -> L!Pointer]
      BY DEF NoLists, NoLinks, L!Pointer, FrameLists, FL, DL
  <2>2. h.size \in [FrameLists -> 0 .. SizeMod - 1]
      BY <1>1 DEF NoLists, FrameLists, FL, DL
  <2>3. QED
      BY <2>1, <2>2 DEF L!Heap
<1>3. \A l \in FrameLists : h.first[l] = NULL /\ h.last[l] = NULL /\ h.size[l] = 0
    BY DEF NoLists, FrameLists, FL, DL
<1> HIDE DEF h
<1>4. Lists(h, {}, {})
  <2>1. [l \in FrameLists |-> {}] = Parts({}, {})
      BY DEF Parts
  <2>2. QED
      BY <1>2, <1>3, <2>1, Constants, SameLists, L!HoldingNone DEF Lists
<1>5. ASSUME NEW X \in SUBSET (Frame \union DFrame) PROVE L!Listing(Ascending(X), X)
  <2> DEFINE A == Ascending(X)
  <2>1. X \in SUBSET Nat /\ IsFiniteSet(X)
      BY Constants, FramesAssumption, FS_Subset
  <2>2. /\ Cardinality(X) \in Nat /\ \A i \in 1 .. Cardinality(X) : A[i] \in X
        /\ \A i, j \in 1 .. Cardinality(X) : A[i] = A[j] => i = j
        /\ \A x \in X : \E i \in 1 .. Cardinality(X) : A[i] = x
        /\ Len(A) = Cardinality(X)
      BY <2>1, InOrder
  <2>3. A \in Seq(Frame \union DFrame)
    <3>1. A = [i \in 1 .. Cardinality(X) |-> A[i]]
        BY DEF Ascending
    <3> HIDE DEF A
    <3>2. QED
        BY <2>2, <3>1
  <2>4. X = {A[i] : i \in 1 .. Len(A)}
      BY <2>2
  <2>5. QED
      BY <2>2, <2>3, <2>4 DEF L!Listing
<1>6. ASSUME NEW y, NEW F \in SUBSET Frame, NEW D \in SUBSET DFrame, Lists(y, F, D),
             NEW l \in FrameLists, Parts(F, D)[l] = {}, NEW X, X = IF l = FL THEN Frame ELSE DFrame
      PROVE  L!Holding(InsertAll(y, l, Ascending(X)), [Parts(F, D) EXCEPT ![l] = X])
  <2> DEFINE C == Parts(F, D)
  <2>1. L!Listing(Ascending(X), X)
      BY <1>5, <1>6
  <2>2. C \in [FrameLists -> SUBSET (Frame \union DFrame)] /\ L!Holding(y, C)
      BY <1>6, PartsType DEF Lists
  <2>3. \A m \in FrameLists : C[m] \intersect X = {}
    <3>1. C[FL] = F /\ C[DL] = D /\ Frame \intersect DFrame = {} /\ FL # DL
        BY PartsType, Constants
    <3>2. F \intersect X = {} /\ D \intersect X = {}
        BY <1>6, <3>1 DEF FrameLists
    <3> HIDE DEF C
    <3>3. QED
        BY <3>1, <3>2 DEF FrameLists
  <2>4. InsertAll(y, l, Ascending(X)) = L!InsertAll(y, l, Ascending(X)) /\ C[l] = {}
      BY <1>6, SameLists
  <2> HIDE DEF C
  <2>5. L!Holding(L!InsertAll(y, l, Ascending(X)), [C EXCEPT ![l] = X])
      BY <2>1, <2>2, <2>3, <2>4, Constants, L!HoldingAll
  <2>6. QED
      BY <2>4, <2>5 DEF C
<1>7. Lists(InsertAll(g, DL, Ascending(DFrame)), Frame, DFrame)
  <2>1. /\ Parts({}, {})[FL] = {} /\ Parts(Frame, {})[DL] = {}
        /\ FL # DL /\ FL \in FrameLists /\ DL \in FrameLists
      BY DEF Parts, FrameLists, FL, DL
  <2>2. Lists(g, Frame, {})
    <3>1. L!Holding(g, [Parts({}, {}) EXCEPT ![FL] = Frame])
        BY <1>4, <1>6, <2>1
    <3>2. QED
        BY <3>1, PartsType, SMTT(30) DEF Lists
  <2> HIDE DEF g
  <2>3. L!Holding(InsertAll(g, DL, Ascending(DFrame)), [Parts(Frame, {}) EXCEPT ![DL] = DFrame])
      BY <1>6, <2>1, <2>2
  <2>4. [Parts(Frame, {}) EXCEPT ![DL] = DFrame] = Parts(Frame, DFrame)
      BY PartsType
  <2>5. QED
      BY <2>3, <2>4 DEF Lists
<1>8. QED
    BY <1>7 DEF h, g, initialize_disk_page_file, initialize_paging, FL, DL

LEMMA InitSound == Init => Sound
<1> SUFFICES ASSUME Init PROVE Sound
    OBVIOUS
<1> DEFINE H == initialize_disk_page_file(
                  initialize_paging(
                    [first |-> NoLists, last |-> NoLists,
                     size |-> [l \in DOMAIN NoLists |-> 0],
                     next |-> NoLinks, prev |-> NoLinks], Ascending(Frame)),
                  Ascending(DFrame))
<1>1. PICK a \in Setups :
        k = [h |-> H,
             refs |-> [f \in Frame |-> 0], mem |-> [f \in Frame |-> Zero],
             dmem |-> [x \in DFrame |-> Zero],
             dir |-> [e \in Env |-> {}], pt |-> [e \in Env |-> [p \in Page |-> NoEntry]],
             dpt |-> [e \in Env |-> [p \in Page |-> NULL]],
             ws |-> [e \in Env |-> <<>>], hand |-> [e \in Env |-> NULL],
             active |-> <<>>, optimal_initialized |-> FALSE,
             stream |-> [e \in Env |-> <<>>], last |-> <<NULL, 0>>, num |-> 0,
             status |-> [e \in Env |-> "free"], algo |-> a[1], max |-> a[2], ok |-> TRUE]
    BY DEF Init
<1>2. Lists(H, Frame, DFrame)
    BY InitLists
<1>3. H \in Heap
    BY <1>2, ListHeap
<1> HIDE DEF H
<1>4. a[1] \in Algos /\ a[2] \in Nat \ {0}
    BY SetupsAssumption DEF Algos
<1>5. NoEntry \in Entry /\ Zero \in Content
    BY PageFileAssumption DEF NoEntry, Entry, Content
<1>6. /\ k.h = H /\ k.refs = [f \in Frame |-> 0] /\ k.mem = [f \in Frame |-> Zero]
      /\ k.dmem = [x \in DFrame |-> Zero] /\ k.dir = [e \in Env |-> {}]
      /\ k.pt = [e \in Env |-> [p \in Page |-> NoEntry]]
      /\ k.dpt = [e \in Env |-> [p \in Page |-> NULL]]
      /\ k.ws = [e \in Env |-> <<>>] /\ k.hand = [e \in Env |-> NULL]
      /\ k.active = <<>> /\ k.status = [e \in Env |-> "free"]
      /\ k.max = a[2] /\ k.ok = TRUE
    BY <1>1
<1>7. k \in KType
  <2>1. /\ [f \in Frame |-> 0] \in [Frame -> Nat] /\ [f \in Frame |-> Zero] \in [Frame -> Content]
        /\ [x \in DFrame |-> Zero] \in [DFrame -> Content]
        /\ [e \in Env |-> {}] \in [Env -> SUBSET Regions]
        /\ [e \in Env |-> [p \in Page |-> NULL]] \in [Env -> [Page -> DFrame \union {NULL}]]
        /\ [e \in Env |-> <<>>] \in [Env -> Seq(Element)]
        /\ [e \in Env |-> NULL] \in [Env -> Page \union {NULL}]
        /\ <<>> \in Seq(Element) /\ [e \in Env |-> <<>>] \in [Env -> Seq(Page)]
        /\ <<NULL, 0>> \in (Env \union {NULL}) \X (Page \union {0})
        /\ [e \in Env |-> "free"] \in [Env -> {"free", "live", "exit"}]
      BY <1>5
  <2>2. [e \in Env |-> [p \in Page |-> NoEntry]] \in [Env -> [Page -> Entry]]
      BY <1>5
  <2> HIDE DEF Entry
  <2>3. QED
      BY <1>1, <1>3, <1>4, <2>1, <2>2 DEF KType
<1>8. \A e \in Env, p \in Page : k.pt[e][p] = NoEntry /\ k.dpt[e][p] = NULL
    BY <1>6
<1>9. NoEntry.frame = NULL /\ ~NoEntry.present /\ ~NoEntry.uhpage
    BY DEF NoEntry
<1>10. Store(k)
  <2>1. Unmapped(k) = Frame /\ Unfiled(k) = DFrame
      BY <1>8, <1>9, Constants DEF Unmapped, Unfiled
  <2>2. QED
      BY <1>2, <1>6, <1>8, <1>9, <2>1 DEF Store
<1>11. Tables(k) /\ Fresh(k)
    BY <1>8, <1>9 DEF Tables, Fresh
<1>12. want = [e \in Env |-> [p \in Page |-> Unknown]] /\ pending = [e \in Env |-> NULL]
    BY DEF Init
<1>13. ASSUME NEW e \in Env PROVE Good(k, e, want[e])
  <2>1. k.ws[e] = <<>> /\ k.status[e] = "free" /\ Len(k.ws[e]) = 0 /\ DOMAIN k.ws[e] = {}
      BY <1>6
  <2>2. WSPages(k, e) = {}
      BY <2>1 DEF WSPages
  <2>3. WorkingSetOk(k, e)
      BY <1>4, <1>6, <1>8, <1>9, <2>1, <2>2
         DEF WorkingSetOk, Resident, OrderOk, HandOk, Full
  <2>4. MarkedOk(k, e, {})
    <3>1. HeapPages \subseteq Page
        BY DEF Page
    <3>2. QED
        BY <1>8, <1>9, <3>1 DEF MarkedOk
  <2>5. QED
      BY <1>12, <2>1, <2>3, <2>4 DEF Good, LoadedOk
<1>14. World(k, want)
    BY <1>7, <1>10, <1>11, <1>13 DEF World, Base
<1>15. QED
    BY <1>12, <1>14 DEF Sound

-----------------------------------------------------------------------------
(* The steps.                                                              *)

LEMMA AccessInv ==
    ASSUME Sound, NEW e \in Env, NEW p \in Page, NEW v \in Value \union {NULL},
           Access(e, p, v), ~Strays(p)
    PROVE  Sound'
<1> DEFINE C == Content \union {Unknown}
           P == {NULL} \union (Page \X (Value \union {NULL}))
<1>1. /\ World(k, want) /\ pending \in [Env -> P] /\ want \in [Env -> [Page -> C]]
      /\ k.ok /\ k.status[e] = "live"
    BY DEF Sound, Access, Runs
<1>2. CASE k.pt[e][p].present
  <2>1. /\ k' = Touch(k, e, p, v) /\ pending' = [pending EXCEPT ![e] = NULL]
        /\ want' = [want EXCEPT ![e][p] = IF v = NULL THEN want[e][p] ELSE v]
      BY <1>2 DEF Access
  <2> HIDE DEF C
  <2>2. World(Touch(k, e, p, v), [want EXCEPT ![e][p] = IF v = NULL THEN want[e][p] ELSE v])
      BY <1>1, <1>2, TouchWorld
  <2>3. World(k', want')
      BY <2>1, <2>2
  <2>4. pending' \in [Env -> P]
      BY <1>1, <2>1
  <2>5. want' \in [Env -> [Page -> C]]
    <3>1. (IF v = NULL THEN want[e][p] ELSE v) \in C
        BY <1>1 DEF C, Content
    <3>2. QED
        BY <1>1, <2>1, <3>1
  <2>6. QED
      BY <2>3, <2>4, <2>5 DEF Sound, C
<1>3. CASE ~k.pt[e][p].present
  <2>1. /\ k' = PageFault(k, e, p, TRUE) /\ want' = want
        /\ pending' = [pending EXCEPT ![e] = IF k'.status[e] = "live" THEN <<p, v>> ELSE NULL]
      BY <1>3 DEF Access
  <2>2. World(PageFault(k, e, p, TRUE), want)
      BY <1>1, FaultWorld DEF Strays
  <2>3. World(k', want')
      BY <2>1, <2>2
  <2>4. pending' \in [Env -> P]
      BY <1>1, <2>1
  <2>5. QED
      BY <1>1, <2>1, <2>3, <2>4 DEF Sound
<1>4. QED
    BY <1>2, <1>3

LEMMA CreateInv ==
    ASSUME Sound, NEW e \in Env, env_create(e)
    PROVE  Sound'
<1> DEFINE C == Content \union {Unknown}
           v == [p \in Page |-> IF p \in ProgPages THEN Image(p)
                                ELSE IF p = StackTop THEN Zero ELSE Unknown]
<1>1. /\ World(k, want) /\ want \in [Env -> [Page -> C]] /\ k.ok /\ k.status[e] = "free"
      /\ k' = LoadStack(LoadSegments(initialize_environment(k, e), e), e)
      /\ want' = [want EXCEPT ![e] = v] /\ pending' = pending
    BY DEF Sound, env_create
<1>2. World(LoadStack(LoadSegments(initialize_environment(k, e), e), e), [want EXCEPT ![e] = v])
    BY <1>1, CreateWorld
<1>3. World(k', want')
    BY <1>1, <1>2
<1>4. want' \in [Env -> [Page -> C]]
  <2>1. v \in [Page -> C]
      BY PageFileAssumption DEF Content
  <2> HIDE DEF v, C
  <2>2. QED
      BY <1>1, <2>1
<1>5. QED
    BY <1>1, <1>3, <1>4 DEF Sound

LEMMA MallocInv ==
    ASSUME Sound, NEW e \in Env, allocate_user_mem(e)
    PROVE  Sound'
<1> DEFINE C == Content \union {Unknown}
<1>1. PICK p \in HeapPages :
        /\ k.ok /\ k.status[e] = "live" /\ ~k.pt[e][p].uhpage
        /\ k' = pt_set_page_permissions(WithTable(k, e, p), e, p,
                   [k.pt[e][p] EXCEPT !.uhpage = TRUE, !.present = FALSE])
        /\ pending' = pending /\ want' = want
    BY DEF allocate_user_mem, Runs
<1>2. World(k, want) /\ want \in [Env -> [Page -> C]]
    BY SMTT(30) DEF Sound
<1> HIDE DEF C
<1>3. World(pt_set_page_permissions(WithTable(k, e, p), e, p,
               [k.pt[e][p] EXCEPT !.uhpage = TRUE, !.present = FALSE]), want)
    BY <1>1, <1>2, MallocWorld
<1>4. World(k', want')
    BY <1>1, <1>3
<1>5. QED
    BY <1>1, <1>4 DEF Sound

LEMMA FreeInv ==
    ASSUME Sound, NEW e \in Env, free_user_mem(e)
    PROVE  Sound'
<1> DEFINE C == Content \union {Unknown}
<1>1. PICK p \in HeapPages :
        /\ k.ok /\ k.status[e] = "live" /\ k.pt[e][p].uhpage
        /\ k' = LET u == pt_set_page_permissions(k, e, p,
                           [k.pt[e][p] EXCEPT !.uhpage = FALSE])
                IN  Invalidate(ReadBack(u, e, p), e, p)
        /\ want' = [want EXCEPT ![e][p] = Unknown] /\ pending' = pending
    BY ZenonT(30) DEF free_user_mem, Runs
<1>2. World(k, want) /\ want \in [Env -> [Page -> C]]
    BY DEF Sound
<1> HIDE DEF C
<1>3. PICK u, z : Freeing(k, u, z, k', e, p)
    BY <1>1, ZenonT(30) DEF Freeing, ReadBack
<1>4. World(k', want')
    BY <1>1, <1>2, <1>3, FreeWorld
<1>5. want' \in [Env -> [Page -> C]]
    BY <1>1, <1>2 DEF C
<1>6. QED
    BY <1>1, <1>4, <1>5 DEF Sound, C

LEMMA AgeInv ==
    ASSUME Sound, NEW e \in Env, clock_ages(e)
    PROVE  Sound'
<1>1. /\ World(k, want) /\ k.ok /\ k.status[e] # "free"
      /\ k' = update_WS_time_stamps(k, e) /\ want' = want /\ pending' = pending
    BY DEF Sound, clock_ages, Runs
<1>2. World(k', want')
    BY <1>1, AgeWorld
<1>3. QED
    BY <1>1, <1>2 DEF Sound

\* A step after which no program has strayed was not the first of one.
LEMMA StrayedLemma ==
    ASSUME [Next]_vars, ~strayed'
    PROVE  ~strayed
<1>1. CASE UNCHANGED vars
    BY <1>1 DEF vars
<1>2. CASE Next
  <2>1. PICK e \in Env : \/ env_create(e)        \/ Instruction(e)
                         \/ allocate_user_mem(e) \/ free_user_mem(e)
                         \/ clock_ages(e)
      BY <1>2 DEF Next
  <2>2. CASE Instruction(e)
      BY <2>2 DEF Instruction, Access
  <2>3. CASE env_create(e) \/ allocate_user_mem(e) \/ free_user_mem(e) \/ clock_ages(e)
    <3>1. strayed' = strayed
        BY <2>3 DEF env_create, allocate_user_mem, free_user_mem, clock_ages
    <3>2. QED
        BY <3>1
  <2>4. QED
      BY <2>1, <2>2, <2>3
<1>3. QED
    BY <1>1, <1>2

LEMMA NextSound ==
    ASSUME Sound, [Next]_vars, ~strayed'
    PROVE  Sound'
<1>1. CASE UNCHANGED vars
  <2>1. k' = k /\ pending' = pending /\ want' = want
      BY <1>1 DEF vars
  <2>2. QED
      BY <2>1 DEF Sound
<1>2. CASE Next
  <2>1. PICK e \in Env : \/ env_create(e)        \/ Instruction(e)
                         \/ allocate_user_mem(e) \/ free_user_mem(e)
                         \/ clock_ages(e)
      BY <1>2 DEF Next
  <2>2. CASE Instruction(e)
    <3>1. PICK p \in Page, v \in Value \union {NULL} : Access(e, p, v)
        BY <2>2 DEF Instruction
    <3>2. ~Strays(p)
        BY <3>1 DEF Access
    <3>3. QED
        BY <3>1, <3>2, AccessInv
  <2>3. QED
      BY <2>1, <2>2, CreateInv, MallocInv, FreeInv, AgeInv
<1>3. QED
    BY <1>1, <1>2

LEMMA NextInv ==
    ASSUME Inv, [Next]_vars
    PROVE  Inv'
<1> SUFFICES ASSUME ~strayed' PROVE Sound'
    BY DEF Inv
<1>1. Sound
    BY StrayedLemma DEF Inv
<1>2. QED
    BY <1>1, NextSound

-----------------------------------------------------------------------------
(* Theorems.                                                               *)

\* Inv holds in every reachable state, whatever the sizes, the policy and the
\* order of accesses, faults, allocations and frees.
THEOREM InvAlways == Spec => []Inv
<1>1. Inv /\ [Next]_vars => Inv'
    BY NextInv
<1>2. Init => Inv
    BY InitSound DEF Inv
<1>3. QED
    BY <1>1, <1>2, PTL DEF Spec

\* What a program put in a page is what it will find there, through any number
\* of evictions, write-backs and reads (fault_handler.c:500-511,
\* pagefile_manager.c:270-444).
THEOREM ContentsSurviveAlways == Spec => []ContentsSurvive
<1>1. Inv => ContentsSurvive
  <2> SUFFICES ASSUME Sound, NEW e \in Env, NEW p \in Page, k.ok, want[e][p] # Unknown
               PROVE  Held(e, p) = want[e][p]
      BY DEF Inv, ContentsSurvive
  <2>1. Holds(k, e, p, want[e][p])
      BY DEF Sound, World, Good
  <2>2. QED
      BY <2>1 DEF Holds, Held, InPageFile, DiskFrameOf
<1>2. QED
    BY <1>1, InvAlways, PTL

\* The present pages of a process are those of its working set, each once, and
\* the hand of a full one is on one of them (fault_handler.c:443-587).
THEOREM WorkingSetIsResidentAlways == Spec => []WorkingSetIsResident
<1>1. Inv => WorkingSetIsResident
  <2> SUFFICES ASSUME Sound, NEW e \in Env, k.ok, k.algo # "OPTIMAL"
               PROVE  /\ WSPages(k, e) = {p \in Page : k.pt[e][p].present}
                      /\ Cardinality(WSPages(k, e)) = Len(k.ws[e])
                      /\ Full(k, e) /\ k.algo # "LRU" => ~HandLost(k, e)
      BY DEF Inv, WorkingSetIsResident
  <2>1. WorkingSetOk(k, e) /\ k \in KType
      BY DEF Sound, World, Good, Base
  <2>2. k.ws[e] \in Seq(Element)
      BY <2>1, Fields
  <2>3. WSPages(k, e) \subseteq Page
    <3>1. \A i \in DOMAIN k.ws[e] : k.ws[e][i] \in Element
        BY <2>2
    <3>2. QED
        BY <3>1 DEF WSPages, Element
  <2>4. WSPages(k, e) = {p \in Page : k.pt[e][p].present}
      BY <2>1, <2>3 DEF WorkingSetOk, Resident
  <2>5. Cardinality(WSPages(k, e)) = Len(k.ws[e])
    <3> DEFINE s == k.ws[e]
               t == [i \in 1 .. Len(s) |-> s[i].va]
    <3>1. Len(s) \in Nat /\ DOMAIN s = 1 .. Len(s) /\ \A i \in 1 .. Len(s) : s[i].va \in Page
      <4>1. \A i \in DOMAIN s : s[i].va \in WSPages(k, e)
          BY DEF WSPages
      <4>2. QED
          BY <2>2, <2>3, <4>1
    <3>2. \A i, j \in 1 .. Len(s) : s[i].va = s[j].va => i = j
        BY <2>1, <3>1 DEF WorkingSetOk, OrderOk
    <3>3. t \in Seq(Page) /\ Len(t) = Len(s) /\ DOMAIN t = 1 .. Len(s)
        BY <3>1, SeqDef
    <3>4. WSPages(k, e) = {t[i] : i \in DOMAIN t}
        BY <3>1, <3>3 DEF WSPages
    <3> HIDE DEF s
    <3>5. \A i, j \in DOMAIN t : t[i] = t[j] => i = j
        BY <3>2, <3>3
    <3> HIDE DEF t
    <3>6. Cardinality({t[i] : i \in DOMAIN t}) = Len(t)
        BY <3>3, <3>5, SequenceSize
    <3>7. QED
        BY <3>3, <3>4, <3>6 DEF s
  <2>6. QED
      BY <2>1, <2>4, <2>5 DEF WorkingSetOk, HandOk
<1>2. QED
    BY <1>1, InvAlways, PTL

\* Each list read from its head is the sequence of the free frames of its kind,
\* and the size of the disk list is their number.
LEMMA ListIs ==
    ASSUME NEW h, NEW F \in SUBSET Frame, NEW D \in SUBSET DFrame, Lists(h, F, D)
    PROVE  /\ Represents(h, FL, Walk(h, FL)) /\ Represents(h, DL, Walk(h, DL))
           /\ \A f \in Frame : (\E i \in DOMAIN Walk(h, FL) : Walk(h, FL)[i] = f) <=> f \in F
           /\ \A d \in DFrame : (\E i \in DOMAIN Walk(h, DL) : Walk(h, DL)[i] = d) <=> d \in D
           /\ IsFiniteSet(D) /\ h.size[DL] = Cardinality(D)
<1> DEFINE W == Walk(h, FL)
           V == Walk(h, DL)
<1>1. /\ W \in Seq(Frame \union DFrame) /\ Represents(h, FL, W) /\ F = {W[i] : i \in DOMAIN W}
      /\ V \in Seq(Frame \union DFrame) /\ Represents(h, DL, V) /\ D = {V[i] : i \in DOMAIN V}
  <2> DEFINE C == Parts(F, D)
  <2>1. C \in [FrameLists -> SUBSET (Frame \union DFrame)] /\ L!Holding(h, C)
      BY PartsType DEF Lists
  <2> HIDE DEF C
  <2>2. ASSUME NEW l \in FrameLists
        PROVE  /\ L!Walk(h, l) \in Seq(Frame \union DFrame)
               /\ L!Represents(h, l, L!Walk(h, l))
               /\ C[l] = {L!Walk(h, l)[i] : i \in DOMAIN L!Walk(h, l)}
      BY <2>1, Constants, L!HoldingWalk
  <2>3. L!Walk(h, FL) = W /\ L!Walk(h, DL) = V /\ L!Represents(h, FL, W) = Represents(h, FL, W)
        /\ L!Represents(h, DL, V) = Represents(h, DL, V)
      BY SameLists
  <2>4. C[FL] = F /\ C[DL] = D /\ FL \in FrameLists /\ DL \in FrameLists
      BY PartsType DEF C
  <2> HIDE DEF W, V
  <2>5. QED
      BY <2>2, <2>3, <2>4
<1> HIDE DEF W, V
<1>2. h.size[DL] = Len(V) /\ \A i, j \in DOMAIN V : V[i] = V[j] => i = j
    BY <1>1, SMTT(30) DEF Represents
<1>3. IsFiniteSet(D) /\ h.size[DL] = Cardinality(D)
    BY <1>1, <1>2, SequenceSize
<1>4. QED
    BY <1>1, <1>3 DEF W, V

\* The pages in the page file are as many as the disk frames that are not free:
\* each holds one, and none is shared.
LEMMA FiledSize ==
    ASSUME NEW x, Base(x)
    PROVE  LET P == {y \in Env \X Page : InPageFile(x, y[1], y[2])}
           IN  Cardinality(Unfiled(x)) + Cardinality(P) = Cardinality(DFrame)
<1> DEFINE P == {y \in Env \X Page : InPageFile(x, y[1], y[2])}
           H == DFrame \ Unfiled(x)
           g == [y \in P |-> x.dpt[y[1]][y[2]]]
<1>1. IsFiniteSet(DFrame)
  <2>1. IsFiniteSet(Frame \union DFrame)
      BY FramesAssumption
  <2>2. QED
      BY <2>1, FS_Subset
<1>2. \A y \in P : x.dpt[y[1]][y[2]] \in H
  <2>1. \A y \in P : /\ y[1] \in Env /\ y[2] \in Page /\ x.dpt[y[1]][y[2]] # NULL
                     /\ x.dpt[y[1]][y[2]] \in DFrame \union {NULL}
      BY EntryFields DEF Base, InPageFile, DiskFrameOf
  <2>2. QED
      BY <2>1 DEF Unfiled
<1>3. \A y, z \in P : g[y] = g[z] => y = z
  <2> SUFFICES ASSUME NEW y \in P, NEW z \in P, g[y] = g[z]
               PROVE  y = z
      OBVIOUS
  <2>1. /\ y \in Env \X Page /\ z \in Env \X Page
        /\ x.dpt[y[1]][y[2]] # NULL /\ x.dpt[y[1]][y[2]] = x.dpt[z[1]][z[2]]
      BY DEF InPageFile, DiskFrameOf
  <2>2. y[1] = z[1] /\ y[2] = z[2]
      BY <2>1 DEF Base, Store
  <2>3. QED
      BY <2>1, <2>2
<1>4. \A d \in H : \E y \in P : g[y] = d
  <2> SUFFICES ASSUME NEW d \in H
               PROVE  \E y \in P : g[y] = d
      OBVIOUS
  <2>1. PICK e \in Env, p \in Page : x.dpt[e][p] = d
      BY DEF Unfiled
  <2>2. d # NULL
      BY FramesAssumption
  <2>3. <<e, p>> \in P
      BY <2>1, <2>2 DEF InPageFile, DiskFrameOf
  <2>4. g[<<e, p>>] = d
      BY <2>1, <2>3
  <2>5. QED
      BY <2>3, <2>4
<1>5. g \in [P -> H]
    BY <1>2
<1> HIDE DEF g, P, H
<1>6. g \in Bijection(P, H)
    BY <1>3, <1>4, <1>5 DEF Bijection, Injection, Surjection, IsInjective
<1>7. IsFiniteSet(P) /\ Cardinality(P) = Cardinality(H)
  <2>1. IsFiniteSet(H)
      BY <1>1, FS_Subset DEF H
  <2>2. g \in Injection(P, H) /\ g \in Surjection(P, H)
      BY <1>6 DEF Bijection
  <2>3. QED
      BY <2>1, <2>2, FS_Injection
<1>8. IsFiniteSet(Unfiled(x)) /\ IsFiniteSet(H)
  <2>1. Unfiled(x) \in SUBSET DFrame /\ H \in SUBSET DFrame
      BY DEF Unfiled, H
  <2>2. QED
      BY <1>1, <2>1, FS_Subset
<1>9. Unfiled(x) \union H = DFrame /\ Unfiled(x) \intersect H = {}
    BY DEF Unfiled, H
<1>10. Cardinality(Unfiled(x) \union H)
         = Cardinality(Unfiled(x)) + Cardinality(H) - Cardinality(Unfiled(x) \intersect H)
    BY <1>8, FS_Union
<1>11. /\ Cardinality(Unfiled(x)) \in Nat /\ Cardinality(H) \in Nat
       /\ Cardinality(Unfiled(x) \intersect H) = 0
    BY <1>8, <1>9, FS_CardinalityType, FS_EmptySet
<1>12. Cardinality(Unfiled(x)) + Cardinality(P) = Cardinality(DFrame)
  <2>1. \A u, c, n, z : u \in Nat /\ c \in Nat /\ z = 0 /\ n = u + c - z => u + c = n
      OBVIOUS
  <2>2. Cardinality(DFrame)
          = Cardinality(Unfiled(x)) + Cardinality(H) - Cardinality(Unfiled(x) \intersect H)
      BY <1>9, <1>10
  <2>3. Cardinality(Unfiled(x)) + Cardinality(H) = Cardinality(DFrame)
      BY <1>11, <2>1, <2>2
  <2>4. QED
      BY <1>7, <2>3
<1>13. QED
    BY <1>12 DEF P

LEMMA BaseFrames ==
    ASSUME NEW x, Base(x)
    PROVE  FramesAccounted(x)
<1> DEFINE free == Walk(x.h, "free_frame_list")
<1>1. Unmapped(x) \in SUBSET Frame /\ Unfiled(x) \in SUBSET DFrame
    BY DEF Unmapped, Unfiled
<1>2. Lists(x.h, Unmapped(x), Unfiled(x))
    BY DEF Base, Store
<1>3. /\ Represents(x.h, "free_frame_list", free)
      /\ \A f \in Frame : (\E i \in DOMAIN free : free[i] = f) <=> f \in Unmapped(x)
    BY <1>1, <1>2, ListIs, ZenonT(30) DEF FL
<1> HIDE DEF free
<1>4. ASSUME NEW f \in Frame
      PROVE  /\ x.refs[f] = Cardinality(MappedAt(x, f))
             /\ x.refs[f] = 0 <=> f \in Unmapped(x)
  <2>1. x.refs[f] = IF f \in Unmapped(x) THEN 0 ELSE 1
      BY DEF Base, Store
  <2>2. f # NULL
      BY FramesAssumption
  <2>3. \A y, z \in MappedAt(x, f) : y = z
    <3> SUFFICES ASSUME NEW y \in MappedAt(x, f), NEW z \in MappedAt(x, f)
                 PROVE  y = z
        OBVIOUS
    <3>1. /\ y \in Env \X Page /\ z \in Env \X Page
          /\ x.pt[y[1]][y[2]].frame # NULL
          /\ x.pt[y[1]][y[2]].frame = x.pt[z[1]][z[2]].frame
        BY <2>2 DEF MappedAt
    <3>2. y[1] = z[1] /\ y[2] = z[2]
        BY <3>1 DEF Base, Store
    <3>3. QED
        BY <3>1, <3>2
  <2>4. MappedAt(x, f) = {} <=> f \in Unmapped(x)
    <3>1. ASSUME NEW e \in Env, NEW p \in Page, x.pt[e][p].frame = f
          PROVE  <<e, p>> \in MappedAt(x, f)
        BY <3>1 DEF MappedAt
    <3>2. QED
        BY <3>1, ZenonT(30) DEF MappedAt, Unmapped
  <2>5. Cardinality(MappedAt(x, f)) = IF MappedAt(x, f) = {} THEN 0 ELSE 1
      BY <2>3, AtMostOne
  <2>6. QED
      BY <2>1, <2>4, <2>5
<1>5. QED
    BY <1>3, <1>4 DEF FramesAccounted, free

LEMMA BaseDiskFrames ==
    ASSUME NEW x, Base(x)
    PROVE  DiskFramesAccounted(x)
<1> DEFINE free == Walk(x.h, "disk_free_frame_list")
           held(d) == {y \in Env \X Page : x.dpt[y[1]][y[2]] = d}
<1>1. Unmapped(x) \in SUBSET Frame /\ Unfiled(x) \in SUBSET DFrame
    BY DEF Unmapped, Unfiled
<1>2. Lists(x.h, Unmapped(x), Unfiled(x))
    BY DEF Base, Store
<1>3. /\ Represents(x.h, "disk_free_frame_list", free)
      /\ \A d \in DFrame : (\E i \in DOMAIN free : free[i] = d) <=> d \in Unfiled(x)
      /\ x.h.size["disk_free_frame_list"] = Cardinality(Unfiled(x))
    BY <1>1, <1>2, ListIs, ZenonT(30) DEF DL
<1> HIDE DEF free
<1>4. ASSUME NEW d \in DFrame
      PROVE  Cardinality(held(d)) = IF d \in Unfiled(x) THEN 0 ELSE 1
  <2>1. d # NULL
      BY FramesAssumption
  <2>2. \A y, z \in held(d) : y = z
    <3> SUFFICES ASSUME NEW y \in held(d), NEW z \in held(d)
                 PROVE  y = z
        OBVIOUS
    <3>1. /\ y \in Env \X Page /\ z \in Env \X Page
          /\ x.dpt[y[1]][y[2]] # NULL /\ x.dpt[y[1]][y[2]] = x.dpt[z[1]][z[2]]
        BY <2>1
    <3>2. y[1] = z[1] /\ y[2] = z[2]
        BY <3>1 DEF Base, Store
    <3>3. QED
        BY <3>1, <3>2
  <2>3. held(d) = {} <=> d \in Unfiled(x)
    <3>1. ASSUME NEW e \in Env, NEW p \in Page, x.dpt[e][p] = d
          PROVE  <<e, p>> \in held(d)
        BY <3>1
    <3>2. QED
        BY <3>1, ZenonT(30) DEF Unfiled
  <2> HIDE DEF held
  <2>4. Cardinality(held(d)) = IF held(d) = {} THEN 0 ELSE 1
      BY <2>2, AtMostOne
  <2>5. QED
      BY <2>3, <2>4
<1>5. pf_calculate_free_frames(x)
        + Cardinality({y \in Env \X Page : InPageFile(x, y[1], y[2])}) = Cardinality(DFrame)
    BY <1>3, FiledSize DEF pf_calculate_free_frames
<1>6. QED
    BY <1>3, <1>4, <1>5 DEF DiskFramesAccounted, free

\* memory_manager.c:45-47: every frame is on the free list once or has a count
\* equal to the number of page table entries that hold it, and the page file
\* loses no frame either (pagefile_manager.c:49-100): in every reachable state,
\* those after a panic in the middle of an operation included.
THEOREM StorageConservedAlways == Spec => []StorageConserved
<1>1. Inv => StorageConserved
    BY BaseFrames, BaseDiskFrames DEF Inv, Sound, World, StorageConserved
<1>2. QED
    BY <1>1, InvAlways, PTL

-----------------------------------------------------------------------------
(* The victims.                                                            *)

\* The pages of e that are in memory in x and not in y.
Lost(x, y, e) == {q \in Page : x.pt[e][q].frame # NULL /\ y.pt[e][q].frame = NULL}

\* The policy may evict v when the working set of e, with its stamps, is s.
Proper(x, e, v, s) ==
    /\ x.algo = "CLOCK" => (x.pt[e][v].used => \A q \in WSPages(x, e) : x.pt[e][q].used)
    /\ x.algo = "ModifiedCLOCK" =>
         /\ (\E q \in WSPages(x, e) : ~x.pt[e][q].used /\ ~x.pt[e][q].modified) =>
               ~x.pt[e][v].used /\ ~x.pt[e][v].modified
         /\ (\E q \in WSPages(x, e) : ~x.pt[e][q].used) => ~x.pt[e][v].used
         /\ (\E q \in WSPages(x, e) : ~x.pt[e][q].modified) =>
               (x.pt[e][v].modified => ~x.pt[e][v].used)
    /\ x.algo = "LRU" =>
         \A i, j \in DOMAIN s : s[j].va = v => s[j].stamp <= s[i].stamp

\* If there was no panic, e runs on and what it lost the policy may evict.
Fair(x, y, e, s) ==
    y.ok /\ y.status[e] = "live" => \A v \in Lost(x, y, e) : Proper(x, e, v, s)

\* Bringing a page in and putting it in the list takes no other out.
LEMMA PutKeeps ==
    ASSUME NEW x, NEW e \in Env, NEW p \in Page, Ready(x, e, p), NEW used \in BOOLEAN,
           NEW y, \/ y = InsertAndSetHand(Bring(x, e, p, used), e, p)
                  \/ y = Insert(Bring(x, e, p, used), e, p),
           y.ok
    PROVE  Lost(x, y, e) = {}
<1> DEFINE m == Bring(x, e, p, used)
<1>1. /\ Moves(x, m, e, {p})
      /\ m.ok => /\ \A q \in Page : q # p => m.pt[e][q] = x.pt[e][q]
                 /\ m.pt[e][p].frame # NULL
  <2>1. Base(x) /\ x.pt[e][p].frame = NULL /\ (x.dpt[e][p] # NULL \/ MayBeNew(p))
      BY DEF Ready, Resident
  <2>2. QED
      BY <2>1, BringLemma, SMTT(40)
<1> HIDE DEF m
<1>2. \/ y = m \/ y = SetHand(InsertTail(m, e, p), e) \/ y = InsertTail(m, e, p)
    BY DEF InsertAndSetHand, Insert, m
<1>3. y.ok = m.ok /\ y.pt = m.pt
  <2>1. m \in KType
      BY <1>1 DEF Moves, Base
  <2>2. QED
      BY <1>2, <2>1, ZenonT(30) DEF SetHand, InsertTail, KType
<1>4. QED
    BY <1>1, <1>3 DEF Lost

\* A page is evicted, its element taken out of the list and p put in: only the
\* page that was evicted is lost.
LEMMA CutKeeps ==
    ASSUME NEW x, NEW e \in Env, NEW p \in Page, Busy(x, e, p), NEW v \in WSPages(x, e),
           Evict(x, e, v).ok, NEW t, Less(x.ws[e], t, v), NEW z,
           z = [Evict(x, e, v) EXCEPT !.ws[e] = t], NEW y, Lost(z, y, e) = {}
    PROVE  Lost(x, y, e) \subseteq {v}
<1> DEFINE m == Evict(x, e, v)
<1>1. x \in KType /\ x.ws[e] \in Seq(Element) /\ v \in Vas(x.ws[e]) /\ Base(x) /\ x.ok
    BY Fields DEF Busy, Base, WSPages, Vas
<1>2. v \in Page /\ x.pt[e][v].frame # NULL
    BY <1>1, IndexLemma DEF Busy, WorkingSetOk, Resident
<1>3. Moves(x, m, e, {p}) /\ \A q \in Page : q # v => m.pt[e][q] = x.pt[e][q]
    BY <1>1, <1>2, EvictLemma
<1> HIDE DEF m
<1>4. z.pt = m.pt
  <2>1. m \in KType /\ z = [m EXCEPT !.ws[e] = t]
      BY <1>3 DEF Moves, Base, m
  <2>2. QED
      BY <2>1 DEF KType
<1>5. QED
    BY <1>3, <1>4 DEF Lost

LEMMA ReplaceKeeps ==
    ASSUME NEW x, NEW e \in Env, NEW p \in Page, Busy(x, e, p), NEW v \in WSPages(x, e),
           NEW y, y = Replace(x, e, p, v), y.ok
    PROVE  Lost(x, y, e) \subseteq {v}
<1> DEFINE m == Evict(x, e, v)
           i == IndexOf(x.ws[e], v)
           t == SubSeq(x.ws[e], i + 1, Len(x.ws[e])) \o SubSeq(x.ws[e], 1, i - 1)
           z == [m EXCEPT !.ws[e] = t]
<1>1. /\ x \in KType /\ x.ws[e] \in Seq(Element) /\ v \in Vas(x.ws[e]) /\ Base(x) /\ x.ok
      /\ Once(x.ws[e])
    BY Fields DEF Busy, Base, WSPages, Vas, WorkingSetOk, OrderOk, Once
<1>2. v \in Page /\ x.pt[e][v].frame # NULL /\ i \in DOMAIN x.ws[e] /\ x.ws[e][i].va = v
    BY <1>1, IndexLemma DEF Busy, WorkingSetOk, Resident
<1>3. m.ws = x.ws
  <2>1. Rest(x, m)
      BY <1>1, <1>2, EvictLemma
  <2>2. QED
      BY <2>1 DEF Rest
<1>4. m.ok /\ y = Placement(TurnTo(m, e, v), e, p)
    BY DEF Replace, Succeed
<1>5. TurnTo(m, e, v) = z
    BY <1>3 DEF TurnTo
<1>6. Less(x.ws[e], t, v)
    BY <1>1, <1>2, TurnLess
<1> HIDE DEF i, t
<1>7. Ready(z, e, p)
    BY <1>4, <1>6, CutLemma
<1>8. Lost(z, y, e) = {}
    BY <1>4, <1>5, <1>7, PutKeeps DEF Placement
<1>9. QED
    BY <1>4, <1>6, <1>8, CutKeeps, SMTT(30)
LEMMA ClearedKeeps ==
    ASSUME NEW x, NEW e \in Env, NEW p \in Page, Busy(x, e, p), NEW v \in WSPages(x, e), NEW S,
           NEW y, y = Replace(ClearUsed(x, e, S), e, p, v), y.ok
    PROVE  Lost(x, y, e) \subseteq {v}
<1> DEFINE c == ClearUsed(x, e, S)
<1>1. /\ Busy(c, e, p) /\ WSPages(c, e) = WSPages(x, e)
      /\ \A q \in Page : c.pt[e][q].frame = x.pt[e][q].frame
    BY ClearedBusy, ZenonT(40)
<1> HIDE DEF c
<1>2. y = Replace(c, e, p, v)
    BY DEF c
<1>3. Lost(c, y, e) \subseteq {v}
    BY <1>1, <1>2, ReplaceKeeps
<1>4. QED
    BY <1>1, <1>3 DEF Lost

LEMMA ClockFair ==
    ASSUME NEW x, NEW e \in Env, NEW p \in Page, Busy(x, e, p), x.algo = "CLOCK",
           NEW y, y = replacement_CLOCK(x, e, p), NEW s
    PROVE  Fair(x, y, e, s)
<1> DEFINE h == FromHand(x, e)
           unused == {q \in WSPages(x, e) : ~x.pt[e][q].used}
           v == IF unused = {} THEN h[1] ELSE FirstIn(h, unused)
           passed == IF unused = {} THEN WSPages(x, e) ELSE Before(h, v)
<1>1. CASE HandLost(x, e)
  <2>1. y = Panic(x) /\ ~Panic(x).ok
      BY <1>1, PanicLemma DEF replacement_CLOCK, Busy
  <2>2. QED
      BY <2>1 DEF Fair
<1>2. CASE ~HandLost(x, e)
  <2>1. /\ DOMAIN h = 1 .. Len(x.ws[e]) /\ 1 \in DOMAIN h /\ Len(x.ws[e]) \in Nat
        /\ \A n \in DOMAIN h : h[n] \in WSPages(x, e)
        /\ \A q \in WSPages(x, e) : \E n \in DOMAIN h : h[n] = q
    <3>1. x \in KType /\ x.ws[e] \in Seq(Element)
        BY Fields DEF Busy, Base
    <3>2. QED
        BY <1>2, <3>1, FromHandLemma
  <2>2. unused # {} => \E n \in DOMAIN h : h[n] \in unused
      BY <2>1
  <2>3. y = Replace(ClearUsed(x, e, passed), e, p, v)
      BY <1>2, SMTT(30) DEF replacement_CLOCK
  <2> HIDE DEF h
  <2>4. v \in WSPages(x, e) /\ (unused # {} => ~x.pt[e][v].used)
    <3>1. CASE unused = {}
        BY <2>1, <3>1
    <3>2. CASE unused # {}
      <4> HIDE DEF unused
      <4>1. FirstIn(h, unused) \in unused
          BY <2>1, <2>2, <3>2, FirstInLemma
      <4>2. QED
          BY <3>2, <4>1 DEF unused
    <3>3. QED
        BY <3>1, <3>2
  <2>5. Proper(x, e, v, s)
      BY <2>4 DEF Proper
  <2> HIDE DEF v, passed
  <2>6. y.ok => Lost(x, y, e) \subseteq {v}
      BY <2>3, <2>4, ClearedKeeps
  <2>7. QED
      BY <2>5, <2>6 DEF Fair
<1>3. QED
    BY <1>1, <1>2

LEMMA ModifiedClockFair ==
    ASSUME NEW x, NEW e \in Env, NEW p \in Page, Busy(x, e, p), x.algo = "ModifiedCLOCK",
           NEW y, y = replacement_ModifiedCLOCK(x, e, p), NEW s
    PROVE  Fair(x, y, e, s)
<1> DEFINE h == FromHand(x, e)
           unused == {q \in WSPages(x, e) : ~x.pt[e][q].used}
           clean == {q \in WSPages(x, e) : ~x.pt[e][q].modified}
           v == CASE unused \intersect clean # {} -> FirstIn(h, unused \intersect clean)
                  [] unused # {} /\ unused \intersect clean = {} -> FirstIn(h, unused)
                  [] unused = {} /\ clean # {} -> FirstIn(h, clean)
                  [] OTHER -> h[1]
           passed == CASE unused \intersect clean # {} -> {}
                       [] unused # {} /\ unused \intersect clean = {} -> Before(h, v)
                       [] OTHER -> WSPages(x, e)
<1>1. CASE HandLost(x, e)
  <2>1. y = Panic(x) /\ ~Panic(x).ok
      BY <1>1, PanicLemma, ZenonT(30) DEF replacement_ModifiedCLOCK, Busy
  <2>2. QED
      BY <2>1, SMTT(30) DEF Fair
<1>2. CASE ~HandLost(x, e)
  <2>1. /\ DOMAIN h = 1 .. Len(x.ws[e]) /\ 1 \in DOMAIN h /\ Len(x.ws[e]) \in Nat
        /\ \A n \in DOMAIN h : h[n] \in WSPages(x, e)
        /\ \A q \in WSPages(x, e) : \E n \in DOMAIN h : h[n] = q
    <3>1. x \in KType /\ x.ws[e] \in Seq(Element)
        BY Fields, SMTT(30) DEF Busy, Base
    <3>2. QED
        BY <1>2, <3>1, FromHandLemma
  <2>2. y = Replace(ClearUsed(x, e, passed), e, p, v)
      BY <1>2, ZenonT(30) DEF replacement_ModifiedCLOCK
  <2> HIDE DEF h
  <2>3. ASSUME NEW S \in SUBSET WSPages(x, e), S # {} PROVE FirstIn(h, S) \in S
    <3>1. \E n \in DOMAIN h : h[n] \in S
        BY <2>1, <2>3
    <3>2. QED
        BY <2>1, <3>1, FirstInLemma
  <2>4. unused \in SUBSET WSPages(x, e) /\ clean \in SUBSET WSPages(x, e)
      OBVIOUS
  <2> HIDE DEF unused, clean
  <2>5. /\ v \in WSPages(x, e)
        /\ unused \intersect clean # {} => v \in unused \intersect clean
        /\ unused # {} => v \in unused
        /\ unused = {} /\ clean # {} => v \in clean
    <3>1. CASE unused \intersect clean # {}
        BY <2>3, <2>4, <3>1
    <3>2. CASE unused # {} /\ unused \intersect clean = {}
        BY <2>3, <2>4, <3>2
    <3>3. CASE unused = {} /\ clean # {}
        BY <2>3, <2>4, <3>3
    <3>4. CASE unused = {} /\ clean = {}
        BY <2>1, <3>4
    <3>5. QED
        BY <3>1, <3>2, <3>3, <3>4
  <2> HIDE DEF v, passed
  <2>6. Proper(x, e, v, s)
      BY <2>5 DEF Proper, unused, clean
  <2>7. y.ok => Lost(x, y, e) \subseteq {v}
      BY <2>2, <2>5, ClearedKeeps
  <2>8. QED
      BY <2>6, <2>7 DEF Fair
<1>3. QED
    BY <1>1, <1>2

LEMMA LRUFair ==
    ASSUME NEW x, NEW e \in Env, NEW p \in Page, Busy(x, e, p), x.algo = "LRU",
           NEW y, y = replacement_LRU(x, e, p)
    PROVE  Fair(x, y, e, x.ws[e])
<1> DEFINE w == x.ws[e]
           old == Oldest(w)
           i == CHOOSE i \in old : \A j \in old : i <= j
           v == w[i].va
           m == Evict(x, e, v)
           z == [m EXCEPT !.ws[e] = RemoveAt(w, i)]
<1>1. CASE old = {}
  <2>1. y = Panic(x) /\ ~Panic(x).ok
      BY <1>1, PanicLemma DEF replacement_LRU, Busy
  <2>2. QED
      BY <2>1 DEF Fair
<1>2. CASE old # {} /\ y.ok
  <2>1. w \in Seq(Element) /\ Once(w) /\ Base(x) /\ x.ok
      BY Fields DEF Busy, Base, WorkingSetOk, OrderOk, Once
  <2>2. i \in old
    <3>1. old \subseteq Nat
        BY <2>1 DEF Oldest
    <3> HIDE DEF old
    <3>2. \E j \in old : \A n \in old : j <= n
        BY <1>2, <3>1, LeastNatural
    <3>3. QED
        BY <3>2
  <2>3. i \in DOMAIN w /\ \A j \in DOMAIN w : w[i].stamp <= w[j].stamp
      BY <2>2, ZenonT(30) DEF Oldest
  <2>4. y = SucceedAt(m, e, p, i)
      BY <1>2 DEF replacement_LRU
  <2> HIDE DEF i, old
  <2>5. v \in WSPages(x, e) /\ Less(w, RemoveAt(w, i), v)
      BY <2>1, <2>3, RemoveLess DEF WSPages
  <2>6. Proper(x, e, v, w)
      BY <2>1, <2>3, SMTT(30) DEF Proper, Once
  <2>7. v \in Page /\ x.pt[e][v].frame # NULL
      BY <2>1, <2>5, IndexLemma DEF Busy, WorkingSetOk, Resident, Vas, WSPages
  <2> HIDE DEF v
  <2>8. m.ws = x.ws
    <3>1. Rest(x, m)
        BY <2>1, <2>7, EvictLemma
    <3>2. QED
        BY <3>1 DEF Rest
  <2>9. m.ok /\ y = Insert(Bring(z, e, p, TRUE), e, p)
      BY <1>2, <2>4, <2>8 DEF SucceedAt
  <2>10. Ready(z, e, p)
      BY <2>5, <2>9, CutLemma
  <2>11. Lost(z, y, e) = {}
      BY <1>2, <2>9, <2>10, PutKeeps
  <2>12. Lost(x, y, e) \subseteq {v}
    <3> DEFINE t == RemoveAt(w, i)
    <3>1. z = [Evict(x, e, v) EXCEPT !.ws[e] = t] /\ Evict(x, e, v).ok /\ Less(x.ws[e], t, v)
        BY <2>5, <2>9
    <3> HIDE DEF z, m, t
    <3>2. QED
        BY <2>5, <2>11, <3>1, CutKeeps
  <2>13. QED
      BY <2>6, <2>12 DEF Fair
<1>3. QED
    BY <1>1, <1>2 DEF Fair
LEMMA HandlerFair ==
    ASSUME NEW x, NEW e \in Env, NEW p \in Page, Busy(x, e, p),
           NEW y, y = page_fault_handler(x, e, p)
    PROVE  Fair(x, y, e, x.ws[e])
<1>1. /\ x \in KType /\ x.ws[e] \in Seq(Element) /\ Len(x.ws[e]) \in Nat
      /\ x.max \in Nat /\ x.algo \in Algos \ {"OPTIMAL"} /\ x.active = <<>>
    BY Fields DEF Busy, Base, WorkingSetOk
<1>2. CASE Len(x.ws[e]) < x.max
  <2>1. y = Placement(x, e, p)
      BY <1>1, <1>2 DEF page_fault_handler, Algos
  <2>2. Ready(x, e, p)
      BY <1>1, <1>2 DEF Busy, Ready, WorkingSetOk, OrderOk, Once, WSPages, Vas
  <2>3. y.ok => Lost(x, y, e) = {}
      BY <2>1, <2>2, PutKeeps DEF Placement
  <2>4. QED
      BY <2>3 DEF Fair
<1>3. CASE Len(x.ws[e]) >= x.max /\ x.algo = "LRU"
  <2>1. y = replacement_LRU(x, e, p)
      BY <1>1, <1>3 DEF page_fault_handler, Algos
  <2>2. QED
      BY <1>3, <2>1, LRUFair
<1>4. CASE Len(x.ws[e]) >= x.max /\ x.algo \in {"CLOCK", "ModifiedCLOCK"}
  <2>1. ~is_page_in_ws(x, p)
      BY <1>1 DEF is_page_in_ws
  <2>2. y = IF x.algo = "CLOCK" THEN replacement_CLOCK(x, e, p)
            ELSE replacement_ModifiedCLOCK(x, e, p)
      BY <1>1, <1>4, <2>1 DEF page_fault_handler, Algos
  <2>3. QED
      BY <1>4, <2>2, ClockFair, ModifiedClockFair
<1>5. QED
    BY <1>1, <1>2, <1>3, <1>4 DEF Algos

\* The other ways a fault may go lose nothing, or end the process.
LEMMA HandleFair ==
    ASSUME NEW x, NEW e \in Env, NEW p \in Page, NEW userTrap \in BOOLEAN,
           Faulting(x, e, p, userTrap), NEW y, y = HandleFault(x, e, p, userTrap)
    PROVE  Fair(x, y, e, x.ws[e])
<1>1. Base(x) /\ x \in KType /\ x.status \in [Env -> {"free", "live", "exit"}]
    BY Fields DEF Faulting, Base
<1>2. ~Panic(x).ok
    BY <1>1, PanicLemma
<1>3. CASE x.algo = "OPTIMAL"
    BY <1>3 DEF Fair, Proper
<1>4. CASE x.num = 3
    BY <1>2, <1>4 DEF HandleFault, Fair
<1>5. CASE x.num # 3 /\ userTrap /\ InvalidPointer(x, e, p)
  <2>1. y = [x EXCEPT !.status[e] = "exit"]
      BY <1>5 DEF HandleFault, env_exit
  <2>2. y.status[e] = "exit"
      BY <1>1, <2>1 DEF KType
  <2>3. QED
      BY <2>2 DEF Fair
<1>6. CASE x.algo # "OPTIMAL" /\ x.num # 3 /\ ~(userTrap /\ InvalidPointer(x, e, p))
  <2>1. y = IF ~get_page_table(x, e, p) THEN table_fault_handler(x, e, p)
            ELSE IF x.pt[e][p].present THEN Panic(x) ELSE page_fault_handler(x, e, p)
      BY <1>6 DEF HandleFault
  <2>2. CASE ~get_page_table(x, e, p)
    <3>1. y = create_page_table(x, e, p)
        BY <2>1, <2>2 DEF table_fault_handler
    <3>2. y.pt = x.pt
        BY <1>1, <3>1 DEF create_page_table, KType
    <3>3. QED
        BY <3>2 DEF Fair, Lost
  <2>3. CASE get_page_table(x, e, p) /\ x.pt[e][p].present
      BY <1>2, <2>1, <2>3 DEF Fair
  <2>4. CASE get_page_table(x, e, p) /\ ~x.pt[e][p].present
    <3>1. x.dpt[e][p] # NULL \/ MayBeNew(p)
        BY <1>6 DEF Faulting, InvalidPointer
    <3>2. Busy(x, e, p)
        BY <1>6, <2>4, <3>1, SMTT(30) DEF Busy, Faulting, WorkingSetOk, Resident
    <3>3. QED
        BY <2>1, <2>4, <3>2, HandlerFair
  <2>5. QED
      BY <2>2, <2>3, <2>4
<1>7. QED
    BY <1>3, <1>4, <1>5, <1>6

\* Aging shifts the stamp of every element and leaves its page.
LEMMA AgedLemma ==
    ASSUME NEW x \in KType, NEW e \in Env
    PROVE  LET s == update_WS_time_stamps(x, e).ws[e]
               w == x.ws[e]
           IN  /\ DOMAIN s = DOMAIN w
               /\ \A i \in DOMAIN w : /\ s[i] = Shifted(w[i], x.pt[e][w[i].va].used)
                                      /\ s[i].va = w[i].va
<1> DEFINE w == x.ws[e]
           t == [i \in DOMAIN w |-> Shifted(w[i], x.pt[e][w[i].va].used)]
<1>1. x.ws \in [Env -> Seq(Element)]
    BY Fields
<1>2. update_WS_time_stamps(x, e).ws[e] = t
    BY <1>1 DEF update_WS_time_stamps, KType
<1>3. ASSUME NEW i \in DOMAIN w PROVE Shifted(w[i], x.pt[e][w[i].va].used).va = w[i].va
  <2>1. w[i] \in Element
      BY <1>1
  <2>2. QED
      BY <2>1 DEF Shifted, Element
<1>4. QED
    BY <1>2, <1>3, ZenonT(30)

LEMMA FaultFair ==
    ASSUME NEW x, NEW e \in Env, NEW p \in Page, NEW userTrap \in BOOLEAN,
           Faulting(x, e, p, userTrap), NEW y, y = PageFault(x, e, p, userTrap)
    PROVE  Fair(x, y, e, update_WS_time_stamps(x, e).ws[e])
<1> DEFINE c == Counted(x, e, p)
           u == IF x.algo = "LRU" THEN update_WS_time_stamps(x, e) ELSE x
           s == update_WS_time_stamps(x, e).ws[e]
<1>1. /\ y = HandleFault(c, e, p, userTrap)
      /\ Alike(x, c, e) /\ Faulting(c, e, p, userTrap)
    BY CountedLemma
<1>2. c.ws = u.ws /\ c.pt = u.pt
  <2>1. Alike(x, update_WS_time_stamps(x, e), e)
      BY AgeLemma DEF Faulting
  <2>2. u \in KType
      BY <2>1 DEF Faulting, Alike, Base
  <2>3. c = CountFault(u, e, p)
      BY DEF Counted
  <2> HIDE DEF u, c
  <2>4. QED
      BY <2>2, <2>3 DEF CountFault, KType
<1> HIDE DEF c
<1>3. Fair(c, y, e, c.ws[e])
    BY <1>1, HandleFair
<1>4. /\ \A q \in Page : c.pt[e][q].frame = x.pt[e][q].frame
      /\ WSPages(c, e) = WSPages(x, e) /\ c.algo = x.algo
    BY <1>1 DEF Alike, Moves
<1>5. Lost(c, y, e) = Lost(x, y, e)
    BY <1>4 DEF Lost
<1>6. CASE x.algo = "LRU"
  <2>1. c.ws[e] = s
      BY <1>2, <1>6
  <2> HIDE DEF s
  <2>2. QED
      BY <1>3, <1>4, <1>5, <1>6, <2>1 DEF Fair, Proper, s
<1>7. CASE x.algo # "LRU"
  <2>1. c.pt = x.pt
      BY <1>2, <1>7
  <2>2. QED
      BY <1>3, <1>4, <1>5, <1>7, <2>1 DEF Fair, Proper
<1>8. QED
    BY <1>6, <1>7
\* What a fault of e evicts is of e.
LEMMA FaultOthers ==
    ASSUME NEW x, NEW e \in Env, NEW p \in Page, NEW userTrap \in BOOLEAN,
           Faulting(x, e, p, userTrap)
    PROVE  LET y == PageFault(x, e, p, userTrap)
           IN  y.algo = x.algo /\ \A a \in Env \ {e} : y.ws[a] = x.ws[a]
<1> DEFINE y == PageFault(x, e, p, userTrap)
<1>1. PICK z : /\ Moves(x, z, e, {}) \/ Moves(x, z, e, {p})
               /\ y = z \/ y = env_exit(z, e)
    BY PageFaultLemma DEF Handled, Done
<1>2. z \in KType
    BY <1>1 DEF Moves, Base
<1> HIDE DEF y
<1>3. y.ws = z.ws /\ y.algo = z.algo
    BY <1>1, <1>2 DEF env_exit, KType
<1>4. QED
    BY <1>1, <1>3 DEF Moves, y

\* Freeing the page p evicts, apart from p, what the fault at p evicts.
LEMMA FreeFair ==
    ASSUME NEW x, NEW w, World(x, w), x.ok, NEW e \in Env, x.status[e] = "live",
           NEW p \in HeapPages, x.pt[e][p].uhpage,
           NEW u, NEW z, NEW y, Freeing(x, u, z, y, e, p), y.ok, y.status[e] = "live",
           NEW v \in Lost(x, y, e), y.pt[e][v].uhpage = x.pt[e][v].uhpage
    PROVE  Proper(x, e, v, update_WS_time_stamps(x, e).ws[e])
<1> DEFINE s == update_WS_time_stamps(x, e).ws[e]
           t == update_WS_time_stamps(u, e).ws[e]
<1>1. /\ Freed(x, u, z, y, e, p) /\ p \in Page
      /\ v \in Page /\ x.pt[e][v].frame # NULL /\ y.pt[e][v].frame = NULL
    BY FreeNears DEF Lost, Page
<1>2. /\ Marked(x, u, e, p, u.pt[e][p]) /\ ~u.pt[e][p].uhpage
      /\ WorkingSetOk(u, e) /\ Faulting(u, e, p, FALSE) /\ x \in KType /\ u \in KType
      /\ Moves(u, z, e, {p}) /\ Nears(z, y, e, p)
      /\ \A q \in Page : q # p => y.pt[e][q] = z.pt[e][q]
      /\ y.pt[e][p].uhpage = z.pt[e][p].uhpage
    BY <1>1 DEF Freed, World, Base, Faulting
<1>3. z.ok /\ z.status[e] = "live"
    BY <1>2 DEF Nears
<1>4. ~y.pt[e][p].uhpage
    BY <1>1, <1>2, <1>3 DEF Moves
<1>5. v # p
    BY <1>4
<1>6. /\ u.ws = x.ws /\ u.algo = x.algo
      /\ \A q \in Page : q # p => u.pt[e][q] = x.pt[e][q]
    BY <1>2 DEF Marked, Rest
<1>7. v \in Lost(u, z, e)
    BY <1>1, <1>2, <1>5, <1>6, SMTT(30) DEF Lost
<1>8. z = PageFault(u, e, p, FALSE) /\ ~u.pt[e][p].present
    BY <1>7, ZenonT(30) DEF Freeing, Lost
<1>9. Fair(u, z, e, t)
  <2>1. FALSE \in BOOLEAN
      OBVIOUS
  <2>2. QED
      BY <1>1, <1>2, <1>8, <2>1, FaultFair
<1>10. Proper(u, e, v, t)
    BY <1>3, <1>7, <1>9 DEF Fair
<1>11. CASE x.algo = "OPTIMAL"
    BY <1>11 DEF Proper
<1>12. CASE x.algo # "OPTIMAL"
  <2>1. WSPages(u, e) = WSPages(x, e) /\ WSPages(x, e) \subseteq Page
    <3>1. x.ws[e] \in Seq(Element)
        BY <1>2, Fields
    <3>2. \A i \in DOMAIN x.ws[e] : x.ws[e][i].va \in Page
      <4>1. \A i \in DOMAIN x.ws[e] : x.ws[e][i] \in Element
          BY <3>1
      <4>2. QED
          BY <4>1 DEF Element
    <3>3. QED
        BY <1>6, <3>2 DEF WSPages
  <2>2. p \notin WSPages(x, e)
      BY <1>1, <1>2, <1>6, <1>8, <1>12, <2>1 DEF WorkingSetOk, Resident
  <2>3. \A q \in WSPages(x, e) : u.pt[e][q] = x.pt[e][q]
      BY <1>6, <2>1, <2>2
  <2>4. u.pt[e][v] = x.pt[e][v]
      BY <1>1, <1>5, <1>6
  <2>5. DOMAIN s = DOMAIN t /\ \A i \in DOMAIN s : s[i] = t[i]
    <3>1. /\ DOMAIN s = DOMAIN x.ws[e] /\ DOMAIN t = DOMAIN u.ws[e]
          /\ \A i \in DOMAIN x.ws[e] : s[i] = Shifted(x.ws[e][i], x.pt[e][x.ws[e][i].va].used)
          /\ \A i \in DOMAIN u.ws[e] : t[i] = Shifted(u.ws[e][i], u.pt[e][u.ws[e][i].va].used)
        BY <1>2, AgedLemma, ZenonT(30)
    <3>2. \A i \in DOMAIN x.ws[e] : u.pt[e][x.ws[e][i].va] = x.pt[e][x.ws[e][i].va]
        BY <2>3 DEF WSPages
    <3> HIDE DEF s, t
    <3>3. DOMAIN s = DOMAIN t
        BY <1>6, <3>1, ZenonT(30)
    <3>4. ASSUME NEW i \in DOMAIN s PROVE s[i] = t[i]
      <4>1. i \in DOMAIN x.ws[e] /\ i \in DOMAIN u.ws[e] /\ u.ws[e][i] = x.ws[e][i]
          BY <1>6, <3>1, SMTT(30)
      <4>2. /\ s[i] = Shifted(x.ws[e][i], x.pt[e][x.ws[e][i].va].used)
            /\ t[i] = Shifted(u.ws[e][i], u.pt[e][u.ws[e][i].va].used)
          BY <3>1, <4>1, ZenonT(30)
      <4>3. u.pt[e][u.ws[e][i].va] = x.pt[e][x.ws[e][i].va]
          BY <3>2, <4>1
      <4>4. QED
          BY <4>1, <4>2, <4>3, ZenonT(30)
    <3>5. QED
        BY <3>3, <3>4, SMTT(30)
  <2> HIDE DEF s, t
  <2>6. Proper(x, e, v, s)
    <3>1. x.algo = "CLOCK" => (x.pt[e][v].used => \A q \in WSPages(x, e) : x.pt[e][q].used)
        BY <1>6, <1>10, <2>1, <2>3, <2>4 DEF Proper
    <3>2. x.algo = "ModifiedCLOCK" =>
            /\ (\E q \in WSPages(x, e) : ~x.pt[e][q].used /\ ~x.pt[e][q].modified) =>
                  ~x.pt[e][v].used /\ ~x.pt[e][v].modified
            /\ (\E q \in WSPages(x, e) : ~x.pt[e][q].used) => ~x.pt[e][v].used
            /\ (\E q \in WSPages(x, e) : ~x.pt[e][q].modified) =>
                  (x.pt[e][v].modified => ~x.pt[e][v].used)
        BY <1>6, <1>10, <2>1, <2>3, <2>4 DEF Proper
    <3>3. x.algo = "LRU" =>
            \A i, j \in DOMAIN s : s[j].va = v => s[j].stamp <= s[i].stamp
        BY <1>6, <1>10, <2>5 DEF Proper
    <3>4. QED
        BY <3>1, <3>2, <3>3 DEF Proper
  <2>7. QED
      BY <2>6 DEF s
<1>13. QED
    BY <1>11, <1>12
\* What e lost in a step is what RightVictim says of it.
LEMMA OwnVictim ==
    ASSUME Sound, Sound', k.ok, NEW e \in Env, NEW v \in Evicted(e), k'.algo = k.algo,
           v \in Lost(k, k', e) => Proper(k, e, v, Aged(e).ws[e])
    PROVE  RightVictim(e, v)
<1>1. /\ k \in KType /\ WorkingSetOk(k, e) /\ k.algo \in Algos /\ k.ws[e] \in Seq(Element)
      /\ k'.ok /\ v \in WSPages(k, e) /\ v \notin WSPages(k', e) /\ WorkingSetOk(k', e)
    BY Fields DEF Sound, World, Good, Base, Evicted
<1>2. v \in Vas(k.ws[e])
    BY <1>1 DEF WSPages, Vas
<1>3. IndexOf(k.ws[e], v) \in DOMAIN k.ws[e] /\ k.ws[e][IndexOf(k.ws[e], v)].va = v /\ v \in Page
    BY <1>1, <1>2, IndexLemma
<1>4. CASE k.algo = "OPTIMAL"
    BY <1>4 DEF RightVictim
<1>5. CASE k.algo # "OPTIMAL"
  <2>1. v \in Lost(k, k', e)
      BY <1>1, <1>3, <1>5 DEF WorkingSetOk, Resident, Lost
  <2>2. Proper(k, e, v, Aged(e).ws[e])
      BY <2>1
  <2>3. CASE k.algo = "CLOCK"
      BY <2>2, <2>3 DEF RightVictim, Proper
  <2>4. CASE k.algo = "ModifiedCLOCK"
      BY <2>2, <2>4 DEF RightVictim, Proper
  <2>5. CASE k.algo = "LRU"
    <3> DEFINE s == Aged(e).ws[e]
               j == IndexOf(k.ws[e], v)
    <3>1. DOMAIN s = DOMAIN k.ws[e] /\ \A i \in DOMAIN k.ws[e] : s[i].va = k.ws[e][i].va
        BY <1>1, AgedLemma DEF Aged
    <3>2. \A i \in DOMAIN s : \A n \in DOMAIN s : s[n].va = v => s[n].stamp <= s[i].stamp
        BY <2>2, <2>5 DEF Proper
    <3>3. j \in DOMAIN k.ws[e] /\ k.ws[e][j].va = v
        BY <1>3
    <3>4. RightVictim(e, v) <=> \A i \in DOMAIN k.ws[e] : s[j].stamp <= s[i].stamp
        BY <2>5 DEF RightVictim
    <3> HIDE DEF s, j
    <3>5. QED
        BY <3>1, <3>2, <3>3, <3>4
  <2>6. QED
      BY <1>1, <1>5, <2>3, <2>4, <2>5 DEF Algos
<1>6. QED
    BY <1>4, <1>5

\* A step that leaves the list of e, or its pages, evicts nothing of e.
LEMMA NoVictim ==
    ASSUME NEW e, k'.ws[e] = k.ws[e] \/ WSPages(k', e) = WSPages(k, e)
                  \/ k.status[e] # "live"
    PROVE  Evicted(e) = {}
BY DEF Evicted, WSPages

LEMMA AccessVictim ==
    ASSUME Sound, Sound', NEW e \in Env, NEW p \in Page, NEW b \in Value \union {NULL},
           Access(e, p, b), ~Strays(p), NEW a \in Env, NEW v \in Evicted(a)
    PROVE  RightVictim(a, v)
<1>1. World(k, want) /\ k.ok /\ k.status[e] = "live" /\ k \in KType
    BY DEF Sound, Access, Runs, World, Base
<1>2. CASE k.pt[e][p].present
  <2>1. k' = Touch(k, e, p, b)
      BY <1>2 DEF Access
  <2>2. k'.ws = k.ws
      BY <1>1, <2>1 DEF Touch, KType
  <2>3. QED
      BY <2>2, NoVictim
<1>3. CASE ~k.pt[e][p].present
  <2>1. k' = PageFault(k, e, p, TRUE) /\ TRUE \in BOOLEAN
      BY <1>3 DEF Access
  <2>2. Faulting(k, e, p, TRUE)
      BY <1>1, FaultingLemma DEF Strays
  <2>3. k'.algo = k.algo /\ \A c \in Env \ {e} : k'.ws[c] = k.ws[c]
    <3>1. LET y == PageFault(k, e, p, TRUE)
          IN  y.algo = k.algo /\ \A c \in Env \ {e} : y.ws[c] = k.ws[c]
        BY <2>1, <2>2, FaultOthers
    <3>2. QED
        BY <2>1, <3>1
  <2>4. CASE a # e
      BY <2>3, <2>4, NoVictim
  <2>5. CASE a = e
    <3>1. Fair(k, k', e, Aged(e).ws[e])
        BY <2>1, <2>2, FaultFair DEF Aged
    <3>2. v \in Lost(k, k', e) => Proper(k, e, v, Aged(e).ws[e])
        BY <2>5, <3>1 DEF Fair, Evicted
    <3>3. QED
        BY <1>1, <2>3, <2>5, <3>2, OwnVictim
  <2>6. QED
      BY <2>4, <2>5
<1>4. QED
    BY <1>2, <1>3

LEMMA FreeVictim ==
    ASSUME Sound, Sound', NEW e \in Env, free_user_mem(e), NEW a \in Env, NEW v \in Evicted(a),
           k'.pt[a][v].uhpage = k.pt[a][v].uhpage
    PROVE  RightVictim(a, v)
<1>1. PICK p \in HeapPages :
        /\ k.ok /\ k.status[e] = "live" /\ k.pt[e][p].uhpage
        /\ k' = LET u == pt_set_page_permissions(k, e, p,
                           [k.pt[e][p] EXCEPT !.uhpage = FALSE])
                IN  Invalidate(ReadBack(u, e, p), e, p)
    BY ZenonT(30) DEF free_user_mem, Runs
<1>2. PICK u, z : Freeing(k, u, z, k', e, p)
    BY <1>1, ZenonT(30) DEF Freeing, ReadBack
<1>3. World(k, want)
    BY DEF Sound
<1>4. Freed(k, u, z, k', e, p)
    BY <1>1, <1>2, <1>3, FreeNears
<1>5. Nears(k, k', e, p)
    BY <1>4 DEF Freed
<1>6. CASE a # e
  <2>1. k'.ws[a] = k.ws[a]
      BY <1>5, <1>6 DEF Nears
  <2>2. QED
      BY <2>1, NoVictim
<1>7. CASE a = e
  <2>1. k'.ok /\ k'.status[e] = "live"
      BY <1>7 DEF Evicted
  <2>2. v \in Lost(k, k', e) => Proper(k, e, v, Aged(e).ws[e])
      BY <1>1, <1>2, <1>3, <1>7, <2>1, FreeFair DEF Aged
  <2>3. k'.algo = k.algo
      BY <1>5 DEF Nears
  <2>4. QED
      BY <1>1, <1>7, <2>2, <2>3, OwnVictim
<1>8. QED
    BY <1>6, <1>7

\* Loading a program, marking a page and the clock evict nothing.
LEMMA OtherVictim ==
    ASSUME Sound, NEW e \in Env, env_create(e) \/ allocate_user_mem(e) \/ clock_ages(e),
           NEW a \in Env
    PROVE  Evicted(a) = {}
<1> DEFINE C == Content \union {Unknown}
<1>1. World(k, want) /\ want \in [Env -> [Page -> C]]
    BY DEF Sound
<1> HIDE DEF C
<1>2. CASE env_create(e)
  <2>1. /\ k.ok /\ k.status[e] = "free"
        /\ k' = LoadStack(LoadSegments(initialize_environment(k, e), e), e)
      BY <1>2 DEF env_create
  <2>2. \A c \in Env \ {e} : k'.ws[c] = k.ws[c]
      BY <1>1, <2>1, CreateWorld
  <2>3. QED
      BY <2>1, <2>2, NoVictim
<1>3. CASE allocate_user_mem(e)
  <2>1. PICK p \in HeapPages :
        /\ k.ok /\ k.status[e] = "live" /\ ~k.pt[e][p].uhpage
        /\ k' = pt_set_page_permissions(WithTable(k, e, p), e, p,
                   [k.pt[e][p] EXCEPT !.uhpage = TRUE, !.present = FALSE])
      BY <1>3, ZenonT(30) DEF allocate_user_mem, Runs
  <2>2. k'.ws = k.ws
      BY <1>1, <2>1, MallocWorld, ZenonT(30)
  <2>3. QED
      BY <2>2, NoVictim
<1>4. CASE clock_ages(e)
  <2>1. k' = update_WS_time_stamps(k, e)
      BY <1>4 DEF clock_ages
  <2>2. Alike(k, k', e)
      BY <1>1, <2>1, AgeLemma DEF World
  <2>3. WSPages(k', e) = WSPages(k, e) /\ \A c \in Env \ {e} : k'.ws[c] = k.ws[c]
      BY <2>2 DEF Alike, Moves
  <2>4. QED
      BY <2>3, NoVictim
<1>5. QED
    BY <1>2, <1>3, <1>4

\* Each policy evicts what it is meant to: CLOCK no used page while there is an
\* unused one; modified CLOCK the lowest class there is, for unmodified before
\* used; LRU a page whose aged stamp is least (fault_handler.c:482-696).
THEOREM VictimIsRightAlways == Spec => VictimIsRight
<1>1. ASSUME Sound, Sound', [Next]_vars, ~strayed', NEW a \in Env, NEW v \in Evicted(a),
             k'.pt[a][v].uhpage = k.pt[a][v].uhpage
      PROVE  RightVictim(a, v)
  <2>1. CASE UNCHANGED vars
      BY <1>1, <2>1, NoVictim DEF vars
  <2>2. CASE Next
    <3>1. PICK e \in Env : \/ env_create(e)        \/ Instruction(e)
                           \/ allocate_user_mem(e) \/ free_user_mem(e)
                           \/ clock_ages(e)
        BY <2>2 DEF Next
    <3>2. CASE Instruction(e)
      <4>1. PICK p \in Page, b \in Value \union {NULL} : Access(e, p, b)
          BY <3>2 DEF Instruction
      <4>2. ~Strays(p)
          BY <1>1, <4>1 DEF Access
      <4>3. QED
          BY <1>1, <4>1, <4>2, AccessVictim
    <3>3. CASE free_user_mem(e)
        BY <1>1, <3>3, FreeVictim
    <3>4. CASE env_create(e) \/ allocate_user_mem(e) \/ clock_ages(e)
        BY <1>1, <3>4, OtherVictim
    <3>5. QED
        BY <3>1, <3>2, <3>3, <3>4
  <2>3. QED
      BY <1>1, <2>1, <2>2
<1>2. Inv /\ Inv' /\ [Next]_vars =>
        [~strayed' => \A e \in Env : \A v \in Evicted(e) :
           k'.pt[e][v].uhpage = k.pt[e][v].uhpage => RightVictim(e, v)]_vars
    BY <1>1, StrayedLemma DEF Inv
<1>3. QED
    BY <1>2, InvAlways, PTL DEF Spec, VictimIsRight
=============================================================================
