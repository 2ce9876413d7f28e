---------------------------- MODULE KHeapProofs ----------------------------
(***************************************************************************)
(* KHeap proved, for any number of pages and frames, any page size and any *)
(* requests: no two allocations overlap, nothing leaks, the address        *)
(* conversions agree, the break is tight, contents are kept and placement  *)
(* is custom fit.                                                          *)
(***************************************************************************)
EXTENDS KHeap, QueueLemmas, SequenceTheorems

\* The heap with its page table and frames, between calls and within them.
HeapType ==
    [size : [Page -> 0 .. MaxSize], brk : 1 .. HeapMax,
     pt : [Page -> Frame \union {NoFrame}], mapped_va : [Frame -> 0 .. N],
     mem : [Frame -> 0 .. N], free : Seq(Frame), blocks : SUBSET Block, ok : BOOLEAN]

\* FramesAndAddresses of any heap.
FramesOk(s) ==
    /\ IsInjective(s.free)
    /\ \A f \in Frame : f \in Range(s.free) <=> s.mapped_va[f] = NULL
    /\ \A v \in Page, f \in Frame : s.pt[v] = f <=> s.mapped_va[f] = v

\* The pages that the recorded sizes give to an allocation, none where the
\* size is 0; allocations lie below the break and share no page.
Extent(s, v) == Span(v, Pages(s.size[v]))

Tiled(s) ==
    /\ \A v \in Page : Extent(s, v) \subseteq 1 .. s.brk - 1
    /\ \A u, v \in Page : u # v => Extent(s, u) \intersect Extent(s, v) = {}

\* A page below the break that no allocation covers, and a maximal run of n.
IsFree(s, u) == u \in 1 .. s.brk - 1 /\ \A x \in Page : u \notin Extent(s, x)

HoleAt(s, v, n) ==
    /\ \A u \in Span(v, n) : IsFree(s, u)
    /\ ~IsFree(s, v - 1) /\ ~IsFree(s, v + n)

\* Its pages are present; unless the frames have run out, no others are, and
\* the break is right above one of them.
Backed(s) == \A v \in Page : \A u \in Extent(s, v) : s.pt[u] # NoFrame
NoLeak(s) == \A u \in Page : s.pt[u] # NoFrame => \E v \in Page : u \in Extent(s, v)
Tight(s)  == s.brk > 1 => s.pt[s.brk - 1] # NoFrame

Good(s) ==
    /\ s \in HeapType /\ FramesOk(s) /\ Tiled(s) /\ Backed(s)
    /\ s.ok => NoLeak(s) /\ Tight(s)

\* What is in a page.
Val(s, u) == s.mem[s.pt[u]]

-----------------------------------------------------------------------------
\* Whole pages.
LEMMA PagesType ==
    ASSUME NEW size \in Nat
    PROVE  Pages(size) \in Nat /\ (Pages(size) = 0 <=> size = 0)
<1>1. Unit \in Nat /\ Unit > 0
    BY KHeapAssumption
<1>2. size = 0 => Pages(size) = 0
    BY <1>1 DEF Pages
<1>3. size > 0 => Pages(size) \in Nat /\ Pages(size) > 0
    BY <1>1 DEF Pages
<1>4. QED
    BY <1>2, <1>3

\* Mapping one page.
LEMMA GetPageLemma ==
    ASSUME NEW s \in HeapType, FramesOk(s), NEW v \in Page
    PROVE  LET m == get_page(s, v) IN
           /\ m \in HeapType /\ FramesOk(m)
           /\ m.size = s.size /\ m.brk = s.brk /\ m.mem = s.mem /\ m.blocks = s.blocks
           /\ \A u \in Page : s.pt[u] # NoFrame \/ u # v => m.pt[u] = s.pt[u]
           /\ m.ok => s.ok /\ m.pt[v] # NoFrame
<1> DEFINE m == get_page(s, v)
<1>1. CASE ~s.ok \/ s.pt[v] # NoFrame
    BY <1>1 DEF get_page
<1>2. CASE s.ok /\ s.pt[v] = NoFrame /\ s.free = <<>>
  <2>1. m = [s EXCEPT !.ok = FALSE]
      BY <1>2 DEF get_page
  <2>2. m \in HeapType /\ m.free = s.free /\ m.pt = s.pt /\ m.mapped_va = s.mapped_va
        /\ m.size = s.size /\ m.brk = s.brk /\ m.mem = s.mem /\ m.blocks = s.blocks
        /\ m.ok = FALSE
      BY <2>1 DEF HeapType
  <2>3. FramesOk(m)
      BY <2>2 DEF FramesOk
  <2>4. QED
      BY <2>2, <2>3
<1>3. CASE s.ok /\ s.pt[v] = NoFrame /\ s.free # <<>>
  <2> DEFINE f == Head(s.free)
  <2>1. /\ s.free \in Seq(Frame) /\ IsInjective(s.free)
        /\ s.pt \in [Page -> Frame \union {NoFrame}] /\ s.mapped_va \in [Frame -> 0 .. N]
      BY DEF HeapType, FramesOk
  <2>2. f \in Frame /\ f \in Range(s.free) /\ Tail(s.free) \in Seq(Frame)
        /\ IsInjective(Tail(s.free)) /\ Range(Tail(s.free)) = Range(s.free) \ {f}
      BY <1>3, <2>1, TailLemma
  <2>3. m = [s EXCEPT !.pt[v] = f, !.mapped_va[f] = v, !.free = Tail(@)]
      BY <1>3 DEF get_page
  <2> HIDE DEF f
  <2>4. v \in 0 .. N /\ v # NULL
      BY KHeapAssumption DEF Page, NULL
  <2>5. m \in HeapType /\ m.free = Tail(s.free) /\ m.pt = [s.pt EXCEPT ![v] = f]
        /\ m.mapped_va = [s.mapped_va EXCEPT ![f] = v]
        /\ m.size = s.size /\ m.brk = s.brk /\ m.mem = s.mem /\ m.blocks = s.blocks
        /\ m.ok = s.ok
    <3> DEFINE q == Tail(s.free)
               p == [s.pt EXCEPT ![v] = f]
               a == [s.mapped_va EXCEPT ![f] = v]
    <3>1. q \in Seq(Frame) /\ p \in [Page -> Frame \union {NoFrame}] /\ a \in [Frame -> 0 .. N]
        BY <2>1, <2>2, <2>4
    <3>2. m = [s EXCEPT !.pt = p, !.mapped_va = a, !.free = q]
        BY <2>3 DEF HeapType
    <3> HIDE DEF m, p, a, q
    <3>3. m \in HeapType /\ m.free = q /\ m.pt = p /\ m.mapped_va = a
          /\ m.size = s.size /\ m.brk = s.brk /\ m.mem = s.mem /\ m.blocks = s.blocks
          /\ m.ok = s.ok
        BY <3>1, <3>2 DEF HeapType
    <3>4. QED
        BY <3>3 DEF p, a, q
  <2> HIDE DEF m
  <2>6. f # NoFrame
      BY <2>2, KHeapAssumption
  <2>7. s.mapped_va[f] = NULL
      BY <2>2 DEF FramesOk
  <2>8. \A g \in Frame : g \in Range(m.free) <=> m.mapped_va[g] = NULL
      BY <2>1, <2>2, <2>4, <2>5 DEF FramesOk
  <2>9. \A u \in Page, g \in Frame : m.pt[u] = g <=> m.mapped_va[g] = u
    <3>1. SUFFICES ASSUME NEW u \in Page, NEW g \in Frame
                   PROVE  m.pt[u] = g <=> m.mapped_va[g] = u
        OBVIOUS
    <3>2. u # NULL
        BY KHeapAssumption DEF Page, NULL
    <3>3. s.pt[u] = g <=> s.mapped_va[g] = u
        BY DEF FramesOk
    <3>4. s.pt[v] = g <=> s.mapped_va[g] = v
        BY DEF FramesOk
    <3>5. s.pt[v] # g
        BY <1>3, KHeapAssumption
    <3>6. QED
        BY <2>1, <2>2, <2>5, <2>7, <3>2, <3>3, <3>4, <3>5
  <2>10. FramesOk(m)
      BY <2>2, <2>5, <2>8, <2>9 DEF FramesOk
  <2>11. (\A u \in Page : s.pt[u] # NoFrame \/ u # v => m.pt[u] = s.pt[u]) /\ m.pt[v] # NoFrame
      BY <1>3, <2>1, <2>5, <2>6
  <2>12. QED
      BY <1>3, <2>5, <2>10, <2>11 DEF m
<1>4. QED
    BY <1>1, <1>2, <1>3 DEF HeapType

\* Unmapping one page.
LEMMA ReturnPageLemma ==
    ASSUME NEW s \in HeapType, FramesOk(s), NEW v \in Page
    PROVE  LET m == return_page(s, v) IN
           /\ m \in HeapType /\ FramesOk(m)
           /\ m.size = s.size /\ m.brk = s.brk /\ m.blocks = s.blocks /\ m.ok = s.ok
           /\ m.pt[v] = NoFrame
           /\ \A u \in Page \ {v} :
                /\ m.pt[u] = s.pt[u]
                /\ s.pt[u] # NoFrame => m.mem[s.pt[u]] = s.mem[s.pt[u]]
<1> DEFINE m == return_page(s, v)
<1>1. CASE s.pt[v] = NoFrame
    BY <1>1 DEF return_page
<1>2. CASE s.pt[v] # NoFrame
  <2> DEFINE f == s.pt[v]
  <2>1. /\ s.free \in Seq(Frame) /\ IsInjective(s.free)
        /\ s.pt \in [Page -> Frame \union {NoFrame}] /\ s.mapped_va \in [Frame -> 0 .. N]
        /\ s.mem \in [Frame -> 0 .. N]
      BY DEF HeapType, FramesOk
  <2>2. f \in Frame /\ s.mapped_va[f] = v /\ v # NULL /\ 0 \in 0 .. N
      BY <1>2, <2>1, KHeapAssumption DEF FramesOk, Page, NULL
  <2>3. f \notin Range(s.free)
      BY <2>2 DEF FramesOk
  <2>4. m = [s EXCEPT !.pt[v] = NoFrame, !.mapped_va[f] = NULL, !.free = <<f>> \o @,
                      !.mem[f] = 0]
      BY <1>2 DEF return_page
  <2> HIDE DEF f
  <2> DEFINE o == <<f>>
             q == o \o s.free
  <2>5. o \in Seq(Frame) /\ Range(o) = {f} /\ IsInjective(o)
    <3>1. <<f>> \in Seq(Frame) /\ DOMAIN <<f>> = 1 .. 1 /\ <<f>>[1] = f
        BY <2>2
    <3>2. \A i \in 1 .. 1 : i = 1
        OBVIOUS
    <3>3. QED
        BY <3>1, <3>2 DEF Range, IsInjective
  <2> HIDE DEF o
  <2>6. q \in Seq(Frame) /\ Range(q) = {f} \union Range(s.free)
    <3>1. Range(q) = Range(o) \union Range(s.free) /\ q \in Seq(Frame)
        BY <2>1, <2>5, ConcatLemma
    <3>2. QED
        BY <3>1, <2>5
  <2>7. IsInjective(q)
    <3>1. Range(o) \intersect Range(s.free) = {}
        BY <2>3, <2>5
    <3>2. QED
        BY <2>1, <2>5, <3>1, ConcatLemma
  <2> HIDE DEF q
  <2>8. m \in HeapType /\ m.free = q /\ m.pt = [s.pt EXCEPT ![v] = NoFrame]
        /\ m.mapped_va = [s.mapped_va EXCEPT ![f] = NULL]
        /\ m.mem = [s.mem EXCEPT ![f] = 0]
        /\ m.size = s.size /\ m.brk = s.brk /\ m.blocks = s.blocks /\ m.ok = s.ok
    <3> DEFINE p == [s.pt EXCEPT ![v] = NoFrame]
               a == [s.mapped_va EXCEPT ![f] = NULL]
               c == [s.mem EXCEPT ![f] = 0]
    <3>1. p \in [Page -> Frame \union {NoFrame}] /\ a \in [Frame -> 0 .. N] /\ c \in [Frame -> 0 .. N]
        BY <2>1, <2>2 DEF NULL
    <3>2. m = [s EXCEPT !.pt = p, !.mapped_va = a, !.free = q, !.mem = c]
        BY <2>4 DEF HeapType, q, o
    <3> HIDE DEF m, p, a, c
    <3>3. m \in HeapType /\ m.free = q /\ m.pt = p /\ m.mapped_va = a /\ m.mem = c
          /\ m.size = s.size /\ m.brk = s.brk /\ m.blocks = s.blocks /\ m.ok = s.ok
        BY <2>6, <3>1, <3>2 DEF HeapType
    <3>4. QED
        BY <3>3 DEF p, a, c
  <2> HIDE DEF m
  <2>9. \A g \in Frame : g \in Range(m.free) <=> m.mapped_va[g] = NULL
      BY <2>1, <2>2, <2>6, <2>8 DEF FramesOk
  <2>10. \A u \in Page, g \in Frame : m.pt[u] = g <=> m.mapped_va[g] = u
    <3>1. SUFFICES ASSUME NEW u \in Page, NEW g \in Frame
                   PROVE  m.pt[u] = g <=> m.mapped_va[g] = u
        OBVIOUS
    <3>2. u # NULL
        BY KHeapAssumption DEF Page, NULL
    <3>3. s.pt[u] = g <=> s.mapped_va[g] = u
        BY DEF FramesOk
    <3>4. NoFrame # g
        BY KHeapAssumption
    <3>5. QED
      <4>1. CASE u = v
        <5>1. m.pt[u] = NoFrame
            BY <2>1, <2>8, <4>1
        <5>2. s.mapped_va[g] = v <=> g = f
            BY <2>2, <3>3, <4>1 DEF f
        <5>3. m.mapped_va[g] # v
            BY <2>1, <2>2, <2>8, <5>2
        <5>4. QED
            BY <3>4, <4>1, <5>1, <5>3
      <4>2. CASE u # v
        <5>1. m.pt[u] = s.pt[u]
            BY <2>1, <2>8, <4>2
        <5>2. m.mapped_va[g] = u <=> s.mapped_va[g] = u
            BY <2>1, <2>2, <2>8, <3>2, <4>2
        <5>3. QED
            BY <3>3, <5>1, <5>2
      <4>3. QED
          BY <4>1, <4>2
  <2>11. FramesOk(m)
      BY <2>7, <2>8, <2>9, <2>10 DEF FramesOk
  <2>12. ASSUME NEW u \in Page \ {v}
         PROVE  m.pt[u] = s.pt[u] /\ (s.pt[u] # NoFrame => m.mem[s.pt[u]] = s.mem[s.pt[u]])
    <3>1. s.pt[u] # f
        BY <2>2 DEF FramesOk
    <3>2. QED
        BY <2>1, <2>8, <3>1
  <2>13. m.pt[v] = NoFrame
      BY <2>1, <2>8
  <2>14. QED
      BY <2>8, <2>11, <2>12, <2>13 DEF m
<1>3. QED
    BY <1>1, <1>2 DEF HeapType
-----------------------------------------------------------------------------
(* The loops.                                                              *)

\* The loop that maps pages, step by step.
LEMMA GetPagesSteps ==
    ASSUME NEW s \in HeapType, FramesOk(s), NEW a \in Page, NEW n \in Nat, a + n <= HeapMax
    PROVE  \E f : /\ f[0] = s /\ GetPages(s, a, n) = f[n]
                  /\ \A i \in 1 .. n : f[i] = get_page(f[i - 1], a + i - 1)
<1> DEFINE X == {r \in HeapType : FramesOk(r)}
<1>1. \A r \in X, i \in 1 .. n : get_page(r, a + i - 1) \in X
  <2> SUFFICES ASSUME NEW r \in X, NEW i \in 1 .. n PROVE get_page(r, a + i - 1) \in X
      OBVIOUS
  <2>1. a + i - 1 \in Page
      BY KHeapAssumption DEF Page, HeapMax
  <2>2. QED
      BY <2>1, GetPageLemma
<1>2. s \in X
    OBVIOUS
<1> HIDE DEF X
<1> DEFINE F == [i \in 1 .. n |-> [r \in X |-> get_page(r, a + i - 1)]]
<1>3. F \in [1 .. n -> [X -> X]]
    BY <1>1
<1>4. \E g : Iterates(X, s, n, F, g)
  <2> HIDE DEF F
  <2>1. QED
      BY <1>2, <1>3, StepsExist
<1>5. PICK g \in [0 .. n -> X] : g[0] = s /\ \A i \in 1 .. n : g[i] = F[i][g[i - 1]]
    BY <1>4 DEF Iterates
<1>6. ASSUME NEW i \in 1 .. n PROVE g[i] = get_page(g[i - 1], a + i - 1)
  <2>1. i - 1 \in 0 .. n /\ g[i - 1] \in X
      OBVIOUS
  <2>2. g[i] = F[i][g[i - 1]]
      BY <1>5
  <2>3. QED
      BY <2>1, <2>2
<1>7. g = [i \in 0 .. n |-> IF i = 0 THEN s ELSE get_page(g[i - 1], a + i - 1)]
    BY <1>5, <1>6
<1> DEFINE f[i \in 0 .. n] == IF i = 0 THEN s ELSE get_page(f[i - 1], a + i - 1)
<1>8. f = [i \in 0 .. n |-> IF i = 0 THEN s ELSE get_page(f[i - 1], a + i - 1)]
    BY <1>7, Zenon
<1>9. GetPages(s, a, n) = f[n]
    BY DEF GetPages
<1> HIDE DEF f
<1>10. f[0] = s /\ \A i \in 1 .. n : f[i] = get_page(f[i - 1], a + i - 1)
    BY <1>8
<1>11. QED
    BY <1>9, <1>10

\* Mapping n pages: either all of them are present, or the frames ran out.
LEMMA GetPagesLemma ==
    ASSUME NEW s \in HeapType, FramesOk(s), NEW a \in Page, NEW n \in Nat, a + n <= HeapMax
    PROVE  LET m == GetPages(s, a, n) IN
           /\ m \in HeapType /\ FramesOk(m)
           /\ m.size = s.size /\ m.brk = s.brk /\ m.mem = s.mem /\ m.blocks = s.blocks
           /\ \A u \in Page : s.pt[u] # NoFrame \/ u \notin Span(a, n) => m.pt[u] = s.pt[u]
           /\ m.ok => s.ok /\ \A u \in Span(a, n) : m.pt[u] # NoFrame
<1>1. PICK f : /\ f[0] = s /\ GetPages(s, a, n) = f[n]
               /\ \A i \in 1 .. n : f[i] = get_page(f[i - 1], a + i - 1)
    BY GetPagesSteps
<1> DEFINE P(m, i) ==
             /\ m \in HeapType /\ FramesOk(m)
             /\ m.size = s.size /\ m.brk = s.brk /\ m.mem = s.mem /\ m.blocks = s.blocks
             /\ \A u \in Page : s.pt[u] # NoFrame \/ u \notin a .. a + i - 1 => m.pt[u] = s.pt[u]
             /\ m.ok => s.ok /\ \A u \in a .. a + i - 1 : m.pt[u] # NoFrame
           S == {i \in 0 .. n : P(f[i], i)}
<1>2. 0 \in S
  <2>1. a .. a + 0 - 1 = {} /\ 0 \in 0 .. n
      BY DEF Page
  <2>2. QED
      BY <1>1, <2>1
<1>3. ASSUME NEW i \in 1 .. n, i - 1 \in S PROVE i \in S
  <2> DEFINE r == f[i - 1]
             v == a + i - 1
             m == get_page(r, v)
  <2>1. P(r, i - 1)
      BY <1>3
  <2>2. v \in Page /\ i \in 0 .. n
      BY KHeapAssumption DEF Page, HeapMax
  <2>3. a .. a + i - 1 = (a .. a + (i - 1) - 1) \union {v}
      BY DEF Page
  <2>4. f[i] = m
      BY <1>1
  <2> HIDE DEF r, v
  <2>5. /\ m \in HeapType /\ FramesOk(m)
        /\ m.size = r.size /\ m.brk = r.brk /\ m.mem = r.mem /\ m.blocks = r.blocks
        /\ \A u \in Page : r.pt[u] # NoFrame \/ u # v => m.pt[u] = r.pt[u]
        /\ m.ok => r.ok /\ m.pt[v] # NoFrame
      BY <2>1, <2>2, GetPageLemma
  <2> HIDE DEF m
  <2>6. \A u \in Page : s.pt[u] # NoFrame \/ u \notin a .. a + i - 1 => m.pt[u] = s.pt[u]
      BY <2>1, <2>3, <2>5
  <2>7. ASSUME m.ok PROVE s.ok /\ \A u \in a .. a + i - 1 : m.pt[u] # NoFrame
    <3>1. \A u \in a .. a + (i - 1) - 1 : u \in Page
        BY KHeapAssumption DEF Page, HeapMax
    <3>2. QED
        BY <2>1, <2>3, <2>5, <2>7, <3>1
  <2>8. P(m, i)
      BY <2>1, <2>5, <2>6, <2>7
  <2>9. QED
      BY <2>2, <2>4, <2>8
<1> HIDE DEF S
<1>4. n \in S
    BY <1>2, <1>3, BoundedInduction
<1>5. QED
    BY <1>1, <1>4 DEF S, Span

\* The loop that unmaps pages, step by step.
LEMMA ReturnPagesSteps ==
    ASSUME NEW s \in HeapType, FramesOk(s), NEW a \in Page, NEW n \in Nat, a + n <= HeapMax
    PROVE  \E f : /\ f[0] = s /\ ReturnPages(s, a, n) = f[n]
                  /\ \A i \in 1 .. n : f[i] = return_page(f[i - 1], a + i - 1)
<1> DEFINE X == {r \in HeapType : FramesOk(r)}
<1>1. \A r \in X, i \in 1 .. n : return_page(r, a + i - 1) \in X
  <2> SUFFICES ASSUME NEW r \in X, NEW i \in 1 .. n PROVE return_page(r, a + i - 1) \in X
      OBVIOUS
  <2>1. a + i - 1 \in Page
      BY KHeapAssumption DEF Page, HeapMax
  <2>2. QED
      BY <2>1, ReturnPageLemma
<1>2. s \in X
    OBVIOUS
<1> HIDE DEF X
<1> DEFINE F == [i \in 1 .. n |-> [r \in X |-> return_page(r, a + i - 1)]]
<1>3. F \in [1 .. n -> [X -> X]]
    BY <1>1
<1>4. \E g : Iterates(X, s, n, F, g)
  <2> HIDE DEF F
  <2>1. QED
      BY <1>2, <1>3, StepsExist
<1>5. PICK g \in [0 .. n -> X] : g[0] = s /\ \A i \in 1 .. n : g[i] = F[i][g[i - 1]]
    BY <1>4 DEF Iterates
<1>6. ASSUME NEW i \in 1 .. n PROVE g[i] = return_page(g[i - 1], a + i - 1)
  <2>1. i - 1 \in 0 .. n /\ g[i - 1] \in X
      OBVIOUS
  <2>2. g[i] = F[i][g[i - 1]]
      BY <1>5
  <2>3. QED
      BY <2>1, <2>2
<1>7. g = [i \in 0 .. n |-> IF i = 0 THEN s ELSE return_page(g[i - 1], a + i - 1)]
    BY <1>5, <1>6
<1> DEFINE f[i \in 0 .. n] == IF i = 0 THEN s ELSE return_page(f[i - 1], a + i - 1)
<1>8. f = [i \in 0 .. n |-> IF i = 0 THEN s ELSE return_page(f[i - 1], a + i - 1)]
    BY <1>7, Zenon
<1>9. ReturnPages(s, a, n) = f[n]
    BY DEF ReturnPages
<1> HIDE DEF f
<1>10. f[0] = s /\ \A i \in 1 .. n : f[i] = return_page(f[i - 1], a + i - 1)
    BY <1>8
<1>11. QED
    BY <1>9, <1>10

\* Unmapping n pages disturbs no other page.
LEMMA ReturnPagesLemma ==
    ASSUME NEW s \in HeapType, FramesOk(s), NEW a \in Page, NEW n \in Nat, a + n <= HeapMax
    PROVE  LET m == ReturnPages(s, a, n) IN
           /\ m \in HeapType /\ FramesOk(m)
           /\ m.size = s.size /\ m.brk = s.brk /\ m.blocks = s.blocks /\ m.ok = s.ok
           /\ \A u \in Span(a, n) : m.pt[u] = NoFrame
           /\ \A u \in Page \ Span(a, n) :
                /\ m.pt[u] = s.pt[u]
                /\ s.pt[u] # NoFrame => m.mem[s.pt[u]] = s.mem[s.pt[u]]
<1>1. PICK f : /\ f[0] = s /\ ReturnPages(s, a, n) = f[n]
               /\ \A i \in 1 .. n : f[i] = return_page(f[i - 1], a + i - 1)
    BY ReturnPagesSteps
<1> DEFINE P(m, i) ==
             /\ m \in HeapType /\ FramesOk(m)
             /\ m.size = s.size /\ m.brk = s.brk /\ m.blocks = s.blocks /\ m.ok = s.ok
             /\ \A u \in a .. a + i - 1 : m.pt[u] = NoFrame
             /\ \A u \in Page \ (a .. a + i - 1) :
                  /\ m.pt[u] = s.pt[u]
                  /\ s.pt[u] # NoFrame => m.mem[s.pt[u]] = s.mem[s.pt[u]]
           S == {i \in 0 .. n : P(f[i], i)}
<1>2. 0 \in S
  <2>1. a .. a + 0 - 1 = {} /\ 0 \in 0 .. n
      BY DEF Page
  <2>2. QED
      BY <1>1, <2>1
<1>3. ASSUME NEW i \in 1 .. n, i - 1 \in S PROVE i \in S
  <2> DEFINE r == f[i - 1]
             v == a + i - 1
             m == return_page(r, v)
  <2>1. P(r, i - 1)
      BY <1>3
  <2>2. v \in Page /\ i \in 0 .. n
      BY KHeapAssumption DEF Page, HeapMax
  <2>3. a .. a + i - 1 = (a .. a + (i - 1) - 1) \union {v}
      BY DEF Page
  <2>4. f[i] = m
      BY <1>1
  <2> HIDE DEF r, v
  <2>5. /\ m \in HeapType /\ FramesOk(m)
        /\ m.size = r.size /\ m.brk = r.brk /\ m.blocks = r.blocks /\ m.ok = r.ok
        /\ m.pt[v] = NoFrame
        /\ \A u \in Page \ {v} :
             /\ m.pt[u] = r.pt[u]
             /\ r.pt[u] # NoFrame => m.mem[r.pt[u]] = r.mem[r.pt[u]]
      BY <2>1, <2>2, ReturnPageLemma
  <2> HIDE DEF m
  <2>6. \A u \in a .. a + i - 1 : m.pt[u] = NoFrame
    <3>1. \A u \in a .. a + (i - 1) - 1 : u \in Page
        BY KHeapAssumption DEF Page, HeapMax
    <3>2. QED
        BY <2>1, <2>3, <2>5, <3>1
  <2>7. \A u \in Page \ (a .. a + i - 1) :
             /\ m.pt[u] = s.pt[u]
             /\ s.pt[u] # NoFrame => m.mem[s.pt[u]] = s.mem[s.pt[u]]
      BY <2>1, <2>3, <2>5
  <2>8. P(m, i)
      BY <2>1, <2>5, <2>6, <2>7
  <2>9. QED
      BY <2>2, <2>4, <2>8
<1> HIDE DEF S
<1>4. n \in S
    BY <1>2, <1>3, BoundedInduction
<1>5. QED
    BY <1>1, <1>4 DEF S, Span

-----------------------------------------------------------------------------
(* Custom fit.                                                             *)

\* A set of numbers has at most one least element.
LEMMA MinIs ==
    ASSUME NEW T, T \subseteq Nat, NEW m \in T, \A k \in T : m <= k
    PROVE  Min(T) = m
<1>1. Min(T) \in T /\ \A k \in T : Min(T) <= k
    BY DEF Min
<1>2. m \in Nat /\ Min(T) \in Nat /\ m <= Min(T) /\ Min(T) <= m
    BY <1>1
<1>3. QED
    BY <1>2

\* And at most one greatest.
LEMMA MaxIs ==
    ASSUME NEW T, T \subseteq Nat, NEW m \in T, \A k \in T : k <= m
    PROVE  Max(T) = m
<1>1. Max(T) \in T /\ \A k \in T : k <= Max(T)
    BY DEF Max
<1>2. m \in Nat /\ Max(T) \in Nat /\ m <= Max(T) /\ Max(T) <= m
    BY <1>1
<1>3. QED
    BY <1>2

\* A set of natural numbers that is not empty has a least element.
LEMMA MinExists ==
    ASSUME NEW T, T \subseteq Nat, T # {}
    PROVE  Min(T) \in T /\ \A k \in T : Min(T) <= k
<1>1. \E m \in T : \A k \in T : m <= k
    BY LeastNatural
<1>2. QED
    BY <1>1 DEF Min

\* An allocation covers the pages of its extent, and a free page is none of
\* them.
LEMMA ExtentFacts ==
    ASSUME NEW s \in HeapType, NEW v \in Page
    PROVE  /\ Pages(s.size[v]) \in Nat
           /\ s.size[v] = 0 => Pages(s.size[v]) = 0 /\ Extent(s, v) = {}
           /\ s.size[v] # 0 => Pages(s.size[v]) >= 1 /\ v \in Extent(s, v)
           /\ \A u : u \in Extent(s, v) <=> u \in Int /\ v <= u /\ u < v + Pages(s.size[v])
           /\ v \in Nat /\ s.brk \in 1 .. HeapMax
<1>1. s.size[v] \in Nat /\ v \in Nat /\ s.brk \in 1 .. HeapMax
    BY KHeapAssumption DEF HeapType, Page
<1>2. Pages(s.size[v]) \in Nat /\ (Pages(s.size[v]) = 0 <=> s.size[v] = 0)
    BY <1>1, PagesType
<1>3. QED
    BY <1>1, <1>2 DEF Extent, Span

\* A hole ends at the break or at the next allocation.
LEMMA HoleEndLemma ==
    ASSUME NEW s \in HeapType, NEW v \in Page, v < s.brk, s.size[v] = 0
    PROVE  LET e == HoleEnd(s, v) IN
           /\ e \in v + 1 .. s.brk /\ e \in Nat
           /\ \A u \in v .. e - 1 : s.size[u] = 0
           /\ e = s.brk \/ s.size[e] # 0
<1> DEFINE T == {u \in v .. s.brk : u = s.brk \/ s.size[u] # 0}
           e == HoleEnd(s, v)
<1>1. v \in Nat /\ s.brk \in Nat
    BY KHeapAssumption DEF HeapType, Page, HeapMax
<1>2. T \subseteq Nat /\ s.brk \in T
    BY <1>1
<1>3. e = Min(T)
    BY DEF HoleEnd
<1> HIDE DEF e
<1>4. e \in T /\ \A k \in T : e <= k
  <2> HIDE DEF T
  <2>1. QED
      BY <1>2, <1>3, MinExists
<1>5. QED
    BY <1>1, <1>4 DEF e

\* From a boundary between allocations, the pages up to the end of the hole
\* are a hole, and the only one that starts there.
LEMMA HoleFound ==
    ASSUME NEW s \in HeapType, NEW v \in Page, v < s.brk, s.size[v] = 0,
           \A x \in Page : x < v => x + Pages(s.size[x]) <= v,
           ~IsFree(s, v - 1)
    PROVE  LET e == HoleEnd(s, v) IN
           /\ HoleAt(s, v, e - v)
           /\ \A u \in v .. e - 1, w \in Page : HoleAt(s, u, w) => u = v /\ w = e - v
           /\ \A x \in Page : x < e => x + Pages(s.size[x]) <= e
<1> DEFINE e == HoleEnd(s, v)
<1>1. /\ e \in v + 1 .. s.brk /\ e \in Nat
      /\ \A u \in v .. e - 1 : s.size[u] = 0
      /\ e = s.brk \/ s.size[e] # 0
    BY HoleEndLemma
<1> HIDE DEF e
<1>2. v \in Nat /\ v >= 1 /\ s.brk \in Nat /\ s.brk <= N + 1 /\ N \in Nat
    BY KHeapAssumption DEF HeapType, Page, HeapMax
<1>3. ASSUME NEW u \in v .. e - 1 PROVE IsFree(s, u)
  <2>1. u \in 1 .. s.brk - 1
      BY <1>1, <1>2
  <2>2. ASSUME NEW x \in Page, u \in Extent(s, x) PROVE FALSE
    <3>1. x \in Nat /\ x <= u /\ u < x + Pages(s.size[x]) /\ s.size[x] # 0
        BY <2>2, ExtentFacts
    <3>2. x < v
        BY <1>1, <1>2, <3>1
    <3>3. QED
        BY <1>2, <3>1, <3>2, ExtentFacts
  <2>3. QED
      BY <2>1, <2>2 DEF IsFree
<1>4. ~IsFree(s, e)
  <2>1. CASE e = s.brk
      BY <1>2, <2>1 DEF IsFree
  <2>2. CASE e # s.brk
    <3>1. e \in Page /\ s.size[e] # 0
        BY <1>1, <1>2, <2>2 DEF Page
    <3>2. e \in Extent(s, e)
        BY <3>1, ExtentFacts
    <3>3. QED
        BY <3>1, <3>2 DEF IsFree
  <2>3. QED
      BY <2>1, <2>2
<1>5. HoleAt(s, v, e - v)
  <2>1. v + (e - v) - 1 = e - 1 /\ v + (e - v) = e
      BY <1>1, <1>2
  <2>2. QED
      BY <1>3, <1>4, <2>1 DEF HoleAt, Span
<1>6. ASSUME NEW u \in v .. e - 1, NEW w \in Page, HoleAt(s, u, w)
      PROVE  u = v /\ w = e - v
  <2>1. w \in Nat /\ w >= 1 /\ u \in Nat
      BY <1>2 DEF Page
  <2>2. ~IsFree(s, u - 1) /\ ~IsFree(s, u + w) /\ \A k \in u .. u + w - 1 : IsFree(s, k)
      BY <1>6 DEF HoleAt, Span
  <2>3. u = v
    <3>1. u # v => u - 1 \in v .. e - 1
        BY <1>1, <1>2, <2>1
    <3>2. QED
        BY <1>3, <2>2, <3>1
  <2>4. ~(u + w < e)
    <3>1. u + w < e => u + w \in v .. e - 1
        BY <1>1, <1>2, <2>1
    <3>2. QED
        BY <1>3, <2>2, <3>1
  <2>5. ~(u + w > e)
    <3>1. u + w > e => e \in u .. u + w - 1
        BY <1>1, <1>2, <2>1
    <3>2. QED
        BY <1>4, <2>2, <3>1
  <2>6. QED
      BY <1>1, <1>2, <2>1, <2>3, <2>4, <2>5
<1>7. ASSUME NEW x \in Page, x < e PROVE x + Pages(s.size[x]) <= e
  <2>1. x \in Nat /\ Pages(s.size[x]) \in Nat /\ (s.size[x] = 0 => Pages(s.size[x]) = 0)
      BY ExtentFacts
  <2>2. CASE x < v
      BY <1>1, <1>2, <2>1, <2>2
  <2>3. CASE x >= v
    <3>1. s.size[x] = 0
        BY <1>1, <1>2, <1>7, <2>1, <2>3
    <3>2. QED
        BY <1>1, <1>7, <2>1, <3>1
  <2>4. QED
      BY <1>2, <2>1, <2>2, <2>3
<1>8. QED
    BY <1>5, <1>6, <1>7 DEF e

\* What find_customfit knows when it is at page b.v: it is between two
\* allocations, and it has the lowest exact hole and the lowest of the largest
\* holes among those it has passed.
ScanType == [v : 1 .. HeapMax, exact : 0 .. N, worst : 0 .. N, at : 0 .. N]

ExactKnown(s, n, b) ==
    IF b.exact = NULL THEN \A u \in Page : u < b.v => ~HoleAt(s, u, n)
    ELSE /\ HoleAt(s, b.exact, n)
         /\ \A u \in Page : u < b.exact => ~HoleAt(s, u, n)

WorstKnown(s, n, b) ==
    /\ \A u, w \in Page : u < b.v /\ HoleAt(s, u, w) /\ w >= n => w <= b.worst
    /\ b.worst # 0 =>
         /\ b.worst >= n /\ b.at # NULL /\ HoleAt(s, b.at, b.worst)
         /\ \A u \in Page : u < b.at => ~HoleAt(s, u, b.worst)

ScanInv(s, n, b) ==
    /\ b \in ScanType
    /\ b.v <= s.brk
    /\ \A x \in Page : x < b.v => x + Pages(s.size[x]) <= b.v
    /\ b.v < s.brk /\ s.size[b.v] = 0 => ~IsFree(s, b.v - 1)
    /\ ExactKnown(s, n, b)
    /\ WorstKnown(s, n, b)

\* A round of find_customfit keeps what it knows and goes forward.
LEMMA ScanStepLemma ==
    ASSUME NEW s \in HeapType, Tiled(s), NEW n \in Page, NEW b, ScanInv(s, n, b)
    PROVE  LET c == ScanStep(s, n, b) IN
           ScanInv(s, n, c) /\ (b.v < s.brk => c.v > b.v)
<1> DEFINE c == ScanStep(s, n, b)
<1>1. /\ b \in ScanType /\ b.v \in Nat /\ b.v >= 1 /\ b.v <= s.brk
      /\ b.exact \in 0 .. N /\ b.worst \in 0 .. N /\ b.at \in 0 .. N
      /\ s.brk \in Nat /\ s.brk <= N + 1 /\ N \in Nat /\ n \in Nat /\ n >= 1
    BY KHeapAssumption DEF ScanInv, ScanType, HeapType, HeapMax, Page
<1>2. CASE b.v >= s.brk
    BY <1>1, <1>2 DEF ScanStep
<1>3. CASE b.v < s.brk /\ s.size[b.v] # 0
  <2> DEFINE v == b.v
             e == v + Pages(s.size[v])
  <2>1. c = [b EXCEPT !.v = e]
      BY <1>1, <1>3 DEF ScanStep
  <2> HIDE DEF c
  <2>2. v \in Page /\ v \in Nat
      BY <1>1, <1>3 DEF Page
  <2>3. Pages(s.size[v]) \in Nat /\ Pages(s.size[v]) >= 1 /\ e \in Nat /\ e > v
      BY <1>3, <2>2, ExtentFacts
  <2>4. \A u \in v .. e - 1 : u \in Extent(s, v)
      BY <2>2, <2>3 DEF Extent, Span
  <2>5. e - 1 \in Extent(s, v)
      BY <2>2, <2>3, <2>4
  <2>6. e <= s.brk
    <3>1. e - 1 \in 1 .. s.brk - 1
        BY <2>2, <2>5 DEF Tiled
    <3>2. QED
        BY <1>1, <2>3, <3>1
  <2>7. c \in ScanType /\ c.v = e /\ c.exact = b.exact /\ c.worst = b.worst /\ c.at = b.at
    <3>1. e \in 1 .. HeapMax
        BY <1>1, <2>3, <2>6 DEF HeapMax
    <3> HIDE DEF e
    <3>2. QED
        BY <1>1, <2>1, <3>1 DEF ScanType
  <2>8. ASSUME NEW x \in Page, x < e PROVE x + Pages(s.size[x]) <= e
    <3>1. x \in Nat /\ Pages(s.size[x]) \in Nat /\ (s.size[x] = 0 => Pages(s.size[x]) = 0)
        BY ExtentFacts
    <3>2. CASE x < v
      <4>1. x + Pages(s.size[x]) <= v
          BY <3>2 DEF ScanInv
      <4>2. QED
          BY <2>2, <2>3, <3>1, <4>1
    <3>3. CASE x = v
        BY <2>3, <3>3
    <3>4. CASE x > v
      <4>1. x \in Extent(s, v)
          BY <2>2, <2>3, <2>4, <2>8, <3>1, <3>4
      <4>2. s.size[x] # 0 => x \in Extent(s, x)
          BY ExtentFacts
      <4>3. s.size[x] = 0
          BY <2>2, <3>1, <3>4, <4>1, <4>2 DEF Tiled
      <4>4. QED
          BY <2>3, <2>8, <3>1, <4>3
    <3>5. QED
        BY <2>2, <3>1, <3>2, <3>3, <3>4
  <2>9. ~IsFree(s, e - 1)
      BY <2>2, <2>5 DEF IsFree
  <2>10. ASSUME NEW u \in Page, NEW w \in Page, u < e, HoleAt(s, u, w) PROVE u < v
    <3>1. u \in Nat /\ w \in Nat /\ w >= 1
        BY <1>1 DEF Page
    <3>2. IsFree(s, u)
        BY <2>10, <3>1 DEF HoleAt, Span
    <3>3. u \notin Extent(s, v)
        BY <2>2, <3>2 DEF IsFree
    <3>4. QED
        BY <2>2, <2>3, <2>4, <2>10, <3>1, <3>3
  <2>11. ExactKnown(s, n, c)
      BY <2>7, <2>10 DEF ScanInv, ExactKnown
  <2>12. WorstKnown(s, n, c)
      BY <2>7, <2>10 DEF ScanInv, WorstKnown
  <2>13. ScanInv(s, n, c)
      BY <2>6, <2>7, <2>8, <2>9, <2>11, <2>12 DEF ScanInv
  <2>14. QED
      BY <2>3, <2>7, <2>13 DEF c
<1>4. CASE b.v < s.brk /\ s.size[b.v] = 0
  <2> DEFINE v == b.v
             e == HoleEnd(s, v)
             w == e - v
             wider == w >= n /\ w > b.worst
  <2>1. c = [v     |-> e,
             exact |-> IF w = n /\ b.exact = NULL THEN v ELSE b.exact,
             worst |-> IF wider THEN w ELSE b.worst,
             at    |-> IF wider THEN v ELSE b.at]
      BY <1>1, <1>4 DEF ScanStep
  <2> HIDE DEF c
  <2>2. v \in Page /\ v \in Nat /\ v >= 1
      BY <1>1, <1>4 DEF Page
  <2>3. e \in v + 1 .. s.brk /\ e \in Nat /\ (e = s.brk \/ s.size[e] # 0)
      BY <1>4, <2>2, HoleEndLemma
  <2>4. /\ HoleAt(s, v, w)
        /\ \A u \in v .. e - 1, k \in Page : HoleAt(s, u, k) => u = v /\ k = w
        /\ \A x \in Page : x < e => x + Pages(s.size[x]) <= e
    <3>1. /\ \A x \in Page : x < v => x + Pages(s.size[x]) <= v
          /\ ~IsFree(s, v - 1)
        BY <1>4 DEF ScanInv
    <3>2. QED
        BY <1>4, <2>2, <3>1, HoleFound
  <2> HIDE DEF e
  <2>5. w \in Page /\ w \in Nat /\ w >= 1 /\ e \in 1 .. HeapMax
      BY <1>1, <2>2, <2>3 DEF Page, HeapMax
  <2> HIDE DEF w
  <2>6. /\ c.v = e
        /\ c.exact = IF w = n /\ b.exact = NULL THEN v ELSE b.exact
        /\ c.worst = IF wider THEN w ELSE b.worst
        /\ c.at = IF wider THEN v ELSE b.at
      BY <2>1
  <2>7. c \in ScanType
    <3>1. v \in 0 .. N /\ w \in 0 .. N
        BY <1>1, <2>2, <2>5 DEF Page
    <3>2. QED
        BY <1>1, <2>1, <2>5, <3>1 DEF ScanType
  <2>8. \A u \in Page : u < e => u < v \/ u \in v .. e - 1
      BY <2>2, <2>3 DEF Page
  <2>9. ExactKnown(s, n, c)
    <3>1. CASE b.exact # NULL
        BY <2>6, <3>1 DEF ScanInv, ExactKnown
    <3>2. CASE b.exact = NULL /\ w = n
      <4>1. v # NULL
          BY <2>2 DEF NULL
      <4>2. c.exact = v /\ HoleAt(s, v, n)
          BY <2>4, <2>6, <3>2
      <4>3. \A u \in Page : u < v => ~HoleAt(s, u, n)
          BY <3>2 DEF ScanInv, ExactKnown
      <4>4. QED
          BY <4>1, <4>2, <4>3 DEF ExactKnown
    <3>3. CASE b.exact = NULL /\ w # n
      <4>1. c.exact = NULL
          BY <2>6, <3>3
      <4>2. \A u \in Page : u < v => ~HoleAt(s, u, n)
          BY <3>3 DEF ScanInv, ExactKnown
      <4>3. \A u \in v .. e - 1 : ~HoleAt(s, u, n)
          BY <2>4, <3>3
      <4>4. QED
          BY <2>6, <2>8, <4>1, <4>2, <4>3 DEF ExactKnown
    <3>4. QED
        BY <3>1, <3>2, <3>3
  <2>10. WorstKnown(s, n, c)
    <3>1. /\ \A u, k \in Page : u < v /\ HoleAt(s, u, k) /\ k >= n => k <= b.worst
          /\ b.worst # 0 =>
               /\ b.worst >= n /\ b.at # NULL /\ HoleAt(s, b.at, b.worst)
               /\ \A u \in Page : u < b.at => ~HoleAt(s, u, b.worst)
        BY DEF ScanInv, WorstKnown
    <3>2. c.worst \in Nat /\ c.worst >= b.worst /\ (w >= n => c.worst >= w)
        BY <1>1, <2>5, <2>6
    <3>3. ASSUME NEW u \in Page, NEW k \in Page, u < e, HoleAt(s, u, k), k >= n
          PROVE  k <= c.worst
      <4>1. k \in Nat
          BY <1>1 DEF Page
      <4>2. CASE u < v
          BY <1>1, <3>1, <3>2, <3>3, <4>1, <4>2
      <4>3. CASE u \in v .. e - 1
          BY <2>4, <3>2, <3>3, <4>3
      <4>4. QED
          BY <2>8, <3>3, <4>2, <4>3
    <3>4. CASE wider
      <4>1. c.worst = w /\ c.at = v /\ v # NULL
          BY <2>2, <2>6, <3>4 DEF NULL
      <4>2. \A u \in Page : u < v => ~HoleAt(s, u, w)
          BY <1>1, <2>5, <3>1, <3>4
      <4>3. QED
          BY <2>4, <2>6, <3>3, <3>4, <4>1, <4>2 DEF WorstKnown
    <3>5. CASE ~wider
        BY <2>6, <3>1, <3>3, <3>5 DEF WorstKnown
    <3>6. QED
        BY <3>4, <3>5
  <2>11. c.v < s.brk /\ s.size[c.v] = 0 => ~IsFree(s, c.v - 1)
      BY <1>1, <2>3, <2>6
  <2>12. c.v <= s.brk /\ c.v > b.v /\ \A x \in Page : x < c.v => x + Pages(s.size[x]) <= c.v
      BY <1>1, <2>2, <2>3, <2>4, <2>6
  <2>13. ScanInv(s, n, c)
      BY <2>7, <2>9, <2>10, <2>11, <2>12 DEF ScanInv
  <2>14. QED
      BY <2>12, <2>13 DEF c
<1>5. QED
    BY <1>1, <1>2, <1>3, <1>4

\* It gets to the break.
LEMMA ScanLemma ==
    ASSUME NEW s \in HeapType, Tiled(s), NEW n \in Page
    PROVE  ScanInv(s, n, Scan(s, n)) /\ Scan(s, n).v = s.brk
<1> DEFINE start == [v |-> 1, exact |-> NULL, worst |-> 0, at |-> NULL]
           X == {r \in ScanType : ScanInv(s, n, r)}
<1>1. s.brk \in Nat /\ s.brk >= 1 /\ s.brk <= N + 1 /\ N \in Nat /\ \A u \in Page : u \in Nat /\ u >= 1
    BY KHeapAssumption DEF HeapType, HeapMax, Page
<1>2. start \in X
  <2>1. start \in ScanType
      BY <1>1 DEF ScanType, HeapMax, NULL
  <2>2. \A u \in Page : ~(u < start.v)
      BY <1>1
  <2>3. ~IsFree(s, start.v - 1)
      BY <1>1 DEF IsFree
  <2>4. ExactKnown(s, n, start)
      BY <2>2 DEF ExactKnown
  <2>5. WorstKnown(s, n, start)
      BY <2>2 DEF WorstKnown
  <2>6. QED
      BY <1>1, <2>1, <2>2, <2>3, <2>4, <2>5 DEF ScanInv
<1>3. \A r \in X : ScanStep(s, n, r) \in X
  <2> SUFFICES ASSUME NEW r \in X PROVE ScanStep(s, n, r) \in X
      OBVIOUS
  <2>1. ScanInv(s, n, ScanStep(s, n, r))
      BY ScanStepLemma
  <2>2. QED
      BY <2>1 DEF ScanInv
<1> HIDE DEF X
<1> DEFINE F == [i \in 1 .. N |-> [r \in X |-> ScanStep(s, n, r)]]
<1>4. F \in [1 .. N -> [X -> X]]
    BY <1>3
<1> HIDE DEF start
<1>5. \E g : Iterates(X, start, N, F, g)
  <2> HIDE DEF F
  <2>1. QED
      BY <1>1, <1>2, <1>4, StepsExist
<1>6. PICK g \in [0 .. N -> X] : g[0] = start /\ \A i \in 1 .. N : g[i] = F[i][g[i - 1]]
    BY <1>5 DEF Iterates
<1>7. ASSUME NEW i \in 1 .. N PROVE g[i] = ScanStep(s, n, g[i - 1])
  <2>1. i - 1 \in 0 .. N /\ g[i - 1] \in X
      BY <1>1
  <2>2. g[i] = F[i][g[i - 1]]
      BY <1>6
  <2>3. QED
      BY <2>1, <2>2
<1>8. g = [i \in 0 .. N |-> IF i = 0 THEN start ELSE ScanStep(s, n, g[i - 1])]
    BY <1>1, <1>6, <1>7
<1> DEFINE b[i \in 0 .. N] == IF i = 0 THEN start ELSE ScanStep(s, n, b[i - 1])
<1>9. b = [i \in 0 .. N |-> IF i = 0 THEN start ELSE ScanStep(s, n, b[i - 1])]
    BY <1>8, Zenon
<1>10. Scan(s, n) = b[N]
    BY DEF Scan, start
<1> HIDE DEF b
<1>11. b[0] = start /\ \A i \in 1 .. N : b[i] = ScanStep(s, n, b[i - 1])
    BY <1>1, <1>9
<1> DEFINE S == {i \in 0 .. N : /\ ScanInv(s, n, b[i])
                                /\ b[i].v = s.brk \/ b[i].v >= i + 1}
<1>12. 0 \in S
    BY <1>1, <1>2, <1>11 DEF X, start
<1>13. ASSUME NEW i \in 1 .. N, i - 1 \in S PROVE i \in S
  <2> DEFINE r == b[i - 1]
             c == ScanStep(s, n, r)
  <2>1. ScanInv(s, n, r) /\ (r.v = s.brk \/ r.v >= (i - 1) + 1)
      BY <1>13
  <2>2. b[i] = c
      BY <1>11
  <2> HIDE DEF r
  <2>3. ScanInv(s, n, c) /\ (r.v < s.brk => c.v > r.v)
      BY <2>1, ScanStepLemma
  <2>4. r.v \in Nat /\ r.v <= s.brk
      BY <2>1 DEF ScanInv, ScanType, HeapMax
  <2>5. r.v = s.brk => c = r
      BY <1>1, <2>4 DEF ScanStep
  <2> HIDE DEF c
  <2>6. c.v \in Nat
      BY <2>3 DEF ScanInv, ScanType, HeapMax
  <2>7. c.v = s.brk \/ c.v >= i + 1
      BY <1>1, <2>1, <2>3, <2>4, <2>5, <2>6
  <2>8. QED
      BY <1>1, <2>2, <2>3, <2>7
<1> HIDE DEF S
<1>14. N \in S
  <2>1. N \in Nat
      BY <1>1
  <2>2. 0 .. N \subseteq S
      BY <2>1, <1>12, <1>13, BoundedInduction
  <2>3. QED
      BY <2>1, <2>2
<1>15. ScanInv(s, n, b[N]) /\ (b[N].v = s.brk \/ b[N].v >= N + 1)
    BY <1>14 DEF S
<1>16. b[N].v \in Nat /\ b[N].v <= s.brk
    BY <1>15 DEF ScanInv, ScanType, HeapMax
<1>17. b[N].v = s.brk
    BY <1>1, <1>15, <1>16
<1>18. QED
    BY <1>10, <1>15, <1>17

\* PlacementIsCustomFit of any heap.
WidthsOf(s)    == {n \in Page : \E v \in Page : HoleAt(s, v, n)}
LowestOf(s, n) == Min({v \in Page : HoleAt(s, v, n)})

\* find_customfit returns what custom fit calls for.
LEMMA FindCustomfit ==
    ASSUME NEW s \in HeapType, Tiled(s), NEW n \in Page
    PROVE  find_customfit(s, n) =
             IF n \in WidthsOf(s) THEN LowestOf(s, n)
             ELSE IF \E w \in WidthsOf(s) : w > n THEN LowestOf(s, Max(WidthsOf(s)))
             ELSE NULL
<1> DEFINE b == Scan(s, n)
<1>1. ScanInv(s, n, b) /\ b.v = s.brk
    BY ScanLemma
<1>2. find_customfit(s, n) = IF b.exact # NULL THEN b.exact
                             ELSE IF b.worst >= n THEN b.at ELSE NULL
    BY DEF find_customfit, Chosen
<1> HIDE DEF b
<1>3. /\ b.exact \in 0 .. N /\ b.worst \in 0 .. N /\ b.at \in 0 .. N
      /\ N \in Nat /\ n \in Nat /\ n >= 1 /\ Page \subseteq Nat /\ \A u \in Page : u >= 1
    BY <1>1, KHeapAssumption DEF ScanInv, ScanType, Page
<1>4. \A u, w \in Page : HoleAt(s, u, w) => u < b.v
  <2> SUFFICES ASSUME NEW u \in Page, NEW w \in Page, HoleAt(s, u, w) PROVE u < b.v
      OBVIOUS
  <2>1. u \in Span(u, w)
      BY <1>3 DEF Span
  <2>2. u \in 1 .. s.brk - 1 /\ s.brk \in Nat
      BY <2>1 DEF HoleAt, IsFree, HeapType, HeapMax
  <2>3. QED
      BY <1>1, <2>2
<1>5. ASSUME NEW w \in Page, NEW v \in 0 .. N, v # NULL, HoleAt(s, v, w),
             \A u \in Page : u < v => ~HoleAt(s, u, w)
      PROVE  w \in WidthsOf(s) /\ LowestOf(s, w) = v
  <2> DEFINE T == {u \in Page : HoleAt(s, u, w)}
  <2>1. v \in Page
      BY <1>3, <1>5 DEF Page, NULL
  <2>2. v \in T /\ T \subseteq Nat /\ \A k \in T : v <= k
    <3>1. ASSUME NEW k \in T PROVE v <= k
      <4>1. k \in Nat /\ v \in Nat /\ ~(k < v)
          BY <1>3, <1>5, <2>1
      <4>2. QED
          BY <4>1
    <3>2. QED
        BY <1>3, <1>5, <2>1, <3>1
  <2>3. LowestOf(s, w) = Min(T)
      BY DEF LowestOf
  <2> HIDE DEF T
  <2>4. Min(T) = v
      BY <2>2, MinIs
  <2>5. QED
      BY <1>5, <2>1, <2>3, <2>4 DEF WidthsOf
<1>6. CASE b.exact # NULL
  <2>1. HoleAt(s, b.exact, n) /\ \A u \in Page : u < b.exact => ~HoleAt(s, u, n)
      BY <1>1, <1>6 DEF ScanInv, ExactKnown
  <2>2. n \in WidthsOf(s) /\ LowestOf(s, n) = b.exact
      BY <1>3, <1>5, <1>6, <2>1
  <2>3. QED
      BY <1>2, <1>6, <2>2
<1>7. CASE b.exact = NULL
  <2>1. n \notin WidthsOf(s)
      BY <1>1, <1>4, <1>7 DEF ScanInv, ExactKnown, WidthsOf
  <2>2. /\ \A w \in WidthsOf(s) : w >= n => w <= b.worst
        /\ b.worst # 0 =>
             /\ b.worst >= n /\ b.at # NULL /\ HoleAt(s, b.at, b.worst)
             /\ \A u \in Page : u < b.at => ~HoleAt(s, u, b.worst)
      BY <1>1, <1>4 DEF ScanInv, WorstKnown, WidthsOf
  <2>3. CASE b.worst >= n
    <3>1. b.worst \in Page /\ b.worst # 0
        BY <1>3, <2>3 DEF Page
    <3>2. b.worst \in WidthsOf(s) /\ LowestOf(s, b.worst) = b.at
        BY <1>3, <1>5, <2>2, <3>1
    <3>3. b.worst > n
        BY <1>3, <2>1, <2>3, <3>2
    <3>4. WidthsOf(s) \subseteq Nat
        BY <1>3 DEF WidthsOf
    <3>5. \A w \in WidthsOf(s) : w <= b.worst
        BY <1>3, <2>2, <2>3, <3>4
    <3>6. Max(WidthsOf(s)) = b.worst
        BY <3>2, <3>4, <3>5, MaxIs
    <3>7. QED
        BY <1>2, <1>7, <2>1, <2>3, <3>2, <3>3, <3>6
  <2>4. CASE ~(b.worst >= n)
    <3>1. b.worst = 0
        BY <2>2, <2>4
    <3>2. ~\E w \in WidthsOf(s) : w > n
      <4>1. WidthsOf(s) \subseteq Nat
          BY <1>3 DEF WidthsOf
      <4>2. QED
          BY <1>3, <2>2, <3>1, <4>1
    <3>3. QED
        BY <1>2, <1>7, <2>1, <2>4, <3>2
  <2>5. QED
      BY <2>3, <2>4
<1>8. QED
    BY <1>6, <1>7

\* The pages it finds are free.
LEMMA FoundIsFree ==
    ASSUME NEW s \in HeapType, Tiled(s), NEW n \in Page, find_customfit(s, n) # NULL
    PROVE  /\ find_customfit(s, n) \in Page
           /\ \A u \in Span(find_customfit(s, n), n) : IsFree(s, u)
<1> DEFINE b == Scan(s, n)
           v == find_customfit(s, n)
<1>1. ScanInv(s, n, b)
    BY ScanLemma
<1>2. v = IF b.exact # NULL THEN b.exact ELSE IF b.worst >= n THEN b.at ELSE NULL
    BY DEF find_customfit, Chosen
<1> HIDE DEF b, v
<1>3. /\ b.exact \in 0 .. N /\ b.worst \in 0 .. N /\ b.at \in 0 .. N
      /\ N \in Nat /\ n \in Nat /\ n >= 1
    BY <1>1, KHeapAssumption DEF ScanInv, ScanType, Page
<1>4. v \in Page
    BY <1>2, <1>3 DEF v, Page, NULL
<1>5. PICK w \in Nat : w >= n /\ HoleAt(s, v, w)
  <2>1. CASE b.exact # NULL
      BY <1>1, <1>2, <1>3, <2>1 DEF ScanInv, ExactKnown
  <2>2. CASE b.exact = NULL
    <3>1. b.worst >= n /\ v = b.at
        BY <1>2, <2>2 DEF v
    <3>2. b.worst # 0
        BY <1>3, <3>1
    <3>3. QED
        BY <1>1, <1>3, <3>1, <3>2 DEF ScanInv, WorstKnown
  <2>3. QED
      BY <2>1, <2>2
<1>6. Span(v, n) \subseteq Span(v, w)
    BY <1>3, <1>4, <1>5 DEF Span, Page
<1>7. QED
    BY <1>4, <1>5, <1>6 DEF HoleAt, v

-----------------------------------------------------------------------------
(* The operations on the heap as a whole.                                  *)

\* A new size for the allocation at a leaves the heap in order when its pages
\* are present and nobody else's.
LEMMA ResizeLemma ==
    ASSUME NEW s \in HeapType, FramesOk(s), Tiled(s),
           NEW a \in Page, NEW size \in 0 .. MaxSize,
           \A u \in Span(a, Pages(size)) : u \in 1 .. s.brk - 1 /\ s.pt[u] # NoFrame,
           \A x \in Page \ {a} : \A u \in Extent(s, x) :
                s.pt[u] # NoFrame /\ u \notin Span(a, Pages(size))
    PROVE  LET r == [s EXCEPT !.size[a] = size] IN
           /\ r \in HeapType /\ FramesOk(r) /\ Tiled(r) /\ Backed(r)
           /\ r.brk = s.brk /\ r.pt = s.pt /\ r.mem = s.mem /\ r.blocks = s.blocks
           /\ r.ok = s.ok /\ r.size = [s.size EXCEPT ![a] = size]
           /\ Extent(r, a) = Span(a, Pages(size))
           /\ \A x \in Page \ {a} : Extent(r, x) = Extent(s, x)
<1> DEFINE r == [s EXCEPT !.size[a] = size]
           z == [s.size EXCEPT ![a] = size]
<1>1. s.size \in [Page -> 0 .. MaxSize] /\ z \in [Page -> 0 .. MaxSize]
    BY DEF HeapType
<1>2. r = [s EXCEPT !.size = z]
    BY DEF HeapType
<1>3. z[a] = size /\ \A x \in Page \ {a} : z[x] = s.size[x]
    BY <1>1
<1> HIDE DEF r, z
<1>4. /\ r \in HeapType /\ r.size = z
      /\ r.brk = s.brk /\ r.pt = s.pt /\ r.mem = s.mem /\ r.blocks = s.blocks
      /\ r.ok = s.ok /\ r.free = s.free /\ r.mapped_va = s.mapped_va
    BY <1>1, <1>2 DEF HeapType
<1>5. FramesOk(r)
    BY <1>4 DEF FramesOk
<1>6. Extent(r, a) = Span(a, Pages(size)) /\ \A x \in Page \ {a} : Extent(r, x) = Extent(s, x)
    BY <1>3, <1>4 DEF Extent
<1>7. Tiled(r)
    BY <1>4, <1>6 DEF Tiled
<1>8. Backed(r)
    BY <1>4, <1>6 DEF Backed
<1>9. QED
    BY <1>4, <1>5, <1>6, <1>7, <1>8 DEF r, z

\* The break stops above the last page that is present, so above every
\* allocation.
LEMMA LowerLemma ==
    ASSUME NEW s \in HeapType, FramesOk(s), Tiled(s), Backed(s)
    PROVE  LET r == Lower(s) IN
           /\ r \in HeapType /\ FramesOk(r) /\ Tiled(r) /\ Backed(r) /\ Tight(r)
           /\ r.size = s.size /\ r.pt = s.pt /\ r.mem = s.mem /\ r.blocks = s.blocks
           /\ r.ok = s.ok
           /\ \A x \in Page : Extent(r, x) = Extent(s, x)
<1> DEFINE r == Lower(s)
           T == {b \in 1 .. s.brk : b = 1 \/ s.pt[b - 1] # NoFrame}
           U == {s.brk - b : b \in T}
<1>1. s.brk \in Nat /\ s.brk >= 1 /\ s.brk <= N + 1 /\ N \in Nat
    BY KHeapAssumption DEF HeapType, HeapMax
<1>2. 1 \in T /\ T \subseteq 1 .. s.brk
    BY <1>1
<1>3. \E m \in T : \A k \in T : k <= m
  <2>1. U \subseteq Nat /\ U # {}
    <3>1. s.brk - 1 \in U
        BY <1>2
    <3>2. QED
        BY <1>1, <1>2, <3>1
  <2>2. PICK d \in U : \A k \in U : d <= k
    <3> HIDE DEF U
    <3>1. QED
        BY <2>1, LeastNatural
  <2>3. PICK m \in T : d = s.brk - m
      OBVIOUS
  <2>4. ASSUME NEW k \in T PROVE k <= m
    <3>1. s.brk - k \in U
        OBVIOUS
    <3>2. d <= s.brk - k
        BY <2>2, <3>1
    <3>3. k \in Nat /\ m \in Nat
        BY <1>1, <1>2
    <3>4. QED
        BY <1>1, <2>3, <3>2, <3>3
  <2>5. QED
      BY <2>4
<1> DEFINE e == Max(T)
<1>4. e \in T /\ \A k \in T : k <= e
  <2> HIDE DEF T
  <2>1. QED
      BY <1>3 DEF Max
<1>5. r = [s EXCEPT !.brk = e]
    BY DEF Lower, HeapType
<1> HIDE DEF r, e
<1>6. e \in 1 .. s.brk /\ (e = 1 \/ s.pt[e - 1] # NoFrame)
    BY <1>4
<1>7. \A b \in 2 .. s.brk : s.pt[b - 1] # NoFrame => b <= e
  <2> SUFFICES ASSUME NEW b \in 2 .. s.brk, s.pt[b - 1] # NoFrame PROVE b <= e
      OBVIOUS
  <2>1. b \in T
      BY <1>1
  <2>2. QED
      BY <1>4, <2>1
<1>8. /\ r \in HeapType /\ r.size = s.size /\ r.brk = e
      /\ r.pt = s.pt /\ r.mem = s.mem /\ r.blocks = s.blocks
      /\ r.ok = s.ok /\ r.free = s.free /\ r.mapped_va = s.mapped_va
  <2>1. e \in 1 .. HeapMax
      BY <1>1, <1>6 DEF HeapMax
  <2>2. QED
      BY <1>5, <2>1 DEF HeapType
<1>9. FramesOk(r)
    BY <1>8 DEF FramesOk
<1>10. \A x \in Page : Extent(r, x) = Extent(s, x)
    BY <1>8 DEF Extent
<1>11. ASSUME NEW x \in Page, NEW u \in Extent(s, x) PROVE u \in 1 .. e - 1
  <2>1. u \in 1 .. s.brk - 1 /\ s.pt[u] # NoFrame
      BY DEF Tiled, Backed
  <2>2. u + 1 \in 2 .. s.brk /\ s.pt[(u + 1) - 1] # NoFrame
      BY <1>1, <2>1
  <2>3. u + 1 <= e
      BY <1>7, <2>2
  <2>4. QED
      BY <1>1, <1>6, <2>1, <2>3
<1>12. Tiled(r)
    BY <1>8, <1>10, <1>11 DEF Tiled
<1>13. Backed(r) /\ Tight(r)
    BY <1>1, <1>6, <1>8, <1>10 DEF Backed, Tight
<1>14. QED
    BY <1>8, <1>9, <1>10, <1>12, <1>13 DEF r

\* kfree gives back the pages of one allocation and leaves the others alone.
LEMMA KfreeLemma ==
    ASSUME NEW s, Good(s), s.ok, NEW v \in Page
    PROVE  LET r == kfree(s, v) IN
           /\ Good(r) /\ r.ok /\ r.blocks = s.blocks
           /\ r.size = [s.size EXCEPT ![v] = 0]
           /\ \A x \in Page \ {v} : \A u \in Extent(s, x) : Val(r, u) = Val(s, u)
<1>1. s \in HeapType /\ FramesOk(s) /\ Tiled(s) /\ Backed(s) /\ NoLeak(s) /\ Tight(s)
    BY DEF Good
<1>2. CASE s.size[v] = 0
  <2>1. kfree(s, v) = s
      BY <1>2 DEF kfree
  <2>2. s.size = [s.size EXCEPT ![v] = 0]
      BY <1>1, <1>2 DEF HeapType
  <2>3. QED
      BY <2>1, <2>2
<1>3. CASE s.size[v] # 0
  <2> DEFINE n == Pages(s.size[v])
             m == ReturnPages(s, v, n)
             h == [m EXCEPT !.size[v] = 0]
             r == Lower(h)
  <2>1. kfree(s, v) = r
      BY <1>3 DEF kfree
  <2>2. n \in Nat /\ n >= 1 /\ v \in Nat /\ s.brk \in 1 .. HeapMax /\ N \in Nat
      BY <1>1, <1>3, ExtentFacts, KHeapAssumption
  <2>3. Extent(s, v) = Span(v, n)
      BY DEF Extent
  <2> HIDE DEF n
  <2>4. v + n <= HeapMax
    <3>1. v + n - 1 \in Extent(s, v)
        BY <2>2, <2>3 DEF Span
    <3>2. v + n - 1 \in 1 .. s.brk - 1
        BY <1>1, <3>1 DEF Tiled
    <3>3. QED
        BY <2>2, <3>2 DEF HeapMax
  <2>5. /\ m \in HeapType /\ FramesOk(m)
        /\ m.size = s.size /\ m.brk = s.brk /\ m.blocks = s.blocks /\ m.ok = s.ok
        /\ \A u \in Span(v, n) : m.pt[u] = NoFrame
        /\ \A u \in Page \ Span(v, n) :
             /\ m.pt[u] = s.pt[u]
             /\ s.pt[u] # NoFrame => m.mem[s.pt[u]] = s.mem[s.pt[u]]
    <3>1. s \in HeapType /\ FramesOk(s) /\ n \in Nat
        BY <1>1, <2>2
    <3>2. QED
        BY <2>4, <3>1, ReturnPagesLemma
  <2> HIDE DEF m
  <2>6. \A x \in Page : Extent(m, x) = Extent(s, x)
      BY <2>5 DEF Extent
  <2>7. Tiled(m)
      BY <1>1, <2>5, <2>6 DEF Tiled
  <2>8. ASSUME NEW x \in Page \ {v}, NEW u \in Extent(s, x)
        PROVE  /\ u \in Page /\ u \notin Span(v, n)
               /\ m.pt[u] = s.pt[u] /\ s.pt[u] # NoFrame /\ m.mem[s.pt[u]] = s.mem[s.pt[u]]
    <3>1. u \in 1 .. s.brk - 1 /\ u \notin Extent(s, v)
        BY <1>1 DEF Tiled
    <3>2. u \in Page /\ u \notin Span(v, n)
        BY <2>2, <2>3, <3>1 DEF Page, HeapMax
    <3>3. s.pt[u] # NoFrame
        BY <1>1 DEF Backed
    <3>4. QED
        BY <2>5, <3>2, <3>3
  <2>9. Pages(0) = 0 /\ Span(v, 0) = {} /\ 0 \in 0 .. MaxSize
      BY <2>2, PagesType, KHeapAssumption DEF Span
  <2> DEFINE z == 0
             g == [m EXCEPT !.size[v] = z]
  <2>10. /\ h \in HeapType /\ FramesOk(h) /\ Tiled(h) /\ Backed(h)
         /\ h.brk = m.brk /\ h.pt = m.pt /\ h.mem = m.mem /\ h.blocks = m.blocks
         /\ h.ok = m.ok /\ h.size = [m.size EXCEPT ![v] = 0]
         /\ \A x \in Page \ {v} : Extent(h, x) = Extent(m, x)
    <3>1. z \in 0 .. MaxSize /\ m \in HeapType /\ FramesOk(m)
        BY <2>5, <2>9
    <3>2. \A u \in Span(v, Pages(z)) : u \in 1 .. m.brk - 1 /\ m.pt[u] # NoFrame
        BY <2>9
    <3>3. \A x \in Page \ {v} : \A u \in Extent(m, x) :
             m.pt[u] # NoFrame /\ u \notin Span(v, Pages(z))
        BY <2>6, <2>8, <2>9
    <3> HIDE DEF z
    <3>4. /\ g \in HeapType /\ FramesOk(g) /\ Tiled(g) /\ Backed(g)
          /\ g.brk = m.brk /\ g.pt = m.pt /\ g.mem = m.mem /\ g.blocks = m.blocks
          /\ g.ok = m.ok /\ g.size = [m.size EXCEPT ![v] = z]
          /\ \A x \in Page \ {v} : Extent(g, x) = Extent(m, x)
        BY <2>7, <3>1, <3>2, <3>3, ResizeLemma
    <3>5. QED
        BY <3>4 DEF z
  <2> HIDE DEF h
  <2>11. /\ r \in HeapType /\ FramesOk(r) /\ Tiled(r) /\ Backed(r) /\ Tight(r)
         /\ r.size = h.size /\ r.pt = h.pt /\ r.mem = h.mem /\ r.blocks = h.blocks
         /\ r.ok = h.ok
         /\ \A x \in Page : Extent(r, x) = Extent(h, x)
      BY <2>10, LowerLemma
  <2> HIDE DEF r
  <2>12. NoLeak(r)
    <3>1. SUFFICES ASSUME NEW u \in Page, r.pt[u] # NoFrame
                   PROVE  \E x \in Page : u \in Extent(r, x)
        BY DEF NoLeak
    <3>2. u \notin Span(v, n) /\ s.pt[u] # NoFrame
        BY <2>5, <2>10, <2>11, <3>1
    <3>3. PICK x \in Page : u \in Extent(s, x)
        BY <1>1, <3>2 DEF NoLeak
    <3>4. x # v
        BY <2>3, <3>2, <3>3
    <3>5. QED
        BY <2>6, <2>10, <2>11, <3>3, <3>4
  <2>13. \A x \in Page \ {v} : \A u \in Extent(s, x) : Val(r, u) = Val(s, u)
      BY <2>8, <2>10, <2>11 DEF Val
  <2>14. QED
      BY <2>1, <2>5, <2>10, <2>11, <2>12, <2>13 DEF Good
<1>4. QED
    BY <1>2, <1>3

\* Writing to frames disturbs nothing but the contents.
LEMMA MemLemma ==
    ASSUME NEW s, Good(s), NEW M \in [Frame -> 0 .. N]
    PROVE  LET r == [s EXCEPT !.mem = M] IN
           /\ Good(r) /\ r.mem = M /\ r.pt = s.pt
           /\ r.size = s.size /\ r.blocks = s.blocks /\ r.ok = s.ok
<1> DEFINE r == [s EXCEPT !.mem = M]
<1>1. /\ r \in HeapType /\ r.mem = M /\ r.pt = s.pt /\ r.brk = s.brk
      /\ r.size = s.size /\ r.blocks = s.blocks /\ r.ok = s.ok
      /\ r.free = s.free /\ r.mapped_va = s.mapped_va
    BY DEF Good, HeapType
<1> HIDE DEF r
<1>2. \A x \in Page : Extent(r, x) = Extent(s, x)
    BY <1>1 DEF Extent
<1>3. FramesOk(r)
    BY <1>1 DEF Good, FramesOk
<1>4. Tiled(r) /\ Backed(r)
    BY <1>1, <1>2 DEF Good, Tiled, Backed
<1>5. r.ok => NoLeak(r) /\ Tight(r)
    BY <1>1, <1>2 DEF Good, NoLeak, Tight
<1>6. QED
    BY <1>1, <1>3, <1>4, <1>5 DEF Good, r

\* The blocks of the dynamic allocator are no part of it.
LEMMA BlocksLemma ==
    ASSUME NEW s, Good(s), NEW B, B \subseteq Block
    PROVE  LET r == [s EXCEPT !.blocks = B] IN
           Good(r) /\ r.size = s.size /\ \A u : Val(r, u) = Val(s, u)
<1> DEFINE r == [s EXCEPT !.blocks = B]
<1>1. /\ r \in HeapType /\ r.mem = s.mem /\ r.pt = s.pt /\ r.brk = s.brk
      /\ r.size = s.size /\ r.ok = s.ok
      /\ r.free = s.free /\ r.mapped_va = s.mapped_va
    BY DEF Good, HeapType
<1> HIDE DEF r
<1>2. \A x \in Page : Extent(r, x) = Extent(s, x)
    BY <1>1 DEF Extent
<1>3. FramesOk(r)
    BY <1>1 DEF Good, FramesOk
<1>4. Tiled(r) /\ Backed(r)
    BY <1>1, <1>2 DEF Good, Tiled, Backed
<1>5. r.ok => NoLeak(r) /\ Tight(r)
    BY <1>1, <1>2 DEF Good, NoLeak, Tight
<1>6. QED
    BY <1>1, <1>3, <1>4, <1>5 DEF Good, Val, r

\* The owner's writes reach the pages it means, and no others.
LEMMA FillLemma ==
    ASSUME NEW s, Good(s), NEW v \in Page, NEW n \in Nat, NEW t \in Tag
    PROVE  LET r == Fill(s, v, n, t) IN
           /\ Good(r) /\ r.size = s.size /\ r.blocks = s.blocks /\ r.ok = s.ok
           /\ \A u \in Page : s.pt[u] # NoFrame =>
                Val(r, u) = IF u \in Span(v, n) THEN t ELSE Val(s, u)
<1> DEFINE M == [f \in Frame |-> IF s.mapped_va[f] \in Span(v, n) THEN t ELSE s.mem[f]]
           r == Fill(s, v, n, t)
<1>1. /\ s.pt \in [Page -> Frame \union {NoFrame}] /\ s.mem \in [Frame -> 0 .. N]
      /\ FramesOk(s)
    BY DEF Good, HeapType
<1>2. M \in [Frame -> 0 .. N]
    BY <1>1, KHeapAssumption DEF Tag
<1>3. r = [s EXCEPT !.mem = M]
    BY DEF Fill
<1> HIDE DEF M, r
<1>4. /\ Good(r) /\ r.mem = M /\ r.pt = s.pt
      /\ r.size = s.size /\ r.blocks = s.blocks /\ r.ok = s.ok
    BY <1>2, <1>3, MemLemma
<1>5. ASSUME NEW u \in Page, s.pt[u] # NoFrame
      PROVE  Val(r, u) = IF u \in Span(v, n) THEN t ELSE Val(s, u)
  <2>1. s.pt[u] \in Frame /\ s.mapped_va[s.pt[u]] = u
      BY <1>1, <1>5 DEF FramesOk
  <2>2. Val(r, u) = M[s.pt[u]]
      BY <1>4 DEF Val
  <2>3. QED
      BY <2>1, <2>2 DEF M, Val
<1>6. QED
    BY <1>4, <1>5 DEF r

\* memcpy copies whole pages.
LEMMA MemcpyLemma ==
    ASSUME NEW s, Good(s), NEW u \in Page, NEW v \in Page, NEW n \in Nat,
           \A w \in Span(v, n) : w \in Page /\ s.pt[w] # NoFrame
    PROVE  LET r == memcpy(s, u, v, n) IN
           /\ Good(r) /\ r.size = s.size /\ r.blocks = s.blocks /\ r.ok = s.ok
           /\ \A w \in Page : s.pt[w] # NoFrame =>
                Val(r, w) = IF w \in Span(u, n) THEN Val(s, w - u + v) ELSE Val(s, w)
<1> DEFINE M == [f \in Frame |-> IF s.mapped_va[f] \in Span(u, n)
                                 THEN s.mem[s.pt[s.mapped_va[f] - u + v]] ELSE s.mem[f]]
           r == memcpy(s, u, v, n)
<1>1. /\ s.pt \in [Page -> Frame \union {NoFrame}] /\ s.mem \in [Frame -> 0 .. N]
      /\ FramesOk(s)
    BY DEF Good, HeapType
<1>2. ASSUME NEW w \in Span(u, n) PROVE s.mem[s.pt[w - u + v]] \in 0 .. N
  <2>1. u \in Int /\ v \in Int
      BY DEF Page
  <2>2. w - u + v \in Span(v, n)
      BY <2>1 DEF Span
  <2>3. s.pt[w - u + v] \in Frame
      BY <1>1, <2>2
  <2>4. QED
      BY <1>1, <2>3
<1>3. M \in [Frame -> 0 .. N]
    BY <1>1, <1>2
<1>4. r = [s EXCEPT !.mem = M]
    BY DEF memcpy
<1> HIDE DEF M, r
<1>5. /\ Good(r) /\ r.mem = M /\ r.pt = s.pt
      /\ r.size = s.size /\ r.blocks = s.blocks /\ r.ok = s.ok
    BY <1>3, <1>4, MemLemma
<1>6. ASSUME NEW w \in Page, s.pt[w] # NoFrame
      PROVE  Val(r, w) = IF w \in Span(u, n) THEN Val(s, w - u + v) ELSE Val(s, w)
  <2>1. s.pt[w] \in Frame /\ s.mapped_va[s.pt[w]] = w
      BY <1>1, <1>6 DEF FramesOk
  <2>2. Val(r, w) = M[s.pt[w]]
      BY <1>5 DEF Val
  <2>3. QED
      BY <2>1, <2>2 DEF M, Val
<1>7. QED
    BY <1>5, <1>6 DEF r

\* The end of kmalloc: pages that nobody has are mapped and become an
\* allocation, or the frames run out.
LEMMA AllocLemma ==
    ASSUME NEW s \in HeapType, FramesOk(s), Tiled(s), Backed(s), NoLeak(s), s.ok,
           NEW a \in Page, NEW size \in 1 .. MaxSize,
           a + Pages(size) <= s.brk, Tight(s) \/ a + Pages(size) = s.brk,
           \A x \in Page : Extent(s, x) \intersect Span(a, Pages(size)) = {}
    PROVE  LET m == GetPages(s, a, Pages(size))
               h == [m EXCEPT !.size[a] = size] IN
           /\ ~m.ok => /\ Good(m) /\ m.size = s.size /\ m.blocks = s.blocks
                       /\ \A x \in Page : \A u \in Extent(s, x) : Val(m, u) = Val(s, u)
           /\ m.ok  => /\ Good(h) /\ h.ok /\ h.blocks = s.blocks
                       /\ s.size[a] = 0 /\ h.size = [s.size EXCEPT ![a] = size]
                       /\ \A x \in Page \ {a} : \A u \in Extent(s, x) : Val(h, u) = Val(s, u)
<1> DEFINE n == Pages(size)
           m == GetPages(s, a, n)
           h == [m EXCEPT !.size[a] = size]
<1>1. size \in Nat /\ size # 0 /\ size \in 0 .. MaxSize /\ N \in Nat /\ s.brk \in 1 .. HeapMax
    BY KHeapAssumption DEF HeapType
<1>2. n \in Nat /\ n >= 1 /\ a \in Nat /\ a >= 1
    BY <1>1, PagesType DEF Page
<1> HIDE DEF n
<1>3. /\ a + n <= s.brk /\ (Tight(s) \/ a + n = s.brk)
      /\ \A x \in Page : Extent(s, x) \intersect Span(a, n) = {}
    BY DEF n
<1>4. a + n <= HeapMax
    BY <1>1, <1>2, <1>3 DEF HeapMax
<1>5. /\ m \in HeapType /\ FramesOk(m)
      /\ m.size = s.size /\ m.brk = s.brk /\ m.mem = s.mem /\ m.blocks = s.blocks
      /\ \A u \in Page : s.pt[u] # NoFrame \/ u \notin Span(a, n) => m.pt[u] = s.pt[u]
      /\ m.ok => s.ok /\ \A u \in Span(a, n) : m.pt[u] # NoFrame
    BY <1>2, <1>4, GetPagesLemma
<1> HIDE DEF m
<1>6. \A x \in Page : Extent(m, x) = Extent(s, x)
    BY <1>5 DEF Extent
<1>7. Tiled(m)
    BY <1>5, <1>6 DEF Tiled
<1>8. ASSUME NEW x \in Page, NEW u \in Extent(s, x)
      PROVE  u \in Page /\ u \notin Span(a, n) /\ m.pt[u] = s.pt[u] /\ s.pt[u] # NoFrame
  <2>1. u \in 1 .. s.brk - 1 /\ s.pt[u] # NoFrame
      BY DEF Tiled, Backed
  <2>2. u \in Page
      BY <1>1, <2>1 DEF Page, HeapMax
  <2>3. QED
      BY <1>3, <1>5, <2>1, <2>2
<1>9. \A x \in Page : \A u \in Extent(s, x) : Val(m, u) = Val(s, u)
    BY <1>5, <1>8 DEF Val
<1>10. Backed(m)
    BY <1>6, <1>8 DEF Backed
<1>11. ~m.ok => Good(m)
    BY <1>5, <1>7, <1>10 DEF Good
<1>12. ASSUME m.ok
       PROVE  /\ Good(h) /\ h.ok /\ h.blocks = s.blocks
              /\ s.size[a] = 0 /\ h.size = [s.size EXCEPT ![a] = size]
              /\ \A x \in Page \ {a} : \A u \in Extent(s, x) : Val(h, u) = Val(s, u)
  <2>1. \A u \in Span(a, n) : u \in 1 .. m.brk - 1 /\ m.pt[u] # NoFrame
      BY <1>1, <1>2, <1>3, <1>5, <1>12 DEF Span
  <2>2. \A x \in Page \ {a} : \A u \in Extent(m, x) : m.pt[u] # NoFrame /\ u \notin Span(a, n)
      BY <1>6, <1>8
  <2>3. /\ h \in HeapType /\ FramesOk(h) /\ Tiled(h) /\ Backed(h)
        /\ h.brk = m.brk /\ h.pt = m.pt /\ h.mem = m.mem /\ h.blocks = m.blocks
        /\ h.ok = m.ok /\ h.size = [m.size EXCEPT ![a] = size]
        /\ Extent(h, a) = Span(a, n)
        /\ \A x \in Page \ {a} : Extent(h, x) = Extent(m, x)
      BY <1>1, <1>5, <1>7, <2>1, <2>2, ResizeLemma DEF n
  <2> HIDE DEF h
  <2>4. s.size[a] = 0
    <3>1. a \in Span(a, n)
        BY <1>2 DEF Span
    <3>2. a \notin Extent(s, a)
        BY <1>3, <3>1
    <3>3. QED
        BY <3>2, ExtentFacts
  <2>5. NoLeak(h)
    <3>1. SUFFICES ASSUME NEW u \in Page, h.pt[u] # NoFrame
                   PROVE  \E x \in Page : u \in Extent(h, x)
        BY DEF NoLeak
    <3>2. CASE u \in Span(a, n)
        BY <2>3, <3>2
    <3>3. CASE u \notin Span(a, n)
      <4>1. s.pt[u] # NoFrame
          BY <1>5, <2>3, <3>1, <3>3
      <4>2. PICK x \in Page : u \in Extent(s, x)
          BY <4>1 DEF NoLeak
      <4>3. x # a
          BY <2>4, <4>2, ExtentFacts
      <4>4. QED
          BY <1>6, <2>3, <4>2, <4>3
    <3>4. QED
        BY <3>2, <3>3
  <2>6. Tight(h)
    <3>1. CASE a + n = s.brk
      <4>1. s.brk - 1 \in Span(a, n)
          BY <1>1, <1>2, <3>1 DEF Span
      <4>2. QED
          BY <1>5, <1>12, <2>3, <4>1 DEF Tight
    <3>2. CASE Tight(s)
      <4>1. s.brk > 1 => s.brk - 1 \in Page
          BY <1>1 DEF Page, HeapMax
      <4>2. QED
          BY <1>5, <2>3, <3>2, <4>1 DEF Tight
    <3>3. QED
        BY <1>3, <3>1, <3>2
  <2>7. \A x \in Page \ {a} : \A u \in Extent(s, x) : Val(h, u) = Val(s, u)
      BY <1>5, <1>8, <2>3 DEF Val
  <2>8. QED
      BY <1>5, <1>12, <2>3, <2>4, <2>5, <2>6, <2>7 DEF Good
<1>13. QED
    BY <1>5, <1>9, <1>11, <1>12 DEF m, h, n

\* kmalloc, page allocator: a new allocation, or none and everything as it
\* was for the owners of the others.
LEMMA KmallocLemma ==
    ASSUME NEW s, Good(s), s.ok, NEW size \in 1 .. MaxSize
    PROVE  LET k == kmalloc_pages(s, size)
               h == k.hp IN
           /\ Good(h) /\ h.blocks = s.blocks
           /\ k.va = NULL =>
                /\ h.size = s.size
                /\ \A x \in Page : \A u \in Extent(s, x) : Val(h, u) = Val(s, u)
           /\ k.va # NULL =>
                /\ k.va \in Page /\ h.ok /\ s.size[k.va] = 0
                /\ h.size = [s.size EXCEPT ![k.va] = size]
                /\ \A x \in Page \ {k.va} : \A u \in Extent(s, x) : Val(h, u) = Val(s, u)
<1> DEFINE n == Pages(size)
           p == Place(s, n)
           k == kmalloc_pages(s, size)
<1>1. s \in HeapType /\ FramesOk(s) /\ Tiled(s) /\ Backed(s) /\ NoLeak(s) /\ Tight(s)
    BY DEF Good
<1>2. size \in Nat /\ size # 0 /\ N \in Nat /\ s.brk \in 1 .. HeapMax
    BY <1>1, KHeapAssumption DEF HeapType
<1>3. n \in Nat /\ n >= 1
    BY <1>2, PagesType
<1> HIDE DEF n
<1>4. k = IF Refused(s, size) \/ p.va = NULL THEN [hp |-> s, va |-> NULL]
          ELSE LET m == GetPages(p.hp, p.va, n) IN
               IF ~m.ok THEN [hp |-> m, va |-> NULL]
               ELSE [hp |-> [m EXCEPT !.size[p.va] = size], va |-> p.va]
    BY DEF kmalloc_pages, n
<1> HIDE DEF k
<1>5. CASE Refused(s, size) \/ p.va = NULL
  <2>1. k.hp = s /\ k.va = NULL
      BY <1>4, <1>5
  <2>2. QED
      BY <2>1 DEF k
<1>6. CASE ~Refused(s, size) /\ p.va # NULL
  <2> DEFINE t == p.hp
             a == p.va
             m == GetPages(t, a, n)
             h == [m EXCEPT !.size[a] = size]
  <2>1. n \in Page /\ s.brk + n <= HeapMax
      BY <1>2, <1>3, <1>6 DEF Refused, Page, HeapMax, n
  <2>2. /\ t \in HeapType /\ FramesOk(t) /\ Tiled(t) /\ Backed(t) /\ NoLeak(t) /\ t.ok
        /\ a \in Page /\ a + n <= t.brk /\ (Tight(t) \/ a + n = t.brk)
        /\ \A x \in Page : Extent(t, x) \intersect Span(a, n) = {}
        /\ t.size = s.size /\ t.blocks = s.blocks /\ t.pt = s.pt /\ t.mem = s.mem
    <3>1. CASE find_customfit(s, n) # NULL
      <4>1. t = s /\ a = find_customfit(s, n)
          BY <3>1 DEF Place
      <4> HIDE DEF t, a
      <4>2. a \in Page /\ \A u \in Span(a, n) : IsFree(s, u)
          BY <1>1, <2>1, <3>1, <4>1, FoundIsFree
      <4>3. a + n - 1 \in Span(a, n)
          BY <1>3, <4>2 DEF Span, Page
      <4>4. a + n - 1 \in 1 .. s.brk - 1
          BY <4>2, <4>3 DEF IsFree
      <4>5. a + n <= s.brk
          BY <1>2, <1>3, <4>2, <4>4 DEF Page, HeapMax
      <4>6. \A x \in Page : Extent(s, x) \intersect Span(a, n) = {}
          BY <4>2 DEF IsFree
      <4>7. QED
          BY <1>1, <4>1, <4>2, <4>5, <4>6
    <3>2. CASE find_customfit(s, n) = NULL
      <4>1. t = [s EXCEPT !.brk = @ + n] /\ a = s.brk
          BY <1>2, <1>3, <2>1, <3>2 DEF Place, HeapMax
      <4> HIDE DEF t, a
      <4> DEFINE e == s.brk + n
      <4>2. e \in 1 .. HeapMax /\ e > s.brk
          BY <1>2, <1>3, <2>1 DEF HeapMax
      <4>3. t = [s EXCEPT !.brk = e]
          BY <1>1, <4>1 DEF HeapType
      <4> HIDE DEF e
      <4>4. /\ t \in HeapType /\ t.brk = e
            /\ t.size = s.size /\ t.blocks = s.blocks /\ t.pt = s.pt /\ t.mem = s.mem
            /\ t.ok = s.ok /\ t.free = s.free /\ t.mapped_va = s.mapped_va
          BY <1>1, <4>2, <4>3 DEF HeapType
      <4>5. \A x \in Page : Extent(t, x) = Extent(s, x)
          BY <4>4 DEF Extent
      <4>6. FramesOk(t) /\ Backed(t) /\ NoLeak(t)
          BY <1>1, <4>4, <4>5 DEF FramesOk, Backed, NoLeak
      <4>7. \A x \in Page : \A u \in Extent(s, x) : u \in 1 .. s.brk - 1
          BY <1>1 DEF Tiled
      <4>8. Tiled(t)
        <5>1. \A u \in 1 .. s.brk - 1 : u \in 1 .. e - 1
            BY <1>2, <4>2 DEF HeapMax
        <5>2. QED
            BY <1>1, <4>4, <4>5, <4>7, <5>1 DEF Tiled
      <4>9. a \in Page /\ a + n = t.brk
          BY <1>2, <1>3, <2>1, <4>1, <4>4 DEF Page, HeapMax, e
      <4>10. \A u \in Span(a, n) : u \notin 1 .. s.brk - 1
          BY <1>2, <1>3, <4>1 DEF Span, HeapMax
      <4>11. \A x \in Page : Extent(t, x) \intersect Span(a, n) = {}
          BY <4>5, <4>7, <4>10
      <4>12. a + n <= t.brk
          BY <1>2, <1>3, <4>2, <4>4, <4>9 DEF HeapMax
      <4>13. QED
          BY <4>4, <4>6, <4>8, <4>9, <4>11, <4>12
    <3>3. QED
        BY <3>1, <3>2
  <2>3. k = IF ~m.ok THEN [hp |-> m, va |-> NULL] ELSE [hp |-> h, va |-> a]
      BY <1>4, <1>6
  <2>4. a # NULL
      BY <1>6
  <2> HIDE DEF t, a
  <2>5. /\ ~m.ok => /\ Good(m) /\ m.size = t.size /\ m.blocks = t.blocks
                    /\ \A x \in Page : \A u \in Extent(t, x) : Val(m, u) = Val(t, u)
        /\ m.ok  => /\ Good(h) /\ h.ok /\ h.blocks = t.blocks
                    /\ t.size[a] = 0 /\ h.size = [t.size EXCEPT ![a] = size]
                    /\ \A x \in Page \ {a} : \A u \in Extent(t, x) : Val(h, u) = Val(t, u)
      BY <2>2, AllocLemma DEF n
  <2> HIDE DEF h
  <2> HIDE DEF m
  <2>6. \A x \in Page : Extent(t, x) = Extent(s, x)
      BY <2>2 DEF Extent
  <2>7. \A u : Val(t, u) = Val(s, u)
      BY <2>2 DEF Val
  <2>8. CASE ~m.ok
    <3>1. k.hp = m /\ k.va = NULL
        BY <2>3, <2>8
    <3>2. QED
        BY <2>2, <2>5, <2>6, <2>7, <2>8, <3>1 DEF k
  <2>9. CASE m.ok
    <3>1. k.hp = h /\ k.va = a
        BY <2>3, <2>9
    <3>2. QED
        BY <2>2, <2>4, <2>5, <2>6, <2>7, <2>9, <3>1 DEF k
  <2>10. QED
      BY <2>8, <2>9
<1>7. QED
    BY <1>5, <1>6

\* What krealloc does to the heap s when it ends with h and the address a: the
\* allocation is at a, with the new size and what both sizes have room for,
\* and the others are untouched.
Resized(s, h, v, a, size) ==
    /\ Good(h) /\ h.ok /\ h.blocks = s.blocks
    /\ a \in Page /\ (a = v \/ s.size[a] = 0)
    /\ h.size = [[s.size EXCEPT ![v] = 0] EXCEPT ![a] = size]
    /\ \A x \in Page \ {v} : \A u \in Extent(s, x) : Val(h, u) = Val(s, u)
    /\ \A i \in Nat : i < Pages(s.size[v]) /\ i < Pages(size) => Val(h, a + i) = Val(s, v + i)

\* An allocation that stays where it is.
LEMMA InPlace ==
    ASSUME NEW s, Good(s), NEW h, NEW v \in Page, NEW size \in 1 .. MaxSize,
           Good(h), h.ok, h.blocks = s.blocks, h.size = [s.size EXCEPT ![v] = size],
           \A x \in Page \ {v} : \A u \in Extent(s, x) : Val(h, u) = Val(s, u),
           \A i \in Nat : i < Pages(s.size[v]) /\ i < Pages(size) => Val(h, v + i) = Val(s, v + i)
    PROVE  Resized(s, h, v, v, size)
<1>1. [s.size EXCEPT ![v] = size] = [[s.size EXCEPT ![v] = 0] EXCEPT ![v] = size]
    BY DEF Good, HeapType
<1>2. QED
    BY <1>1 DEF Resized

\* Shrinking in place.
LEMMA ShrinkLemma ==
    ASSUME NEW s, Good(s), s.ok, NEW v \in Page, s.size[v] # 0, NEW size \in 1 .. MaxSize,
           Pages(size) < Pages(s.size[v])
    PROVE  LET k == krealloc_shrink(s, v, Pages(s.size[v]), Pages(size), size) IN
           k.va = v /\ Resized(s, k.hp, v, v, size)
<1> DEFINE old == Pages(s.size[v])
           new == Pages(size)
           m == ReturnPages(s, v + new, old - new)
           r == [m EXCEPT !.size[v] = size]
           e == v + new
           h == IF v + old = s.brk THEN [r EXCEPT !.brk = e] ELSE r
           k == krealloc_shrink(s, v, old, new, size)
<1>1. s \in HeapType /\ FramesOk(s) /\ Tiled(s) /\ Backed(s) /\ NoLeak(s) /\ Tight(s)
    BY DEF Good
<1>2. size \in Nat /\ size # 0 /\ size \in 0 .. MaxSize /\ N \in Nat /\ s.brk \in 1 .. HeapMax
    BY <1>1, KHeapAssumption DEF HeapType
<1>3. /\ new \in Nat /\ new >= 1 /\ old \in Nat /\ v \in Nat /\ v >= 1
      /\ old > new
    BY <1>1, <1>2, PagesType, ExtentFacts DEF Page
<1>4. k.hp = h /\ k.va = v
    BY DEF krealloc_shrink
<1> HIDE DEF k
<1>5. Extent(s, v) = Span(v, old)
    BY DEF Extent
<1> HIDE DEF old, new
<1>6. v + old <= s.brk
  <2>1. v + old - 1 \in Extent(s, v)
      BY <1>3, <1>5 DEF Span
  <2>2. v + old - 1 \in 1 .. s.brk - 1
      BY <1>1, <2>1 DEF Tiled
  <2>3. QED
      BY <1>2, <1>3, <2>2 DEF HeapMax
<1>7. v + new \in Page /\ old - new \in Nat /\ (v + new) + (old - new) <= HeapMax
    BY <1>2, <1>3, <1>6 DEF Page, HeapMax
<1>8. Span(v, old) = Span(v, new) \union Span(v + new, old - new)
    BY <1>3 DEF Span
<1>9. Span(v, new) \intersect Span(v + new, old - new) = {}
    BY <1>3 DEF Span
<1>10. /\ m \in HeapType /\ FramesOk(m)
       /\ m.size = s.size /\ m.brk = s.brk /\ m.blocks = s.blocks /\ m.ok = s.ok
       /\ \A u \in Span(v + new, old - new) : m.pt[u] = NoFrame
       /\ \A u \in Page \ Span(v + new, old - new) :
             /\ m.pt[u] = s.pt[u]
             /\ s.pt[u] # NoFrame => m.mem[s.pt[u]] = s.mem[s.pt[u]]
    BY <1>1, <1>7, ReturnPagesLemma
<1> HIDE DEF m
<1>11. \A x \in Page : Extent(m, x) = Extent(s, x)
    BY <1>10 DEF Extent
<1>12. Tiled(m)
    BY <1>1, <1>10, <1>11 DEF Tiled
<1>13. ASSUME NEW x \in Page, NEW u \in Extent(s, x), x = v => u \in Span(v, new)
       PROVE  /\ u \in Page /\ m.pt[u] = s.pt[u] /\ s.pt[u] # NoFrame
              /\ m.mem[s.pt[u]] = s.mem[s.pt[u]]
  <2>1. u \in 1 .. s.brk - 1 /\ s.pt[u] # NoFrame
      BY <1>1 DEF Tiled, Backed
  <2>2. x # v => u \notin Extent(s, v)
      BY <1>1 DEF Tiled
  <2>3. u \notin Span(v + new, old - new)
      BY <1>5, <1>8, <1>9, <1>13, <2>2
  <2>4. u \in Page
      BY <1>2, <2>1 DEF Page, HeapMax
  <2>5. QED
      BY <1>10, <2>1, <2>3, <2>4
<1>14. \A u \in Span(v, new) : u \in Extent(s, v)
    BY <1>5, <1>8
<1>15. /\ r \in HeapType /\ FramesOk(r) /\ Tiled(r) /\ Backed(r)
       /\ r.brk = m.brk /\ r.pt = m.pt /\ r.mem = m.mem /\ r.blocks = m.blocks
       /\ r.ok = m.ok /\ r.size = [m.size EXCEPT ![v] = size]
       /\ Extent(r, v) = Span(v, new)
       /\ \A x \in Page \ {v} : Extent(r, x) = Extent(m, x)
  <2>1. \A u \in Span(v, new) : u \in 1 .. m.brk - 1 /\ m.pt[u] # NoFrame
      BY <1>1, <1>10, <1>13, <1>14 DEF Tiled
  <2>2. \A x \in Page \ {v} : \A u \in Extent(m, x) : m.pt[u] # NoFrame /\ u \notin Span(v, new)
      BY <1>1, <1>5, <1>8, <1>11, <1>13 DEF Tiled
  <2>3. QED
    <3>1. size \in 0 .. MaxSize /\ m \in HeapType /\ FramesOk(m)
        BY <1>2, <1>10
    <3>2. QED
        BY <1>12, <2>1, <2>2, <3>1, ResizeLemma DEF new
<1> HIDE DEF r
<1>16. NoLeak(r)
  <2>1. SUFFICES ASSUME NEW u \in Page, r.pt[u] # NoFrame
                 PROVE  \E x \in Page : u \in Extent(r, x)
      BY DEF NoLeak
  <2>2. u \notin Span(v + new, old - new) /\ s.pt[u] # NoFrame
      BY <1>10, <1>15, <2>1
  <2>3. PICK x \in Page : u \in Extent(s, x)
      BY <1>1, <2>2 DEF NoLeak
  <2>4. x = v => u \in Span(v, new)
      BY <1>5, <1>8, <2>2, <2>3
  <2>5. QED
      BY <1>11, <1>15, <2>3, <2>4
<1>17. \A x \in Page \ {v} : \A u \in Extent(s, x) : Val(r, u) = Val(s, u)
    BY <1>13, <1>15 DEF Val
<1>18. \A i \in Nat : i < old /\ i < new => Val(r, v + i) = Val(s, v + i)
  <2> SUFFICES ASSUME NEW i \in Nat, i < new PROVE Val(r, v + i) = Val(s, v + i)
      OBVIOUS
  <2>1. v + i \in Span(v, new)
      BY <1>3 DEF Span
  <2>2. QED
      BY <1>13, <1>14, <1>15, <2>1 DEF Val
<1>19. v + new - 1 \in Span(v, new)
    BY <1>3 DEF Span
<1>20. CASE v + old # s.brk
  <2>1. Tight(r)
    <3>1. SUFFICES ASSUME s.brk > 1 PROVE r.pt[s.brk - 1] # NoFrame
        BY <1>10, <1>15 DEF Tight
    <3>2. s.brk - 1 \in Page /\ s.pt[s.brk - 1] # NoFrame
        BY <1>1, <1>2, <3>1 DEF Tight, Page, HeapMax
    <3>3. s.brk - 1 \notin Span(v + new, old - new)
        BY <1>2, <1>3, <1>6, <1>20 DEF Span, HeapMax
    <3>4. QED
        BY <1>10, <1>15, <3>2, <3>3
  <2>2. Good(r)
      BY <1>15, <1>16, <2>1 DEF Good
  <2>3. h = r
      BY <1>20
  <2>4. Resized(s, r, v, v, size)
      BY <1>10, <1>15, <1>17, <1>18, <2>2, InPlace DEF old, new
  <2>5. QED
      BY <1>4, <2>3, <2>4 DEF k, old, new
<1>21. CASE v + old = s.brk
  <2>1. h = [r EXCEPT !.brk = e]
      BY <1>21
  <2>2. e \in 1 .. HeapMax
      BY <1>2, <1>3, <1>6 DEF HeapMax
  <2> HIDE DEF h, e
  <2>3. /\ h \in HeapType /\ h.brk = e
        /\ h.size = r.size /\ h.blocks = r.blocks /\ h.pt = r.pt /\ h.mem = r.mem
        /\ h.ok = r.ok /\ h.free = r.free /\ h.mapped_va = r.mapped_va
      BY <1>15, <2>1, <2>2 DEF HeapType
  <2>4. \A x \in Page : Extent(h, x) = Extent(r, x)
      BY <2>3 DEF Extent
  <2>5. FramesOk(h) /\ Backed(h) /\ NoLeak(h)
      BY <1>15, <1>16, <2>3, <2>4 DEF FramesOk, Backed, NoLeak
  <2>6. ASSUME NEW x \in Page, NEW u \in Extent(r, x) PROVE u \in 1 .. e - 1
    <3>1. CASE x = v
      <4>1. u \in Span(v, new)
          BY <1>15, <2>6, <3>1
      <4>2. QED
          BY <1>3, <4>1 DEF Span, e
    <3>2. CASE x # v
      <4>1. u \in Extent(s, x)
          BY <1>11, <1>15, <2>6, <3>2
      <4>2. u \in 1 .. s.brk - 1 /\ u \notin Span(v, old)
          BY <1>1, <1>5, <3>2, <4>1 DEF Tiled
      <4>3. QED
          BY <1>2, <1>3, <1>21, <4>2 DEF Span, HeapMax, e
    <3>3. QED
        BY <3>1, <3>2
  <2>7. Tiled(h)
      BY <1>15, <2>3, <2>4, <2>6 DEF Tiled
  <2>8. Tight(h)
    <3>1. e - 1 \in Extent(r, v)
      <4>1. e - 1 = v + new - 1
          BY <1>3 DEF e
      <4>2. e - 1 \in Span(v, new)
          BY <1>19, <4>1
      <4>3. QED
          BY <1>15, <4>2
    <3>2. r.pt[e - 1] # NoFrame
        BY <1>15, <3>1 DEF Backed
    <3>3. QED
        BY <2>3, <3>2 DEF Tight
  <2>9. Good(h)
      BY <2>3, <2>5, <2>7, <2>8 DEF Good
  <2>10. \A u : Val(h, u) = Val(r, u)
      BY <2>3 DEF Val
  <2>11. Resized(s, h, v, v, size)
    <3>1. h.ok /\ h.blocks = s.blocks /\ h.size = [s.size EXCEPT ![v] = size]
        BY <1>10, <1>15, <2>3
    <3>2. /\ \A x \in Page \ {v} : \A u \in Extent(s, x) : Val(h, u) = Val(s, u)
          /\ \A i \in Nat : i < old /\ i < new => Val(h, v + i) = Val(s, v + i)
        BY <1>17, <1>18, <2>10
    <3>3. QED
        BY <2>9, <3>1, <3>2, InPlace DEF old, new
  <2>12. QED
      BY <1>4, <2>11 DEF k, old, new, h, e
<1>22. QED
    BY <1>20, <1>21

\* Growing in place: the pages behind the allocation, none of which begins
\* another, are free.
LEMMA ExtendLemma ==
    ASSUME NEW s, Good(s), s.ok, NEW v \in Page, s.size[v] # 0, NEW size \in 1 .. MaxSize,
           Pages(size) > Pages(s.size[v]), CanExtend(s, v, Pages(s.size[v]), Pages(size))
    PROVE  LET k == krealloc_extend(s, v, Pages(s.size[v]), Pages(size), size) IN
           /\ k.va = NULL =>
                /\ Good(k.hp) /\ k.hp.size = s.size /\ k.hp.blocks = s.blocks
                /\ \A x \in Page : \A u \in Extent(s, x) : Val(k.hp, u) = Val(s, u)
           /\ k.va # NULL => k.va = v /\ Resized(s, k.hp, v, v, size)
<1> DEFINE old == Pages(s.size[v])
           new == Pages(size)
           m == GetPages(s, v + old, new - old)
           h == [m EXCEPT !.size[v] = size]
           k == krealloc_extend(s, v, old, new, size)
<1>1. s \in HeapType /\ FramesOk(s) /\ Tiled(s) /\ Backed(s) /\ NoLeak(s) /\ Tight(s)
    BY DEF Good
<1>2. size \in Nat /\ size # 0 /\ size \in 0 .. MaxSize /\ N \in Nat /\ s.brk \in 1 .. HeapMax
    BY <1>1, KHeapAssumption DEF HeapType
<1>3. /\ new \in Nat /\ old >= 1 /\ old \in Nat /\ v \in Nat /\ v >= 1
      /\ new > old
    BY <1>1, <1>2, PagesType, ExtentFacts DEF Page
<1>4. k = IF m.ok THEN [hp |-> h, va |-> v] ELSE [hp |-> m, va |-> NULL]
    BY DEF krealloc_extend
<1> HIDE DEF k
<1>5. Extent(s, v) = Span(v, old)
    BY DEF Extent
<1>6. \A u \in Span(v + old, new - old) : u < s.brk /\ s.size[u] = 0
    BY DEF CanExtend
<1> HIDE DEF old, new
<1>7. v + new <= s.brk
  <2>1. v + new - 1 \in Span(v + old, new - old)
      BY <1>3 DEF Span
  <2>2. v + new - 1 < s.brk
      BY <1>6, <2>1
  <2>3. QED
      BY <1>2, <1>3, <2>2 DEF HeapMax
<1>8. v + old \in Page /\ new - old \in Nat /\ (v + old) + (new - old) <= HeapMax
    BY <1>2, <1>3, <1>7 DEF Page, HeapMax
<1>9. Span(v, new) = Span(v, old) \union Span(v + old, new - old)
    BY <1>3 DEF Span
<1>10. ASSUME NEW u \in Span(v + old, new - old), NEW x \in Page, u \in Extent(s, x)
       PROVE  FALSE
  <2>1. /\ x \in Nat /\ x <= u /\ u < x + Pages(s.size[x]) /\ Pages(s.size[x]) \in Nat
        /\ s.size[x] # 0 /\ x \in Extent(s, x)
      BY <1>1, <1>10, ExtentFacts
  <2>2. u \in Nat /\ v + old <= u /\ u < v + new
      BY <1>3, <1>10 DEF Span
  <2>3. x \notin Span(v + old, new - old)
      BY <1>6, <2>1
  <2>4. x < v + old
      BY <1>3, <2>1, <2>2, <2>3 DEF Span
  <2>5. CASE x < v
    <3>1. v \in Extent(s, x)
        BY <1>1, <1>3, <2>1, <2>2, <2>5, ExtentFacts
    <3>2. v \in Extent(s, v)
        BY <1>3, <1>5 DEF Span
    <3>3. QED
        BY <1>1, <1>3, <2>1, <2>5, <3>1, <3>2 DEF Tiled
  <2>6. CASE x = v
      BY <1>3, <1>5, <1>10, <2>2, <2>6 DEF Span
  <2>7. CASE x > v
    <3>1. x \in Extent(s, v)
        BY <1>3, <1>5, <2>1, <2>4, <2>7 DEF Span
    <3>2. QED
        BY <1>1, <2>1, <2>7, <3>1 DEF Tiled
  <2>8. QED
      BY <1>3, <2>1, <2>5, <2>6, <2>7
<1>11. /\ m \in HeapType /\ FramesOk(m)
       /\ m.size = s.size /\ m.brk = s.brk /\ m.mem = s.mem /\ m.blocks = s.blocks
       /\ \A u \in Page : s.pt[u] # NoFrame \/ u \notin Span(v + old, new - old)
                            => m.pt[u] = s.pt[u]
       /\ m.ok => s.ok /\ \A u \in Span(v + old, new - old) : m.pt[u] # NoFrame
    BY <1>1, <1>8, GetPagesLemma
<1> HIDE DEF m
<1>12. \A x \in Page : Extent(m, x) = Extent(s, x)
    BY <1>11 DEF Extent
<1>13. Tiled(m)
    BY <1>1, <1>11, <1>12 DEF Tiled
<1>14. ASSUME NEW x \in Page, NEW u \in Extent(s, x)
       PROVE  u \in Page /\ m.pt[u] = s.pt[u] /\ s.pt[u] # NoFrame
  <2>1. u \in 1 .. s.brk - 1 /\ s.pt[u] # NoFrame
      BY <1>1 DEF Tiled, Backed
  <2>2. u \in Page
      BY <1>2, <2>1 DEF Page, HeapMax
  <2>3. QED
      BY <1>11, <2>1, <2>2
<1>15. \A x \in Page : \A u \in Extent(s, x) : Val(m, u) = Val(s, u)
    BY <1>11, <1>14 DEF Val
<1>16. CASE ~m.ok
  <2>1. k.hp = m /\ k.va = NULL
      BY <1>4, <1>16
  <2>2. Good(m)
      BY <1>11, <1>12, <1>13, <1>14, <1>16 DEF Good, Backed
  <2>3. QED
      BY <1>11, <1>15, <2>1, <2>2 DEF k, old, new
<1>17. CASE m.ok
  <2>1. k.hp = h /\ k.va = v
      BY <1>4, <1>17
  <2>2. ASSUME NEW u \in Span(v, new) PROVE u \in 1 .. m.brk - 1 /\ m.pt[u] # NoFrame
    <3>1. u \in 1 .. m.brk - 1
        BY <1>2, <1>3, <1>7, <1>11 DEF Span, HeapMax
    <3>2. CASE u \in Span(v, old)
        BY <1>5, <1>14, <3>1, <3>2
    <3>3. CASE u \in Span(v + old, new - old)
        BY <1>11, <1>17, <3>1, <3>3
    <3>4. QED
        BY <1>9, <3>2, <3>3
  <2>3. ASSUME NEW x \in Page \ {v}, NEW u \in Extent(m, x)
        PROVE  m.pt[u] # NoFrame /\ u \notin Span(v, new)
    <3>1. u \in Extent(s, x)
        BY <1>12
    <3>2. u \notin Span(v, old)
        BY <1>1, <1>5, <3>1 DEF Tiled
    <3>3. u \notin Span(v + old, new - old)
        BY <1>10, <3>1
    <3>4. QED
        BY <1>9, <1>14, <3>1, <3>2, <3>3
  <2>4. /\ h \in HeapType /\ FramesOk(h) /\ Tiled(h) /\ Backed(h)
        /\ h.brk = m.brk /\ h.pt = m.pt /\ h.mem = m.mem /\ h.blocks = m.blocks
        /\ h.ok = m.ok /\ h.size = [m.size EXCEPT ![v] = size]
        /\ Extent(h, v) = Span(v, new)
        /\ \A x \in Page \ {v} : Extent(h, x) = Extent(m, x)
    <3>1. size \in 0 .. MaxSize /\ m \in HeapType /\ FramesOk(m)
        BY <1>2, <1>11
    <3>2. QED
        BY <1>13, <2>2, <2>3, <3>1, ResizeLemma DEF new
  <2> HIDE DEF h
  <2>5. NoLeak(h)
    <3>1. SUFFICES ASSUME NEW u \in Page, h.pt[u] # NoFrame
                   PROVE  \E x \in Page : u \in Extent(h, x)
        BY DEF NoLeak
    <3>2. CASE u \in Span(v, new)
        BY <2>4, <3>2
    <3>3. CASE u \notin Span(v, new)
      <4>1. s.pt[u] # NoFrame
          BY <1>9, <1>11, <2>4, <3>1, <3>3
      <4>2. PICK x \in Page : u \in Extent(s, x)
          BY <1>1, <4>1 DEF NoLeak
      <4>3. x # v
          BY <1>5, <1>9, <3>3, <4>2
      <4>4. QED
          BY <1>12, <2>4, <4>2, <4>3
    <3>4. QED
        BY <3>2, <3>3
  <2>6. Tight(h)
    <3>1. s.brk > 1 => s.brk - 1 \in Page
        BY <1>2 DEF Page, HeapMax
    <3>2. QED
        BY <1>1, <1>11, <2>4, <3>1 DEF Tight
  <2>7. Good(h)
      BY <2>4, <2>5, <2>6 DEF Good
  <2>8. \A u : Val(h, u) = Val(m, u)
      BY <2>4 DEF Val
  <2>9. \A i \in Nat : i < old => Val(h, v + i) = Val(s, v + i)
    <3> SUFFICES ASSUME NEW i \in Nat, i < old PROVE Val(h, v + i) = Val(s, v + i)
        OBVIOUS
    <3>1. v + i \in Extent(s, v)
        BY <1>3, <1>5 DEF Span
    <3>2. QED
        BY <1>15, <2>8, <3>1
  <2>10. Resized(s, h, v, v, size)
      BY <1>11, <1>15, <1>17, <2>4, <2>7, <2>8, <2>9, InPlace DEF old
  <2>11. v # NULL
      BY <1>3 DEF NULL
  <2>12. QED
      BY <2>1, <2>10, <2>11 DEF k, old, new
<1>18. QED
    BY <1>16, <1>17

\* Moving: kmalloc, memcpy, kfree.
LEMMA MoveLemma ==
    ASSUME NEW s, Good(s), s.ok, NEW v \in Page, s.size[v] # 0, NEW size \in 1 .. MaxSize,
           Pages(s.size[v]) <= Pages(size)
    PROVE  LET k == krealloc_move(s, v, Pages(s.size[v]), size) IN
           /\ k.va = NULL =>
                /\ Good(k.hp) /\ k.hp.size = s.size /\ k.hp.blocks = s.blocks
                /\ \A x \in Page : \A u \in Extent(s, x) : Val(k.hp, u) = Val(s, u)
           /\ k.va # NULL => Resized(s, k.hp, v, k.va, size)
<1> DEFINE old == Pages(s.size[v])
           j == kmalloc_pages(s, size)
           a == j.va
           h == j.hp
           c == memcpy(h, a, v, old)
           r == kfree(c, v)
           k == krealloc_move(s, v, old, size)
<1>1. s \in HeapType /\ Tiled(s) /\ Backed(s) /\ s.size \in [Page -> 0 .. MaxSize]
    BY DEF Good, HeapType
<1>2. Extent(s, v) = Span(v, old) /\ old \in Nat /\ v \in Nat /\ v \in Extent(s, v)
    BY <1>1, ExtentFacts DEF Extent
<1>3. /\ Good(h) /\ h.blocks = s.blocks
      /\ a = NULL =>
           /\ h.size = s.size
           /\ \A x \in Page : \A u \in Extent(s, x) : Val(h, u) = Val(s, u)
      /\ a # NULL =>
           /\ a \in Page /\ h.ok /\ s.size[a] = 0
           /\ h.size = [s.size EXCEPT ![a] = size]
           /\ \A x \in Page \ {a} : \A u \in Extent(s, x) : Val(h, u) = Val(s, u)
    BY KmallocLemma
<1>4. CASE a = NULL
  <2>1. k = j
      BY <1>4 DEF krealloc_move
  <2>2. QED
      BY <1>3, <1>4, <2>1
<1>5. CASE a # NULL
  <2>1. k = [j EXCEPT !.hp = r]
      BY <1>5 DEF krealloc_move
  <2>2. \E p, q : j = [hp |-> p, va |-> q]
      BY DEF kmalloc_pages
  <2>3. k.hp = r /\ k.va = a
    <3> HIDE DEF k, j, r
    <3>1. QED
        BY <2>1, <2>2
  <2> HIDE DEF k
  <2> HIDE DEF a, h
  <2>4. /\ Good(h) /\ h.blocks = s.blocks /\ a \in Page /\ h.ok /\ s.size[a] = 0
        /\ h.size = [s.size EXCEPT ![a] = size]
        /\ \A x \in Page \ {a} : \A u \in Extent(s, x) : Val(h, u) = Val(s, u)
      BY <1>3, <1>5
  <2>5. a # v
      BY <2>4
  <2>6. Extent(h, a) = Span(a, Pages(size)) /\ \A x \in Page \ {a} : Extent(h, x) = Extent(s, x)
      BY <1>1, <2>4 DEF Extent
  <2>7. h \in HeapType /\ Tiled(h) /\ Backed(h) /\ N \in Nat /\ h.brk \in 1 .. HeapMax
      BY <2>4, KHeapAssumption DEF Good, HeapType
  <2>8. \A x \in Page : \A u \in Extent(h, x) : u \in Page /\ h.pt[u] # NoFrame
      BY <2>7 DEF Tiled, Backed, Page, HeapMax
  <2>9. /\ Good(c) /\ c.size = h.size /\ c.blocks = h.blocks /\ c.ok = h.ok
        /\ \A w \in Page : h.pt[w] # NoFrame =>
             Val(c, w) = IF w \in Span(a, old) THEN Val(h, w - a + v) ELSE Val(h, w)
    <3>1. \A w \in Span(v, old) : w \in Page /\ h.pt[w] # NoFrame
        BY <1>2, <2>5, <2>6, <2>8
    <3>2. QED
      <4>1. old \in Nat /\ Good(h) /\ a \in Page
          BY <1>2, <2>4
      <4> HIDE DEF old
      <4>2. QED
          BY <3>1, <4>1, MemcpyLemma
  <2> HIDE DEF c
  <2>10. /\ Good(r) /\ r.ok /\ r.blocks = c.blocks
         /\ r.size = [c.size EXCEPT ![v] = 0]
         /\ \A x \in Page \ {v} : \A u \in Extent(c, x) : Val(r, u) = Val(c, u)
    <3>1. Good(c) /\ c.ok
        BY <2>4, <2>9
    <3>2. QED
        BY <3>1, KfreeLemma
  <2> HIDE DEF r
  <2>11. \A x \in Page : Extent(c, x) = Extent(h, x)
      BY <2>9 DEF Extent
  <2>12. r.size = [[s.size EXCEPT ![v] = 0] EXCEPT ![a] = size]
      BY <1>1, <2>4, <2>5, <2>9, <2>10
  <2>13. \A u \in Span(a, old) : u \in Extent(h, a)
    <3>1. size \in Nat
        BY DEF Page
    <3>2. Pages(size) \in Nat /\ old <= Pages(size) /\ a \in Nat
        BY <2>4, <3>1, PagesType DEF Page
    <3> HIDE DEF old
    <3>3. QED
        BY <1>2, <2>6, <3>2 DEF Span
  <2>14. ASSUME NEW x \in Page \ {v}, NEW u \in Extent(s, x) PROVE Val(r, u) = Val(s, u)
    <3>1. x # a
        BY <1>1, <2>4, ExtentFacts
    <3>2. u \in Extent(h, x) /\ u \in Page /\ h.pt[u] # NoFrame
        BY <2>6, <2>8, <3>1
    <3>3. u \notin Span(a, old)
        BY <2>4, <2>7, <2>13, <3>1, <3>2 DEF Tiled
    <3>4. Val(c, u) = Val(h, u)
        BY <2>9, <3>2, <3>3
    <3>5. Val(r, u) = Val(c, u)
        BY <2>10, <2>11, <3>2
    <3>6. Val(h, u) = Val(s, u)
        BY <2>4, <3>1
    <3>7. QED
        BY <3>4, <3>5, <3>6
  <2>15. ASSUME NEW i \in Nat, i < old PROVE Val(r, a + i) = Val(s, v + i)
    <3> HIDE DEF old
    <3>1. a \in Nat
        BY <2>4 DEF Page
    <3>2. a + i \in Span(a, old) /\ v + i \in Span(v, old)
        BY <1>2, <2>15, <3>1 DEF Span
    <3>3. a + i \in Extent(h, a) /\ a + i \in Page /\ h.pt[a + i] # NoFrame
        BY <2>4, <2>8, <2>13, <3>2
    <3>4. Val(r, a + i) = Val(c, a + i)
        BY <2>4, <2>5, <2>10, <2>11, <3>3
    <3>5. Val(c, a + i) = Val(h, (a + i) - a + v)
        BY <2>9, <3>2, <3>3
    <3>6. (a + i) - a + v = v + i
        BY <1>2, <3>1
    <3>7. Val(h, v + i) = Val(s, v + i)
        BY <1>2, <2>4, <2>5, <3>2
    <3>8. QED
        BY <3>4, <3>5, <3>6, <3>7
  <2>16. Resized(s, r, v, a, size)
      BY <2>4, <2>9, <2>10, <2>12, <2>14, <2>15 DEF Resized
  <2>17. QED
      BY <1>5, <2>3, <2>16 DEF k, a, r
<1>6. QED
    BY <1>4, <1>5

\* krealloc, page to page: resized, or nothing changed for anybody.
LEMMA KreallocLemma ==
    ASSUME NEW s, Good(s), s.ok, NEW v \in Page, s.size[v] # 0, NEW size \in 1 .. MaxSize
    PROVE  LET k == krealloc_pages(s, v, size) IN
           /\ k.va = NULL =>
                /\ Good(k.hp) /\ k.hp.size = s.size /\ k.hp.blocks = s.blocks
                /\ \A x \in Page : \A u \in Extent(s, x) : Val(k.hp, u) = Val(s, u)
           /\ k.va # NULL => Resized(s, k.hp, v, k.va, size)
<1> DEFINE old == Pages(s.size[v])
           new == Pages(size)
           k == krealloc_pages(s, v, size)
<1>1. s \in HeapType /\ s.size[v] \in Nat /\ v # NULL /\ size \in Nat
    BY KHeapAssumption DEF Good, HeapType, Page, NULL
<1>2. old \in Nat /\ new \in Nat
    BY <1>1, PagesType
<1>3. CASE s.size[v] = size
  <2>1. k = [hp |-> s, va |-> v]
    <3>1. new = old /\ ~(new > old)
        BY <1>2, <1>3
    <3>2. QED
        BY <1>3, <3>1 DEF krealloc_pages
  <2>2. [s.size EXCEPT ![v] = size] = s.size
      BY <1>1, <1>3 DEF HeapType
  <2>3. Resized(s, s, v, v, size)
      BY <2>2, InPlace
  <2>4. QED
      BY <1>1, <2>1, <2>3
<1>4. CASE s.size[v] # size /\ new < old
  <2>1. k = krealloc_shrink(s, v, old, new, size)
    <3>1. ~(new > old)
        BY <1>2, <1>4
    <3>2. QED
        BY <1>4, <3>1 DEF krealloc_pages
  <2>2. QED
      BY <1>1, <1>4, <2>1, ShrinkLemma
<1>5. CASE s.size[v] # size /\ new > old /\ CanExtend(s, v, old, new)
  <2>1. k = krealloc_extend(s, v, old, new, size)
    <3>1. ~(new < old)
        BY <1>2, <1>5
    <3>2. QED
        BY <1>5, <3>1 DEF krealloc_pages
  <2>2. QED
      BY <1>1, <1>5, <2>1, ExtendLemma
<1>6. CASE s.size[v] # size /\ ~(new < old) /\ ~(new > old /\ CanExtend(s, v, old, new))
  <2>1. k = krealloc_move(s, v, old, size)
      BY <1>6 DEF krealloc_pages
  <2>2. old <= new
      BY <1>2, <1>6
  <2>3. QED
      BY <1>1, <2>1, <2>2, MoveLemma
<1>7. QED
    BY <1>3, <1>4, <1>5, <1>6

-----------------------------------------------------------------------------
(* The owners.                                                             *)

\* What an owner knows of an allocation: a size of more than one unit, what it
\* wrote, and in how many pages that must still be.
Allocation == [size : 2 .. MaxSize, tag : Tag, kept : Nat]

\* The type invariant.
TypeOK ==
    /\ hp \in HeapType
    /\ live \in [Page -> Allocation \union {None}]
    /\ blk \subseteq Block

\* l is what the allocations of the heap s are to their owners.
Owners(s, l) ==
    /\ l \in [Page -> Allocation \union {None}]
    /\ \A v \in Page : s.size[v] = l[v].size
    /\ \A v \in Page : l[v] # None =>
         /\ l[v].kept <= Pages(l[v].size)
         /\ \A i \in 0 .. l[v].kept - 1 : Val(s, v + i) = l[v].tag

\* The inductive invariant.
Inv == Good(hp) /\ Owners(hp, live) /\ blk \subseteq Block

\* A page has an owner exactly if it has a size.
LEMMA LiveBySize ==
    ASSUME NEW s, NEW l, Owners(s, l), NEW v \in Page
    PROVE  /\ l[v] = None <=> s.size[v] = 0
           /\ l[v] # None => l[v] \in Allocation
<1>1. l[v] \in Allocation \/ l[v] = None
    BY DEF Owners
<1>2. l[v] \in Allocation => l[v].size # 0
    BY DEF Allocation
<1>3. None.size = 0
    BY DEF None
<1>4. s.size[v] = l[v].size
    BY DEF Owners
<1>5. QED
    BY <1>1, <1>2, <1>3, <1>4

\* What an owner keeps is in its pages.
LEMMA KeptInExtent ==
    ASSUME NEW s \in HeapType, NEW l, Owners(s, l), NEW v \in Page, l[v] # None,
           NEW i \in 0 .. l[v].kept - 1
    PROVE  v + i \in Extent(s, v)
<1>1. l[v].kept \in Nat /\ v \in Nat /\ s.size[v] = l[v].size
    BY LiveBySize DEF Allocation, Owners, Page
<1>2. Pages(s.size[v]) \in Nat /\ i < Pages(s.size[v])
  <2>1. Pages(s.size[v]) \in Nat
      BY ExtentFacts
  <2>2. l[v].kept <= Pages(s.size[v])
      BY <1>1 DEF Owners
  <2>3. QED
      BY <1>1, <2>1, <2>2
<1>3. QED
    BY <1>1, <1>2 DEF Extent, Span

\* Nothing changes for the owners.
LEMMA OwnersStay ==
    ASSUME NEW s \in HeapType, NEW l, Owners(s, l), NEW r, r.size = s.size,
           \A x \in Page : \A u \in Extent(s, x) : Val(r, u) = Val(s, u)
    PROVE  Owners(r, l)
<1>1. ASSUME NEW v \in Page, l[v] # None, NEW i \in 0 .. l[v].kept - 1
      PROVE  Val(r, v + i) = l[v].tag
    BY <1>1, KeptInExtent DEF Owners
<1>2. QED
    BY <1>1 DEF Owners

\* An owner gives its allocation back.
LEMMA OwnersDrop ==
    ASSUME NEW s \in HeapType, NEW l, Owners(s, l), NEW v \in Page, NEW r,
           r.size = [s.size EXCEPT ![v] = 0],
           \A x \in Page \ {v} : \A u \in Extent(s, x) : Val(r, u) = Val(s, u)
    PROVE  Owners(r, [l EXCEPT ![v] = None])
<1> DEFINE m == [l EXCEPT ![v] = None]
<1>1. s.size \in [Page -> 0 .. MaxSize] /\ l \in [Page -> Allocation \union {None}]
    BY DEF HeapType, Owners
<1>2. /\ m \in [Page -> Allocation \union {None}]
      /\ m[v] = None /\ \A x \in Page \ {v} : m[x] = l[x]
    BY <1>1
<1> HIDE DEF m
<1>3. \A x \in Page : r.size[x] = m[x].size
    BY <1>1, <1>2 DEF Owners, None
<1>4. ASSUME NEW x \in Page, m[x] # None
      PROVE  /\ m[x].kept <= Pages(m[x].size)
             /\ \A i \in 0 .. m[x].kept - 1 : Val(r, x + i) = m[x].tag
  <2>1. x # v /\ m[x] = l[x]
      BY <1>2, <1>4
  <2>2. \A i \in 0 .. l[x].kept - 1 : Val(r, x + i) = l[x].tag
      BY <1>4, <2>1, KeptInExtent DEF Owners
  <2>3. QED
      BY <1>4, <2>1, <2>2 DEF Owners
<1>5. QED
    BY <1>2, <1>3, <1>4 DEF Owners, m

\* An owner has its allocation A at a, instead of one at v or as a new one
\* (v = a).
LEMMA OwnersMove ==
    ASSUME NEW s \in HeapType, NEW l, Owners(s, l), NEW v \in Page, NEW a \in Page, NEW r,
           a = v \/ s.size[a] = 0,
           NEW A \in Allocation, A.kept <= Pages(A.size),
           r.size = [[s.size EXCEPT ![v] = 0] EXCEPT ![a] = A.size],
           \A x \in Page \ {v} : \A u \in Extent(s, x) : Val(r, u) = Val(s, u),
           \A i \in 0 .. A.kept - 1 : Val(r, a + i) = A.tag
    PROVE  Owners(r, [l EXCEPT ![v] = None, ![a] = A])
<1> DEFINE m == [l EXCEPT ![v] = None, ![a] = A]
<1>1. s.size \in [Page -> 0 .. MaxSize] /\ l \in [Page -> Allocation \union {None}]
    BY DEF HeapType, Owners
<1>2. /\ m \in [Page -> Allocation \union {None}]
      /\ m[a] = A /\ (a # v => m[v] = None) /\ \A x \in Page \ {v, a} : m[x] = l[x]
    BY <1>1
<1> HIDE DEF m
<1>3. ASSUME NEW x \in Page PROVE r.size[x] = m[x].size
  <2>1. None.size = 0 /\ s.size[x] = l[x].size
      BY DEF None, Owners
  <2>2. QED
      BY <1>1, <1>2, <2>1
<1>4. ASSUME NEW x \in Page, m[x] # None
      PROVE  /\ m[x].kept <= Pages(m[x].size)
             /\ \A i \in 0 .. m[x].kept - 1 : Val(r, x + i) = m[x].tag
  <2>1. CASE x = a
      BY <1>2, <2>1
  <2>2. CASE x # a
    <3>1. x # v /\ m[x] = l[x]
        BY <1>2, <1>4, <2>2
    <3>2. \A i \in 0 .. l[x].kept - 1 : Val(r, x + i) = l[x].tag
        BY <1>4, <3>1, KeptInExtent DEF Owners
    <3>3. QED
        BY <1>4, <3>1, <3>2 DEF Owners
  <2>3. QED
      BY <2>1, <2>2
<1>5. QED
    BY <1>2, <1>3, <1>4 DEF Owners, m

\* As long as some page has no owner, there is a tag that no owner uses.
LEMMA FreeTagLemma ==
    ASSUME Owners(hp, live), NEW a \in Page, live[a] = None
    PROVE  FreeTag \in Tag
<1> DEFINE P == Page \ {a}
           f == [v \in P |-> live[v].tag]
           R == {f[v] : v \in P}
<1>1. N \in Nat /\ IsFiniteSet(Page) /\ Cardinality(Page) = N
    BY KHeapAssumption, FS_Interval DEF Page
<1>2. IsFiniteSet(P) /\ Cardinality(P) = N - 1
    BY <1>1, FS_RemoveElement
<1>3. IsFiniteSet(R) /\ Cardinality(R) <= N - 1
  <2>1. f \in Surjection(P, R)
      BY DEF Surjection
  <2>2. IsFiniteSet(R) /\ Cardinality(R) <= Cardinality(P)
    <3> HIDE DEF P, f, R
    <3>1. QED
        BY <1>2, <2>1, FS_Surjection
  <2>3. QED
      BY <1>2, <2>2
<1>4. IsFiniteSet(Tag) /\ Cardinality(Tag) = N
    BY <1>1 DEF Tag, Page
<1>5. ~(Tag \subseteq R)
  <2> HIDE DEF R
  <2>1. ASSUME Tag \subseteq R PROVE FALSE
    <3>1. Cardinality(Tag) <= Cardinality(R)
        BY <1>3, <2>1, FS_Subset
    <3>2. Cardinality(R) \in Nat
        BY <1>3, FS_CardinalityType
    <3>3. QED
        BY <1>1, <1>3, <1>4, <3>1, <3>2
  <2>2. QED
      BY <2>1
<1>6. PICK t \in Tag : t \notin R
    BY <1>5
<1>7. \A v \in Page : live[v].tag # t
  <2>1. None.tag = 0 /\ t # 0
      BY <1>1, <1>6 DEF None, Tag
  <2>2. \A v \in P : live[v].tag # t
      BY <1>6
  <2>3. QED
      BY <2>1, <2>2
<1>8. QED
    BY <1>7 DEF FreeTag

\* A new allocation and what its owner writes.
LEMMA NewAllocation ==
    ASSUME Inv, hp.ok, NEW size \in 2 .. MaxSize,
           kmalloc_pages(hp, size).va # NULL,
           NEW n \in Nat, n >= 1, n <= Pages(size)
    PROVE  LET k == kmalloc_pages(hp, size)
               r == Fill(k.hp, k.va, n, FreeTag)
           IN  /\ k.va \in Page /\ Good(r) /\ r.blocks = hp.blocks
               /\ Owners(r, [live EXCEPT ![k.va] = [size |-> size, tag |-> FreeTag, kept |-> n]])
<1> DEFINE k == kmalloc_pages(hp, size)
           h == k.hp
           a == k.va
           t == FreeTag
           r == Fill(h, a, n, t)
           A == [size |-> size, tag |-> t, kept |-> n]
<1>1. size \in 1 .. MaxSize /\ hp \in HeapType /\ Good(hp) /\ Owners(hp, live)
    BY KHeapAssumption DEF Inv, Good
<1>2. /\ Good(h) /\ h.blocks = hp.blocks
      /\ a \in Page /\ h.ok /\ hp.size[a] = 0
      /\ h.size = [hp.size EXCEPT ![a] = size]
      /\ \A x \in Page \ {a} : \A u \in Extent(hp, x) : Val(h, u) = Val(hp, u)
    BY <1>1, KmallocLemma
<1> HIDE DEF k
<1>3. t \in Tag
  <2>1. live[a] = None
      BY <1>1, <1>2, LiveBySize
  <2>2. QED
      BY <1>1, <1>2, <2>1, FreeTagLemma
<1> HIDE DEF h, a, t
<1>4. /\ Good(r) /\ r.size = h.size /\ r.blocks = h.blocks /\ r.ok = h.ok
      /\ \A u \in Page : h.pt[u] # NoFrame =>
           Val(r, u) = IF u \in Span(a, n) THEN t ELSE Val(h, u)
  <2>1. Good(h) /\ a \in Page
      BY <1>2
  <2>2. QED
      BY <1>3, <2>1, FillLemma
<1> HIDE DEF r
<1>5. h \in HeapType /\ Tiled(h) /\ Backed(h) /\ N \in Nat /\ h.brk \in 1 .. HeapMax
    BY <1>2, KHeapAssumption DEF Good, HeapType
<1>6. \A x \in Page : \A u \in Extent(h, x) : u \in Page /\ h.pt[u] # NoFrame
    BY <1>5 DEF Tiled, Backed, Page, HeapMax
<1>7. hp.size \in [Page -> 0 .. MaxSize]
    BY <1>1 DEF HeapType
<1>8. Extent(h, a) = Span(a, Pages(size)) /\ \A x \in Page \ {a} : Extent(h, x) = Extent(hp, x)
    BY <1>2, <1>7 DEF Extent
<1>9. a \in Nat /\ Pages(size) \in Nat /\ size \in Nat
    BY <1>1, <1>2, PagesType DEF Page
<1>10. \A u \in Span(a, n) : u \in Extent(h, a)
    BY <1>8, <1>9 DEF Span
<1>11. ASSUME NEW x \in Page \ {a}, NEW u \in Extent(hp, x) PROVE Val(r, u) = Val(hp, u)
  <2>1. u \in Extent(h, x) /\ u \in Page /\ h.pt[u] # NoFrame
      BY <1>6, <1>8
  <2>2. u \notin Span(a, n)
      BY <1>2, <1>5, <1>10, <2>1 DEF Tiled
  <2>3. QED
      BY <1>2, <1>4, <2>1, <2>2
<1>12. ASSUME NEW i \in 0 .. n - 1 PROVE Val(r, a + i) = t
  <2>1. a + i \in Span(a, n)
      BY <1>9 DEF Span
  <2>2. a + i \in Page /\ h.pt[a + i] # NoFrame
      BY <1>2, <1>6, <1>10, <2>1
  <2>3. QED
      BY <1>4, <2>1, <2>2
<1>13. A \in Allocation /\ A.size = size /\ A.kept = n /\ A.tag = t
    BY <1>3 DEF Allocation
<1> HIDE DEF A
<1>14. r.size = [[hp.size EXCEPT ![a] = 0] EXCEPT ![a] = A.size]
    BY <1>2, <1>4, <1>7, <1>13
<1>15. Owners(r, [live EXCEPT ![a] = None, ![a] = A])
    BY <1>1, <1>2, <1>11, <1>12, <1>13, <1>14, OwnersMove
<1>16. [live EXCEPT ![a] = None, ![a] = A] = [live EXCEPT ![a] = A]
    BY <1>1, <1>2 DEF Owners
<1>17. QED
    BY <1>2, <1>4, <1>15, <1>16 DEF r, A, k, h, a, t

-----------------------------------------------------------------------------
(* The theorems.                                                           *)

\* After kheap_init.
LEMMA InitInv == Init => Inv
<1> SUFFICES ASSUME Init PROVE Inv
    OBVIOUS
<1>1. PICK q \in Bijection(1 .. Cardinality(Frame), Frame) :
         hp = [size |-> [v \in Page |-> 0], brk |-> 1,
               pt |-> [v \in Page |-> NoFrame],
               mapped_va |-> [f \in Frame |-> NULL],
               mem |-> [f \in Frame |-> 0],
               free |-> q, blocks |-> {}, ok |-> TRUE]
    BY DEF Init
<1>2. live = [v \in Page |-> None] /\ blk = {}
    BY DEF Init
<1>3. q \in Seq(Frame) /\ IsInjective(q) /\ Range(q) = Frame
  <2> DEFINE c == Cardinality(Frame)
  <2>1. c \in Nat
      BY KHeapAssumption, FS_CardinalityType
  <2> HIDE DEF c
  <2>2. q \in [1 .. c -> Frame] /\ IsInjective(q) /\ \A f \in Frame : \E i \in 1 .. c : q[i] = f
      BY DEF Bijection, Injection, Surjection, c
  <2>3. q \in Seq(Frame)
      BY <2>1, <2>2
  <2>4. Range(q) = Frame
      BY <2>2 DEF Range
  <2>5. QED
      BY <2>2, <2>3, <2>4
<1>4. N \in Nat /\ N >= 1 /\ MaxSize \in Nat /\ NoFrame \notin Frame /\ NULL = 0
      /\ \A v \in Page : v >= 1
    BY KHeapAssumption DEF NULL, Page
<1>5. /\ hp.size = [v \in Page |-> 0] /\ hp.brk = 1 /\ hp.pt = [v \in Page |-> NoFrame]
      /\ hp.mapped_va = [f \in Frame |-> NULL] /\ hp.mem = [f \in Frame |-> 0]
      /\ hp.free = q /\ hp.blocks = {} /\ hp.ok = TRUE
    BY <1>1
<1>6. hp \in HeapType
  <2>1. /\ [v \in Page |-> 0] \in [Page -> 0 .. MaxSize]
        /\ [v \in Page |-> NoFrame] \in [Page -> Frame \union {NoFrame}]
        /\ [f \in Frame |-> NULL] \in [Frame -> 0 .. N]
        /\ [f \in Frame |-> 0] \in [Frame -> 0 .. N]
        /\ 1 \in 1 .. HeapMax
      BY <1>4 DEF HeapMax
  <2>2. QED
      BY <1>1, <1>3, <2>1 DEF HeapType
<1>7. FramesOk(hp)
    BY <1>3, <1>4, <1>5 DEF FramesOk
<1>8. \A v \in Page : Extent(hp, v) = {}
    BY <1>5, <1>6, ExtentFacts
<1>9. Tiled(hp) /\ Backed(hp) /\ NoLeak(hp) /\ Tight(hp)
    BY <1>5, <1>8 DEF Tiled, Backed, NoLeak, Tight
<1>10. Owners(hp, live)
    BY <1>2, <1>5 DEF Owners, None
<1>11. QED
    BY <1>2, <1>6, <1>7, <1>9, <1>10 DEF Inv, Good

\* No new allocation: the owners notice nothing.
LEMMA NoAllocation ==
    ASSUME Good(hp), hp.ok, Owners(hp, live), NEW size \in 1 .. MaxSize,
           kmalloc_pages(hp, size).va = NULL
    PROVE  /\ Good(kmalloc_pages(hp, size).hp)
           /\ Owners(kmalloc_pages(hp, size).hp, live)
<1> DEFINE k == kmalloc_pages(hp, size)
           h == k.hp
<1>1. /\ Good(h) /\ h.blocks = hp.blocks
      /\ k.va = NULL =>
           /\ h.size = hp.size
           /\ \A x \in Page : \A u \in Extent(hp, x) : Val(h, u) = Val(hp, u)
      /\ k.va # NULL =>
           /\ k.va \in Page /\ h.ok /\ hp.size[k.va] = 0
           /\ h.size = [hp.size EXCEPT ![k.va] = size]
           /\ \A x \in Page \ {k.va} : \A u \in Extent(hp, x) : Val(h, u) = Val(hp, u)
    BY KmallocLemma
<1>2. /\ h.size = hp.size
      /\ \A x \in Page : \A u \in Extent(hp, x) : Val(h, u) = Val(hp, u)
    BY <1>1
<1>3. hp \in HeapType
    BY DEF Good
<1> HIDE DEF h
<1>4. Owners(h, live)
    BY <1>2, <1>3, OwnersStay
<1>5. QED
    BY <1>1, <1>4 DEF h

\* kmalloc of pages.
LEMMA KmallocPagesInv ==
    ASSUME Inv, NEW size \in 2 .. MaxSize, KmallocPages(size)
    PROVE  Inv'
<1> DEFINE k == kmalloc_pages(hp, size)
           n == Pages(size)
<1>1. size \in 1 .. MaxSize /\ hp.ok /\ hp \in HeapType /\ Good(hp) /\ Owners(hp, live)
      /\ blk' = blk /\ blk \subseteq Block
    BY KHeapAssumption DEF Inv, Good, KmallocPages
<1>2. n \in Nat /\ n >= 1
    BY <1>1, PagesType
<1>3. CASE k.va = NULL
  <2>1. hp' = k.hp /\ live' = live
      BY <1>3 DEF KmallocPages
  <2>2. Good(k.hp) /\ Owners(k.hp, live)
      BY <1>1, <1>3, NoAllocation
  <2>3. QED
      BY <1>1, <2>1, <2>2 DEF Inv
<1>4. CASE k.va # NULL
  <2>1. /\ hp' = Fill(k.hp, k.va, n, FreeTag)
        /\ live' = [live EXCEPT ![k.va] = [size |-> size, tag |-> FreeTag, kept |-> n]]
      BY <1>4 DEF KmallocPages
  <2>2. n <= Pages(size)
      BY <1>2
  <2> HIDE DEF n
  <2>3. /\ Good(Fill(k.hp, k.va, n, FreeTag))
        /\ Owners(Fill(k.hp, k.va, n, FreeTag),
                  [live EXCEPT ![k.va] = [size |-> size, tag |-> FreeTag, kept |-> n]])
      BY <1>1, <1>2, <1>4, <2>2, NewAllocation
  <2>4. QED
      BY <1>1, <2>1, <2>3 DEF Inv
<1>5. QED
    BY <1>3, <1>4

\* krealloc from a block to pages.
LEMMA KreallocFromBlockInv ==
    ASSUME Inv, NEW b \in Block, NEW size \in 2 .. MaxSize, KreallocFromBlock(b, size)
    PROVE  Inv'
<1> DEFINE k == kmalloc_pages(hp, size)
           one == 1
           r == Fill(k.hp, k.va, one, FreeTag)
<1>1. size \in 1 .. MaxSize /\ hp.ok /\ hp \in HeapType /\ Good(hp) /\ Owners(hp, live)
      /\ blk \subseteq Block
    BY KHeapAssumption DEF Inv, Good, KreallocFromBlock
<1>2. Pages(size) \in Nat /\ Pages(size) >= 1
    BY <1>1, PagesType
<1>3. CASE k.va = NULL
  <2>1. hp' = k.hp /\ live' = live /\ blk' = blk
      BY <1>3 DEF KreallocFromBlock
  <2>2. Good(k.hp) /\ Owners(k.hp, live)
      BY <1>1, <1>3, NoAllocation
  <2>3. QED
      BY <1>1, <2>1, <2>2 DEF Inv
<1>4. CASE k.va # NULL
  <2>1. /\ hp' = [r EXCEPT !.blocks = @ \ {b}]
        /\ live' = [live EXCEPT ![k.va] = [size |-> size, tag |-> FreeTag, kept |-> one]]
        /\ blk' = blk \ {b}
      BY <1>4 DEF KreallocFromBlock
  <2>2. one \in Nat /\ one >= 1 /\ one <= Pages(size)
      BY <1>2
  <2> HIDE DEF one
  <2>3. Good(r) /\ Owners(r, [live EXCEPT ![k.va] = [size |-> size, tag |-> FreeTag, kept |-> one]])
      BY <1>1, <1>4, <2>2, NewAllocation
  <2> HIDE DEF r, k
  <2>4. r.blocks \ {b} \subseteq Block
      BY <2>3 DEF Good, HeapType
  <2>5. hp' = [r EXCEPT !.blocks = r.blocks \ {b}]
      BY <2>1, <2>3 DEF Good, HeapType
  <2>6. Good(hp') /\ hp'.size = r.size /\ \A u : Val(hp', u) = Val(r, u)
    <3> DEFINE B == r.blocks \ {b}
    <3> HIDE DEF B
    <3>1. hp' = [r EXCEPT !.blocks = B] /\ B \subseteq Block
        BY <2>4, <2>5 DEF B
    <3>2. QED
        BY <2>3, <3>1, BlocksLemma
  <2>7. Owners(hp', live')
      BY <2>1, <2>3, <2>6, OwnersStay DEF Good
  <2>8. QED
      BY <1>1, <2>1, <2>6, <2>7 DEF Inv
<1>5. QED
    BY <1>3, <1>4

\* kfree of pages.
LEMMA KfreePagesInv ==
    ASSUME Inv, NEW v \in Page, KfreePages(v)
    PROVE  Inv'
<1>1. hp.ok /\ hp' = kfree(hp, v) /\ live' = [live EXCEPT ![v] = None] /\ blk' = blk
    BY DEF KfreePages
<1>2. Good(hp) /\ Owners(hp, live) /\ hp \in HeapType
    BY DEF Inv, Good
<1>3. /\ Good(hp') /\ hp'.size = [hp.size EXCEPT ![v] = 0]
      /\ \A x \in Page \ {v} : \A u \in Extent(hp, x) : Val(hp', u) = Val(hp, u)
    BY <1>1, <1>2, KfreeLemma
<1>4. Owners(hp', live')
    BY <1>1, <1>2, <1>3, OwnersDrop
<1>5. QED
    BY <1>1, <1>3, <1>4 DEF Inv

\* krealloc from pages to a block.
LEMMA KreallocToBlockInv ==
    ASSUME Inv, NEW v \in Page, KreallocToBlock(v)
    PROVE  Inv'
<1> DEFINE r == kfree(hp, v)
<1>1. PICK b \in Block : hp' = [r EXCEPT !.blocks = @ \union {b}] /\ blk' = blk \union {b}
    BY DEF KreallocToBlock
<1>2. hp.ok /\ live' = [live EXCEPT ![v] = None]
    BY DEF KreallocToBlock
<1>3. Good(hp) /\ Owners(hp, live) /\ hp \in HeapType
    BY DEF Inv, Good
<1>4. /\ Good(r) /\ r.size = [hp.size EXCEPT ![v] = 0]
      /\ \A x \in Page \ {v} : \A u \in Extent(hp, x) : Val(r, u) = Val(hp, u)
    BY <1>2, <1>3, KfreeLemma
<1> HIDE DEF r
<1> DEFINE B == r.blocks \union {b}
<1>5. hp' = [r EXCEPT !.blocks = B] /\ B \subseteq Block
    BY <1>1, <1>4 DEF Good, HeapType
<1> HIDE DEF B
<1>6. Good(hp') /\ hp'.size = r.size /\ \A u : Val(hp', u) = Val(r, u)
    BY <1>4, <1>5, BlocksLemma
<1>7. Owners(hp', live')
    BY <1>2, <1>3, <1>4, <1>6, OwnersDrop
<1>8. blk' \subseteq Block
    BY <1>1 DEF Inv
<1>9. QED
    BY <1>6, <1>7, <1>8 DEF Inv

\* krealloc from pages to pages.
LEMMA KreallocPagesInv ==
    ASSUME Inv, NEW v \in Page, NEW size \in 2 .. MaxSize, KreallocPages(v, size)
    PROVE  Inv'
<1> DEFINE k == krealloc_pages(hp, v, size)
           h == k.hp
           a == k.va
<1>1. size \in 1 .. MaxSize /\ size \in Nat /\ hp.ok /\ hp \in HeapType /\ Good(hp)
      /\ Owners(hp, live) /\ blk' = blk /\ blk \subseteq Block
    BY KHeapAssumption DEF Inv, Good, KreallocPages
<1>2. hp' = h /\ live[v] # None
    BY DEF KreallocPages, IsLive
<1>3. hp.size[v] # 0 /\ live[v] \in Allocation
    BY <1>1, <1>2, LiveBySize
<1>4. /\ a = NULL =>
           /\ Good(h) /\ h.size = hp.size /\ h.blocks = hp.blocks
           /\ \A x \in Page : \A u \in Extent(hp, x) : Val(h, u) = Val(hp, u)
      /\ a # NULL => Resized(hp, h, v, a, size)
    BY <1>1, <1>3, KreallocLemma
<1>5. CASE a = NULL
  <2>1. live' = live
      BY <1>5 DEF KreallocPages
  <2> HIDE DEF k
  <2>2. Owners(h, live)
      BY <1>1, <1>4, <1>5, OwnersStay
  <2>3. QED
      BY <1>1, <1>2, <1>4, <1>5, <2>1, <2>2 DEF Inv
<1>6. CASE a # NULL
  <2> DEFINE K == Min({live[v].kept, Pages(size)})
             A == [live[v] EXCEPT !.size = size, !.kept = K]
  <2>1. live' = [live EXCEPT ![v] = None, ![a] = A]
      BY <1>3, <1>6 DEF KreallocPages, Allocation
  <2>2. /\ Good(h) /\ h.ok /\ a \in Page /\ (a = v \/ hp.size[a] = 0)
        /\ h.size = [[hp.size EXCEPT ![v] = 0] EXCEPT ![a] = size]
        /\ \A x \in Page \ {v} : \A u \in Extent(hp, x) : Val(h, u) = Val(hp, u)
        /\ \A i \in Nat : i < Pages(hp.size[v]) /\ i < Pages(size) => Val(h, a + i) = Val(hp, v + i)
      BY <1>4, <1>6 DEF Resized
  <2> HIDE DEF k, h, a
  <2>3. live[v].kept \in Nat /\ Pages(size) \in Nat /\ Pages(hp.size[v]) \in Nat
        /\ live[v].kept <= Pages(hp.size[v])
    <3>1. live[v].kept <= Pages(live[v].size) /\ hp.size[v] = live[v].size
        BY <1>1, <1>2 DEF Owners
    <3>2. QED
        BY <1>1, <1>3, <3>1, PagesType, ExtentFacts DEF Allocation
  <2>4. K \in Nat /\ K <= live[v].kept /\ K <= Pages(size)
    <3> DEFINE T == {live[v].kept, Pages(size)}
    <3>1. T \subseteq Nat /\ T # {} /\ K = Min(T)
        BY <2>3
    <3> HIDE DEF T, K
    <3>2. K \in T /\ \A j \in T : K <= j
        BY <3>1, MinExists
    <3>3. QED
        BY <3>1, <3>2 DEF T
  <2> HIDE DEF K
  <2>5. A \in Allocation /\ A.size = size /\ A.kept = K /\ A.tag = live[v].tag
      BY <1>3, <2>4 DEF Allocation
  <2> HIDE DEF A
  <2>6. ASSUME NEW i \in 0 .. A.kept - 1 PROVE Val(h, a + i) = A.tag
    <3>1. i \in Nat /\ i < Pages(hp.size[v]) /\ i < Pages(size) /\ i \in 0 .. live[v].kept - 1
        BY <2>3, <2>4, <2>5
    <3>2. Val(hp, v + i) = live[v].tag
        BY <1>1, <1>2, <3>1 DEF Owners
    <3>3. QED
        BY <2>2, <2>5, <3>1, <3>2
  <2>7. A.kept <= Pages(A.size) /\ h.size = [[hp.size EXCEPT ![v] = 0] EXCEPT ![a] = A.size]
      BY <2>2, <2>4, <2>5
  <2>8. Owners(h, [live EXCEPT ![v] = None, ![a] = A])
      BY <1>1, <2>2, <2>5, <2>6, <2>7, OwnersMove
  <2>9. QED
      BY <1>1, <1>2, <2>1, <2>2, <2>8 DEF Inv
<1>7. QED
    BY <1>5, <1>6

\* kmalloc of a block.
LEMMA KmallocBlockInv ==
    ASSUME Inv, KmallocBlock
    PROVE  Inv'
<1>1. PICK b \in Block : hp' = [hp EXCEPT !.blocks = @ \union {b}] /\ blk' = blk \union {b}
    BY DEF KmallocBlock
<1>2. live' = live /\ Good(hp) /\ Owners(hp, live) /\ hp \in HeapType
    BY DEF KmallocBlock, Inv, Good
<1> DEFINE B == hp.blocks \union {b}
<1>3. hp' = [hp EXCEPT !.blocks = B] /\ B \subseteq Block
    BY <1>1, <1>2 DEF HeapType
<1> HIDE DEF B
<1>4. Good(hp') /\ hp'.size = hp.size /\ \A u : Val(hp', u) = Val(hp, u)
    BY <1>2, <1>3, BlocksLemma
<1>5. Owners(hp', live')
    BY <1>2, <1>4, OwnersStay
<1>6. QED
    BY <1>1, <1>4, <1>5 DEF Inv

\* Every call leaves the heap in order and the allocations as their owners
\* know them.
THEOREM HeapInv == Spec => []Inv
<1>1. ASSUME Inv, [Next]_vars PROVE Inv'
  <2>1. CASE UNCHANGED vars
      BY <1>1, <2>1 DEF Inv, vars
  <2>2. ASSUME NEW size \in 2 .. MaxSize, KmallocPages(size) PROVE Inv'
      BY <1>1, <2>2, KmallocPagesInv
  <2>3. CASE KmallocBlock
      BY <1>1, <2>3, KmallocBlockInv
  <2>4. ASSUME NEW v \in Page, KfreePages(v) PROVE Inv'
      BY <1>1, <2>4, KfreePagesInv
  <2>5. ASSUME NEW b \in Block, KfreeBlock(b) PROVE Inv'
      BY <1>1, <2>5 DEF KfreeBlock, Inv
  <2>6. ASSUME NEW v \in Page, NEW size \in 2 .. MaxSize, KreallocPages(v, size) PROVE Inv'
      BY <1>1, <2>6, KreallocPagesInv
  <2>7. ASSUME NEW v \in Page, KreallocToBlock(v) PROVE Inv'
      BY <1>1, <2>7, KreallocToBlockInv
  <2>8. ASSUME NEW b \in Block, NEW size \in 2 .. MaxSize, KreallocFromBlock(b, size) PROVE Inv'
      BY <1>1, <2>8, KreallocFromBlockInv
  <2>9. QED
      BY <1>1, <2>1, <2>2, <2>3, <2>4, <2>5, <2>6, <2>7, <2>8 DEF Next
<1>2. QED
    BY <1>1, InitInv, PTL DEF Spec

\* The heap, the page table, the frames and the owners' records keep their
\* types.
THEOREM HeapTypes == Spec => []TypeOK
<1>1. Inv => TypeOK
    BY DEF Inv, TypeOK, Good, Owners
<1>2. QED
    BY <1>1, HeapInv, PTL

\* The pages of an owner are the extent that the heap records.
LEMMA OwnedIsExtent ==
    ASSUME Inv, NEW v \in Page
    PROVE  Owned(v) = Extent(hp, v) /\ (~IsLive(v) => Extent(hp, v) = {})
<1>1. hp.size[v] = live[v].size /\ hp \in HeapType /\ Owners(hp, live)
    BY DEF Inv, Owners, Good
<1>2. ~IsLive(v) => hp.size[v] = 0
    BY <1>1, LiveBySize DEF IsLive
<1>3. QED
    BY <1>1, <1>2, ExtentFacts DEF Owned, Extent

\* No two allocations share a page, and none reaches the break.
THEOREM AllocationsAreDisjoint == Spec => []NoOverlap
<1>1. Inv => NoOverlap
  <2> SUFFICES ASSUME Inv PROVE NoOverlap
      OBVIOUS
  <2>1. \A v \in Page : Owned(v) = Extent(hp, v)
      BY OwnedIsExtent
  <2>2. Tiled(hp)
      BY DEF Inv, Good
  <2>3. QED
      BY <2>1, <2>2 DEF NoOverlap, Tiled
<1>2. QED
    BY <1>1, HeapInv, PTL

\* The recorded sizes are the owners', and the pages that are present are
\* those of the allocations, through every way krealloc resizes.
THEOREM NothingLeaks == Spec => []SizesMatchOwners
<1>1. Inv => SizesMatchOwners
  <2> SUFFICES ASSUME Inv PROVE SizesMatchOwners
      OBVIOUS
  <2>1. \A v \in Page : hp.size[v] = live[v].size
      BY DEF Inv, Owners
  <2>2. \A v \in Page : Owned(v) = Extent(hp, v) /\ (~IsLive(v) => Extent(hp, v) = {})
      BY OwnedIsExtent
  <2>3. ASSUME hp.ok
        PROVE  {v \in Page : hp.pt[v] # NoFrame} = UNION {Owned(v) : v \in {x \in Page : IsLive(x)}}
    <3>1. hp \in HeapType /\ Tiled(hp) /\ Backed(hp) /\ NoLeak(hp) /\ N \in Nat /\ hp.brk \in 1 .. HeapMax
        BY <2>3, KHeapAssumption DEF Inv, Good, HeapType
    <3>2. ASSUME NEW u \in Page, hp.pt[u] # NoFrame
          PROVE  \E v \in Page : IsLive(v) /\ u \in Owned(v)
        BY <2>2, <3>1, <3>2 DEF NoLeak
    <3>3. ASSUME NEW v \in Page, NEW u \in Owned(v) PROVE u \in Page /\ hp.pt[u] # NoFrame
      <4>1. u \in Extent(hp, v)
          BY <2>2
      <4>2. u \in 1 .. hp.brk - 1 /\ hp.pt[u] # NoFrame
          BY <3>1, <4>1 DEF Tiled, Backed
      <4>3. QED
          BY <3>1, <4>2 DEF Page, HeapMax
    <3>4. QED
        BY <3>2, <3>3
  <2>4. QED
      BY <2>1, <2>3 DEF SizesMatchOwners
<1>2. QED
    BY <1>1, HeapInv, PTL

\* A frame is free, once, or behind one page, and the two address
\* translations are inverse to each other.
THEOREM AddressesAreInverse == Spec => []FramesAndAddresses
<1>1. Inv => FramesAndAddresses
    BY DEF Inv, Good, FramesOk, FramesAndAddresses
<1>2. QED
    BY <1>1, HeapInv, PTL

\* The break is right above a page in use.
THEOREM BreakFollowsUse == Spec => []BreakIsTight
<1>1. Inv => BreakIsTight
    BY DEF Inv, Good, Tight, BreakIsTight
<1>2. QED
    BY <1>1, HeapInv, PTL

\* What an owner wrote is still there after any sequence of calls.
THEOREM ContentsSurviveCalls == Spec => []ContentsKept
<1>1. Inv => ContentsKept
    BY DEF Inv, Owners, Val, IsLive, ContentsKept
<1>2. QED
    BY <1>1, HeapInv, PTL

\* find_customfit finds the lowest hole of the exact size, or else the lowest
\* of the largest, in every heap that the calls can make.
THEOREM CustomFit == Spec => []PlacementIsCustomFit
<1>1. Inv => PlacementIsCustomFit
  <2> SUFFICES ASSUME Inv PROVE PlacementIsCustomFit
      OBVIOUS
  <2>1. hp \in HeapType /\ Tiled(hp)
      BY DEF Inv, Good
  <2> DEFINE used == UNION {Owned(u) : u \in {x \in Page : IsLive(x)}}
  <2>2. ASSUME NEW u PROVE u \in used <=> \E x \in Page : u \in Extent(hp, x)
    <3>1. \A x \in Page : Owned(x) = Extent(hp, x) /\ (~IsLive(x) => Extent(hp, x) = {})
        BY OwnedIsExtent
    <3>2. QED
        BY <3>1
  <2>3. \A v, n : Hole(v, n) <=> HoleAt(hp, v, n)
    <3> SUFFICES ASSUME NEW v, NEW n PROVE Hole(v, n) <=> HoleAt(hp, v, n)
        OBVIOUS
    <3>1. Hole(v, n) <=> /\ \A u \in Span(v, n) : u \in 1 .. hp.brk - 1 /\ u \notin used
                         /\ ~(v - 1 \in 1 .. hp.brk - 1 /\ v - 1 \notin used)
                         /\ ~(v + n \in 1 .. hp.brk - 1 /\ v + n \notin used)
        BY DEF Hole
    <3> HIDE DEF used
    <3>2. QED
        BY <2>2, <3>1 DEF HoleAt, IsFree
  <2>4. Widths = WidthsOf(hp) /\ \A n : Lowest(n) = LowestOf(hp, n)
      BY <2>3 DEF Widths, WidthsOf, Lowest, LowestOf
  <2>5. \A n \in Page :
          find_customfit(hp, n) =
            IF n \in WidthsOf(hp) THEN LowestOf(hp, n)
            ELSE IF \E w \in WidthsOf(hp) : w > n THEN LowestOf(hp, Max(WidthsOf(hp)))
            ELSE NULL
      BY <2>1, FindCustomfit
  <2>6. QED
      BY <2>4, <2>5 DEF PlacementIsCustomFit
<1>2. QED
    BY <1>1, HeapInv, PTL
=============================================================================
