------------------------- MODULE ClauseStoreProofs -------------------------
(***************************************************************************)
(* Proofs about module ClauseStore, for every set of clauses, every base   *)
(* program, every room append may leave and every bound: the database of   *)
(* Go slices is the one of plain values (LogicalUpdate), and its audit is  *)
(* complete, in order and stable.                                          *)
(*                                                                         *)
(* The argument: the one array that is ever written twice is the audit's,  *)
(* and only behind the audit's length; no slice anybody still reads as a   *)
(* database lies in it (Owned).  So every step leaves the content of every *)
(* slice alone but those it replaces.                                      *)
(***************************************************************************)
EXTENDS ClauseStore, Induction, SequenceTheorems, TLAPS

\* What a cell may hold, and the arrays.
Entries == {"asserta", "assertz", "retract"} \X Dynamic
Cells   == Clause \cup Entries
Arrays  == [cells : Seq(Cells), cap : Nat]

HeapOK(h) == h \in Seq(Arrays) /\ \A k \in 1 .. Len(h) : Len(h[k].cells) <= h[k].cap

\* A slice of heap h, and what it holds there.
Slice == [arr : Nat, len : Nat]

FitsIn(h, s) ==
    /\ s \in Slice /\ s.arr <= Len(h)
    /\ s.arr = 0 => s.len = 0
    /\ s.arr # 0 => s.len <= Len(h[s.arr].cells)

ContentIn(h, s) == IF s.arr = 0 THEN <<>> ELSE SubSeq(h[s.arr].cells, 1, s.len)

-----------------------------------------------------------------------------
(* Slices. *)

LEMMA ContentIsContentIn == \A s : Content(s) = ContentIn(heap, s)
  BY DEF Content, ContentIn

LEMMA FitsIsFitsIn ==
    ASSUME HeapOK(heap), NEW s
    PROVE  Fits(s) <=> FitsIn(heap, s)
  <1>1. Len(heap) \in Nat
    BY LenProperties DEF HeapOK
  <1> QED
    BY <1>1 DEF Fits, FitsIn, Slices, Slice

LEMMA CellsOf ==
    ASSUME NEW h, HeapOK(h), NEW k \in 1 .. Len(h)
    PROVE  /\ h[k] \in Arrays
           /\ h[k].cells \in Seq(Cells) /\ h[k].cap \in Nat
           /\ Len(h[k].cells) \in Nat /\ Len(h[k].cells) <= h[k].cap
           /\ \A i \in 1 .. Len(h[k].cells) : h[k].cells[i] \in Cells
  <1>1. h[k] \in Arrays
    BY ElementOfSeq DEF HeapOK
  <1> QED
    BY <1>1, LenProperties, ElementOfSeq DEF HeapOK, Arrays

\* A slice that fits its array holds as many cells as it is long.
LEMMA ContentProperties ==
    ASSUME NEW h, HeapOK(h), NEW s, FitsIn(h, s)
    PROVE  /\ ContentIn(h, s) \in Seq(Cells)
           /\ Len(ContentIn(h, s)) = s.len
           /\ s.arr # 0 =>
                \A i \in 1 .. s.len : ContentIn(h, s)[i] = h[s.arr].cells[i]
  <1>0. s.arr \in Nat /\ s.len \in Nat /\ Len(h) \in Nat
    BY LenProperties DEF FitsIn, Slice, HeapOK
  <1>1. CASE s.arr = 0
    BY <1>1, EmptySeq DEF ContentIn, FitsIn
  <1>2. CASE s.arr # 0
    <2> DEFINE c == h[s.arr].cells
    <2>1. \A i \in 1 .. s.len : c[i] \in Cells
      BY <1>0, <1>2, CellsOf DEF FitsIn
    <2>2. ContentIn(h, s) = SubSeq(c, 1, s.len)
      BY <1>2 DEF ContentIn
    <2> HIDE DEF c
    <2>3. /\ SubSeq(c, 1, s.len) \in Seq(Cells)
          /\ Len(SubSeq(c, 1, s.len)) = IF 1 <= s.len THEN s.len - 1 + 1 ELSE 0
          /\ \A i \in 1 .. s.len - 1 + 1 : SubSeq(c, 1, s.len)[i] = c[1 + i - 1]
      BY <1>0, <2>1, SubSeqProperties
    <2> QED
      BY <1>0, <2>2, <2>3 DEF c
  <1> QED
    BY <1>1, <1>2

\* A slice keeps its content while the cells it covers keep theirs.
LEMMA SameContent ==
    ASSUME NEW h, HeapOK(h), NEW g, HeapOK(g), Len(h) <= Len(g),
           NEW s, FitsIn(h, s),
           s.arr # 0 => /\ s.len <= Len(g[s.arr].cells)
                        /\ \A i \in 1 .. s.len : g[s.arr].cells[i] = h[s.arr].cells[i]
    PROVE  FitsIn(g, s) /\ ContentIn(g, s) = ContentIn(h, s)
  <1>1. FitsIn(g, s)
    BY LenProperties DEF FitsIn, Slice, HeapOK
  <1>2. CASE s.arr = 0
    BY <1>1, <1>2 DEF ContentIn
  <1>3. CASE s.arr # 0
    BY <1>1, <1>3, ContentProperties, SeqEqual
  <1> QED
    BY <1>1, <1>2, <1>3

LEMMA SameArray ==
    ASSUME NEW h, HeapOK(h), NEW g, HeapOK(g), Len(h) <= Len(g),
           NEW s, FitsIn(h, s), s.arr # 0 => g[s.arr] = h[s.arr]
    PROVE  FitsIn(g, s) /\ ContentIn(g, s) = ContentIn(h, s)
  <1>1. s.arr # 0 => s.len <= Len(h[s.arr].cells)
    BY DEF FitsIn
  <1> QED
    BY <1>1, SameContent

\* A new array holds what it is made of, and disturbs no other.
Grown(h, a) == Append(h, a)

LEMMA AllocateKeeps ==
    ASSUME NEW h, HeapOK(h), NEW a \in Arrays, Len(a.cells) <= a.cap
    PROVE  /\ HeapOK(Grown(h, a)) /\ Len(Grown(h, a)) = Len(h) + 1
           /\ \A k \in 1 .. Len(h) : Grown(h, a)[k] = h[k]
           /\ Grown(h, a)[Len(h) + 1] = a
  <1>1. h \in Seq(Arrays) /\ Len(h) \in Nat
    BY LenProperties DEF HeapOK
  <1>2. /\ Grown(h, a) \in Seq(Arrays) /\ Len(Grown(h, a)) = Len(h) + 1
        /\ \A k \in 1 .. Len(h) : Grown(h, a)[k] = h[k]
        /\ Grown(h, a)[Len(h) + 1] = a
    BY <1>1, AppendProperties DEF Grown
  <1> QED
    BY <1>1, <1>2 DEF HeapOK

LEMMA NewArray ==
    ASSUME NEW xs \in Seq(Cells), NEW spare \in Spares,
           NEW a, a = [cells |-> xs, cap |-> Len(xs) + spare]
    PROVE  a \in Arrays /\ a.cells = xs /\ Len(a.cells) <= a.cap
  BY LenProperties, SparesAssumption DEF Arrays

\* A new slice holds the elements of its array.
LEMMA NewSlice ==
    ASSUME NEW h, HeapOK(h), NEW s \in Slice, s.arr # 0, s.arr <= Len(h),
           s.len = Len(h[s.arr].cells)
    PROVE  FitsIn(h, s) /\ ContentIn(h, s) = h[s.arr].cells
  <1>1. s.arr \in 1 .. Len(h)
    BY LenProperties DEF HeapOK, Slice
  <1>2. h[s.arr].cells \in Seq(Cells)
    BY <1>1, CellsOf
  <1>3. SubSeq(h[s.arr].cells, 1, Len(h[s.arr].cells)) = h[s.arr].cells
    BY <1>2, SubSeqFull
  <1>4. FitsIn(h, s)
    BY <1>2, LenProperties DEF FitsIn
  <1> QED
    BY <1>3, <1>4 DEF ContentIn

\* The cells of an array after x was written behind the first n.
Written(c, n, x) == SubSeq(c, 1, n) \o <<x>> \o SubSeq(c, n + 2, Len(c))

LEMMA WrittenProperties ==
    ASSUME NEW c \in Seq(Cells), NEW n \in 0 .. Len(c), NEW x \in Cells
    PROVE  /\ Written(c, n, x) \in Seq(Cells)
           /\ Len(Written(c, n, x)) = IF n = Len(c) THEN n + 1 ELSE Len(c)
           /\ \A i \in 1 .. n : Written(c, n, x)[i] = c[i]
           /\ Written(c, n, x)[n + 1] = x
  <1> DEFINE front == SubSeq(c, 1, n)
             e == front \o <<x>>
             back == SubSeq(c, n + 2, Len(c))
  <1>1. /\ Len(c) \in Nat /\ n \in Nat /\ n <= Len(c)
        /\ \A i \in 1 .. Len(c) : c[i] \in Cells
    BY LenProperties, ElementOfSeq
  <1>2. /\ front \in Seq(Cells) /\ Len(front) = n
        /\ \A i \in 1 .. n : front[i] = c[i]
    <2>1. /\ front \in Seq(Cells)
          /\ Len(front) = IF 1 <= n THEN n - 1 + 1 ELSE 0
          /\ \A i \in 1 .. n - 1 + 1 : front[i] = c[1 + i - 1]
      BY <1>1, SubSeqProperties
    <2> QED
      BY <1>1, <2>1
  <1>3. /\ back \in Seq(Cells) /\ Len(back) \in Nat
        /\ n + 1 + Len(back) = IF n = Len(c) THEN n + 1 ELSE Len(c)
    <2>1. \A i \in n + 2 .. Len(c) : c[i] \in Cells
      BY <1>1
    <2>2. /\ back \in Seq(Cells)
          /\ Len(back) = IF n + 2 <= Len(c) THEN Len(c) - (n + 2) + 1 ELSE 0
      BY <1>1, <2>1, SubSeqProperties
    <2> HIDE DEF back
    <2>3. CASE n + 2 <= Len(c)
      BY <1>1, <2>2, <2>3
    <2>4. CASE ~(n + 2 <= Len(c))
      BY <1>1, <2>2, <2>4
    <2> QED
      BY <2>3, <2>4
  <1> HIDE DEF front, back
  <1>4. /\ e \in Seq(Cells) /\ Len(e) = n + 1
        /\ \A i \in 1 .. n + 1 : e[i] = IF i <= n THEN front[i] ELSE x
    BY <1>1, <1>2, ConcatProperties
  <1> HIDE DEF e
  <1>5. /\ e \o back \in Seq(Cells) /\ Len(e \o back) = Len(e) + Len(back)
        /\ \A i \in 1 .. Len(e) + Len(back) :
             (e \o back)[i] = IF i <= Len(e) THEN e[i] ELSE back[i - Len(e)]
    BY <1>3, <1>4, ConcatProperties
  <1>6. Written(c, n, x) = e \o back
    BY DEF Written, e, front, back
  <1>7. \A i \in 1 .. n + 1 : Written(c, n, x)[i] = IF i <= n THEN c[i] ELSE x
    BY <1>1, <1>2, <1>3, <1>4, <1>5, <1>6
  <1> QED
    BY <1>1, <1>3, <1>4, <1>5, <1>6, <1>7

\* An append in place writes one cell, right behind the slice.
WrittenIn(h, s, x) ==
    [h EXCEPT ![s.arr] = [h[s.arr] EXCEPT !.cells = Written(h[s.arr].cells, s.len, x)]]

LEMMA InPlaceKeeps ==
    ASSUME NEW h, HeapOK(h), NEW s, FitsIn(h, s), s.arr # 0, s.len < h[s.arr].cap,
           NEW x \in Cells, NEW g, g = WrittenIn(h, s, x)
    PROVE  /\ HeapOK(g) /\ Len(g) = Len(h)
           /\ \A k \in 1 .. Len(h) : k # s.arr => g[k] = h[k]
           /\ Len(g[s.arr].cells) >= s.len + 1
           /\ \A i \in 1 .. s.len : g[s.arr].cells[i] = h[s.arr].cells[i]
           /\ g[s.arr].cells[s.len + 1] = x
  <1> DEFINE a == [h[s.arr] EXCEPT !.cells = Written(h[s.arr].cells, s.len, x)]
  <1>1. /\ s.arr \in 1 .. Len(h) /\ s.len \in Nat
        /\ h \in Seq(Arrays) /\ Len(h) \in Nat
    BY LenProperties DEF HeapOK, FitsIn, Slice
  <1>2. /\ h[s.arr] \in Arrays /\ h[s.arr].cells \in Seq(Cells)
        /\ Len(h[s.arr].cells) \in Nat /\ h[s.arr].cap \in Nat
        /\ Len(h[s.arr].cells) <= h[s.arr].cap
        /\ s.len \in 0 .. Len(h[s.arr].cells)
    BY <1>1, CellsOf DEF FitsIn
  <1>3. /\ Written(h[s.arr].cells, s.len, x) \in Seq(Cells)
        /\ Len(Written(h[s.arr].cells, s.len, x)) =
             IF s.len = Len(h[s.arr].cells) THEN s.len + 1 ELSE Len(h[s.arr].cells)
        /\ \A i \in 1 .. s.len : Written(h[s.arr].cells, s.len, x)[i] = h[s.arr].cells[i]
        /\ Written(h[s.arr].cells, s.len, x)[s.len + 1] = x
    BY <1>2, WrittenProperties
  <1>4. /\ a \in Arrays /\ a.cap = h[s.arr].cap
        /\ a.cells = Written(h[s.arr].cells, s.len, x)
    BY <1>2, <1>3 DEF Arrays
  <1>5. g = [h EXCEPT ![s.arr] = a]
    BY DEF WrittenIn
  <1> HIDE DEF a
  <1>6. /\ g \in Seq(Arrays) /\ Len(g) = Len(h)
        /\ \A j \in 1 .. Len(h) : g[j] = IF j = s.arr THEN a ELSE h[j]
    BY <1>1, <1>4, <1>5, ExceptSeq
  <1>7. /\ Len(a.cells) <= a.cap /\ Len(a.cells) >= s.len + 1
    BY <1>1, <1>2, <1>3, <1>4
  <1>8. HeapOK(g)
    BY <1>6, <1>7 DEF HeapOK
  <1> QED
    BY <1>1, <1>3, <1>4, <1>6, <1>7, <1>8

-----------------------------------------------------------------------------
(* The inductive invariant. *)

\* Every slice lies in the heap.
Shape ==
    /\ HeapOK(heap)
    /\ FitsIn(heap, base) /\ FitsIn(heap, run) /\ FitsIn(heap, audit)
    /\ kept \in [slice : Slice, held : Seq(Cells)] /\ FitsIn(heap, kept.slice)
    /\ loops \in Seq([slice : Slice, next : Nat])
    /\ \A k \in 1 .. Len(loops) :
         /\ FitsIn(heap, loops[k].slice)
         /\ loops[k].next \in 1 .. loops[k].slice.len + 1
    /\ active \in BOOLEAN /\ runs \in 0 .. MaxRuns
    /\ ~active => run = Nil /\ loops = <<>>

\* The audit's array holds no database, and during a run nothing the caller kept.
Owned ==
    audit.arr # 0 =>
      /\ base.arr # audit.arr
      /\ active => /\ run.arr # audit.arr /\ kept.slice.arr # audit.arr
                   /\ \A k \in 1 .. Len(loops) : loops[k].slice.arr # audit.arr

\* The slices a mutation may not disturb: those outside the audit's array.
Apart(s) == FitsIn(heap, s) /\ (audit.arr # 0 => s.arr # audit.arr)

Unmoved(s) == FitsIn(heap', s) /\ ContentIn(heap', s) = ContentIn(heap, s)

\* A mutation makes a new database, adds an entry to the audit, and no more.
LEMMA MutateKeeps ==
    ASSUME Shape, NEW xs \in Seq(Cells), NEW e \in Entries, Mutate(xs, e)
    PROVE  /\ HeapOK(heap') /\ Len(heap') > Len(heap)
           /\ FitsIn(heap', run') /\ ContentIn(heap', run') = xs
           /\ FitsIn(heap', audit')
           /\ ContentIn(heap', audit') = Append(ContentIn(heap, audit), e)
           /\ run'.arr = Len(heap) + 1
           /\ audit'.arr # 0
           /\ audit'.arr = audit.arr \/ audit'.arr = Len(heap) + 2
           /\ \A s : Apart(s) => Unmoved(s)
  <1> DEFINE grown == Append(ContentIn(heap, audit), e)
  <1>1. /\ HeapOK(heap) /\ FitsIn(heap, audit) /\ Len(heap) \in Nat
        /\ audit \in Slice /\ audit.arr \in Nat /\ audit.len \in Nat
        /\ audit.arr <= Len(heap) /\ e \in Cells
    BY LenProperties DEF Shape, HeapOK, FitsIn, Slice, Cells
  <1>2. /\ grown \in Seq(Cells) /\ Len(grown) = audit.len + 1
        /\ \A i \in 1 .. audit.len : grown[i] = ContentIn(heap, audit)[i]
        /\ grown[audit.len + 1] = e
    BY <1>1, ContentProperties, AppendProperties
  <1>3. Content(audit) = ContentIn(heap, audit)
    BY ContentIsContentIn
  <1> HIDE DEF grown
  <1>4. CASE Room(audit)
    <2> DEFINE h == InPlace(audit, e)
    <2>0. h = WrittenIn(heap, audit, e)
      BY DEF InPlace, Written, WrittenIn
    <2>1. PICK s1 \in Spares :
            /\ run' = [arr |-> Len(h) + 1, len |-> Len(xs)]
            /\ heap' = Append(h, [cells |-> xs, cap |-> Len(xs) + s1])
            /\ audit' = [audit EXCEPT !.len = @ + 1]
      BY <1>4 DEF Mutate
    <2> HIDE DEF h
    <2>2. /\ HeapOK(h) /\ Len(h) = Len(heap)
          /\ \A k \in 1 .. Len(heap) : k # audit.arr => h[k] = heap[k]
          /\ Len(h[audit.arr].cells) >= audit.len + 1
          /\ \A i \in 1 .. audit.len : h[audit.arr].cells[i] = heap[audit.arr].cells[i]
          /\ h[audit.arr].cells[audit.len + 1] = e
      <3>1. audit.arr # 0 /\ audit.len < heap[audit.arr].cap
        BY <1>4 DEF Room
      <3> QED
        BY <1>1, <2>0, <3>1, InPlaceKeeps
    <2>3. PICK a \in Arrays : heap' = Grown(h, a) /\ a.cells = xs /\ Len(a.cells) <= a.cap
      BY <2>1, NewArray DEF Grown
    <2>4. /\ HeapOK(heap') /\ Len(heap') = Len(heap) + 1
          /\ \A k \in 1 .. Len(heap) : heap'[k] = h[k]
          /\ heap'[Len(heap) + 1].cells = xs
      BY <2>2, <2>3, AllocateKeeps
    <2>5. /\ run' \in Slice /\ run'.arr = Len(heap) + 1 /\ run'.len = Len(xs)
          /\ FitsIn(heap', run') /\ ContentIn(heap', run') = xs
      <3>1. run' \in Slice /\ run'.arr = Len(heap) + 1 /\ run'.len = Len(xs)
        BY <1>1, <2>1, <2>2, LenProperties DEF Slice
      <3> QED
        BY <1>1, <2>4, <3>1, NewSlice
    <2>6. audit' \in Slice /\ audit'.arr = audit.arr /\ audit'.len = audit.len + 1 /\ audit.arr # 0
      BY <1>1, <1>4, <2>1 DEF Slice, Room
    <2>7. FitsIn(heap', audit')
      BY <1>1, <2>2, <2>4, <2>6, CellsOf DEF FitsIn
    <2>8. ContentIn(heap', audit') = grown
      <3>1. /\ ContentIn(heap', audit') \in Seq(Cells)
            /\ Len(ContentIn(heap', audit')) = audit.len + 1
            /\ \A i \in 1 .. audit.len + 1 : ContentIn(heap', audit')[i] = heap'[audit.arr].cells[i]
        BY <2>4, <2>6, <2>7, ContentProperties
      <3>2. \A i \in 1 .. audit.len + 1 : heap'[audit.arr].cells[i] = grown[i]
        <4>1. \A i \in 1 .. audit.len : ContentIn(heap, audit)[i] = heap[audit.arr].cells[i]
          BY <1>1, <2>6, ContentProperties
        <4>2. audit.arr \in 1 .. Len(heap) /\ heap'[audit.arr] = h[audit.arr]
          BY <1>1, <2>4, <2>6
        <4>3. \A i \in 1 .. audit.len : heap'[audit.arr].cells[i] = grown[i]
          BY <1>2, <2>2, <4>1, <4>2
        <4>4. heap'[audit.arr].cells[audit.len + 1] = grown[audit.len + 1]
          BY <1>2, <2>2, <4>2
        <4> QED
          BY <1>1, <4>3, <4>4
      <3> QED
        BY <1>2, <3>1, <3>2, SeqEqual
    <2>9. ASSUME NEW s, Apart(s) PROVE Unmoved(s)
      <3>1. FitsIn(heap, s) /\ s.arr # audit.arr /\ s.arr \in Nat /\ s.len \in Nat /\ s.arr <= Len(heap)
        BY <2>6, <2>9 DEF Apart, FitsIn, Slice
      <3>2. s.arr # 0 => heap'[s.arr] = heap[s.arr]
        BY <1>1, <2>2, <2>4, <3>1
      <3>3. Len(heap) <= Len(heap')
        BY <1>1, <2>2, <2>4
      <3> QED
        BY <1>1, <2>4, <3>1, <3>2, <3>3, SameArray DEF Unmoved
    <2>10. Len(heap') > Len(heap)
      BY <1>1, <2>2, <2>4
    <2> QED
      BY <2>4, <2>5, <2>6, <2>7, <2>8, <2>9, <2>10, Zenon DEF grown
  <1>5. CASE ~Room(audit)
    <2>1. PICK s1 \in Spares, s2 \in Spares :
            /\ run' = [arr |-> Len(heap) + 1, len |-> Len(xs)]
            /\ heap' = heap \o <<[cells |-> xs, cap |-> Len(xs) + s1],
                                 [cells |-> grown, cap |-> Len(grown) + s2]>>
            /\ audit' = [arr |-> Len(heap) + 2, len |-> Len(grown)]
      BY <1>3, <1>5 DEF Mutate, grown
    <2>2. PICK one \in Arrays, two \in Arrays :
            /\ heap' = Grown(Grown(heap, one), two)
            /\ one.cells = xs /\ Len(one.cells) <= one.cap
            /\ two.cells = grown /\ Len(two.cells) <= two.cap
      <3> DEFINE one == [cells |-> xs, cap |-> Len(xs) + s1]
                 two == [cells |-> grown, cap |-> Len(grown) + s2]
      <3>1. one \in Arrays /\ one.cells = xs /\ Len(one.cells) <= one.cap
        BY NewArray
      <3>2. two \in Arrays /\ two.cells = grown /\ Len(two.cells) <= two.cap
        BY <1>2, NewArray
      <3>3. heap \in Seq(Arrays) /\ heap' = heap \o <<one, two>>
        BY <1>1, <2>1 DEF HeapOK
      <3> HIDE DEF one, two
      <3>4. heap' = Grown(Grown(heap, one), two)
        BY <3>1, <3>2, <3>3 DEF Grown
      <3> QED
        BY <3>1, <3>2, <3>4
    <2> DEFINE h == Grown(heap, one)
    <2>3. /\ HeapOK(h) /\ Len(h) = Len(heap) + 1
          /\ \A k \in 1 .. Len(heap) : h[k] = heap[k]
          /\ h[Len(heap) + 1].cells = xs
      BY <1>1, <2>2, AllocateKeeps
    <2>4. heap' = Grown(h, two)
      BY <2>2
    <2> HIDE DEF h
    <2>5. /\ HeapOK(heap') /\ Len(heap') = Len(h) + 1
          /\ \A k \in 1 .. Len(h) : heap'[k] = h[k]
          /\ heap'[Len(h) + 1].cells = grown
      BY <2>2, <2>3, <2>4, AllocateKeeps
    <2>6. heap'[Len(heap) + 1].cells = xs
      BY <1>1, <2>3, <2>5
    <2>7. FitsIn(heap', run') /\ ContentIn(heap', run') = xs
      <3>1. run' \in Slice /\ run'.arr = Len(heap) + 1 /\ run'.len = Len(xs)
        BY <1>1, <2>1, LenProperties DEF Slice
      <3> QED
        BY <1>1, <2>3, <2>5, <2>6, <3>1, NewSlice
    <2>8. FitsIn(heap', audit') /\ ContentIn(heap', audit') = grown
      <3>1. audit' \in Slice /\ audit'.arr = Len(heap) + 2 /\ audit'.len = Len(grown)
        BY <1>1, <1>2, <2>1 DEF Slice
      <3> QED
        BY <1>1, <2>3, <2>5, <3>1, NewSlice
    <2>9. ASSUME NEW s, Apart(s) PROVE Unmoved(s)
      <3>1. FitsIn(heap, s) /\ s.arr \in Nat /\ s.len \in Nat /\ s.arr <= Len(heap)
        BY <2>9 DEF Apart, FitsIn, Slice
      <3>2. s.arr # 0 => heap'[s.arr] = heap[s.arr]
        BY <1>1, <2>3, <2>5, <3>1
      <3> QED
        BY <1>1, <2>3, <2>5, <3>1, <3>2, SameArray DEF Unmoved
    <2>10. /\ Len(heap') > Len(heap) /\ run'.arr = Len(heap) + 1
           /\ audit'.arr = Len(heap) + 2 /\ audit'.arr # 0
      BY <1>1, <2>1, <2>3, <2>5
    <2> QED
      BY <2>5, <2>7, <2>8, <2>9, <2>10, Zenon DEF grown
  <1> QED
    BY <1>4, <1>5

-----------------------------------------------------------------------------
(* What the operations write. *)

LEMMA ShapeFacts ==
    ASSUME Shape
    PROVE  /\ Len(heap) \in Nat /\ Len(loops) \in Nat
           /\ base \in Slice /\ run \in Slice /\ audit \in Slice /\ kept.slice \in Slice
           /\ ContentIn(heap, base) \in Seq(Cells) /\ ContentIn(heap, run) \in Seq(Cells)
           /\ ContentIn(heap, audit) \in Seq(Cells)
           /\ Len(ContentIn(heap, run)) = run.len
           /\ Len(ContentIn(heap, audit)) = audit.len
  <1>1. HeapOK(heap) /\ FitsIn(heap, base) /\ FitsIn(heap, run) /\ FitsIn(heap, audit)
        /\ FitsIn(heap, kept.slice)
    BY DEF Shape
  <1>2. Len(heap) \in Nat /\ Len(loops) \in Nat
    BY LenProperties DEF Shape, HeapOK
  <1>3. base \in Slice /\ run \in Slice /\ audit \in Slice /\ kept.slice \in Slice
    BY <1>1 DEF FitsIn
  <1> QED
    BY <1>1, <1>2, <1>3, ContentProperties

LEMMA WithoutType ==
    ASSUME NEW xs \in Seq(Cells), NEW i \in 1 .. Len(xs)
    PROVE  Without(xs, i) \in Seq(Cells)
  <1>1. Len(xs) \in Nat /\ \A k \in 1 .. Len(xs) : xs[k] \in Cells
    BY LenProperties, ElementOfSeq
  <1>2. SubSeq(xs, 1, i - 1) \in Seq(Cells)
    <2>1. \A k \in 1 .. i - 1 : xs[k] \in Cells
      BY <1>1
    <2> QED
      BY <1>1, <2>1, SubSeqProperties
  <1>3. SubSeq(xs, i + 1, Len(xs)) \in Seq(Cells)
    <2>1. \A k \in i + 1 .. Len(xs) : xs[k] \in Cells
      BY <1>1
    <2> QED
      BY <1>1, <2>1, SubSeqProperties
  <1> QED
    BY <1>2, <1>3, ConcatProperties DEF Without

\* The mutation of db to xs that the entry e stands for.
Recorded(db, e, xs) ==
    \/ \E c \in Dynamic : e = <<"asserta", c>> /\ xs = <<c>> \o db
    \/ \E c \in Dynamic : e = <<"assertz", c>> /\ xs = Append(db, c)
    \/ \E i \in 1 .. Len(db) :
         /\ db[i] \in Dynamic /\ e = <<"retract", db[i]>> /\ xs = Without(db, i)
         /\ \A k \in 1 .. i - 1 : db[k] # db[i]

\* A step of asserta, assertz or retract is one of those.
LEMMA Mutating ==
    ASSUME Shape, Asserta \/ Assertz \/ Retract
    PROVE  \E xs \in Seq(Cells), e \in Entries :
             Mutate(xs, e) /\ Recorded(ContentIn(heap, run), e, xs)
  <1> DEFINE db == ContentIn(heap, run)
  <1>1. db \in Seq(Cells) /\ Len(db) = run.len /\ run.len \in Nat
    BY ShapeFacts DEF Slice
  <1>2. Content(run) = db
    BY ContentIsContentIn
  <1> HIDE DEF db
  <1>3. ASSUME NEW c \in Dynamic
        PROVE  <<c>> \o db \in Seq(Cells) /\ Append(db, c) \in Seq(Cells)
    <2>1. c \in Cells
      BY ClausesAssumption DEF Cells
    <2>2. <<c>> \in Seq(Cells)
      BY <2>1
    <2> QED
      BY <1>1, <2>1, <2>2, ConcatProperties, AppendProperties
  <1>4. ASSUME NEW c \in Dynamic
        PROVE  /\ Entry("asserta", c) = <<"asserta", c>> /\ <<"asserta", c>> \in Entries
               /\ Entry("assertz", c) = <<"assertz", c>> /\ <<"assertz", c>> \in Entries
               /\ Entry("retract", c) = <<"retract", c>> /\ <<"retract", c>> \in Entries
    BY DEF Entry, Entries
  <1>5. CASE Asserta
    <2>1. PICK c \in Dynamic : Mutate(<<c>> \o db, <<"asserta", c>>)
      BY <1>2, <1>4, <1>5 DEF Asserta
    <2>2. Recorded(db, <<"asserta", c>>, <<c>> \o db)
      BY Zenon DEF Recorded
    <2> QED
      BY <1>3, <1>4, <2>1, <2>2, Zenon DEF db
  <1>6. CASE Assertz
    <2>1. PICK c \in Dynamic : Mutate(Append(db, c), <<"assertz", c>>)
      BY <1>2, <1>4, <1>6 DEF Assertz
    <2>2. Recorded(db, <<"assertz", c>>, Append(db, c))
      BY Zenon DEF Recorded
    <2> QED
      BY <1>3, <1>4, <2>1, <2>2, Zenon DEF db
  <1>7. CASE Retract
    <2>1. PICK pattern \in SUBSET Dynamic, i \in 1 .. Len(db) :
            /\ db[i] \in pattern
            /\ \A k \in 1 .. Len(db) : db[k] \in pattern => i <= k
            /\ Mutate(Without(db, i), <<"retract", db[i]>>)
      BY <1>2, <1>7 DEF Retract, Entry
    <2>2. db[i] \in Dynamic
      BY <2>1
    <2>3. \A k \in 1 .. i - 1 : db[k] # db[i]
      BY <1>1, <2>1, <2>2
    <2>4. Without(db, i) \in Seq(Cells)
      BY <1>1, <2>1, WithoutType
    <2>5. Recorded(db, <<"retract", db[i]>>, Without(db, i))
      BY <2>2, <2>3, Zenon DEF Recorded
    <2> QED
      BY <1>4, <2>1, <2>2, <2>4, <2>5, Zenon DEF db
  <1> QED
    BY <1>5, <1>6, <1>7

-----------------------------------------------------------------------------
(* Every step keeps the shape and the ownership. *)

IInv == Shape /\ Owned

LEMMA InitShape == Init => IInv
  <1> SUFFICES ASSUME Init
               PROVE  IInv
    OBVIOUS
  <1>1. PICK p \in Bases : /\ heap = <<[cells |-> p, cap |-> Len(p)]>>
                           /\ base = [arr |-> 1, len |-> Len(p)]
    BY DEF Init
  <1>2. p \in Seq(Cells) /\ Len(p) \in Nat
    <2>1. p \in Seq(Clause)
      BY ClausesAssumption
    <2>2. Clause \subseteq Cells
      BY DEF Cells
    <2> QED
      BY <2>1, <2>2, SeqMonotonic, LenProperties
  <1> DEFINE a == [cells |-> p, cap |-> Len(p)]
  <1>3. a \in Arrays /\ a.cells = p /\ a.cap = Len(p)
    BY <1>2 DEF Arrays
  <1> HIDE DEF a
  <1>4. heap \in Seq(Arrays) /\ Len(heap) = 1 /\ heap[1] = a
    <2>1. heap = <<a>>
      BY <1>1 DEF a
    <2> QED
      BY <1>3, <2>1
  <1>5. HeapOK(heap)
    BY <1>2, <1>3, <1>4 DEF HeapOK
  <1>6. FitsIn(heap, base)
    BY <1>1, <1>2, <1>3, <1>4 DEF FitsIn, Slice
  <1>7. FitsIn(heap, Nil)
    BY <1>4 DEF FitsIn, Slice, Nil
  <1>8. /\ run = Nil /\ audit = Nil /\ kept = [slice |-> Nil, held |-> <<>>]
        /\ loops = <<>> /\ active = FALSE /\ runs = 0
    BY DEF Init
  <1>9. /\ kept \in [slice : Slice, held : Seq(Cells)] /\ kept.slice = Nil
        /\ loops \in Seq([slice : Slice, next : Nat]) /\ Len(loops) = 0
    BY <1>8, EmptySeq DEF Slice, Nil
  <1>10. Shape
    <2>1. FitsIn(heap, run) /\ FitsIn(heap, audit) /\ FitsIn(heap, kept.slice)
      BY <1>7, <1>8, <1>9, Zenon
    <2>2. \A k \in 1 .. Len(loops) : /\ FitsIn(heap, loops[k].slice)
                                     /\ loops[k].next \in 1 .. loops[k].slice.len + 1
      BY <1>9
    <2>3. active \in BOOLEAN
      BY <1>8, Zenon
    <2>4. runs \in 0 .. MaxRuns
      <3>1. runs = 0
        BY <1>8
      <3> QED
        BY <3>1, MaxRunsAssumption
    <2>5. ~active => run = Nil /\ loops = <<>>
      BY <1>8
    <2> QED
      BY <1>5, <1>6, <1>9, <2>1, <2>2, <2>3, <2>4, <2>5, Zenon DEF Shape
  <1>11. Owned
    BY <1>8 DEF Owned, Nil
  <1> QED
    BY <1>10, <1>11 DEF IInv

LEMMA MutateShape ==
    ASSUME IInv, NEW xs \in Seq(Cells), NEW e \in Entries, Mutate(xs, e)
    PROVE  IInv'
  <1>1. Shape /\ Owned
    BY DEF IInv
  <1>2. active = TRUE /\ UNCHANGED <<base, active, loops, kept, runs>>
    BY <1>1 DEF Mutate, Shape
  <1>3. /\ HeapOK(heap') /\ Len(heap') > Len(heap)
        /\ FitsIn(heap', run') /\ FitsIn(heap', audit')
        /\ run'.arr = Len(heap) + 1
        /\ audit'.arr # 0
        /\ audit'.arr = audit.arr \/ audit'.arr = Len(heap) + 2
        /\ \A s : Apart(s) => Unmoved(s)
    BY <1>1, MutateKeeps
  <1>4. Apart(base) /\ Apart(kept.slice) /\ \A k \in 1 .. Len(loops) : Apart(loops[k].slice)
    BY <1>1, <1>2 DEF Shape, Owned, Apart
  <1>5. /\ FitsIn(heap', base) /\ FitsIn(heap', kept.slice)
        /\ \A k \in 1 .. Len(loops) : FitsIn(heap', loops[k].slice)
    BY <1>3, <1>4 DEF Unmoved
  <1>6. Shape'
    BY <1>1, <1>2, <1>3, <1>5 DEF Shape
  <1>7. /\ Len(heap) \in Nat /\ base.arr \in Nat /\ audit.arr \in Nat
        /\ base.arr <= Len(heap) /\ audit.arr <= Len(heap) /\ kept.slice.arr <= Len(heap)
        /\ kept.slice.arr \in Nat
        /\ \A k \in 1 .. Len(loops) : loops[k].slice.arr \in Nat /\ loops[k].slice.arr <= Len(heap)
    BY <1>1, ShapeFacts DEF Shape, FitsIn, Slice
  <1>8. Owned'
    BY <1>1, <1>2, <1>3, <1>7 DEF Owned
  <1> QED
    BY <1>6, <1>8 DEF IInv

LEMMA SolveShape ==
    ASSUME IInv, Solve
    PROVE  /\ IInv'
           /\ ContentIn(heap', run') = ContentIn(heap, base)
           /\ \A s : FitsIn(heap, s) => Unmoved(s)
  <1> DEFINE xs == Content(base)
  <1>1. Shape /\ Owned /\ HeapOK(heap)
    BY DEF IInv, Shape
  <1>2. xs \in Seq(Cells) /\ Len(heap) \in Nat
    BY <1>1, ShapeFacts, ContentIsContentIn
  <1>3. /\ ~active /\ active' = TRUE /\ runs < MaxRuns /\ runs' = runs + 1
        /\ Allocate(xs) /\ run' = New(xs) /\ audit' = Nil
        /\ UNCHANGED <<base, loops, kept>>
    BY DEF Solve
  <1> HIDE DEF xs
  <1>4. PICK a \in Arrays : heap' = Grown(heap, a) /\ a.cells = xs /\ Len(a.cells) <= a.cap
    BY <1>2, <1>3, NewArray DEF Allocate, Grown
  <1>5. /\ HeapOK(heap') /\ Len(heap') = Len(heap) + 1
        /\ \A k \in 1 .. Len(heap) : heap'[k] = heap[k]
        /\ heap'[Len(heap) + 1].cells = xs
    BY <1>1, <1>4, AllocateKeeps
  <1>6. ASSUME NEW s, FitsIn(heap, s)
        PROVE  Unmoved(s)
    <2>1. s.arr # 0 => heap'[s.arr] = heap[s.arr]
      BY <1>2, <1>5, <1>6 DEF FitsIn, Slice
    <2>2. Len(heap) <= Len(heap')
      BY <1>2, <1>5
    <2> QED
      BY <1>1, <1>5, <1>6, <2>1, <2>2, SameArray DEF Unmoved
  <1>7. FitsIn(heap', run') /\ ContentIn(heap', run') = xs
    <2>1. run' \in Slice /\ run'.arr = Len(heap) + 1 /\ run'.len = Len(xs)
      BY <1>2, <1>3, LenProperties DEF New, Slice
    <2> QED
      BY <1>2, <1>5, <2>1, NewSlice
  <1>8. FitsIn(heap', Nil)
    BY <1>2, <1>5 DEF FitsIn, Slice, Nil
  <1>9. Shape'
    <2>1. FitsIn(heap', base) /\ FitsIn(heap', kept.slice)
      BY <1>1, <1>6 DEF Shape, Unmoved
    <2>2. loops = <<>>
      BY <1>1, <1>3 DEF Shape
    <2>3. runs' \in 0 .. MaxRuns
      BY <1>1, <1>3, MaxRunsAssumption DEF Shape
    <2>4. /\ kept' \in [slice : Slice, held : Seq(Cells)] /\ loops' = <<>> /\ Len(loops') = 0
          /\ loops' \in Seq([slice : Slice, next : Nat])
      BY <1>1, <1>3, <2>2 DEF Shape
    <2> QED
      BY <1>3, <1>5, <1>7, <1>8, <2>1, <2>3, <2>4 DEF Shape
  <1>10. Owned'
    BY <1>3 DEF Owned, Nil
  <1>11. xs = ContentIn(heap, base)
    BY ContentIsContentIn DEF xs
  <1> QED
    BY <1>6, <1>7, <1>9, <1>10, <1>11 DEF IInv

\* The steps that write no array.
LEMMA LoopShape ==
    ASSUME IInv, Open \/ Try \/ Close \/ Finish \/ Mutations \/ UNCHANGED vars
    PROVE  IInv' /\ heap' = heap
  <1> DEFINE Loop == [slice : Slice, next : Nat]
  <1>1. Shape /\ Owned /\ HeapOK(heap) /\ heap' = heap
    BY DEF IInv, Shape, Open, Try, Close, Finish, Mutations, vars
  <1>2. /\ Len(loops) \in Nat /\ run \in Slice /\ audit \in Slice
        /\ ContentIn(heap, audit) \in Seq(Cells)
        /\ FitsIn(heap, run) /\ FitsIn(heap, audit)
    BY <1>1, ShapeFacts DEF Shape
  <1>3. /\ loops \in Seq(Loop)
        /\ \A k \in 1 .. Len(loops) : /\ loops[k] \in Loop /\ FitsIn(heap, loops[k].slice)
                                      /\ loops[k].next \in 1 .. loops[k].slice.len + 1
    BY <1>1, ElementOfSeq DEF Shape
  <1>4. CASE Open
    <2> DEFINE l == [slice |-> run, next |-> 1]
    <2>1. /\ active /\ loops' = Append(loops, l)
          /\ UNCHANGED <<heap, base, active, run, audit, kept, runs>>
      BY <1>4 DEF Open
    <2>2. l \in Loop /\ l.slice = run /\ l.next = 1 /\ run.len \in Nat
      BY <1>2 DEF Slice
    <2> HIDE DEF l
    <2>3. /\ loops' \in Seq(Loop) /\ Len(loops') = Len(loops) + 1
          /\ \A k \in 1 .. Len(loops) : loops'[k] = loops[k]
          /\ loops'[Len(loops) + 1] = l
      BY <1>3, <2>1, <2>2, AppendProperties
    <2>4. ASSUME NEW k \in 1 .. Len(loops')
          PROVE  \/ k \in 1 .. Len(loops) /\ loops'[k] = loops[k]
                 \/ loops'[k] = l
      BY <1>2, <2>3
    <2>5. Shape'
      BY <1>1, <1>2, <1>3, <2>1, <2>2, <2>3, <2>4 DEF Shape
    <2>6. Owned'
      BY <1>1, <2>1, <2>2, <2>4 DEF Owned
    <2> QED
      BY <1>1, <2>5, <2>6 DEF IInv
  <1>5. CASE Try
    <2> DEFINE n == Len(loops)
               l == [loops[n] EXCEPT !.next = @ + 1]
    <2>1. /\ loops # <<>> /\ loops[n].next <= loops[n].slice.len
          /\ loops' = [loops EXCEPT ![n] = l]
          /\ UNCHANGED <<heap, base, active, run, audit, kept, runs>>
      BY <1>5 DEF Try, Inner
    <2>2. n \in 1 .. Len(loops)
      BY <1>3, <2>1, EmptySeq
    <2>3. /\ l \in Loop /\ l.slice = loops[n].slice /\ l.next = loops[n].next + 1
          /\ l.next \in 1 .. l.slice.len + 1
      <3>1. loops[n] \in Loop /\ loops[n].slice.len \in Nat /\ loops[n].next \in Nat
        BY <1>3, <2>2 DEF Slice
      <3>2. l \in Loop /\ l.slice = loops[n].slice /\ l.next = loops[n].next + 1
        BY <3>1
      <3> HIDE DEF l
      <3> QED
        BY <1>3, <2>1, <2>2, <3>1, <3>2
    <2> HIDE DEF l
    <2>4. /\ loops' \in Seq(Loop) /\ Len(loops') = Len(loops)
          /\ \A k \in 1 .. Len(loops) : loops'[k] = IF k = n THEN l ELSE loops[k]
      BY <1>3, <2>1, <2>2, <2>3, ExceptSeq
    <2>5. Shape'
      BY <1>1, <1>2, <1>3, <2>1, <2>2, <2>3, <2>4 DEF Shape
    <2>6. Owned'
      BY <1>1, <2>1, <2>2, <2>3, <2>4 DEF Owned
    <2> QED
      BY <1>1, <2>5, <2>6 DEF IInv
  <1>6. CASE Close
    <2> DEFINE n == Len(loops) - 1
    <2>1. /\ loops # <<>> /\ loops' = SubSeq(loops, 1, n)
          /\ UNCHANGED <<heap, base, active, run, audit, kept, runs>>
      BY <1>6 DEF Close
    <2>2. n \in Nat /\ n < Len(loops)
      BY <1>2, <1>3, <2>1, EmptySeq
    <2> HIDE DEF n
    <2>3. /\ loops' \in Seq(Loop) /\ Len(loops') = n
          /\ \A k \in 1 .. n : loops'[k] = loops[k]
      <3>1. \A k \in 1 .. n : loops[k] \in Loop
        BY <1>2, <1>3, <2>2
      <3>2. /\ SubSeq(loops, 1, n) \in Seq(Loop)
            /\ Len(SubSeq(loops, 1, n)) = IF 1 <= n THEN n - 1 + 1 ELSE 0
            /\ \A k \in 1 .. n - 1 + 1 : SubSeq(loops, 1, n)[k] = loops[1 + k - 1]
        BY <2>2, <3>1, SubSeqProperties
      <3> QED
        BY <2>1, <2>2, <3>2
    <2>4. \A k \in 1 .. n : k \in 1 .. Len(loops)
      BY <1>2, <2>2
    <2>5. Shape'
      BY <1>1, <1>2, <1>3, <2>1, <2>3, <2>4 DEF Shape
    <2>6. Owned'
      BY <1>1, <2>1, <2>3, <2>4 DEF Owned
    <2> QED
      BY <1>1, <2>5, <2>6 DEF IInv
  <1>7. CASE Finish
    <2>1. /\ active' = FALSE /\ run' = Nil /\ loops' = <<>>
          /\ UNCHANGED <<heap, base, audit, kept, runs>>
      BY <1>7 DEF Finish
    <2>2. FitsIn(heap', Nil)
      <3>1. Len(heap) \in Nat
        BY <1>1, ShapeFacts
      <3> QED
        BY <1>1, <3>1 DEF FitsIn, Slice, Nil
    <2>3. loops' \in Seq(Loop) /\ Len(loops') = 0
      BY <2>1
    <2>4. \A k \in 1 .. Len(loops') : FALSE
      BY <2>3
    <2>5. /\ HeapOK(heap') /\ FitsIn(heap', base') /\ FitsIn(heap', run') /\ FitsIn(heap', audit')
          /\ kept' \in [slice : Slice, held : Seq(Cells)] /\ FitsIn(heap', kept'.slice)
          /\ active' \in BOOLEAN /\ runs' \in 0 .. MaxRuns
      BY <1>1, <2>1, <2>2 DEF Shape
    <2>6. Shape'
      BY <2>1, <2>3, <2>4, <2>5 DEF Shape
    <2>7. Owned'
      BY <1>1, <2>1 DEF Owned
    <2> QED
      BY <1>1, <2>6, <2>7 DEF IInv
  <1>8. CASE Mutations
    <2>1. /\ ~active /\ kept' = [slice |-> audit, held |-> Content(audit)]
          /\ UNCHANGED <<heap, base, active, run, loops, audit, runs>>
      BY <1>8 DEF Mutations
    <2>2. kept' \in [slice : Slice, held : Seq(Cells)] /\ kept'.slice = audit
      BY <1>2, <2>1, ContentIsContentIn
    <2>3. Shape'
      BY <1>1, <1>2, <2>1, <2>2 DEF Shape
    <2>4. Owned'
      BY <1>1, <2>1 DEF Owned
    <2> QED
      BY <1>1, <2>3, <2>4 DEF IInv
  <1>9. CASE UNCHANGED vars
    BY <1>1, <1>9 DEF IInv, Shape, Owned, vars
  <1> QED
    BY <1>4, <1>5, <1>6, <1>7, <1>8, <1>9

LEMMA NextShape == IInv /\ [Next]_vars => IInv'
  <1> SUFFICES ASSUME IInv, [Next]_vars
               PROVE  IInv'
    OBVIOUS
  <1>1. CASE Asserta \/ Assertz \/ Retract
    <2>1. Shape
      BY DEF IInv
    <2> QED
      BY <1>1, <2>1, Mutating, MutateShape
  <1>2. CASE Solve
    BY <1>2, SolveShape
  <1>3. CASE Open \/ Try \/ Close \/ Finish \/ Mutations \/ UNCHANGED vars
    BY <1>3, LoopShape
  <1> QED
    BY <1>1, <1>2, <1>3 DEF Next

\* Every reachable state has the slices and the arrays it should.
THEOREM InvariantHolds == Spec => []IInv
  <1> QED
    BY InitShape, NextShape, PTL DEF Spec

\* The slices of the machine lie within their arrays, no array outgrows its
\* capacity, and between runs nothing of a run is left (solve.go:205-215).
THEOREM Typed == Spec => []TypeOK
  <1>1. IInv => TypeOK
    <2> SUFFICES ASSUME Shape
                 PROVE  TypeOK
      BY DEF IInv
    <2>1. HeapOK(heap)
      BY DEF Shape
    <2>2. \A s : FitsIn(heap, s) => Fits(s)
      BY <2>1, FitsIsFitsIn
    <2> QED
      BY <2>1, <2>2 DEF Shape, HeapOK, TypeOK
  <1> QED
    BY <1>1, InvariantHolds, PTL

-----------------------------------------------------------------------------
(* The audit. *)

LEMMA KeptStep == IInv /\ KeptAuditStays /\ [Next]_vars => KeptAuditStays'
  <1> SUFFICES ASSUME IInv, ContentIn(heap, kept.slice) = kept.held, [Next]_vars
               PROVE  ContentIn(heap', kept'.slice) = kept'.held
    BY DEF KeptAuditStays, Content, ContentIn
  <1>1. Shape /\ Owned /\ FitsIn(heap, kept.slice)
    BY DEF IInv, Shape
  <1>2. CASE Asserta \/ Assertz \/ Retract
    <2>1. PICK xs \in Seq(Cells), e \in Entries : Mutate(xs, e)
      BY <1>1, <1>2, Mutating
    <2>2. active /\ kept' = kept
      BY <2>1 DEF Mutate
    <2>3. Apart(kept.slice)
      BY <1>1, <2>2 DEF Owned, Apart
    <2>4. Unmoved(kept.slice)
      BY <1>1, <2>1, <2>3, MutateKeeps
    <2> QED
      BY <2>2, <2>4 DEF Unmoved
  <1>3. CASE Solve
    <2>1. kept' = kept
      BY <1>3 DEF Solve
    <2>2. Unmoved(kept.slice)
      BY <1>1, <1>3, SolveShape
    <2> QED
      BY <2>1, <2>2 DEF Unmoved
  <1>4. CASE Mutations
    <2>1. kept' = [slice |-> audit, held |-> Content(audit)] /\ heap' = heap
      BY <1>4 DEF Mutations
    <2> QED
      BY <2>1, ContentIsContentIn
  <1>5. CASE Open \/ Try \/ Close \/ Finish \/ UNCHANGED vars
    BY <1>5 DEF Open, Try, Close, Finish, vars
  <1> QED
    BY <1>2, <1>3, <1>4, <1>5 DEF Next

\* An audit the caller took never changes, whatever later runs write.
THEOREM KeptAudit == Spec => []KeptAuditStays
  <1>1. Init => KeptAuditStays
    BY DEF Init, KeptAuditStays, Content, Nil
  <1> QED
    BY <1>1, KeptStep, InvariantHolds, PTL DEF Spec

\* f is what the first k entries of log make of the program b, one by one.
Replays(f, b, log, k) ==
    f = [n \in 0 .. k |-> IF n = 0 THEN b ELSE Redo(f[n - 1], log[n])]

OnFirst(f, k) == f = [n \in 0 .. k |-> f[n]]

LEMMA ReplayValues ==
    ASSUME NEW k \in Nat, NEW b, NEW log, NEW f
    PROVE  Replays(f, b, log, k) <=>
             /\ OnFirst(f, k)
             /\ f[0] = b
             /\ \A n \in 1 .. k : f[n] = Redo(f[n - 1], log[n])
  <1> DEFINE val(n) == IF n = 0 THEN b ELSE Redo(f[n - 1], log[n])
  <1>1. val(0) = b /\ \A n \in 1 .. k : val(n) = Redo(f[n - 1], log[n])
    OBVIOUS
  <1>2. Replays(f, b, log, k) <=> f = [n \in 0 .. k |-> val(n)]
    BY DEF Replays
  <1> HIDE DEF val
  <1>3. f = [n \in 0 .. k |-> val(n)] <=>
          f = [n \in 0 .. k |-> f[n]] /\ \A n \in 0 .. k : f[n] = val(n)
    OBVIOUS
  <1>4. \A n \in 0 .. k : n = 0 \/ n \in 1 .. k
    OBVIOUS
  <1>5. 0 \in 0 .. k /\ \A n \in 1 .. k : n \in 0 .. k
    OBVIOUS
  <1> QED
    BY <1>1, <1>2, <1>3, <1>4, <1>5 DEF OnFirst

\* There is such a function, and one for a part of the log goes as far as that.
LEMMA ReplayExists ==
    ASSUME NEW b, NEW log, NEW len \in Nat
    PROVE  \E f : Replays(f, b, log, len)
  <1> DEFINE S == {k \in Nat : \E f : Replays(f, b, log, k)}
  <1>1. 0 \in S
    <2> DEFINE f == [n \in 0 .. 0 |-> b]
    <2>1. OnFirst(f, 0) /\ f[0] = b
      BY DEF OnFirst
    <2> HIDE DEF f, S
    <2>2. Replays(f, b, log, 0)
      BY <2>1, ReplayValues
    <2> QED
      BY <2>2 DEF S
  <1>2. ASSUME NEW k \in S
        PROVE  k + 1 \in S
    <2>0. k \in Nat
      OBVIOUS
    <2>1. PICK f : Replays(f, b, log, k)
      BY <1>2
    <2> HIDE DEF S
    <2> DEFINE g == [n \in 0 .. k + 1 |-> IF n = k + 1 THEN Redo(f[k], log[k + 1]) ELSE f[n]]
    <2>2. f[0] = b /\ \A n \in 1 .. k : f[n] = Redo(f[n - 1], log[n])
      BY <2>0, <2>1, ReplayValues
    <2>3. /\ OnFirst(g, k + 1)
          /\ \A n \in 0 .. k : g[n] = f[n]
          /\ g[k + 1] = Redo(f[k], log[k + 1])
      BY <2>0 DEF OnFirst
    <2> HIDE DEF g
    <2>4. g[0] = b
      BY <2>0, <2>2, <2>3
    <2>5. ASSUME NEW n \in 1 .. k + 1
          PROVE  g[n] = Redo(g[n - 1], log[n])
      <3>1. n - 1 \in 0 .. k /\ g[n - 1] = f[n - 1]
        BY <2>0, <2>3
      <3>2. CASE n \in 1 .. k
        BY <2>0, <2>2, <2>3, <3>1, <3>2
      <3>3. CASE n = k + 1
        <4>1. n - 1 = k
          BY <2>0, <3>3
        <4> QED
          BY <2>3, <3>1, <3>3, <4>1
      <3> QED
        BY <2>0, <3>2, <3>3
    <2>6. Replays(g, b, log, k + 1)
      BY <2>0, <2>3, <2>4, <2>5, ReplayValues
    <2> QED
      BY <2>0, <2>6 DEF S
  <1>3. S \in SUBSET Nat
    OBVIOUS
  <1>4. len \in S
    <2> HIDE DEF S
    <2> QED
      BY <1>1, <1>2, <1>3, SetInduction
  <1> QED
    BY <1>4

LEMMA ReplayPrefix ==
    ASSUME NEW b, NEW log, NEW long, NEW k \in Nat, NEW f,
           \A n \in 1 .. k : long[n] = log[n], Replays(f, b, long, k + 1)
    PROVE  /\ \E g : Replays(g, b, log, k) /\ g[k] = f[k]
           /\ f[k + 1] = Redo(f[k], long[k + 1])
  <1> DEFINE g == [n \in 0 .. k |-> f[n]]
  <1>1. f[0] = b /\ \A n \in 1 .. k + 1 : f[n] = Redo(f[n - 1], long[n])
    BY ReplayValues
  <1>2. OnFirst(g, k) /\ \A n \in 0 .. k : g[n] = f[n]
    BY DEF OnFirst
  <1> HIDE DEF g
  <1>3. g[0] = b
    BY <1>1, <1>2
  <1>4. ASSUME NEW n \in 1 .. k
        PROVE  g[n] = Redo(g[n - 1], log[n])
    <2>1. n \in 0 .. k /\ n - 1 \in 0 .. k /\ n \in 1 .. k + 1
      OBVIOUS
    <2> QED
      BY <1>1, <1>2, <2>1
  <1>5. Replays(g, b, log, k)
    BY <1>2, <1>3, <1>4, ReplayValues
  <1>6. f[k + 1] = Redo(f[k], long[k + 1])
    <2>1. k + 1 \in 1 .. k + 1 /\ k + 1 - 1 = k
      OBVIOUS
    <2> QED
      BY <1>1, <2>1
  <1>7. g[k] = f[k]
    BY <1>2
  <1> QED
    BY <1>5, <1>6, <1>7

\* What an entry says of the database is what the mutation did to it.
LEMMA RedoIsDone ==
    ASSUME NEW db \in Seq(Cells), NEW xs, NEW e, Recorded(db, e, xs)
    PROVE  Redo(db, e) = xs
  <1>1. CASE \E c \in Dynamic : e = <<"asserta", c>> /\ xs = <<c>> \o db
    BY <1>1 DEF Redo
  <1>2. CASE \E c \in Dynamic : e = <<"assertz", c>> /\ xs = Append(db, c)
    BY <1>2 DEF Redo
  <1>3. ASSUME NEW i \in 1 .. Len(db), e = <<"retract", db[i]>>, xs = Without(db, i),
               \A k \in 1 .. i - 1 : db[k] # db[i]
        PROVE  Redo(db, e) = xs
    <2>1. Len(db) \in Nat
      BY LenProperties
    <2> DEFINE Hit(j) == db[j] = db[i] /\ \A k \in 1 .. j - 1 : db[k] # db[i]
    <2>2. \A j \in 1 .. Len(db) : Hit(j) => j = i
      BY <1>3, <2>1
    <2>3. Hit(i)
      BY <1>3
    <2> HIDE DEF Hit
    <2>4. (CHOOSE j \in 1 .. Len(db) : Hit(j)) = i
      BY <2>2, <2>3
    <2>5. FirstOf(db, db[i]) = i
      BY <2>4 DEF FirstOf, Hit
    <2> QED
      BY <1>3, <2>5 DEF Redo
  <1> QED
    BY <1>1, <1>2, <1>3 DEF Recorded

\* The run's database is what the audit makes of the base program.
AuditInv ==
    active => \A f : Replays(f, ContentIn(heap, base), ContentIn(heap, audit), audit.len) =>
                       f[audit.len] = ContentIn(heap, run)

LEMMA AuditStep == IInv /\ AuditInv /\ [Next]_vars => AuditInv'
  <1> SUFFICES ASSUME IInv, AuditInv, [Next]_vars, active',
                      NEW f,
                      Replays(f, ContentIn(heap', base'), ContentIn(heap', audit'), audit'.len)
               PROVE  f[audit'.len] = ContentIn(heap', run')
    BY DEF AuditInv
  <1>1. Shape /\ Owned /\ FitsIn(heap, base)
    BY DEF IInv, Shape
  <1>2. CASE Asserta \/ Assertz \/ Retract
    <2> DEFINE db == ContentIn(heap, run)
               log == ContentIn(heap, audit)
               b == ContentIn(heap, base)
    <2>1. db \in Seq(Cells) /\ log \in Seq(Cells) /\ Len(log) = audit.len /\ audit.len \in Nat
      BY <1>1, ShapeFacts DEF Slice
    <2> HIDE DEF db, log, b
    <2>2. PICK xs \in Seq(Cells), e \in Entries : Mutate(xs, e) /\ Recorded(db, e, xs)
      BY <1>1, <1>2, Mutating DEF db
    <2>3. Redo(db, e) = xs
      BY <2>1, <2>2, RedoIsDone
    <2>4. active /\ base' = base
      BY <2>2 DEF Mutate
    <2> DEFINE long == Append(log, e)
    <2>5. /\ ContentIn(heap', run') = xs /\ FitsIn(heap', audit')
          /\ HeapOK(heap')
          /\ ContentIn(heap', audit') = long
          /\ \A s : Apart(s) => Unmoved(s)
      BY <1>1, <2>2, MutateKeeps, Zenon DEF log
    <2>6. ContentIn(heap', base') = b
      <3>1. Apart(base)
        BY <1>1 DEF Owned, Apart
      <3> HIDE DEF long
      <3> QED
        BY <2>4, <2>5, <3>1 DEF Unmoved, b
    <2>7. /\ Len(long) = audit.len + 1
          /\ \A n \in 1 .. audit.len : long[n] = log[n]
          /\ long[audit.len + 1] = e
      <3>1. e \in Cells
        BY DEF Cells
      <3> QED
        BY <2>1, <3>1, AppendProperties
    <2> HIDE DEF long
    <2>8. audit'.len = audit.len + 1
      BY <2>5, <2>7, ContentProperties
    <2>9. Replays(f, b, long, audit.len + 1)
      BY <2>5, <2>6, <2>8
    <2>10. PICK g : Replays(g, b, log, audit.len) /\ g[audit.len] = f[audit.len]
      BY <2>1, <2>7, <2>9, ReplayPrefix
    <2>11. f[audit.len] = db
      BY <2>4, <2>10 DEF AuditInv, db, log, b
    <2>12. f[audit.len + 1] = Redo(f[audit.len], e)
      <3>1. f[audit.len + 1] = Redo(f[audit.len], long[audit.len + 1])
        BY <2>1, <2>7, <2>9, ReplayPrefix
      <3> QED
        BY <2>7, <3>1
    <2> QED
      BY <2>3, <2>5, <2>8, <2>11, <2>12
  <1>3. CASE Solve
    <2>1. /\ ContentIn(heap', run') = ContentIn(heap, base)
          /\ Unmoved(base)
      BY <1>1, <1>3, SolveShape
    <2>2. base' = base /\ audit' = Nil /\ audit'.len = 0
      BY <1>3 DEF Solve, Nil
    <2>3. f[0] = ContentIn(heap', base')
      BY <2>2, ReplayValues
    <2> QED
      BY <2>1, <2>2, <2>3 DEF Unmoved
  <1>4. CASE Open \/ Try \/ Close \/ Mutations \/ UNCHANGED vars
    <2>1. UNCHANGED <<heap, base, active, run, audit>>
      BY <1>4 DEF Open, Try, Close, Mutations, vars
    <2> QED
      BY <2>1 DEF AuditInv
  <1>5. CASE Finish
    BY <1>5 DEF Finish
  <1> QED
    BY <1>2, <1>3, <1>4, <1>5 DEF Next

\* Replaying the audit over the base program gives the run's database: nothing
\* changes it without an entry, and the entries are in order (solve.go:109-113,
\* 190-193).
THEOREM AuditComplete == Spec => []AuditReplays
  <1>1. Init => AuditInv
    BY DEF Init, AuditInv
  <1>2. IInv /\ AuditInv => AuditReplays
    <2> SUFFICES ASSUME Shape, AuditInv, active
                 PROVE  AuditReplays
      BY DEF IInv, AuditReplays
    <2> DEFINE log == ContentIn(heap, audit)
               b == ContentIn(heap, base)
               redo == CHOOSE f : Replays(f, b, log, Len(log))
    <2>1. Len(log) = audit.len /\ audit.len \in Nat
      BY ShapeFacts DEF Slice
    <2>2. Replays(redo, b, log, Len(log))
      <3>1. \E f : Replays(f, b, log, Len(log))
        BY <2>1, ReplayExists
      <3> QED
        BY <3>1, Zenon
    <2>3. redo[Len(log)] = ContentIn(heap, run)
      BY <2>1, <2>2 DEF AuditInv
    <2> QED
      BY <2>3, ContentIsContentIn DEF AuditReplays, Replays
  <1> QED
    BY <1>1, <1>2, AuditStep, InvariantHolds, PTL DEF Spec

-----------------------------------------------------------------------------
(* The refinement.  What the loops have still to try: *)

ViewIn(h, l) == SubSeq(ContentIn(h, l.slice), l.next, l.slice.len)

ViewsIn(h, ls) == [k \in 1 .. Len(ls) |-> ViewIn(h, ls[k])]

\* The values that stand for the abstract variables, before and after a step.
LEMMA Mapping ==
    /\ Content(base) = ContentIn(heap, base) /\ Content(base)' = ContentIn(heap', base')
    /\ Content(run) = ContentIn(heap, run) /\ Content(run)' = ContentIn(heap', run')
    /\ Content(audit) = ContentIn(heap, audit) /\ Content(audit)' = ContentIn(heap', audit')
    /\ [k \in 1 .. Len(loops) |-> View(loops[k])] = ViewsIn(heap, loops)
    /\ [k \in 1 .. Len(loops) |-> View(loops[k])]' = ViewsIn(heap', loops')
  <1>1. /\ Content(base) = ContentIn(heap, base) /\ Content(base)' = ContentIn(heap', base')
        /\ Content(run) = ContentIn(heap, run) /\ Content(run)' = ContentIn(heap', run')
        /\ Content(audit) = ContentIn(heap, audit) /\ Content(audit)' = ContentIn(heap', audit')
    BY DEF Content, ContentIn
  <1>2. \A l : View(l) = ViewIn(heap, l)
    BY ContentIsContentIn DEF View, ViewIn
  <1>3. [k \in 1 .. Len(loops) |-> View(loops[k])] = ViewsIn(heap, loops)
    BY <1>2 DEF ViewsIn
  <1>4. [k \in 1 .. Len(loops) |-> View(loops[k])]' = ViewsIn(heap', loops')
    BY DEF ViewsIn, View, ViewIn, Content, ContentIn
  <1> QED
    BY <1>1, <1>3, <1>4

LEMMA ViewProperties ==
    ASSUME IInv, NEW k \in 1 .. Len(loops)
    PROVE  /\ ContentIn(heap, loops[k].slice) \in Seq(Cells)
           /\ Len(ContentIn(heap, loops[k].slice)) = loops[k].slice.len
           /\ loops[k].slice.len \in Nat /\ loops[k].next \in 1 .. loops[k].slice.len + 1
           /\ ViewIn(heap, loops[k]) \in Seq(Cells)
  <1> DEFINE c == ContentIn(heap, loops[k].slice)
  <1>1. FitsIn(heap, loops[k].slice) /\ HeapOK(heap)
        /\ loops[k].next \in 1 .. loops[k].slice.len + 1
    BY DEF IInv, Shape
  <1>2. loops[k].slice.len \in Nat
    BY <1>1 DEF FitsIn, Slice
  <1>3. c \in Seq(Cells) /\ Len(c) = loops[k].slice.len
    BY <1>1, ContentProperties
  <1>4. \A i \in loops[k].next .. loops[k].slice.len : c[i] \in Cells
    BY <1>1, <1>2, <1>3, ElementOfSeq
  <1> HIDE DEF c
  <1>5. SubSeq(c, loops[k].next, loops[k].slice.len) \in Seq(Cells)
    BY <1>1, <1>2, <1>4, SubSeqProperties
  <1> QED
    BY <1>1, <1>2, <1>3, <1>5 DEF c, ViewIn

LEMMA ViewsType ==
    ASSUME IInv
    PROVE  /\ ViewsIn(heap, loops) \in Seq(Seq(Cells))
           /\ Len(ViewsIn(heap, loops)) = Len(loops) /\ Len(loops) \in Nat
           /\ \A k \in 1 .. Len(loops) : ViewsIn(heap, loops)[k] = ViewIn(heap, loops[k])
  <1>1. Len(loops) \in Nat
    BY ShapeFacts DEF IInv
  <1>2. ViewsIn(heap, loops) \in [1 .. Len(loops) -> Seq(Cells)]
    BY ViewProperties DEF ViewsIn
  <1>3. ViewsIn(heap, loops) \in Seq(Seq(Cells))
    BY <1>1, <1>2, SeqDef
  <1>4. Len(ViewsIn(heap, loops)) = Len(loops)
    BY <1>1, <1>2, <1>3, LenProperties
  <1> QED
    BY <1>1, <1>3, <1>4 DEF ViewsIn

\* A step that leaves the loops alone and writes elsewhere leaves the views.
LEMMA ViewsStay ==
    ASSUME IInv, loops' = loops, \A k \in 1 .. Len(loops) : Unmoved(loops[k].slice)
    PROVE  ViewsIn(heap', loops') = ViewsIn(heap, loops)
  <1>1. \A k \in 1 .. Len(loops) : ViewIn(heap', loops[k]) = ViewIn(heap, loops[k])
    BY DEF ViewIn, Unmoved
  <1> QED
    BY <1>1 DEF ViewsIn

LEMMA InitRefines == Init => Values!Init
  <1> SUFFICES ASSUME Init
               PROVE  Values!Init
    OBVIOUS
  <1>1. PICK p \in Bases : /\ heap = <<[cells |-> p, cap |-> Len(p)]>>
                           /\ base = [arr |-> 1, len |-> Len(p)]
    BY DEF Init
  <1>2. p \in Seq(Clause)
    BY ClausesAssumption
  <1>3. Content(base) = p
    <2>1. heap[1].cells = p /\ base.arr = 1 /\ base.len = Len(p)
      BY <1>1
    <2>2. SubSeq(p, 1, Len(p)) = p
      BY <1>2, SubSeqFull
    <2> QED
      BY <2>1, <2>2 DEF Content
  <1>4. active = FALSE /\ Content(run) = <<>> /\ Content(audit) = <<>> /\ Len(loops) = 0
    BY DEF Init, Content, Nil
  <1>5. [k \in 1 .. Len(loops) |-> View(loops[k])] = <<>>
    BY <1>4
  <1> QED
    BY <1>2, <1>3, <1>4, <1>5 DEF Values!Init

LEMMA NextRefines == IInv /\ [Next]_vars => [Values!Next]_(Values!vars)
  <1> SUFFICES ASSUME IInv, [Next]_vars
               PROVE  Values!Next \/ UNCHANGED Values!vars
    OBVIOUS
  <1> DEFINE b == ContentIn(heap, base)
             db == ContentIn(heap, run)
             log == ContentIn(heap, audit)
             views == ViewsIn(heap, loops)
  <1>0. Shape /\ Owned /\ HeapOK(heap)
    BY DEF IInv, Shape
  <1>1. /\ views \in Seq(Seq(Cells)) /\ Len(views) = Len(loops) /\ Len(loops) \in Nat
        /\ \A k \in 1 .. Len(loops) : views[k] = ViewIn(heap, loops[k])
        /\ db \in Seq(Cells) /\ Len(db) = run.len
    BY <1>0, ViewsType, ShapeFacts
  <1>2. CASE Asserta \/ Assertz \/ Retract
    <2>1. PICK xs \in Seq(Cells), e \in Entries : Mutate(xs, e) /\ Recorded(db, e, xs)
      BY <1>0, <1>2, Mutating
    <2>2. active = TRUE /\ active' = active /\ base' = base /\ loops' = loops
      BY <1>0, <2>1 DEF Mutate, Shape
    <2>3. /\ ContentIn(heap', run') = xs /\ ContentIn(heap', audit') = Append(log, e)
          /\ \A s : Apart(s) => Unmoved(s)
      BY <1>0, <2>1, MutateKeeps, Zenon
    <2>4. ContentIn(heap', base') = b /\ ViewsIn(heap', loops') = views
      <3>1. Apart(base) /\ \A k \in 1 .. Len(loops) : Apart(loops[k].slice)
        BY <1>0, <2>2 DEF Shape, Owned, Apart
      <3> QED
        BY <2>2, <2>3, <3>1, ViewsStay DEF Unmoved
    <2>5. CASE \E c \in Dynamic : e = <<"asserta", c>> /\ xs = <<c>> \o db
      BY <2>2, <2>3, <2>4, <2>5, Mapping, Zenon DEF Values!Next, Values!Insert
    <2>6. CASE \E c \in Dynamic : e = <<"assertz", c>> /\ xs = Append(db, c)
      BY <2>2, <2>3, <2>4, <2>6, Mapping, Zenon DEF Values!Next, Values!Insert
    <2>7. ASSUME NEW i \in 1 .. Len(db), db[i] \in Dynamic, e = <<"retract", db[i]>>, xs = Without(db, i)
          PROVE  Values!Remove
      <3>1. i \in DOMAIN db
        BY <1>1, LenProperties
      <3> QED
        BY <2>2, <2>3, <2>4, <2>7, <3>1, Mapping, Zenon DEF Values!Remove, Without
    <2> QED
      BY <2>1, <2>5, <2>6, <2>7 DEF Recorded, Values!Next
  <1>3. CASE Solve
    <2>1. /\ ContentIn(heap', run') = b
          /\ \A s : FitsIn(heap, s) => Unmoved(s)
      BY <1>3, SolveShape
    <2>2. ~active /\ active' = TRUE /\ base' = base /\ audit' = Nil /\ loops' = <<>>
      BY <1>0, <1>3 DEF Solve, Shape
    <2>3. ContentIn(heap', base') = b
      BY <1>0, <2>1, <2>2 DEF Shape, Unmoved
    <2>4. ContentIn(heap', audit') = <<>>
      BY <2>2 DEF ContentIn, Nil
    <2>5. ViewsIn(heap', loops') = <<>>
      <3>1. Len(loops') = 0
        BY <2>2
      <3> QED
        BY <3>1 DEF ViewsIn
    <2> QED
      BY <2>1, <2>2, <2>3, <2>4, <2>5, Mapping, Zenon DEF Values!Next, Values!Begin
  <1>4. CASE Open
    <2> DEFINE l == [slice |-> run, next |-> 1]
    <2>1. active /\ loops' = Append(loops, l) /\ UNCHANGED <<heap, base, active, run, audit>>
      BY <1>4 DEF Open
    <2>2. loops \in Seq([slice : Slice, next : Nat]) /\ l \in [slice : Slice, next : Nat]
      BY <1>0, ShapeFacts DEF Shape
    <2>3. ViewIn(heap, l) = db
      <3>1. SubSeq(db, 1, Len(db)) = db
        BY <1>1, SubSeqFull
      <3> QED
        BY <1>1, <3>1 DEF ViewIn
    <2> HIDE DEF l
    <2>4. /\ Len(loops') = Len(loops) + 1
          /\ \A k \in 1 .. Len(loops) : loops'[k] = loops[k]
          /\ loops'[Len(loops) + 1] = l
      BY <2>1, <2>2, AppendProperties
    <2> HIDE DEF db, views
    <2>5. ViewsIn(heap', loops') = Append(views, db)
      <3>1. /\ Append(views, db) \in Seq(Seq(Cells)) /\ Len(Append(views, db)) = Len(loops) + 1
            /\ \A k \in 1 .. Len(loops) : Append(views, db)[k] = ViewIn(heap, loops[k])
            /\ Append(views, db)[Len(loops) + 1] = db
        BY <1>1, AppendProperties
      <3> DEFINE w == Append(views, db)
      <3>2. w \in [1 .. Len(loops) + 1 -> Seq(Cells)]
        BY <3>1, LenProperties
      <3>3. \A k \in 1 .. Len(loops) : w[k] = ViewIn(heap, loops[k])
        BY <3>1
      <3>4. w[Len(loops) + 1] = db
        BY <3>1
      <3> HIDE DEF w
      <3>5. \A k \in 1 .. Len(loops) + 1 : w[k] = ViewIn(heap, loops'[k])
        <4> TAKE k \in 1 .. Len(loops) + 1
        <4>1. CASE k = Len(loops) + 1
          BY <2>1, <2>3, <2>4, <3>4, <4>1
        <4>2. CASE k # Len(loops) + 1
          <5>1. k \in 1 .. Len(loops)
            BY <1>1, <4>2
          <5> QED
            BY <2>4, <3>3, <5>1
        <4> QED
          BY <4>1, <4>2
      <3>6. w = ViewsIn(heap, loops')
        BY <2>4, <3>2, <3>5 DEF ViewsIn
      <3> QED
        BY <2>1, <3>6 DEF w
    <2> QED
      BY <2>1, <2>5, Mapping, Zenon DEF Values!Next, Values!Open, db, views
  <1>5. CASE Try
    <2> DEFINE n == Len(loops)
               l == [loops[n] EXCEPT !.next = @ + 1]
    <2>1. /\ loops # <<>> /\ loops[n].next <= loops[n].slice.len
          /\ loops' = [loops EXCEPT ![n] = l]
          /\ UNCHANGED <<heap, base, active, run, audit>>
      BY <1>5 DEF Try, Inner
    <2>2. /\ loops \in Seq([slice : Slice, next : Nat]) /\ n \in 1 .. Len(loops)
          /\ loops[n] \in [slice : Slice, next : Nat]
      <3>1. loops \in Seq([slice : Slice, next : Nat])
        BY <1>0 DEF Shape
      <3>2. n \in 1 .. Len(loops)
        BY <1>1, <2>1, <3>1, EmptySeq
      <3> QED
        BY <3>1, <3>2, ElementOfSeq
    <2>3. l \in [slice : Slice, next : Nat] /\ l.slice = loops[n].slice /\ l.next = loops[n].next + 1
      BY <2>2
    <2> HIDE DEF l
    <2>4. Len(loops') = n /\ \A k \in 1 .. n : loops'[k] = IF k = n THEN l ELSE loops[k]
      BY <2>1, <2>2, <2>3, ExceptSeq
    <2>5. views[n] # <<>> /\ ViewIn(heap, l) = Tail(views[n])
      <3> DEFINE c == ContentIn(heap, loops[n].slice)
                 i == loops[n].next
      <3>1. c \in Seq(Cells) /\ Len(c) = loops[n].slice.len /\ i \in 1 .. Len(c) /\ Len(c) \in Nat
        BY <2>1, <2>2, ViewProperties
      <3>2. views[n] = SubSeq(c, i, Len(c)) /\ ViewIn(heap, l) = SubSeq(c, i + 1, Len(c))
        BY <1>1, <2>2, <2>3, <3>1 DEF ViewIn
      <3> HIDE DEF c, i
      <3>3. Tail(SubSeq(c, i, Len(c))) = SubSeq(c, i + 1, Len(c))
        BY <3>1, HeadTailOfSubSeq
      <3>4. Len(SubSeq(c, i, Len(c))) # 0
        <4>1. \A j \in i .. Len(c) : c[j] \in Cells
          BY <3>1, ElementOfSeq
        <4>2. Len(SubSeq(c, i, Len(c))) = IF i <= Len(c) THEN Len(c) - i + 1 ELSE 0
          BY <3>1, <4>1, SubSeqProperties
        <4> QED
          BY <3>1, <4>2
      <3>5. SubSeq(c, i, Len(c)) # <<>>
        BY <3>4, EmptySeq
      <3> QED
        BY <3>2, <3>3, <3>5
    <2> HIDE DEF n, views
    <2>6. ViewsIn(heap', loops') = [views EXCEPT ![n] = Tail(@)]
      <3>1. views \in [1 .. n -> Seq(Cells)] /\ n \in 1 .. n
        BY <1>1, <2>2, LenProperties DEF n
      <3>2. \A k \in 1 .. n : ViewIn(heap, loops'[k]) = IF k = n THEN Tail(views[n]) ELSE views[k]
        BY <1>1, <2>4, <2>5 DEF n
      <3>3. ViewsIn(heap, loops') = [k \in 1 .. n |-> ViewIn(heap, loops'[k])]
        BY <2>4 DEF ViewsIn
      <3> QED
        BY <2>1, <3>1, <3>2, <3>3
    <2>7. Len(views) = n /\ views # <<>>
      <3>1. Len(views) = n /\ n # 0
        BY <1>1, <2>2 DEF n
      <3> QED
        BY <3>1, EmptySeq
    <2> QED
      BY <2>1, <2>5, <2>6, <2>7, Mapping, Zenon DEF Values!Next, Values!Try, views
  <1>6. CASE Close
    <2> DEFINE n == Len(loops) - 1
    <2>1. /\ loops # <<>> /\ loops' = SubSeq(loops, 1, n)
          /\ UNCHANGED <<heap, base, active, run, audit>>
      BY <1>6 DEF Close
    <2>2. loops \in Seq([slice : Slice, next : Nat])
      BY <1>0 DEF Shape
    <2>3. n \in Nat /\ n + 1 = Len(loops)
      BY <1>1, <2>1, <2>2, EmptySeq
    <2> HIDE DEF n
    <2>4. Len(loops') = n /\ \A k \in 1 .. n : loops'[k] = loops[k]
      <3>1. \A k \in 1 .. n : loops[k] \in [slice : Slice, next : Nat]
        <4>1. \A k \in 1 .. n : k \in 1 .. Len(loops)
          BY <2>3
        <4> QED
          BY <2>2, <4>1, ElementOfSeq
      <3>2. /\ Len(SubSeq(loops, 1, n)) = IF 1 <= n THEN n - 1 + 1 ELSE 0
            /\ \A k \in 1 .. n - 1 + 1 : SubSeq(loops, 1, n)[k] = loops[1 + k - 1]
        BY <2>3, <3>1, SubSeqProperties
      <3> QED
        BY <2>1, <2>3, <3>2
    <2> HIDE DEF views
    <2>5. ViewsIn(heap', loops') = SubSeq(views, 1, n)
      <3>1. \A k \in 1 .. n : views[k] \in Seq(Cells) /\ views[k] = ViewIn(heap, loops'[k])
        BY <1>1, <2>3, <2>4, ElementOfSeq
      <3>2. /\ SubSeq(views, 1, n) \in Seq(Seq(Cells))
            /\ Len(SubSeq(views, 1, n)) = IF 1 <= n THEN n - 1 + 1 ELSE 0
            /\ \A k \in 1 .. n - 1 + 1 : SubSeq(views, 1, n)[k] = views[1 + k - 1]
        BY <2>3, <3>1, SubSeqProperties
      <3> DEFINE w == SubSeq(views, 1, n)
      <3>3. w \in Seq(Seq(Cells)) /\ Len(w) = n /\ \A k \in 1 .. n : w[k] = ViewIn(heap, loops'[k])
        BY <2>3, <3>1, <3>2
      <3> HIDE DEF w
      <3>4. w \in [1 .. n -> Seq(Cells)]
        BY <3>3, LenProperties
      <3>5. w = ViewsIn(heap, loops')
        BY <2>4, <3>3, <3>4 DEF ViewsIn
      <3> QED
        BY <2>1, <3>5 DEF w
    <2>6. Len(views) - 1 = n /\ views # <<>>
      <3>1. Len(views) - 1 = n /\ Len(views) # 0
        BY <1>1, <2>3
      <3> QED
        BY <3>1, EmptySeq
    <2> QED
      BY <2>1, <2>5, <2>6, Mapping, Zenon DEF Values!Next, Values!Close, views
  <1>7. CASE Finish
    <2>1. /\ active /\ active' = FALSE /\ run' = Nil /\ loops' = <<>>
          /\ UNCHANGED <<heap, base, audit>>
      BY <1>7 DEF Finish
    <2>2. ContentIn(heap', run') = <<>>
      BY <2>1 DEF ContentIn, Nil
    <2>3. ViewsIn(heap', loops') = <<>>
      <3>1. Len(loops') = 0
        BY <2>1
      <3> QED
        BY <3>1 DEF ViewsIn
    <2> QED
      BY <2>1, <2>2, <2>3, Mapping, Zenon DEF Values!Next, Values!End
  <1>8. CASE Mutations \/ UNCHANGED vars
    <2>1. UNCHANGED <<heap, base, active, run, loops, audit>>
      BY <1>8 DEF Mutations, vars
    <2> QED
      BY <2>1, Mapping, Zenon DEF Values!vars
  <1> QED
    BY <1>2, <1>3, <1>4, <1>5, <1>6, <1>7, <1>8 DEF Next

\* The database of Go slices behaves as one of plain values, with the logical
\* update view: mutations never reach the base program, another run, or a loop
\* already in progress (assert.go:3-6 and 42-45, solve.go:207-212).
THEOREM LogicalUpdates == Spec => LogicalUpdateView
  <1> QED
    BY InitRefines, NextRefines, InvariantHolds, PTL DEF Spec, LogicalUpdateView, Values!Spec
=============================================================================
