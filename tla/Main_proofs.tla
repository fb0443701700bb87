---------------------------- MODULE Main_proofs ----------------------------
(***************************************************************************)
(* Proofs about main.c, which loads the game and then runs it: first about *)
(* SoLoader, then about MainLoop.                                          *)
(***************************************************************************)
EXTENDS SoLoader, MainLoop, FiniteSetTheorems, WellFoundedInduction, TLAPS

----------------------------------------------------------------------------
(* Numbers.                                                                *)
Extremes(T, x, z) == x \in T /\ z \in T /\ \A y \in T : x <= y /\ y <= z

(* One number more.                                                        *)
LEMMA MoreExtremes ==
  ASSUME NEW T \in SUBSET Nat, NEW e \in T,
         T = {e} \/ \E x, z \in T \ {e} : Extremes(T \ {e}, x, z)
  PROVE  \E x, z \in T : Extremes(T, x, z)
<1>1. CASE T = {e}
  BY <1>1 DEF Extremes
<1>2. CASE \E x, z \in T \ {e} : Extremes(T \ {e}, x, z)
  <2>1. PICK x \in T, z \in T : \A y \in T : y = e \/ (x <= y /\ y <= z)
    BY <1>2 DEF Extremes
  <2>2. \A y \in T : y \in Nat
    OBVIOUS
  <2>3. PICK lo \in T : lo <= x /\ lo <= e
    <3>1. x <= e \/ e <= x
      BY <2>2
    <3> QED
      BY <2>2, <3>1
  <2>4. PICK hi \in T : z <= hi /\ e <= hi
    <3>1. z <= e \/ e <= z
      BY <2>2
    <3> QED
      BY <2>2, <3>1
  <2>5. ASSUME NEW y \in T PROVE lo <= y /\ y <= hi
    BY <2>1, <2>2, <2>3, <2>4
  <2> QED
    BY <2>5 DEF Extremes
<1> QED
  BY <1>1, <1>2

(* A finite set of numbers has a least and a greatest member: else there   *)
(* would be such a set without one that contains no other such set.        *)
LEMMA FiniteMinMax ==
  ASSUME NEW S \in SUBSET Nat, IsFiniteSet(S), S # {}
  PROVE  /\ Min(S) \in S /\ \A y \in S : Min(S) <= y
         /\ Max(S) \in S /\ \A y \in S : y <= Max(S)
<1> DEFINE Bounded(T) == \E x, z \in T : Extremes(T, x, z)
           Bad == {T \in FiniteSubsetsOf(S) : T # {} /\ ~Bounded(T)}
<1>1. Bad = {}
  <2> SUFFICES ASSUME Bad # {} PROVE FALSE
    OBVIOUS
  <2>1. IsWellFoundedOn(StrictSubsetOrdering(S), FiniteSubsetsOf(S))
    BY FS_StrictSubsetOrderingWellFounded
  <2>2. PICK T \in Bad : \A U \in Bad : ~(<<U, T>> \in StrictSubsetOrdering(S))
    <3>1. Bad \subseteq FiniteSubsetsOf(S)
      OBVIOUS
    <3> QED
      BY <2>1, <3>1, WFMin
  <2>3. T \in SUBSET S /\ IsFiniteSet(T) /\ T # {} /\ ~Bounded(T)
    BY DEF FiniteSubsetsOf
  <2>4. PICK e : e \in T
    BY <2>3
  <2> DEFINE U == T \ {e}
  <2>5. U \subseteq T /\ U # T /\ U \in FiniteSubsetsOf(S)
    BY <2>3, <2>4, FS_Subset DEF FiniteSubsetsOf
  <2>6. <<U, T>> \in StrictSubsetOrdering(S)
    BY <2>3, <2>5 DEF StrictSubsetOrdering
  <2>7. U = {} \/ Bounded(U)
    BY <2>2, <2>5, <2>6
  <2>8. T = {e} \/ \E x, z \in U : Extremes(U, x, z)
    BY <2>4, <2>7
  <2>9. T \in SUBSET Nat
    BY <2>3
  <2> QED
    BY <2>3, <2>4, <2>8, <2>9, MoreExtremes
<1>2. S \in FiniteSubsetsOf(S)
  BY DEF FiniteSubsetsOf
<1>3. Bounded(S)
  BY <1>1, <1>2
<1>4. PICK x \in S, z \in S : \A y \in S : x <= y /\ y <= z
  BY <1>3 DEF Extremes
<1>5. Min(S) \in S /\ \A y \in S : Min(S) <= y
  BY <1>4 DEF Min
<1>6. \A y \in S : z \in Nat /\ y \in Nat /\ z >= y
  BY <1>4
<1>7. Max(S) \in S /\ \A y \in S : Max(S) >= y
  BY <1>6 DEF Max
<1> QED
  BY <1>5, <1>7

----------------------------------------------------------------------------
(* Pages.                                                                  *)
LEMMA Division ==
  ASSUME NEW n \in Nat, NEW d \in Nat \ {0}
  PROVE  n \div d \in Nat /\ (n \div d) * d <= n /\ n < (n \div d) * d + d
  OBVIOUS

LEMMA Multiples ==
  ASSUME NEW a \in Nat, NEW b \in Nat, NEW d \in Nat \ {0}
  PROVE  (a * d < b * d + d <=> a <= b) /\ a * d \in Nat
  OBVIOUS

(* ALIGN_MEM rounds up to a page and no further.                           *)
LEMMA AlignUpIs ==
  ASSUME NEW n \in Nat
  PROVE  /\ AlignUp(n) \in Nat /\ n <= AlignUp(n) /\ AlignUp(n) < n + PAGE
         /\ AlignUp(n) \div PAGE = (n + PAGE - 1) \div PAGE
<1> DEFINE k == n + PAGE - 1
           q == k \div PAGE
<1>1. PAGE \in Nat \ {0} /\ k \in Nat
  BY LoaderAssumption
<1>2. q \in Nat /\ q * PAGE <= k /\ k < q * PAGE + PAGE /\ q * PAGE \in Nat
  BY <1>1, Division, Multiples
<1>3. AlignUp(n) = q * PAGE
  BY DEF AlignUp
<1>4. AlignUp(n) \in Nat /\ n <= AlignUp(n) /\ AlignUp(n) < n + PAGE
  <2> HIDE DEF q
  <2>1. k = n + PAGE - 1
    OBVIOUS
  <2> HIDE DEF k
  <2> QED
    BY <1>1, <1>2, <1>3, <2>1
<1>5. (q * PAGE) \div PAGE = q
  <2> DEFINE r == (q * PAGE) \div PAGE
  <2>1. r \in Nat /\ r * PAGE <= q * PAGE /\ q * PAGE < r * PAGE + PAGE
    BY <1>1, <1>2, Division
  <2> HIDE DEF r, q
  <2>2. r * PAGE < q * PAGE + PAGE
    <3>1. r * PAGE \in Nat /\ q * PAGE \in Nat
      BY <1>1, <1>2, <2>1, Multiples
    <3> QED
      BY <1>1, <2>1, <3>1
  <2>3. r <= q /\ q <= r
    BY <1>1, <1>2, <2>1, <2>2, Multiples
  <2>4. r = q
    BY <1>2, <2>1, <2>3
  <2> QED
    BY <2>4 DEF r
<1> QED
  BY <1>3, <1>4, <1>5

LEMMA Segments ==
  ASSUME NEW f \in Files
  PROVE  /\ IsFiniteSet(DOMAIN f.segments)
         /\ \A s \in DOMAIN f.segments :
              f.segments[s].vaddr \in Nat /\ f.segments[s].memsz \in Nat \ {0}
<1> DEFINE seg == f.segments
           R == [vaddr : Nat, memsz : Nat \ {0}, x : BOOLEAN]
<1>1. seg \in Seq(R)
  BY LoaderAssumption DEF IsLibrary
<1>2. DOMAIN seg = 1..Len(seg) /\ Len(seg) \in Nat /\ \A s \in DOMAIN seg : seg[s] \in R
  <2> HIDE DEF R, seg
  <2> QED
    BY <1>1
<1>3. IsFiniteSet(DOMAIN seg)
  BY <1>2, FS_Interval
<1> HIDE DEF seg
<1>4. \A s \in DOMAIN seg : seg[s].vaddr \in Nat /\ seg[s].memsz \in Nat \ {0}
  BY <1>2
<1> QED
  BY <1>3, <1>4 DEF seg

(* The size of a library's image is a number.                              *)
LEMMA LoadSizeIsNat ==
  ASSUME NEW f \in Files
  PROVE  LoadSize(f) \in Nat
<1> DEFINE end == [s \in DOMAIN f.segments |-> f.segments[s].vaddr + f.segments[s].memsz]
<1>3. end \in Surjection(DOMAIN f.segments, Ends(f))
  BY DEF Surjection, Ends
<1>4. IsFiniteSet(Ends(f))
  BY <1>3, Segments, FS_Surjection
<1>5. Ends(f) \subseteq Nat
  BY Segments DEF Ends
<1>6. IsFiniteSet(Ends(f) \cup {0}) /\ Ends(f) \cup {0} \in SUBSET Nat
  BY <1>4, <1>5, FS_AddElement
<1>7. Max(Ends(f) \cup {0}) \in Nat
  BY <1>6, FiniteMinMax
<1> QED
  BY <1>7, AlignUpIs DEF LoadSize

(* A page is marked for execution if a word of it is code.                 *)
LEMMA PageOfCode ==
  ASSUME NEW v \in Nat, NEW n \in Nat \ {0}, NEW p \in Nat
  PROVE  (v \div PAGE <= p /\ p <= AlignUp(v + n) \div PAGE - 1)
           <=> \E w \in (p * PAGE)..(p * PAGE + PAGE - 1) : v <= w /\ w < v + n
<1> DEFINE b == p * PAGE
           q == v \div PAGE
           k == v + n + PAGE - 1
           r == k \div PAGE
<1>1. PAGE \in Nat \ {0} /\ k \in Nat /\ v + n \in Nat
  BY LoaderAssumption
<1>2. b \in Nat /\ (p + 1) * PAGE = b + PAGE
  BY <1>1
<1>3. q \in Nat /\ q * PAGE <= v /\ v < q * PAGE + PAGE /\ q * PAGE \in Nat
  BY <1>1, Division, Multiples
<1>4. r \in Nat /\ r * PAGE <= k /\ k < r * PAGE + PAGE /\ r * PAGE \in Nat
  BY <1>1, Division, Multiples
<1>5. AlignUp(v + n) \div PAGE = r
  BY <1>1, AlignUpIs
<1>6. q <= p <=> v < b + PAGE
  <2>1. q <= p <=> q * PAGE < b + PAGE
    BY <1>1, <1>3, Multiples
  <2>2. p < q <=> b + PAGE <= q * PAGE
    BY <1>1, <1>2, <1>3, <2>1
  <2> HIDE DEF b, q
  <2>3. ASSUME q <= p PROVE v < b + PAGE
    <3>1. q * PAGE <= b
      BY <1>1, <1>3, <2>3 DEF b
    <3> QED
      BY <1>1, <1>2, <1>3, <3>1
  <2>4. ASSUME p < q PROVE ~(v < b + PAGE)
    BY <1>1, <1>2, <1>3, <2>2, <2>4
  <2> QED
    BY <1>3, <2>3, <2>4
<1>7. p <= r - 1 <=> b < v + n
  <2>1. p + 1 <= r <=> (p + 1) * PAGE < r * PAGE + PAGE
    BY <1>1, <1>4, Multiples
  <2>2. k = v + n + PAGE - 1
    OBVIOUS
  <2> HIDE DEF b, r, k
  <2>3. ASSUME p + 1 <= r PROVE b < v + n
    <3>1. (p + 1) * PAGE <= r * PAGE
      BY <1>1, <1>4, <2>3
    <3> QED
      BY <1>1, <1>2, <1>4, <2>2, <3>1
  <2>4. ASSUME b < v + n PROVE p + 1 <= r
    <3>1. b + PAGE < r * PAGE + PAGE
      BY <1>1, <1>2, <1>4, <2>2, <2>4
    <3> QED
      BY <1>2, <2>1, <3>1
  <2> QED
    BY <1>4, <2>3, <2>4
<1>8. (v < b + PAGE /\ b < v + n) <=> \E w \in b..(b + PAGE - 1) : v <= w /\ w < v + n
  <2> HIDE DEF b
  <2>1. ASSUME v < b + PAGE, b < v + n
        PROVE  \E w \in b..(b + PAGE - 1) : v <= w /\ w < v + n
    <3>1. CASE v <= b
      BY <1>1, <1>2, <2>1, <3>1
    <3>2. CASE b < v
      BY <1>1, <1>2, <2>1, <3>2
    <3> QED
      BY <1>2, <3>1, <3>2
  <2>2. ASSUME NEW w \in b..(b + PAGE - 1), v <= w, w < v + n
        PROVE  v < b + PAGE /\ b < v + n
    BY <1>1, <1>2, <2>2
  <2> QED
    BY <2>1, <2>2
<1> QED
  BY <1>5, <1>6, <1>7, <1>8

LEMMA CodePages ==
  ASSUME NEW m \in Mods, file \in [Mods -> Files], NEW p \in Nat
  PROVE  IsX(m, p) <=> HasCode(file[m], p)
<1> DEFINE f == file[m]
<1>1. f \in Files
  OBVIOUS
<1>3. \A s \in DOMAIN f.segments :
        f.segments[s].vaddr \in Nat /\ f.segments[s].memsz \in Nat \ {0}
  BY <1>1, Segments
<1> HIDE DEF f
<1>4. \A s \in DOMAIN f.segments :
        (/\ f.segments[s].vaddr \div PAGE <= p
         /\ p <= AlignUp(f.segments[s].vaddr + f.segments[s].memsz) \div PAGE - 1)
        <=> \E w \in (p * PAGE)..(p * PAGE + PAGE - 1) :
              /\ f.segments[s].vaddr <= w
              /\ w < f.segments[s].vaddr + f.segments[s].memsz
  BY <1>3, PageOfCode
<1>5. IsX(m, p) <=> \E s \in DOMAIN f.segments :
        /\ f.segments[s].x
        /\ f.segments[s].vaddr \div PAGE <= p
        /\ p <= AlignUp(f.segments[s].vaddr + f.segments[s].memsz) \div PAGE - 1
  BY DEF IsX, f
<1> QED
  BY <1>4, <1>5 DEF HasCode, f

----------------------------------------------------------------------------
(* Packed relative relocations.                                            *)
Packed(relr, from) ==
    /\ DOMAIN relr = 1..Len(relr) /\ Len(relr) \in Nat
    /\ from \in [DOMAIN relr -> Nat]
    /\ \A k \in DOMAIN relr : IsAddress(relr[k]) => relr[k].addr \in Nat
    /\ Packing(relr, from)

LEMMA LibraryIsPacked ==
  ASSUME NEW f \in Files
  PROVE  \E from : /\ Packed(f.relr, from)
                   /\ f.packed = UNION {Words(f.relr[k], from[k]) : k \in DOMAIN f.relr}
<1>1. /\ f.relr \in Seq([addr : Nat] \cup [bits : SUBSET (1..BITS)])
      /\ IsPacked(f, LoadSize(f))
  BY LoaderAssumption DEF IsLibrary
<1>2. DOMAIN f.relr = 1..Len(f.relr) /\ Len(f.relr) \in Nat
  BY <1>1
<1>3. PICK from \in [DOMAIN f.relr -> 0..LoadSize(f)] :
        /\ Packing(f.relr, from)
        /\ f.packed = UNION {Words(f.relr[k], from[k]) : k \in DOMAIN f.relr}
  BY <1>1 DEF IsPacked
<1>4. from \in [DOMAIN f.relr -> Nat]
  BY <1>3, LoadSizeIsNat
<1>5. \A k \in DOMAIN f.relr : IsAddress(f.relr[k]) => f.relr[k].addr \in Nat
  BY <1>3, <1>4 DEF Packing
<1> QED
  BY <1>2, <1>3, <1>4, <1>5 DEF Packed

(* The loop over the entries is at the word each bitmap is about.          *)
LEMMA WhereBitmapsAre ==
  ASSUME NEW relr, NEW from, Packed(relr, from)
  PROVE  \A k \in DOMAIN relr : ~IsAddress(relr[k]) => Where(relr)[k] = from[k]
<1> DEFINE n == Len(relr)
           body(g) == [k \in 1..(n + 1) |->
                         IF k = 1 THEN 0
                         ELSE IF IsAddress(relr[k - 1])
                              THEN AfterAddress(relr[k - 1].addr)
                              ELSE g[k - 1] + BITS]
           W == Where(relr)
<1>1. W = CHOOSE g : g = body(g)
  BY DEF Where
<1>2. n \in Nat /\ DOMAIN relr = 1..n /\ \A k \in 1..n : from[k] \in Nat
  BY DEF Packed
<1>3. \A k \in 1..n : ~IsAddress(relr[k]) =>
         k > 1 /\ from[k] = from[k - 1] + Span(relr[k - 1])
  BY <1>2 DEF Packed, Packing
<1>4. \E g : g = body(g)
  <2> DEFINE h == [k \in 1..(n + 1) |->
                     IF k = 1 THEN 0
                     ELSE IF IsAddress(relr[k - 1])
                          THEN AfterAddress(relr[k - 1].addr)
                          ELSE from[k - 1] + BITS]
  <2>1. ASSUME NEW k \in 1..(n + 1), k # 1, ~IsAddress(relr[k - 1])
        PROVE  from[k - 1] + BITS = h[k - 1] + BITS
    <3>1. k - 1 \in 1..n /\ k - 1 > 1 /\ k - 2 \in 1..n
          /\ from[k - 1] = from[k - 2] + Span(relr[k - 2])
      BY <1>2, <1>3, <2>1
    <3>2. CASE IsAddress(relr[k - 2])
      <4>1. h[k - 1] = relr[k - 2].addr + 1
        BY <1>2, <3>1, <3>2 DEF AfterAddress
      <4>2. relr[k - 2].addr = from[k - 2]
        BY <1>2, <3>1, <3>2 DEF Packed, Packing
      <4> QED
        BY <3>1, <3>2, <4>1, <4>2 DEF Span
    <3>3. CASE ~IsAddress(relr[k - 2])
      BY <1>2, <3>1, <3>3 DEF Span
    <3> QED
      BY <3>2, <3>3
  <2>2. h = body(h)
    BY <2>1
  <2> QED
    BY <2>2
<1>5. W = body(W)
  BY <1>1, <1>4
<1> HIDE DEF W
<1> DEFINE Bad == {k \in 1..n : ~IsAddress(relr[k]) /\ W[k] # from[k]}
<1>6. Bad = {}
  <2> SUFFICES ASSUME Bad # {} PROVE FALSE
    OBVIOUS
  <2>1. Bad \in SUBSET Nat /\ IsFiniteSet(Bad)
    <3>1. IsFiniteSet(1..n)
      BY <1>2, FS_Interval
    <3> QED
      BY <1>2, <3>1, FS_Subset
  <2>2. PICK k \in Bad : \A j \in Bad : k <= j
    BY <2>1, FiniteMinMax
  <2>3. /\ k \in 1..n /\ ~IsAddress(relr[k]) /\ W[k] # from[k]
        /\ k > 1 /\ from[k] = from[k - 1] + Span(relr[k - 1])
    BY <1>3
  <2>4. k - 1 \in 1..n /\ k - 1 \notin Bad
    BY <1>2, <2>2, <2>3
  <2>5. W[k] = IF IsAddress(relr[k - 1]) THEN AfterAddress(relr[k - 1].addr)
               ELSE W[k - 1] + BITS
    BY <1>2, <1>5, <2>3
  <2>6. CASE IsAddress(relr[k - 1])
    <3>1. relr[k - 1].addr = from[k - 1]
      BY <1>2, <2>4, <2>6 DEF Packed, Packing
    <3> QED
      BY <2>3, <2>5, <2>6, <3>1 DEF AfterAddress, Span
  <2>7. CASE ~IsAddress(relr[k - 1])
    <3>1. W[k - 1] = from[k - 1]
      BY <2>4, <2>7
    <3> QED
      BY <2>3, <2>5, <2>7, <3>1 DEF Span
  <2> QED
    BY <2>6, <2>7
<1> QED
  BY <1>2, <1>6 DEF W

(* What an entry covers lies before every later entry.                     *)
LEMMA EntriesAscend ==
  ASSUME NEW relr, NEW from, Packed(relr, from), NEW j \in DOMAIN relr
  PROVE  \A k \in DOMAIN relr : j < k => from[j] + Span(relr[j]) <= from[k]
<1> DEFINE n == Len(relr)
           Bad == {k \in 1..n : j < k /\ ~(from[j] + Span(relr[j]) <= from[k])}
<1>1. n \in Nat /\ DOMAIN relr = 1..n /\ \A k \in 1..n : from[k] \in Nat
  BY DEF Packed
<1>2. \A k \in 1..n : Span(relr[k]) \in Nat
  BY LoaderAssumption DEF Span
<1>3. \A k \in 1..n : k > 1 => from[k - 1] + Span(relr[k - 1]) <= from[k]
  BY <1>1 DEF Packed, Packing
<1>4. Bad = {}
  <2> SUFFICES ASSUME Bad # {} PROVE FALSE
    OBVIOUS
  <2>1. Bad \in SUBSET Nat /\ IsFiniteSet(Bad)
    <3>1. IsFiniteSet(1..n)
      BY <1>1, FS_Interval
    <3> QED
      BY <1>1, <3>1, FS_Subset
  <2>2. PICK k \in Bad : \A i \in Bad : k <= i
    BY <2>1, FiniteMinMax
  <2>3. k \in 1..n /\ j < k /\ ~(from[j] + Span(relr[j]) <= from[k]) /\ j \in 1..n
    BY <1>1
  <2>4. k - 1 \in 1..n /\ k - 1 \notin Bad /\ k > 1 /\ (j = k - 1 \/ j < k - 1)
    BY <1>1, <2>2, <2>3
  <2>5. CASE j = k - 1
    BY <1>3, <2>3, <2>4, <2>5
  <2>6. CASE j < k - 1
    <3>1. from[j] + Span(relr[j]) <= from[k - 1]
      BY <2>4, <2>6
    <3>2. from[k - 1] + Span(relr[k - 1]) <= from[k]
      BY <1>3, <2>3, <2>4
    <3>3. /\ from[j] \in Nat /\ from[k - 1] \in Nat /\ from[k] \in Nat
          /\ Span(relr[j]) \in Nat /\ Span(relr[k - 1]) \in Nat
      BY <1>1, <1>2, <2>3, <2>4
    <3>4. from[j] + Span(relr[j]) <= from[k]
      BY <3>1, <3>2, <3>3
    <3> QED
      BY <2>3, <3>4
  <2> QED
    BY <2>4, <2>5, <2>6
<1> QED
  BY <1>1, <1>4

(* No two entries are about one word.                                      *)
LEMMA OneEntryPerWord ==
  ASSUME NEW relr, NEW from, Packed(relr, from),
         NEW j \in DOMAIN relr, NEW k \in DOMAIN relr,
         NEW w, w \in Words(relr[j], from[j]), w \in Words(relr[k], from[k])
  PROVE  j = k
<1>1. \A i \in DOMAIN relr : Span(relr[i]) \in Nat /\ from[i] \in Nat /\ i \in Nat
  BY LoaderAssumption DEF Span, Packed
<1>2. ASSUME NEW i \in DOMAIN relr, w \in Words(relr[i], from[i])
      PROVE  w \in Nat /\ from[i] <= w /\ w < from[i] + Span(relr[i])
  <2>1. CASE IsAddress(relr[i])
    BY <1>1, <1>2, <2>1 DEF Words, Span
  <2>2. CASE ~IsAddress(relr[i])
    <3>1. PICK bit \in relr[i].bits : w = from[i] + bit - 1
      BY <1>2, <2>2 DEF Words
    <3>2. bit \in 1..BITS
      BY <2>2 DEF Packed, Packing
    <3> QED
      BY <1>1, <2>2, <3>1, <3>2, LoaderAssumption DEF Span
  <2> QED
    BY <2>1, <2>2
<1>3. w \in Nat /\ from[j] <= w /\ w < from[j] + Span(relr[j])
      /\ from[k] <= w /\ w < from[k] + Span(relr[k])
  BY <1>2
<1>4. /\ j < k => from[j] + Span(relr[j]) <= from[k]
      /\ k < j => from[k] + Span(relr[k]) <= from[j]
  BY EntriesAscend
<1> QED
  BY <1>1, <1>3, <1>4

(* The base is added once to each word the linker packed, and to no other. *)
LEMMA AddedOnce ==
  ASSUME NEW f \in Files, NEW w
  PROVE  Cardinality({k \in DOMAIN f.relr : Adds(f.relr, k, w)})
           = IF w \in f.packed THEN 1 ELSE 0
<1> DEFINE relr == f.relr
           A == {k \in DOMAIN relr : Adds(relr, k, w)}
<1>1. PICK from : /\ Packed(relr, from)
                  /\ f.packed = UNION {Words(relr[k], from[k]) : k \in DOMAIN relr}
  BY LibraryIsPacked
<1>2. \A k \in DOMAIN relr : Adds(relr, k, w) <=> w \in Words(relr[k], from[k])
  <2> SUFFICES ASSUME NEW k \in DOMAIN relr
               PROVE  Adds(relr, k, w) <=> w \in Words(relr[k], from[k])
    OBVIOUS
  <2>1. CASE IsAddress(relr[k])
    <3>1. relr[k].addr = from[k]
      BY <1>1, <2>1 DEF Packed, Packing
    <3> QED
      BY <2>1, <3>1 DEF Adds, Words
  <2>2. CASE ~IsAddress(relr[k])
    <3>1. Where(relr)[k] = from[k]
      BY <1>1, <2>2, WhereBitmapsAre
    <3> QED
      BY <2>2, <3>1 DEF Adds, Words
  <2> QED
    BY <2>1, <2>2
<1>3. w \in f.packed <=> A # {}
  BY <1>1, <1>2
<1>4. \A j, k \in A : j = k
  BY <1>1, <1>2, OneEntryPerWord
<1> HIDE DEF A
<1>5. CASE A = {}
  BY <1>3, <1>5, FS_EmptySet DEF A
<1>6. CASE A # {}
  <2>1. PICK k : A = {k}
    BY <1>4, <1>6
  <2>2. Cardinality(A) = 1
    BY <2>1, FS_Singleton
  <2> QED
    BY <1>3, <1>6, <2>2 DEF A
<1> QED
  BY <1>5, <1>6

----------------------------------------------------------------------------
(* main's calls.                                                           *)
Made(n, call, m) == \E k \in 1..n : Order[k] = <<call, m>>

LEMMA OrderIs ==
    /\ Len(Order) = 18
    /\ Order[1] = <<"load", "cxx">>
    /\ Order[2] = <<"load", "game">>
    /\ Order[3] = <<"relocate", "cxx">>
    /\ Order[4] = <<"resolve", "cxx">>
    /\ Order[5] = <<"relocate", "game">>
    /\ Order[6] = <<"resolve", "game">>
    /\ Order[7] = <<"entry", "game">>
    /\ Order[8] = <<"map", "cxx">>
    /\ Order[9] = <<"protect", "cxx">>
    /\ Order[10] = <<"map", "game">>
    /\ Order[11] = <<"protect", "game">>
    /\ Order[12] = <<"flush", "cxx">>
    /\ Order[13] = <<"flush", "game">>
    /\ Order[14] = <<"guard", "game">>
    /\ Order[15] = <<"init", "cxx">>
    /\ Order[16] = <<"init", "game">>
    /\ Order[17] = <<"free", "cxx">>
    /\ Order[18] = <<"free", "game">>
  BY DEF Order

(* Each call has one place in the order.                                   *)
LEMMA PlaceOf ==
  ASSUME NEW k \in 1..18
  PROVE
    /\ Order[k] = <<"load", "cxx">> <=> k = 1
    /\ Order[k] = <<"load", "game">> <=> k = 2
    /\ Order[k] = <<"relocate", "cxx">> <=> k = 3
    /\ Order[k] = <<"resolve", "cxx">> <=> k = 4
    /\ Order[k] = <<"relocate", "game">> <=> k = 5
    /\ Order[k] = <<"resolve", "game">> <=> k = 6
    /\ Order[k] = <<"entry", "game">> <=> k = 7
    /\ Order[k] = <<"map", "cxx">> <=> k = 8
    /\ Order[k] = <<"protect", "cxx">> <=> k = 9
    /\ Order[k] = <<"map", "game">> <=> k = 10
    /\ Order[k] = <<"protect", "game">> <=> k = 11
    /\ Order[k] = <<"flush", "cxx">> <=> k = 12
    /\ Order[k] = <<"flush", "game">> <=> k = 13
    /\ Order[k] = <<"guard", "game">> <=> k = 14
    /\ Order[k] = <<"init", "cxx">> <=> k = 15
    /\ Order[k] = <<"init", "game">> <=> k = 16
    /\ Order[k] = <<"free", "cxx">> <=> k = 17
    /\ Order[k] = <<"free", "game">> <=> k = 18
    /\ Order[k] # <<"entry", "cxx">>
<1>1. k \in {1, 2, 3, 4, 5, 6, 7, 8, 9, 10, 11, 12, 13, 14, 15, 16,
           17, 18}
  OBVIOUS
<1> QED
  BY <1>1, OrderIs

LEMMA MadeFrom ==
  ASSUME NEW n \in 0..18, NEW i \in 1..18, NEW call, NEW m, Order[i] = <<call, m>>
  PROVE  Made(n, call, m) <=> i <= n
<1>1. \A k \in 1..18 : Order[k] = Order[i] => k = i
  <2>1. i \in {1, 2, 3, 4, 5, 6, 7, 8, 9, 10, 11, 12, 13, 14, 15, 16,
           17, 18}
    OBVIOUS
  <2> QED
    BY <2>1, OrderIs, PlaceOf
<1>2. \A k \in 1..n : k \in 1..18
  OBVIOUS
<1>3. i <= n => i \in 1..n
  OBVIOUS
<1> QED
  BY <1>1, <1>2, <1>3 DEF Made

LEMMA MadeBy ==
  ASSUME NEW n \in 0..18
  PROVE
    /\ Made(n, "load", "cxx") <=> 1 <= n
    /\ Made(n, "load", "game") <=> 2 <= n
    /\ Made(n, "relocate", "cxx") <=> 3 <= n
    /\ Made(n, "resolve", "cxx") <=> 4 <= n
    /\ Made(n, "relocate", "game") <=> 5 <= n
    /\ Made(n, "resolve", "game") <=> 6 <= n
    /\ Made(n, "entry", "game") <=> 7 <= n
    /\ Made(n, "map", "cxx") <=> 8 <= n
    /\ Made(n, "protect", "cxx") <=> 9 <= n
    /\ Made(n, "map", "game") <=> 10 <= n
    /\ Made(n, "protect", "game") <=> 11 <= n
    /\ Made(n, "flush", "cxx") <=> 12 <= n
    /\ Made(n, "flush", "game") <=> 13 <= n
    /\ Made(n, "guard", "game") <=> 14 <= n
    /\ Made(n, "init", "cxx") <=> 15 <= n
    /\ Made(n, "init", "game") <=> 16 <= n
    /\ Made(n, "free", "cxx") <=> 17 <= n
    /\ Made(n, "free", "game") <=> 18 <= n
<1>1. Made(n, "load", "cxx") <=> 1 <= n
  BY OrderIs, MadeFrom, 1 \in 1..18
<1>2. Made(n, "load", "game") <=> 2 <= n
  BY OrderIs, MadeFrom, 2 \in 1..18
<1>3. Made(n, "relocate", "cxx") <=> 3 <= n
  BY OrderIs, MadeFrom, 3 \in 1..18
<1>4. Made(n, "resolve", "cxx") <=> 4 <= n
  BY OrderIs, MadeFrom, 4 \in 1..18
<1>5. Made(n, "relocate", "game") <=> 5 <= n
  BY OrderIs, MadeFrom, 5 \in 1..18
<1>6. Made(n, "resolve", "game") <=> 6 <= n
  BY OrderIs, MadeFrom, 6 \in 1..18
<1>7. Made(n, "entry", "game") <=> 7 <= n
  BY OrderIs, MadeFrom, 7 \in 1..18
<1>8. Made(n, "map", "cxx") <=> 8 <= n
  BY OrderIs, MadeFrom, 8 \in 1..18
<1>9. Made(n, "protect", "cxx") <=> 9 <= n
  BY OrderIs, MadeFrom, 9 \in 1..18
<1>10. Made(n, "map", "game") <=> 10 <= n
  BY OrderIs, MadeFrom, 10 \in 1..18
<1>11. Made(n, "protect", "game") <=> 11 <= n
  BY OrderIs, MadeFrom, 11 \in 1..18
<1>12. Made(n, "flush", "cxx") <=> 12 <= n
  BY OrderIs, MadeFrom, 12 \in 1..18
<1>13. Made(n, "flush", "game") <=> 13 <= n
  BY OrderIs, MadeFrom, 13 \in 1..18
<1>14. Made(n, "guard", "game") <=> 14 <= n
  BY OrderIs, MadeFrom, 14 \in 1..18
<1>15. Made(n, "init", "cxx") <=> 15 <= n
  BY OrderIs, MadeFrom, 15 \in 1..18
<1>16. Made(n, "init", "game") <=> 16 <= n
  BY OrderIs, MadeFrom, 16 \in 1..18
<1>17. Made(n, "free", "cxx") <=> 17 <= n
  BY OrderIs, MadeFrom, 17 \in 1..18
<1>18. Made(n, "free", "game") <=> 18 <= n
  BY OrderIs, MadeFrom, 18 \in 1..18
<1> QED
  BY <1>1, <1>2, <1>3, <1>4, <1>5, <1>6, <1>7, <1>8,
     <1>9, <1>10, <1>11, <1>12, <1>13, <1>14, <1>15, <1>16,
     <1>17, <1>18

LEMMA CalledBy ==
  ASSUME step \in 0..18
  PROVE
    /\ Called("load", "cxx") <=> 1 <= step
    /\ Called("load", "game") <=> 2 <= step
    /\ Called("relocate", "cxx") <=> 3 <= step
    /\ Called("resolve", "cxx") <=> 4 <= step
    /\ Called("relocate", "game") <=> 5 <= step
    /\ Called("resolve", "game") <=> 6 <= step
    /\ Called("entry", "game") <=> 7 <= step
    /\ Called("map", "cxx") <=> 8 <= step
    /\ Called("protect", "cxx") <=> 9 <= step
    /\ Called("map", "game") <=> 10 <= step
    /\ Called("protect", "game") <=> 11 <= step
    /\ Called("flush", "cxx") <=> 12 <= step
    /\ Called("flush", "game") <=> 13 <= step
    /\ Called("guard", "game") <=> 14 <= step
    /\ Called("init", "cxx") <=> 15 <= step
    /\ Called("init", "game") <=> 16 <= step
    /\ Called("free", "cxx") <=> 17 <= step
    /\ Called("free", "game") <=> 18 <= step
<1>1. \A call, m : Called(call, m) <=> Made(step, call, m)
  BY DEF Called, Made
<1> QED
  BY <1>1, MadeBy

(* Main is at a call when it made those before it in the order.            *)
LEMMA PlaceAt ==
  ASSUME step \in 0..18, NEW i \in 1..18, NEW call, NEW m, Order[i] = <<call, m>>
  PROVE  At(call, m) <=> ~failed /\ step = i - 1
<1>1. \A k \in 1..18 : Order[k] = Order[i] => k = i
  <2>1. i \in {1, 2, 3, 4, 5, 6, 7, 8, 9, 10, 11, 12, 13, 14, 15, 16,
           17, 18}
    OBVIOUS
  <2> QED
    BY <2>1, OrderIs, PlaceOf
<1>2. step < Len(Order) => step + 1 \in 1..18
  BY OrderIs
<1>3. step = i - 1 => step < Len(Order) /\ step + 1 = i
  BY OrderIs
<1>4. step + 1 = i => step = i - 1
  OBVIOUS
<1> QED
  BY <1>1, <1>2, <1>3, <1>4 DEF At

LEMMA AtBy ==
  ASSUME step \in 0..18
  PROVE
    /\ At("load", "cxx") <=> ~failed /\ step = 0
    /\ At("load", "game") <=> ~failed /\ step = 1
    /\ At("relocate", "cxx") <=> ~failed /\ step = 2
    /\ At("resolve", "cxx") <=> ~failed /\ step = 3
    /\ At("relocate", "game") <=> ~failed /\ step = 4
    /\ At("resolve", "game") <=> ~failed /\ step = 5
    /\ At("entry", "game") <=> ~failed /\ step = 6
    /\ At("map", "cxx") <=> ~failed /\ step = 7
    /\ At("protect", "cxx") <=> ~failed /\ step = 8
    /\ At("map", "game") <=> ~failed /\ step = 9
    /\ At("protect", "game") <=> ~failed /\ step = 10
    /\ At("flush", "cxx") <=> ~failed /\ step = 11
    /\ At("flush", "game") <=> ~failed /\ step = 12
    /\ At("guard", "game") <=> ~failed /\ step = 13
    /\ At("init", "cxx") <=> ~failed /\ step = 14
    /\ At("init", "game") <=> ~failed /\ step = 15
    /\ At("free", "cxx") <=> ~failed /\ step = 16
    /\ At("free", "game") <=> ~failed /\ step = 17
    /\ ~At("entry", "cxx")
<1>1. At("load", "cxx") <=> ~failed /\ step = 0
  BY OrderIs, PlaceAt, 1 \in 1..18, 1 - 1 = 0
<1>2. At("load", "game") <=> ~failed /\ step = 1
  BY OrderIs, PlaceAt, 2 \in 1..18, 2 - 1 = 1
<1>3. At("relocate", "cxx") <=> ~failed /\ step = 2
  BY OrderIs, PlaceAt, 3 \in 1..18, 3 - 1 = 2
<1>4. At("resolve", "cxx") <=> ~failed /\ step = 3
  BY OrderIs, PlaceAt, 4 \in 1..18, 4 - 1 = 3
<1>5. At("relocate", "game") <=> ~failed /\ step = 4
  BY OrderIs, PlaceAt, 5 \in 1..18, 5 - 1 = 4
<1>6. At("resolve", "game") <=> ~failed /\ step = 5
  BY OrderIs, PlaceAt, 6 \in 1..18, 6 - 1 = 5
<1>7. At("entry", "game") <=> ~failed /\ step = 6
  BY OrderIs, PlaceAt, 7 \in 1..18, 7 - 1 = 6
<1>8. At("map", "cxx") <=> ~failed /\ step = 7
  BY OrderIs, PlaceAt, 8 \in 1..18, 8 - 1 = 7
<1>9. At("protect", "cxx") <=> ~failed /\ step = 8
  BY OrderIs, PlaceAt, 9 \in 1..18, 9 - 1 = 8
<1>10. At("map", "game") <=> ~failed /\ step = 9
  BY OrderIs, PlaceAt, 10 \in 1..18, 10 - 1 = 9
<1>11. At("protect", "game") <=> ~failed /\ step = 10
  BY OrderIs, PlaceAt, 11 \in 1..18, 11 - 1 = 10
<1>12. At("flush", "cxx") <=> ~failed /\ step = 11
  BY OrderIs, PlaceAt, 12 \in 1..18, 12 - 1 = 11
<1>13. At("flush", "game") <=> ~failed /\ step = 12
  BY OrderIs, PlaceAt, 13 \in 1..18, 13 - 1 = 12
<1>14. At("guard", "game") <=> ~failed /\ step = 13
  BY OrderIs, PlaceAt, 14 \in 1..18, 14 - 1 = 13
<1>15. At("init", "cxx") <=> ~failed /\ step = 14
  BY OrderIs, PlaceAt, 15 \in 1..18, 15 - 1 = 14
<1>16. At("init", "game") <=> ~failed /\ step = 15
  BY OrderIs, PlaceAt, 16 \in 1..18, 16 - 1 = 15
<1>17. At("free", "cxx") <=> ~failed /\ step = 16
  BY OrderIs, PlaceAt, 17 \in 1..18, 17 - 1 = 16
<1>18. At("free", "game") <=> ~failed /\ step = 17
  BY OrderIs, PlaceAt, 18 \in 1..18, 18 - 1 = 17
<1>19. ~At("entry", "cxx")
  <2>1. step < Len(Order) => step + 1 \in 1..18
    BY OrderIs
  <2> QED
    BY <2>1, PlaceOf DEF At
<1> QED
  BY <1>1, <1>2, <1>3, <1>4, <1>5, <1>6, <1>7, <1>8, <1>9, <1>10, <1>11,
     <1>12, <1>13, <1>14, <1>15, <1>16, <1>17, <1>18, <1>19

(* A call that returns has been made; no other has. *)
LEMMA OneCallMore ==
  ASSUME step \in 0..18, NEW c, NEW o, At(c, o), Done
  PROVE  /\ step' \in 0..18
         /\ \A call, m : Called(call, m)' <=> Called(call, m) \/ (call = c /\ m = o)
<1>1. step < 18 /\ Order[step + 1] = <<c, o>> /\ step' = step + 1
  BY OrderIs DEF At, Done
<1>2. 1..step' = (1..step) \cup {step + 1}
  BY <1>1
<1>3. \A call, m : (Order[step + 1] = <<call, m>>) <=> (call = c /\ m = o)
  BY <1>1
<1> QED
  BY <1>1, <1>2, <1>3 DEF Called

LEMMA NoCallMore ==
  ASSUME UNCHANGED step
  PROVE  \A call, m : Called(call, m)' <=> Called(call, m)
  BY DEF Called

(* What main has called by the time it is at a call. *)
LEMMA CallsBefore ==
  ASSUME step \in 0..18, NEW m \in Mods
  PROVE
    /\ At("load", m) => ~Called("load", m) /\ ~Called("load", "game")
    /\ At("load", "game") => Called("load", "cxx")
    /\ At("relocate", m) => ~Called("relocate", m) /\ ~Called("resolve", m)
    /\ At("resolve", m) =>
         Called("relocate", m) /\ ~Called("resolve", m) /\ Called("load", "game")
    /\ At("map", m) => ~Called("map", m) /\ ~Called("protect", m)
    /\ At("protect", m) => Called("map", m) /\ ~Called("protect", m)
    /\ At("map", m) \/ At("protect", m) =>
         \A o \in Mods \ {m} : Called("map", o) => Called("protect", o)
    /\ At("init", m) => ~Called("init", m) /\ ~Called("init", "game")
    /\ At("init", "game") => Called("init", "cxx")
    /\ Called("init", m) \/ At("init", m) =>
         \A o \in Mods : Called("resolve", o) /\ Called("protect", o)
    /\ Called("load", "game") => Called("load", "cxx")
    /\ Called("init", "game") => Called("init", "cxx")
    /\ Called("resolve", m) => Called("relocate", m)
    /\ Called("protect", m) => Called("map", m)
<1>1. m = "cxx" \/ m = "game"
  BY DEF Mods
<1>2. \A o \in Mods : o = "cxx" \/ o = "game"
  BY DEF Mods
<1> QED
  BY <1>1, <1>2, CalledBy, AtBy

(* Where the modules are at each call. *)
LEMMA MemoryBefore ==
  ASSUME step \in 0..18, NEW m \in Mods
  PROVE
    /\ At("load", m) => ~Called("free", m)
    /\ \A call \in NeedsHeaders :
         At(call, m) => Called("load", m) /\ ~Called("free", m)
    /\ At("relocate", m) \/ At("entry", m) \/ At("map", m) =>
         Called("load", m) /\ ~Called("map", m)
    /\ At("resolve", m) => \A o \in Mods : Called("load", o) /\ ~Called("map", o)
    /\ \A call \in NeedsCode : At(call, m) => Called("map", m)
    /\ Called("init", m) =>
         Called("guard", "game") /\ \A o \in Mods : Called("flush", o)
<1>1. m = "cxx" \/ m = "game"
  BY DEF Mods
<1>2. \A o \in Mods : o = "cxx" \/ o = "game"
  BY DEF Mods
<1> QED
  BY <1>1, <1>2, CalledBy, AtBy DEF NeedsHeaders, NeedsCode

----------------------------------------------------------------------------
(* The inductive invariant.                                                *)
Typed ==
    /\ heap \in Heaps /\ file \in [Mods -> Files]
    /\ step \in 0..18 /\ failed \in BOOLEAN /\ want_x \in BOOLEAN /\ pg \in Nat
    /\ base \in [Mods -> Nat] /\ so_base \subseteq Mods /\ mapped \subseteq Mods
    /\ DOMAIN place = Mods /\ DOMAIN added = Mods /\ DOMAIN perm = Mods
    /\ \A m \in Mods : /\ DOMAIN place[m] = DOMAIN file[m].rela
                       /\ DOMAIN added[m] = 0..(LoadSize(file[m]) - 1)
                       /\ DOMAIN perm[m] = Pages(file[m])

Listed(call) ==
    IF Called(call, "game") THEN <<"cxx", "game">>
    ELSE IF Called(call, "cxx") THEN <<"cxx">> ELSE <<>>

Accounts ==
    /\ so_base = {m \in Mods : Called("load", m) /\ ~Called("free", m)}
    /\ mapped = {m \in Mods : Called("map", m)}
    /\ flushed = {m \in Mods : Called("flush", m)}
    /\ guard <=> Called("guard", "game")

Loaded(m) ==
    Called("load", m) => base[m] = LoadBase(m) /\ LoadSize(file[m]) <= LoadLimit(m)

Relocated(m, p) ==
    LET r == file[m].rela[p]
    IN  /\ r.type # "unknown"
        /\ r.type = "RELATIVE" => place[m][p] = Base(m)
        /\ r.type # "RELATIVE" /\ r.sym \in file[m].defined
             => place[m][p] = Symbol(m, r.sym)

Placed(m) ==
    \A p \in DOMAIN file[m].rela :
        /\ Called("relocate", m) /\ ~Called("resolve", m) => Relocated(m, p)
        /\ Called("resolve", m) => place[m][p] = Linked(m, p)

(* so_finalize is through with a page. *)
Passed(m, p) ==
    \/ Called("protect", m)
    \/ Called("map", m) /\ IF IsX(m, p) THEN ~want_x \/ p < pg ELSE ~want_x /\ p < pg

Protected(m) ==
    \A p \in Pages(file[m]) :
        Passed(m, p) => perm[m][p] = IF IsX(m, p) THEN "rx" ELSE "rw"

LoaderInv ==
    /\ Typed
    /\ so_list = Listed("load") /\ ran = Listed("init")
    /\ Accounts
    /\ \A m \in Mods : Loaded(m) /\ Placed(m) /\ Protected(m)
    /\ RelrAddsOnce

----------------------------------------------------------------------------
(* The slice ends where the process's memory ends, and the engine follows  *)
(* the runtime in it.                                                      *)
LEMMA SliceIs ==
  ASSUME Typed
  PROVE  /\ HeapEnd \in Nat /\ SliceStart \in Nat /\ HeapEnd <= SliceStart
         /\ SliceLimit \in Nat /\ SliceStart + SliceLimit = heap.addr + heap.size
<1>1. /\ heap.addr \in Nat /\ heap.size \in Nat /\ 2 * PAGE <= heap.size
      /\ PAGE \in Nat \ {0} /\ RESERVE \in Nat /\ PAGE <= RESERVE
  BY LoaderAssumption DEF Typed
<1>2. HeapEnd \in Nat /\ HeapEnd + PAGE <= heap.addr + heap.size
  <2>1. CASE heap.size > 2 * RESERVE
    BY <1>1, <2>1 DEF HeapEnd
  <2>2. CASE ~(heap.size > 2 * RESERVE)
    BY <1>1, <2>2 DEF HeapEnd
  <2> QED
    BY <2>1, <2>2
<1>3. SliceStart \in Nat /\ HeapEnd <= SliceStart /\ SliceStart < HeapEnd + PAGE
  BY <1>2, AlignUpIs DEF SliceStart
<1> QED
  BY <1>1, <1>2, <1>3 DEF SliceLimit

LEMMA ImageIs ==
  ASSUME Typed, NEW m \in Mods
  PROVE  /\ file[m] \in Files /\ LoadSize(file[m]) \in Nat
         /\ LoadBase(m) \in Nat /\ SliceStart <= LoadBase(m)
         /\ LoadLimit(m) \in Int
         /\ LoadBase(m) + LoadLimit(m) = heap.addr + heap.size
<1>1. \A o \in Mods : file[o] \in Files /\ LoadSize(file[o]) \in Nat
  BY LoadSizeIsNat DEF Typed
<1>2. heap.addr \in Nat /\ heap.size \in Nat
  BY LoaderAssumption DEF Typed
<1> QED
  BY <1>1, <1>2, SliceIs DEF LoadBase, LoadLimit, Mods

LEMMA LoaderInitInv == LoaderInit => LoaderInv
<1> SUFFICES ASSUME LoaderInit PROVE LoaderInv
  OBVIOUS
<1>1. step = 0
  BY DEF LoaderInit
<1>2. \A call, m : ~Called(call, m)
  BY <1>1 DEF Called
<1>3. Typed
  <2>1. \A m \in Mods : /\ DOMAIN place[m] = DOMAIN file[m].rela
                       /\ DOMAIN added[m] = 0..(LoadSize(file[m]) - 1)
                       /\ DOMAIN perm[m] = Pages(file[m])
    BY DEF LoaderInit
  <2>2. /\ DOMAIN place = Mods /\ DOMAIN added = Mods /\ DOMAIN perm = Mods
        /\ base \in [Mods -> Nat]
    BY DEF LoaderInit
  <2>3. heap \in Heaps /\ file \in [Mods -> Files] /\ so_base \subseteq Mods
        /\ mapped \subseteq Mods /\ step \in 0..18 /\ pg \in Nat
    BY DEF LoaderInit
  <2>4. want_x \in BOOLEAN /\ failed \in BOOLEAN
    BY DEF LoaderInit
  <2> QED
    BY <2>1, <2>2, <2>3, <2>4 DEF Typed
<1>4. so_list = Listed("load") /\ ran = Listed("init")
  BY <1>2 DEF LoaderInit, Listed
<1>5. \A m \in Mods : Loaded(m) /\ Placed(m) /\ Protected(m)
  BY <1>2 DEF Loaded, Placed, Protected, Passed
<1>6. RelrAddsOnce
  BY <1>2 DEF RelrAddsOnce, LoaderInit
<1>7. Accounts
  BY <1>2 DEF LoaderInit, Accounts
<1> QED
  BY <1>3, <1>4, <1>5, <1>6, <1>7 DEF LoaderInv

(* What a step leaves alone. *)
LEMMA ListsStay ==
  ASSUME NEW call, \A m \in Mods : Called(call, m)' <=> Called(call, m)
  PROVE  Listed(call)' = Listed(call)
  BY DEF Listed, Mods

LEMMA AccountsStay ==
  ASSUME Accounts, UNCHANGED <<so_base, mapped, flushed, guard>>,
         \A call \in {"load", "map", "flush", "guard", "free"}, m \in Mods :
           Called(call, m)' <=> Called(call, m)
  PROVE  Accounts'
  BY DEF Accounts, Mods

LEMMA LoadedStays ==
  ASSUME NEW m \in Mods, Loaded(m), UNCHANGED <<heap, file, base>>,
         Called("load", m)' <=> Called("load", m)
  PROVE  Loaded(m)'
  BY DEF Loaded, LoadBase, LoadLimit, SliceLimit, SliceStart, HeapEnd

LEMMA PlacedStays ==
  ASSUME NEW m \in Mods, Placed(m), UNCHANGED <<file, place>>,
         Called("relocate", m)' <=> Called("relocate", m),
         Called("resolve", m)' <=> Called("resolve", m)
  PROVE  Placed(m)'
  BY DEF Placed, Relocated, Linked

LEMMA ProtectedStays ==
  ASSUME NEW m \in Mods, Protected(m), UNCHANGED <<file, perm, pg, want_x>>,
         Called("map", m)' <=> Called("map", m),
         Called("protect", m)' <=> Called("protect", m)
  PROVE  Protected(m)'
  BY DEF Protected, Passed, IsX

LEMMA AddedStays ==
  ASSUME RelrAddsOnce, UNCHANGED <<file, added>>,
         \A m \in Mods : Called("relocate", m)' <=> Called("relocate", m)
  PROVE  RelrAddsOnce'
  BY DEF RelrAddsOnce

(* A call that fails changes nothing the invariant speaks of. *)
LEMMA FailInv ==
  ASSUME LoaderInv, Fail,
         UNCHANGED <<heap, file, so_list, memory, contents, pg, want_x, code>>
  PROVE  LoaderInv'
<1>1. \A call, m : Called(call, m)' <=> Called(call, m)
  BY NoCallMore DEF Fail
<1>2. Typed'
  BY DEF LoaderInv, Typed, Fail, memory, contents, Pages
<1>3. so_list' = Listed("load")' /\ ran' = Listed("init")'
  BY <1>1, ListsStay DEF LoaderInv, code
<1>4. \A m \in Mods : Loaded(m)' /\ Placed(m)' /\ Protected(m)'
  BY <1>1, LoadedStays, PlacedStays, ProtectedStays DEF LoaderInv, memory, contents
<1>5. RelrAddsOnce'
  BY <1>1, AddedStays DEF LoaderInv, contents
<1>6. Accounts'
  BY <1>1, AccountsStay DEF LoaderInv, memory, code
<1> QED
  BY <1>2, <1>3, <1>4, <1>5, <1>6 DEF LoaderInv

LEMMA LoadInv ==
  ASSUME LoaderInv, NEW o \in Mods, Load(o)
  PROVE  LoaderInv'
<1> USE DEF Load
<1>1. /\ step' \in 0..18
      /\ \A call, m : Called(call, m)' <=> Called(call, m) \/ (call = "load" /\ m = o)
  BY OneCallMore DEF LoaderInv, Typed
<1>2. Typed'
  <2>1. base' \in [Mods -> Nat]
    BY ImageIs DEF LoaderInv, Typed
  <2>2. UNCHANGED <<heap, file, mapped, place, added, perm, pg, want_x, failed>>
    BY DEF contents
  <2> QED
    BY <1>1, <2>1, <2>2 DEF LoaderInv, Typed, Pages
<1>3. so_list' = Listed("load")'
  <2>1. CASE o = "cxx"
    <3>1. ~Called("load", "cxx") /\ ~Called("load", "game")
      BY <2>1, CallsBefore DEF LoaderInv, Typed
    <3> QED
      BY <1>1, <2>1, <3>1 DEF LoaderInv, Listed
  <2>2. CASE o = "game"
    <3>1. Called("load", "cxx") /\ ~Called("load", "game")
      BY <2>2, CallsBefore DEF LoaderInv, Typed
    <3> QED
      BY <1>1, <2>2, <3>1 DEF LoaderInv, Listed
  <2> QED
    BY <2>1, <2>2 DEF Mods
<1>4. ran' = Listed("init")'
  BY <1>1, ListsStay DEF LoaderInv, code
<1>5. ASSUME NEW m \in Mods PROVE Loaded(m)'
  <2>1. /\ LoadBase(m)' = LoadBase(m) /\ LoadLimit(m)' = LoadLimit(m)
        /\ LoadSize(file[m])' = LoadSize(file[m])
    BY DEF LoadBase, LoadLimit, SliceLimit, SliceStart, HeapEnd
  <2>2. CASE m = o
    <3>1. base'[m] = LoadBase(m)
      BY <2>2 DEF LoaderInv, Typed
    <3> QED
      BY <2>1, <2>2, <3>1 DEF Loaded
  <2>3. CASE m # o
    <3>1. base'[m] = base[m]
      BY <2>3 DEF LoaderInv, Typed
    <3> QED
      BY <1>1, <2>1, <2>3, <3>1 DEF LoaderInv, Loaded
  <2> QED
    BY <2>2, <2>3
<1>6. \A m \in Mods : Placed(m)' /\ Protected(m)'
  BY <1>1, PlacedStays, ProtectedStays DEF LoaderInv, contents
<1>7. RelrAddsOnce'
  BY <1>1, AddedStays DEF LoaderInv, contents
<1>8. Accounts'
  BY <1>1, MemoryBefore DEF LoaderInv, Accounts, Typed, code
<1> QED
  BY <1>2, <1>3, <1>4, <1>5, <1>6, <1>7, <1>8 DEF LoaderInv

LEMMA RelocateInv ==
  ASSUME LoaderInv, NEW o \in Mods, Relocate(o)
  PROVE  LoaderInv'
<1> USE DEF Relocate
<1>1. /\ step' \in 0..18
      /\ \A call, m : Called(call, m)' <=> Called(call, m) \/ (call = "relocate" /\ m = o)
  BY OneCallMore DEF LoaderInv, Typed
<1>2. Typed'
  <2>1. /\ DOMAIN place' = Mods /\ DOMAIN added' = Mods
        /\ \A m \in Mods : DOMAIN place'[m] = DOMAIN place[m]
                         /\ DOMAIN added'[m] = DOMAIN added[m]
    BY DEF LoaderInv, Typed
  <2>2. UNCHANGED <<heap, file, base, so_base, mapped, perm, pg, want_x, failed>>
    BY DEF memory
  <2> HIDE DEF Relocate
  <2> QED
    BY <1>1, <2>1, <2>2 DEF LoaderInv, Typed, Pages
<1>3. so_list' = Listed("load")' /\ ran' = Listed("init")'
  BY <1>1, ListsStay DEF LoaderInv, code
<1>4. \A m \in Mods : Loaded(m)' /\ Protected(m)'
  BY <1>1, LoadedStays, ProtectedStays DEF LoaderInv, memory
<1>5. ASSUME NEW m \in Mods PROVE Placed(m)'
  <2>1. CASE m = o
    <3>1. ~Called("resolve", o)'
      BY <1>1, CallsBefore DEF LoaderInv, Typed
    <3>2. \A p \in DOMAIN file[o].rela :
            file[o].rela[p].type # "unknown" /\ place'[o][p] = Local(o, p)
      BY DEF LoaderInv, Typed
    <3>3. \A p \in DOMAIN file[o].rela : file[o].rela[p].type \in Types
      BY LoaderAssumption DEF LoaderInv, Typed, IsLibrary
    <3>4. \A p \in DOMAIN file[o].rela : Relocated(o, p)'
      BY <3>2, <3>3 DEF Relocated, Local, Types
    <3> QED
      BY <2>1, <3>1, <3>4 DEF Placed
  <2>2. CASE m # o
    <3>1. place'[m] = place[m]
      BY <2>2 DEF LoaderInv, Typed
    <3> QED
      BY <1>1, <2>2, <3>1 DEF LoaderInv, Placed, Relocated, Linked
  <2> QED
    BY <2>1, <2>2
<1>6. ASSUME NEW m \in Mods, NEW w \in DOMAIN added'[m]
      PROVE  added'[m][w]
               = IF Called("relocate", m)' /\ w \in file'[m].packed THEN 1 ELSE 0
  <2>1. CASE m = o
    <3> DEFINE n == Cardinality({k \in DOMAIN file[o].relr : Adds(file[o].relr, k, w)})
    <3>1. w \in DOMAIN added[o] /\ added'[o][w] = added[o][w] + n
      BY <2>1 DEF LoaderInv, Typed
    <3>2. ~Called("relocate", o)
      BY CallsBefore DEF LoaderInv, Typed
    <3>3. added[o][w] = 0
      BY <3>1, <3>2 DEF LoaderInv, RelrAddsOnce
    <3>4. file[o] \in Files
      BY DEF LoaderInv, Typed
    <3>5. n = IF w \in file[o].packed THEN 1 ELSE 0
      BY <3>4, AddedOnce
    <3> QED
      BY <1>1, <2>1, <3>1, <3>3, <3>5
  <2>2. CASE m # o
    <3>1. added'[m] = added[m]
      BY <2>2 DEF LoaderInv, Typed
    <3> QED
      BY <1>1, <2>2, <3>1 DEF LoaderInv, RelrAddsOnce
  <2> QED
    BY <2>1, <2>2
<1>7. RelrAddsOnce'
  BY <1>6 DEF RelrAddsOnce
<1>8. Accounts'
  BY <1>1, AccountsStay DEF LoaderInv, memory, code
<1> QED
  BY <1>2, <1>3, <1>4, <1>5, <1>7, <1>8 DEF LoaderInv

(* The first exporter in load order is, of two libraries, the other one.   *)
LEMMA ImportedIsLinked ==
  ASSUME LoaderInv, NEW m \in Mods, NEW p \in DOMAIN file[m].rela,
         Called("relocate", m), ~Called("resolve", m), Called("load", "game")
  PROVE  Imported(m, p) = Linked(m, p)
<1> DEFINE r == file[m].rela[p]
           from == Exporters(m, r.sym)
<1>1. Relocated(m, p) /\ so_list = <<"cxx", "game">>
  BY DEF LoaderInv, Placed, Listed
<1>2. r.type \in Types /\ r.type # "unknown"
  BY <1>1, LoaderAssumption DEF LoaderInv, Typed, IsLibrary, Relocated
<1>3. Other(m) \in Mods /\ Other(m) # m /\ \A o \in Mods : o = m \/ o = Other(m)
  BY DEF Other, Mods
<1>4. PICK i \in {1, 2} : so_list[i] = Other(m)
                       /\ \A k \in 1..Len(so_list) : so_list[k] # m <=> k = i
  <2>1. CASE m = "cxx"
    BY <1>1, <2>1 DEF Other
  <2>2. CASE m = "game"
    BY <1>1, <2>2 DEF Other
  <2> QED
    BY <2>1, <2>2 DEF Mods
<1>5. i \in 1..Len(so_list)
  BY <1>1, <1>4
<1>6. from = IF r.sym \in file[Other(m)].exported THEN {i} ELSE {}
  BY <1>4, <1>5 DEF Exporters
<1>7. Min({i}) = i
  BY DEF Min
<1>8. r.type = "RELATIVE" \/ r.type \in Importing
  BY <1>2 DEF Types, Importing
<1>9. "RELATIVE" \notin Importing
  BY DEF Importing
<1>10. CASE r.type = "RELATIVE"
  BY <1>1, <1>9, <1>10 DEF Imported, Linked, Relocated
<1>11. CASE r.type \in Importing /\ r.sym \in file[m].defined
  BY <1>1, <1>9, <1>11 DEF Imported, Linked, Relocated
<1>12. CASE r.type \in Importing /\ r.sym \notin file[m].defined
  <2>1. Imported(m, p) = IF r.sym \in Shims THEN Shim(r.sym)
                         ELSE IF from # {} THEN Symbol(so_list[Min(from)], r.sym)
                         ELSE Poison(m, p)
    BY <1>12 DEF Imported
  <2>2. Linked(m, p) = IF r.sym \in Shims THEN Shim(r.sym)
                       ELSE IF r.sym \in file[Other(m)].exported
                            THEN Symbol(Other(m), r.sym)
                            ELSE Poison(m, p)
    BY <1>9, <1>12 DEF Linked
  <2>3. CASE r.sym \in file[Other(m)].exported
    <3>1. from = {i}
      BY <1>6, <2>3
    <3>2. so_list[Min(from)] = Other(m)
      BY <1>4, <1>7, <3>1
    <3> QED
      BY <2>1, <2>2, <2>3, <3>1, <3>2
  <2>4. CASE r.sym \notin file[Other(m)].exported
    <3>1. from = {}
      BY <1>6, <2>4
    <3> QED
      BY <2>1, <2>2, <2>4, <3>1
  <2> QED
    BY <2>3, <2>4
<1> QED
  BY <1>8, <1>10, <1>11, <1>12

LEMMA ResolveInv ==
  ASSUME LoaderInv, NEW o \in Mods, Resolve(o)
  PROVE  LoaderInv'
<1> USE DEF Resolve
<1>1. /\ step' \in 0..18
      /\ \A call, m : Called(call, m)' <=> Called(call, m) \/ (call = "resolve" /\ m = o)
  BY OneCallMore DEF LoaderInv, Typed
<1>2. Typed'
  <2>1. /\ DOMAIN place' = Mods
        /\ \A m \in Mods : DOMAIN place'[m] = DOMAIN place[m]
    BY DEF LoaderInv, Typed
  <2>2. UNCHANGED <<heap, file, base, so_base, mapped, added, perm, pg, want_x, failed>>
    BY DEF memory
  <2> HIDE DEF Resolve
  <2> QED
    BY <1>1, <2>1, <2>2 DEF LoaderInv, Typed, Pages
<1>3. so_list' = Listed("load")' /\ ran' = Listed("init")'
  BY <1>1, ListsStay DEF LoaderInv, code
<1>4. \A m \in Mods : Loaded(m)' /\ Protected(m)'
  BY <1>1, LoadedStays, ProtectedStays DEF LoaderInv, memory
<1>5. ASSUME NEW m \in Mods PROVE Placed(m)'
  <2>1. CASE m = o
    <3>1. Called("relocate", o) /\ ~Called("resolve", o) /\ Called("load", "game")
      BY CallsBefore DEF LoaderInv, Typed
    <3>2. \A p \in DOMAIN file[o].rela : place'[o][p] = Imported(o, p)
      BY DEF LoaderInv, Typed
    <3>3. \A p \in DOMAIN file[o].rela : place'[o][p] = Linked(o, p)
      BY <3>1, <3>2, ImportedIsLinked
    <3>4. \A p \in DOMAIN file[o].rela : Linked(o, p)' = Linked(o, p)
      BY DEF Linked
    <3> QED
      BY <1>1, <2>1, <3>3, <3>4 DEF Placed
  <2>2. CASE m # o
    <3>1. place'[m] = place[m]
      BY <2>2 DEF LoaderInv, Typed
    <3> QED
      BY <1>1, <2>2, <3>1 DEF LoaderInv, Placed, Relocated, Linked
  <2> QED
    BY <2>1, <2>2
<1>6. RelrAddsOnce'
  BY <1>1, AddedStays DEF LoaderInv
<1>7. Accounts'
  BY <1>1, AccountsStay DEF LoaderInv, memory, code
<1> QED
  BY <1>2, <1>3, <1>4, <1>5, <1>6, <1>7 DEF LoaderInv

LEMMA ResolveEntryPointsInv ==
  ASSUME LoaderInv, ResolveEntryPoints
  PROVE  LoaderInv'
<1>1. CASE Fail
  BY <1>1, FailInv DEF ResolveEntryPoints
<1>2. CASE Done /\ UNCHANGED failed
  <2>1. /\ step' \in 0..18
        /\ \A call, m : Called(call, m)'
              <=> Called(call, m) \/ (call = "entry" /\ m = "game")
    BY <1>2, OneCallMore DEF LoaderInv, Typed, ResolveEntryPoints
  <2>2. UNCHANGED <<heap, file, so_list, memory, contents, pg, want_x, failed, code>>
    BY <1>2 DEF ResolveEntryPoints
  <2>3. Typed'
    BY <2>1, <2>2 DEF LoaderInv, Typed, memory, contents, Pages
  <2>4. so_list' = Listed("load")' /\ ran' = Listed("init")'
    BY <2>1, <2>2, ListsStay DEF LoaderInv, code
  <2>5. \A m \in Mods : Loaded(m)' /\ Placed(m)' /\ Protected(m)'
    BY <2>1, <2>2, LoadedStays, PlacedStays, ProtectedStays
       DEF LoaderInv, memory, contents
  <2>6. RelrAddsOnce'
    BY <2>1, <2>2, AddedStays DEF LoaderInv, contents
  <2>7. Accounts'
    BY <2>1, <2>2, AccountsStay DEF LoaderInv, memory, code
  <2> QED
    BY <2>3, <2>4, <2>5, <2>6, <2>7 DEF LoaderInv
<1> QED
  BY <1>1, <1>2 DEF ResolveEntryPoints

LEMMA MapCodeInv ==
  ASSUME LoaderInv, NEW o \in Mods, MapCode(o)
  PROVE  LoaderInv'
<1>1. CASE Fail /\ UNCHANGED <<mapped, perm, pg, want_x>>
  BY <1>1, FailInv DEF MapCode, memory, contents
<1>2. CASE /\ mapped' = mapped \cup {o}
           /\ perm' = [perm EXCEPT ![o] = [p \in DOMAIN @ |-> "fresh"]]
           /\ pg' = 0 /\ want_x' = TRUE
           /\ Done /\ UNCHANGED failed
  <2>1. At("map", o) /\ UNCHANGED <<heap, file, so_list, base, so_base, place, added, code>>
    BY DEF MapCode
  <2>2. /\ step' \in 0..18
        /\ \A call, m : Called(call, m)' <=> Called(call, m) \/ (call = "map" /\ m = o)
    BY <1>2, <2>1, OneCallMore DEF LoaderInv, Typed
  <2>3. Typed'
    <3>1. DOMAIN perm' = Mods /\ \A m \in Mods : DOMAIN perm'[m] = DOMAIN perm[m]
      BY <1>2 DEF LoaderInv, Typed
    <3>2. pg' \in Nat /\ want_x' \in BOOLEAN /\ mapped' \subseteq Mods /\ failed' = failed
      BY <1>2 DEF LoaderInv, Typed
    <3> QED
      BY <2>1, <2>2, <3>1, <3>2 DEF LoaderInv, Typed, Pages
  <2>4. so_list' = Listed("load")' /\ ran' = Listed("init")'
    BY <2>1, <2>2, ListsStay DEF LoaderInv, code
  <2>5. \A m \in Mods : Loaded(m)' /\ Placed(m)'
    BY <2>1, <2>2, LoadedStays, PlacedStays DEF LoaderInv
  <2>6. ASSUME NEW m \in Mods PROVE Protected(m)'
    <3>1. CASE m = o
      <4>1. ~Called("protect", o)'
        BY <2>1, <2>2, CallsBefore DEF LoaderInv, Typed
      <4>2. \A p \in Pages(file[o])' : ~Passed(o, p)'
        BY <1>2, <4>1 DEF Passed, Pages
      <4> QED
        BY <3>1, <4>2 DEF Protected
    <3>2. CASE m # o
      <4>1. perm'[m] = perm[m]
        BY <1>2, <3>2 DEF LoaderInv, Typed
      <4>2. Called("map", m) => Called("protect", m)
        BY <2>1, <3>2, CallsBefore DEF LoaderInv, Typed
      <4>3. /\ Called("map", m)' <=> Called("map", m)
            /\ Called("protect", m)' <=> Called("protect", m)
        BY <2>2, <3>2
      <4>4. \A p : Passed(m, p)' <=> Called("protect", m)
        BY <4>2, <4>3 DEF Passed
      <4>5. \A p : Called("protect", m) => Passed(m, p)
        BY DEF Passed
      <4> QED
        BY <2>1, <4>1, <4>4, <4>5 DEF LoaderInv, Protected, IsX
    <3> QED
      BY <3>1, <3>2
  <2>7. RelrAddsOnce'
    BY <2>1, <2>2, AddedStays DEF LoaderInv
  <2>8. Accounts'
    BY <1>2, <2>1, <2>2 DEF LoaderInv, Accounts, code
  <2> QED
    BY <2>3, <2>4, <2>5, <2>6, <2>7, <2>8 DEF LoaderInv
<1> QED
  BY <1>1, <1>2 DEF MapCode

LEMMA ExecuteInitArrayInv ==
  ASSUME LoaderInv, NEW o \in Mods, ExecuteInitArray(o)
  PROVE  LoaderInv'
<1> USE DEF ExecuteInitArray
<1>1. /\ step' \in 0..18
      /\ \A call, m : Called(call, m)' <=> Called(call, m) \/ (call = "init" /\ m = o)
  BY OneCallMore DEF LoaderInv, Typed
<1>2. Typed'
  BY <1>1 DEF LoaderInv, Typed, memory, contents, Pages
<1>3. so_list' = Listed("load")'
  BY <1>1, ListsStay DEF LoaderInv
<1>4. ran' = Listed("init")'
  <2>1. CASE o = "cxx"
    <3>1. ~Called("init", "cxx") /\ ~Called("init", "game")
      BY <2>1, CallsBefore DEF LoaderInv, Typed
    <3> QED
      BY <1>1, <2>1, <3>1 DEF LoaderInv, Listed
  <2>2. CASE o = "game"
    <3>1. Called("init", "cxx") /\ ~Called("init", "game")
      BY <2>2, CallsBefore DEF LoaderInv, Typed
    <3> QED
      BY <1>1, <2>2, <3>1 DEF LoaderInv, Listed
  <2> QED
    BY <2>1, <2>2 DEF Mods
<1>5. \A m \in Mods : Loaded(m)' /\ Placed(m)' /\ Protected(m)'
  BY <1>1, LoadedStays, PlacedStays, ProtectedStays DEF LoaderInv, memory, contents
<1>6. RelrAddsOnce'
  BY <1>1, AddedStays DEF LoaderInv, contents
<1>7. Accounts'
  BY <1>1, AccountsStay DEF LoaderInv, memory, code
<1> QED
  BY <1>2, <1>3, <1>4, <1>5, <1>6, <1>7 DEF LoaderInv

LEMMA FlushCachesInv ==
  ASSUME LoaderInv, NEW o \in Mods, FlushCaches(o)
  PROVE  LoaderInv'
<1> USE DEF FlushCaches
<1>1. /\ step' \in 0..18
      /\ \A call, m : Called(call, m)' <=> Called(call, m) \/ (call = "flush" /\ m = o)
  BY OneCallMore DEF LoaderInv, Typed
<1>2. Typed'
  BY <1>1 DEF LoaderInv, Typed, memory, contents, Pages
<1>3. so_list' = Listed("load")' /\ ran' = Listed("init")'
  BY <1>1, ListsStay DEF LoaderInv
<1>4. \A m \in Mods : Loaded(m)' /\ Placed(m)' /\ Protected(m)'
  BY <1>1, LoadedStays, PlacedStays, ProtectedStays DEF LoaderInv, memory, contents
<1>5. RelrAddsOnce'
  BY <1>1, AddedStays DEF LoaderInv, contents
<1>6. Accounts'
  BY <1>1 DEF LoaderInv, Accounts, memory
<1> QED
  BY <1>2, <1>3, <1>4, <1>5, <1>6 DEF LoaderInv

LEMMA SetupGuardInv ==
  ASSUME LoaderInv, SetupGuard
  PROVE  LoaderInv'
<1> USE DEF SetupGuard
<1>1. /\ step' \in 0..18
      /\ \A call, m : Called(call, m)' <=> Called(call, m) \/ (call = "guard" /\ m = "game")
  BY OneCallMore DEF LoaderInv, Typed
<1>2. Typed'
  BY <1>1 DEF LoaderInv, Typed, memory, contents, Pages
<1>3. so_list' = Listed("load")' /\ ran' = Listed("init")'
  BY <1>1, ListsStay DEF LoaderInv
<1>4. \A m \in Mods : Loaded(m)' /\ Placed(m)' /\ Protected(m)'
  BY <1>1, LoadedStays, PlacedStays, ProtectedStays DEF LoaderInv, memory, contents
<1>5. RelrAddsOnce'
  BY <1>1, AddedStays DEF LoaderInv, contents
<1>6. Accounts'
  BY <1>1 DEF LoaderInv, Accounts, memory
<1> QED
  BY <1>2, <1>3, <1>4, <1>5, <1>6 DEF LoaderInv

LEMMA FreeTempInv ==
  ASSUME LoaderInv, NEW o \in Mods, FreeTemp(o)
  PROVE  LoaderInv'
<1> USE DEF FreeTemp
<1>1. /\ step' \in 0..18
      /\ \A call, m : Called(call, m)' <=> Called(call, m) \/ (call = "free" /\ m = o)
  BY OneCallMore DEF LoaderInv, Typed
<1>2. Typed'
  BY <1>1 DEF LoaderInv, Typed, contents, Pages
<1>3. so_list' = Listed("load")' /\ ran' = Listed("init")'
  BY <1>1, ListsStay DEF LoaderInv, code
<1>4. \A m \in Mods : Loaded(m)' /\ Placed(m)' /\ Protected(m)'
  BY <1>1, LoadedStays, PlacedStays, ProtectedStays DEF LoaderInv, contents
<1>5. RelrAddsOnce'
  BY <1>1, AddedStays DEF LoaderInv, contents
<1>6. Accounts'
  BY <1>1 DEF LoaderInv, Accounts, code
<1> QED
  BY <1>2, <1>3, <1>4, <1>5, <1>6 DEF LoaderInv

----------------------------------------------------------------------------
(* so_finalize's search for runs of pages.                                 *)

(* While a library is being protected, its pages are passed by the loop.   *)
LEMMA PassedOf ==
  ASSUME Typed, NEW m \in Mods, At("protect", m), NEW p
  PROVE  Passed(m, p) <=> IF IsX(m, p) THEN ~want_x \/ p < pg ELSE ~want_x /\ p < pg
  BY CallsBefore DEF Passed, Typed

(* A run is a row of pages that begins with the first one left. *)
LEMMA RunIs ==
  ASSUME Typed, NEW m \in Mods, Rest(m) # {}
  PROVE  /\ Run(m) # {} /\ Run(m) \subseteq Rest(m)
         /\ Max(Run(m)) \in Run(m) /\ pg <= Max(Run(m))
         /\ \A p \in Rest(m) : p <= Max(Run(m)) => p \in Run(m)
<1> DEFINE lo == Min(Rest(m))
           hi == Max(Run(m))
           n == LoadSize(file[m]) \div PAGE
<1>1. n \in Nat /\ pg \in Nat
  BY ImageIs, Division, LoaderAssumption DEF Typed
<1>2. Rest(m) \in SUBSET (0..(n - 1)) /\ IsFiniteSet(0..(n - 1))
  BY <1>1, FS_Interval DEF Rest, Pages
<1>3. IsFiniteSet(Rest(m)) /\ Rest(m) \in SUBSET Nat
  <2> HIDE DEF n
  <2> QED
    BY <1>1, <1>2, FS_Subset
<1>4. lo \in Rest(m) /\ \A p \in Rest(m) : lo <= p
  BY <1>3, FiniteMinMax
<1>5. lo \in Run(m)
  BY <1>3, <1>4 DEF Run
<1>6. Run(m) \subseteq Rest(m)
  BY DEF Run
<1>7. IsFiniteSet(Run(m)) /\ Run(m) \in SUBSET Nat
  BY <1>3, <1>6, FS_Subset
<1>8. hi \in Run(m)
  BY <1>5, <1>7, FiniteMinMax
<1>9. \A o \in lo..hi : o \in Rest(m)
  BY <1>8 DEF Run
<1>10. lo \in Nat /\ hi \in Nat
  BY <1>5, <1>7, <1>8
<1> HIDE DEF lo, hi
<1>11. ASSUME NEW p \in Rest(m), p <= hi PROVE p \in Run(m)
  <2>1. p \in Nat /\ lo <= p
    BY <1>3, <1>4
  <2>2. \A o \in lo..p : o \in Rest(m)
    <3>1. \A o \in lo..p : o \in lo..hi
      BY <1>10, <1>11, <2>1
    <3> QED
      BY <1>9, <3>1
  <2> QED
    BY <2>2 DEF Run, lo
<1>12. pg <= hi
  BY <1>6, <1>8 DEF Rest
<1> QED
  BY <1>5, <1>6, <1>8, <1>11, <1>12 DEF hi

LEMMA SetPermissionInv ==
  ASSUME LoaderInv, NEW o \in Mods, SetPermission(o)
  PROVE  LoaderInv'
<1>1. /\ At("protect", o) /\ Rest(o) # {}
      /\ UNCHANGED <<heap, file, so_list, memory, place, added, want_x, step, code>>
  BY DEF SetPermission
<1>2. CASE failed' = TRUE /\ UNCHANGED <<perm, pg>>
  BY <1>1, <1>2, FailInv DEF Fail, contents
<1>3. CASE /\ perm' = [perm EXCEPT ![o] =
                 [p \in DOMAIN @ |->
                    IF p \in Run(o) THEN IF want_x THEN "rx" ELSE "rw" ELSE @[p]]]
           /\ pg' = AfterRun(o)
           /\ UNCHANGED failed
  <2>1. \A call, m : Called(call, m)' <=> Called(call, m)
    BY <1>1, NoCallMore
  <2>2. Typed
    BY DEF LoaderInv
  <2>3. /\ Run(o) \subseteq Rest(o) /\ Rest(o) \subseteq Pages(file[o])
        /\ \A p \in Rest(o) : p < pg' => p \in Run(o)
        /\ pg' \in Nat /\ pg < pg'
    <3>1. /\ Max(Run(o)) \in Run(o) /\ pg <= Max(Run(o)) /\ pg \in Nat
          /\ Run(o) \subseteq Rest(o) /\ Rest(o) \subseteq Pages(file[o])
          /\ \A p \in Rest(o) : p <= Max(Run(o)) => p \in Run(o)
      BY <1>1, <2>2, RunIs DEF Rest, Typed
    <3>2. \A p \in Pages(file[o]) : p \in Nat
      BY DEF Pages
    <3>3. pg' = Max(Run(o)) + 1
      BY <1>3 DEF AfterRun
    <3> QED
      BY <3>1, <3>2, <3>3
  <2>4. Typed'
    <3>1. DOMAIN perm' = Mods /\ \A m \in Mods : DOMAIN perm'[m] = DOMAIN perm[m]
      BY <1>3, <2>2 DEF Typed
    <3> QED
      BY <1>1, <1>3, <2>2, <2>3, <3>1 DEF Typed, memory, Pages
  <2>5. so_list' = Listed("load")' /\ ran' = Listed("init")'
    BY <1>1, <2>1, ListsStay DEF LoaderInv, code
  <2>6. \A m \in Mods : Loaded(m)' /\ Placed(m)'
    BY <1>1, <2>1, LoadedStays, PlacedStays DEF LoaderInv, memory
  <2>7. ASSUME NEW m \in Mods PROVE Protected(m)'
    <3>1. CASE m = o
      <4> DEFINE Perm(p) == IF IsX(o, p) THEN "rx" ELSE "rw"
      <4>1. ASSUME NEW p \in Pages(file[o]), Passed(o, p)'
            PROVE  perm'[o][p] = Perm(p)
        <5>1. p \in Nat /\ p \in DOMAIN perm[o]
          <6>1. p \in DOMAIN perm[o]
            BY <2>2 DEF Typed
          <6> QED
            BY <6>1 DEF Pages
        <5>2. perm'[o][p] = IF p \in Run(o) THEN IF want_x THEN "rx" ELSE "rw"
                            ELSE perm[o][p]
          BY <1>3, <2>2, <5>1 DEF Typed
        <5>3. CASE p \in Run(o)
          <6>1. IsX(o, p) <=> want_x
            BY <2>3, <5>3 DEF Rest, InPass
          <6> QED
            BY <5>2, <5>3, <6>1
        <5>4. CASE p \notin Run(o)
          <6>1. p \notin Rest(o) \/ ~(p < pg')
            BY <2>3, <5>4
          <6>2. Called("map", o) /\ ~Called("protect", o)
            BY <1>1, <2>2, CallsBefore DEF Typed
          <6>3. IF IsX(o, p) THEN ~want_x \/ p < pg' ELSE ~want_x /\ p < pg'
            BY <1>1, <2>1, <4>1, <6>2 DEF Passed, IsX
          <6>4. p < pg' => ~(IsX(o, p) <=> want_x) \/ p < pg
            BY <2>2, <2>3, <5>1, <6>1 DEF Rest, InPass, Typed
          <6>5. Passed(o, p)
            BY <1>1, <2>2, <6>3, <6>4, PassedOf
          <6> QED
            BY <5>2, <5>4, <6>5 DEF LoaderInv, Protected
        <5> QED
          BY <5>3, <5>4
      <4>2. file'[m] = file[o] /\ perm'[m] = perm'[o] /\ \A p : Perm(p)' = Perm(p)
        BY <1>1, <3>1 DEF IsX
      <4>3. \A p \in Pages(file[o]) : Passed(o, p)' => perm'[o][p] = Perm(p)'
        BY <4>1, <4>2
      <4> QED
        BY <3>1, <4>2, <4>3 DEF Protected
    <3>2. CASE m # o
      <4>1. perm'[m] = perm[m]
        BY <1>3, <2>2, <3>2 DEF Typed
      <4>2. Called("map", m) => Called("protect", m)
        BY <1>1, <2>2, <3>2, CallsBefore DEF Typed
      <4>3. \A p : Passed(m, p)' => Passed(m, p)
        BY <2>1, <4>2 DEF Passed
      <4> QED
        BY <1>1, <4>1, <4>3 DEF LoaderInv, Protected, IsX
    <3> QED
      BY <3>1, <3>2
  <2>8. RelrAddsOnce'
    BY <1>1, <2>1, AddedStays DEF LoaderInv
  <2>9. Accounts'
    BY <1>1, <2>1, AccountsStay DEF LoaderInv, memory, code
  <2> QED
    BY <2>4, <2>5, <2>6, <2>7, <2>8, <2>9 DEF LoaderInv
<1> QED
  BY <1>2, <1>3 DEF SetPermission

LEMMA PassEndsInv ==
  ASSUME LoaderInv, NEW o \in Mods, PassEnds(o)
  PROVE  LoaderInv'
<1>1. /\ At("protect", o) /\ Rest(o) = {} /\ Typed
      /\ UNCHANGED <<heap, file, so_list, memory, contents, failed, code>>
  BY DEF PassEnds, LoaderInv
<1>2. \A p \in Pages(file[o]) : p \in Nat /\ (pg <= p => ~(IsX(o, p) <=> want_x))
  BY <1>1 DEF Rest, InPass, Pages
<1>3. Called("map", o) /\ ~Called("protect", o)
  BY <1>1, CallsBefore DEF Typed
<1>4. CASE want_x
  <2>1. want_x' = FALSE /\ pg' = 0 /\ UNCHANGED step
    BY <1>4 DEF PassEnds
  <2>2. \A call, m : Called(call, m)' <=> Called(call, m)
    BY <2>1, NoCallMore
  <2>3. Typed'
    BY <1>1, <2>1 DEF Typed, memory, contents, Pages
  <2>4. so_list' = Listed("load")' /\ ran' = Listed("init")'
    BY <1>1, <2>2, ListsStay DEF LoaderInv, code
  <2>5. \A m \in Mods : Loaded(m)' /\ Placed(m)'
    BY <1>1, <2>2, LoadedStays, PlacedStays DEF LoaderInv, memory, contents
  <2>6. ASSUME NEW m \in Mods, NEW p \in Pages(file[m]), Passed(m, p)'
        PROVE  Passed(m, p)
    <3>1. CASE m = o
      <4>1. IsX(o, p)
        BY <1>1, <1>2, <1>3, <2>1, <2>2, <2>6, <3>1 DEF Passed, IsX
      <4>2. p < pg
        BY <1>1, <1>2, <1>4, <3>1, <4>1 DEF Typed
      <4> QED
        BY <1>1, <3>1, <4>1, <4>2, PassedOf
    <3>2. CASE m # o
      <4>1. Called("map", m) => Called("protect", m)
        BY <1>1, <3>2, CallsBefore DEF Typed
      <4> QED
        BY <2>2, <2>6, <4>1 DEF Passed
    <3> QED
      BY <3>1, <3>2
  <2>7. \A m \in Mods : Protected(m)'
    BY <1>1, <2>6 DEF LoaderInv, Protected, IsX, contents
  <2>8. RelrAddsOnce'
    BY <1>1, <2>2, AddedStays DEF LoaderInv, contents
  <2>9. Accounts'
    BY <1>1, <2>2, AccountsStay DEF LoaderInv, memory, code
  <2> QED
    BY <2>3, <2>4, <2>5, <2>7, <2>8, <2>9 DEF LoaderInv
<1>5. CASE ~want_x
  <2>1. Done /\ UNCHANGED <<want_x, pg>>
    BY <1>5 DEF PassEnds
  <2>2. /\ step' \in 0..18
        /\ \A call, m : Called(call, m)'
              <=> Called(call, m) \/ (call = "protect" /\ m = o)
    BY <1>1, <2>1, OneCallMore DEF Typed
  <2>3. Typed'
    BY <1>1, <2>1, <2>2 DEF Typed, memory, contents, Pages
  <2>4. so_list' = Listed("load")' /\ ran' = Listed("init")'
    BY <1>1, <2>2, ListsStay DEF LoaderInv, code
  <2>5. \A m \in Mods : Loaded(m)' /\ Placed(m)'
    BY <1>1, <2>2, LoadedStays, PlacedStays DEF LoaderInv, memory, contents
  <2>6. ASSUME NEW m \in Mods, NEW p \in Pages(file[m]), Passed(m, p)'
        PROVE  Passed(m, p)
    <3>1. CASE m = o
      <4>1. IsX(o, p) \/ p < pg
        BY <1>1, <1>2, <1>5, <3>1 DEF Typed
      <4> QED
        BY <1>1, <1>5, <3>1, <4>1, PassedOf
    <3>2. CASE m # o
      BY <2>1, <2>2, <2>6, <3>2, <1>1 DEF Passed, IsX
    <3> QED
      BY <3>1, <3>2
  <2>7. \A m \in Mods : Protected(m)'
    BY <1>1, <2>6 DEF LoaderInv, Protected, IsX, contents
  <2>8. RelrAddsOnce'
    BY <1>1, <2>2, AddedStays DEF LoaderInv, contents
  <2>9. Accounts'
    BY <1>1, <2>2, AccountsStay DEF LoaderInv, memory, code
  <2> QED
    BY <2>3, <2>4, <2>5, <2>7, <2>8, <2>9 DEF LoaderInv
<1> QED
  BY <1>4, <1>5

----------------------------------------------------------------------------
LEMMA LoaderStutterInv ==
  ASSUME LoaderInv, UNCHANGED loaderVars
  PROVE  LoaderInv'
<1> USE DEF loaderVars, memory, contents, code
<1>1. \A call, m : Called(call, m)' <=> Called(call, m)
  BY NoCallMore
<1>2. Typed'
  BY DEF LoaderInv, Typed, Pages
<1>3. so_list' = Listed("load")' /\ ran' = Listed("init")'
  BY <1>1, ListsStay DEF LoaderInv, code
<1>4. \A m \in Mods : Loaded(m)' /\ Placed(m)' /\ Protected(m)'
  BY <1>1, LoadedStays, PlacedStays, ProtectedStays DEF LoaderInv
<1>5. RelrAddsOnce'
  BY <1>1, AddedStays DEF LoaderInv
<1>6. Accounts'
  BY <1>1, AccountsStay DEF LoaderInv
<1> QED
  BY <1>2, <1>3, <1>4, <1>5, <1>6 DEF LoaderInv

LEMMA LoaderNextInv == LoaderInv /\ [LoaderNext]_loaderVars => LoaderInv'
<1> SUFFICES ASSUME LoaderInv, [LoaderNext]_loaderVars PROVE LoaderInv'
  OBVIOUS
<1>1. CASE ResolveEntryPoints
  BY <1>1, ResolveEntryPointsInv
<1>2. ASSUME NEW o \in Mods, Load(o) PROVE LoaderInv'
  BY <1>2, LoadInv
<1>3. ASSUME NEW o \in Mods, LoadFails(o) PROVE LoaderInv'
  BY <1>3, FailInv DEF LoadFails
<1>4. ASSUME NEW o \in Mods, Relocate(o) PROVE LoaderInv'
  BY <1>4, RelocateInv
<1>5. ASSUME NEW o \in Mods, RelocateFails(o) PROVE LoaderInv'
  BY <1>5, FailInv DEF RelocateFails
<1>6. ASSUME NEW o \in Mods, Resolve(o) PROVE LoaderInv'
  BY <1>6, ResolveInv
<1>7. ASSUME NEW o \in Mods, MapCode(o) PROVE LoaderInv'
  BY <1>7, MapCodeInv
<1>8. ASSUME NEW o \in Mods, SetPermission(o) PROVE LoaderInv'
  BY <1>8, SetPermissionInv
<1>9. ASSUME NEW o \in Mods, PassEnds(o) PROVE LoaderInv'
  BY <1>9, PassEndsInv
<1>10. ASSUME NEW o \in Mods, ExecuteInitArray(o) PROVE LoaderInv'
  BY <1>10, ExecuteInitArrayInv
<1>11. ASSUME NEW o \in Mods, FreeTemp(o) PROVE LoaderInv'
  BY <1>11, FreeTempInv
<1>12. ASSUME NEW o \in Mods, FlushCaches(o) PROVE LoaderInv'
  BY <1>12, FlushCachesInv
<1>13. CASE SetupGuard
  BY <1>13, SetupGuardInv
<1>14. CASE UNCHANGED loaderVars
  BY <1>14, LoaderStutterInv
<1> QED
  BY <1>1, <1>2, <1>3, <1>4, <1>5, <1>6, <1>7, <1>8, <1>9, <1>10, <1>11, <1>12,
     <1>13, <1>14
     DEF LoaderNext

LEMMA LoaderSpecInv == LoaderSpec => []LoaderInv
  BY LoaderInitInv, LoaderNextInv, PTL DEF LoaderSpec

(* Each call of main finds its modules in the memory it reads: so_relocate,*)
(* so_resolve and the look-up of the entry points run before so_finalize   *)
(* maps an image away, and headers are freed after their last use.         *)
(* Constructors, of the engine and of the runtime, run only when every     *)
(* place of both libraries holds what dynamic linking prescribes, pages    *)
(* with code are executable and the others are writable, caches and stack  *)
(* guard are set up; the runtime's run first (main.c:305-333, so_util.c).  *)
THEOREM LibrariesAreReady == LoaderSpec => []CodeRunsReady
<1>2. ASSUME LoaderInv, NEW m \in Mods,
             NEW call \in NeedsHeaders \cup NeedsImage \cup NeedsCode, At(call, m)
      PROVE  FindsMemory(call, m)
  <2>1. step \in 0..18 /\ Accounts /\ so_list = Listed("load")
    BY <1>2 DEF LoaderInv, Typed
  <2>2. call \in NeedsHeaders => m \in so_base
    BY <1>2, <2>1, MemoryBefore DEF Accounts
  <2>3. call \in NeedsCode => m \in mapped
    BY <1>2, <2>1, MemoryBefore DEF Accounts
  <2>4. Reads(call, m) \subseteq IF call = "resolve" THEN Mods ELSE {m}
    <3>1. \A k \in 1..Len(so_list) : so_list[k] \in Mods
      BY <2>1 DEF Listed, Mods
    <3> QED
      BY <1>2, <3>1 DEF Reads
  <2>5. call \in NeedsImage =>
          \A o \in Reads(call, m) : Called("load", o) /\ o \notin mapped
    <3>1. CASE call = "resolve"
      BY <1>2, <2>1, <2>4, <3>1, MemoryBefore DEF Accounts
    <3>2. CASE call \in NeedsImage /\ call # "resolve"
      BY <1>2, <2>1, <2>4, <3>2, MemoryBefore DEF Accounts, NeedsImage
    <3> QED
      BY <3>1, <3>2
  <2> QED
    BY <2>2, <2>3, <2>5 DEF FindsMemory
<1>1. ASSUME LoaderInv PROVE CodeRunsReady
  <2> SUFFICES ASSUME ran # <<>> PROVE CodeRunsReady
    BY <1>1, <1>2 DEF CodeRunsReady
  <2>1. Typed /\ ran = Listed("init")
    BY <1>1 DEF LoaderInv
  <2>2. Called("init", "cxx")
    <3>1. Called("init", "game") => Called("init", "cxx")
      BY <2>1, CallsBefore DEF Typed, Mods
    <3> QED
      BY <2>1, <3>1 DEF Listed
  <2>3. ran[1] = "cxx"
    BY <2>1, <2>2 DEF Listed
  <2>4. \A m \in Mods : Called("resolve", m) /\ Called("protect", m)
    <3>1. "cxx" \in Mods
      BY DEF Mods
    <3> QED
      BY <2>1, <2>2, <3>1, CallsBefore DEF Typed
  <2>5. ASSUME NEW m \in Mods, NEW p \in DOMAIN place[m]
        PROVE  place[m][p] = Linked(m, p)
    BY <1>1, <2>1, <2>4 DEF LoaderInv, Placed, Typed
  <2>6. ASSUME NEW m \in Mods, NEW p \in DOMAIN perm[m]
        PROVE  perm[m][p] = IF HasCode(file[m], p) THEN "rx" ELSE "rw"
    <3>1. p \in Pages(file[m]) /\ p \in Nat
      <4>1. p \in Pages(file[m])
        BY <2>1 DEF Typed
      <4> QED
        BY <4>1 DEF Pages
    <3>2. Passed(m, p)
      BY <2>4 DEF Passed
    <3>3. perm[m][p] = IF IsX(m, p) THEN "rx" ELSE "rw"
      BY <1>1, <3>1, <3>2 DEF LoaderInv, Protected
    <3>4. IsX(m, p) <=> HasCode(file[m], p)
      BY <2>1, <3>1, CodePages DEF Typed
    <3> QED
      BY <3>3, <3>4
  <2>7. guard /\ flushed = Mods
    <3>1. "cxx" \in Mods
      BY DEF Mods
    <3>2. Called("guard", "game") /\ \A o \in Mods : Called("flush", o)
      BY <2>1, <2>2, <3>1, MemoryBefore DEF Typed
    <3> QED
      BY <1>1, <3>2 DEF LoaderInv, Accounts
  <2> QED
    BY <1>1, <1>2, <2>3, <2>5, <2>6, <2>7 DEF CodeRunsReady
<1> QED
  BY <1>1, LoaderSpecInv, PTL

(* Each image that is loaded lies between the newlib heap and the end of   *)
(* the process's memory, and the engine's behind the runtime's             *)
(* (__libnx_initheap, main.c:305; so_load).                                *)
THEOREM ImagesDoNotOverlap == LoaderSpec => []ImagesApart
<1>1. ASSUME LoaderInv PROVE ImagesApart
  <2>1. Typed /\ so_list = Listed("load")
    BY <1>1 DEF LoaderInv
  <2>2. ASSUME NEW n \in 1..Len(so_list)
        PROVE  so_list[n] \in Mods /\ Called("load", so_list[n])
    <3>1. Called("load", "game") => Called("load", "cxx")
      BY <2>1, CallsBefore DEF Typed, Mods
    <3> QED
      BY <2>1, <3>1 DEF Listed, Mods
  <2>3. ASSUME NEW m \in Mods, Called("load", m)
        PROVE  /\ HeapEnd <= base[m]
               /\ base[m] + LoadSize(file[m]) <= heap.addr + heap.size
               /\ m = "game" => base["cxx"] + LoadSize(file["cxx"]) <= base[m]
    <3>1. base[m] = LoadBase(m) /\ LoadSize(file[m]) <= LoadLimit(m)
      BY <1>1, <2>3 DEF LoaderInv, Loaded
    <3>2. HeapEnd \in Nat /\ SliceStart \in Nat /\ HeapEnd <= SliceStart
      BY <2>1, SliceIs
    <3>3. /\ LoadSize(file[m]) \in Nat /\ LoadBase(m) \in Nat /\ LoadLimit(m) \in Int
          /\ SliceStart <= LoadBase(m) /\ LoadBase(m) + LoadLimit(m) = heap.addr + heap.size
      BY <2>1, ImageIs
    <3>4. base[m] + LoadSize(file[m]) <= heap.addr + heap.size
      BY <3>1, <3>3
    <3>5. ASSUME m = "game" PROVE base["cxx"] + LoadSize(file["cxx"]) <= base[m]
      <4>1. "cxx" \in Mods /\ Called("load", "cxx")
        BY <2>1, <2>3, <3>5, CallsBefore DEF Typed, Mods
      <4>2. base["cxx"] = SliceStart
        BY <1>1, <4>1 DEF LoaderInv, Loaded, LoadBase
      <4>3. LoadSize(file["cxx"]) \in Nat
        BY <2>1, <4>1, ImageIs
      <4> QED
        BY <3>1, <3>2, <3>5, <4>2, <4>3 DEF LoadBase
    <3> QED
      BY <3>1, <3>2, <3>3, <3>4, <3>5
  <2> QED
    BY <2>2, <2>3 DEF ImagesApart
<1> QED
  BY <1>1, LoaderSpecInv, PTL

(* The packed relative relocations, with so_process_relr's running where,  *)
(* add the load base once to each word the linker packed and to no other.  *)
THEOREM RelrIsExact == LoaderSpec => []RelrAddsOnce
<1>1. LoaderInv => RelrAddsOnce
  BY DEF LoaderInv
<1> QED
  BY <1>1, LoaderSpecInv, PTL

(* The size so_load may use is unsigned in the code: it never goes below   *)
(* zero, neither where the heap is split in halves nor behind the runtime. *)
LimitIsSize == \A m \in Mods : At("load", m) => LoadLimit(m) \in Nat

THEOREM LimitsDoNotWrap == LoaderSpec => []LimitIsSize
<1>1. ASSUME LoaderInv PROVE LimitIsSize
  <2> SUFFICES ASSUME NEW m \in Mods, At("load", m) PROVE LoadLimit(m) \in Nat
    BY DEF LimitIsSize
  <2>1. Typed /\ SliceLimit \in Nat
    BY <1>1, SliceIs DEF LoaderInv
  <2>2. CASE m = "cxx"
    BY <2>1, <2>2 DEF LoadLimit
  <2>3. CASE m = "game"
    <3>1. "cxx" \in Mods /\ Called("load", "cxx")
      BY <2>1, <2>3, CallsBefore DEF Typed, Mods
    <3>2. LoadSize(file["cxx"]) <= SliceLimit /\ LoadSize(file["cxx"]) \in Nat
      BY <1>1, <2>1, <3>1, ImageIs DEF LoaderInv, Loaded, LoadLimit
    <3> QED
      BY <2>1, <2>3, <3>2 DEF LoadLimit
  <2> QED
    BY <2>2, <2>3 DEF Mods
<1> QED
  BY <1>1, LoaderSpecInv, PTL

(* Every step of the loader is one of boundedly many: a call of main       *)
(* returns or fails, or so_finalize goes on to its second pass, or within  *)
(* a pass to a later page of the library.  So the search for runs of pages *)
(* never goes round, whatever the segments are (so_util.c:181-237).        *)
Advances ==
    \/ ~failed /\ failed'
    \/ step < step' /\ step' <= Len(Order)
    \/ step' = step /\ want_x /\ ~want_x'
    \/ /\ step' = step /\ want_x' = want_x /\ pg < pg'
       /\ \E m \in Mods : pg' \in 1..(LoadSize(file[m]) \div PAGE)

THEOREM LoadingAdvances == LoaderSpec => [][Advances]_loaderVars
<1>1. ASSUME LoaderInv, LoaderNext PROVE Advances
  <2>1. Typed /\ Len(Order) = 18
    BY <1>1, OrderIs DEF LoaderInv
  <2>2. ASSUME NEW call, NEW m, At(call, m), Done PROVE Advances
    <3>1. step \in 0..18 /\ step' \in 0..18 /\ step' = step + 1
      BY <2>1, <2>2, OneCallMore DEF Typed, Done
    <3> QED
      BY <2>1, <3>1 DEF Advances
  <2>3. ASSUME NEW call, NEW m, At(call, m), failed' PROVE Advances
    BY <2>3 DEF At, Advances
  <2>4. CASE ResolveEntryPoints \/ SetupGuard
    BY <2>2, <2>3, <2>4 DEF ResolveEntryPoints, SetupGuard, Fail
  <2>5. ASSUME NEW m \in Mods,
               \/ Load(m) \/ LoadFails(m) \/ Relocate(m) \/ RelocateFails(m)
               \/ Resolve(m) \/ MapCode(m) \/ FlushCaches(m) \/ ExecuteInitArray(m)
               \/ FreeTemp(m)
        PROVE  Advances
    <3>1. \E call : At(call, m) /\ (Done \/ failed')
      BY <2>5 DEF Load, LoadFails, Relocate, RelocateFails, Resolve, MapCode,
                  FlushCaches, ExecuteInitArray, FreeTemp, Fail
    <3> QED
      BY <2>2, <2>3, <3>1
  <2>6. ASSUME NEW m \in Mods, PassEnds(m) PROVE Advances
    <3>1. CASE want_x
      BY <2>6, <3>1 DEF PassEnds, Advances
    <3>2. CASE ~want_x
      BY <2>2, <2>6, <3>2 DEF PassEnds
    <3> QED
      BY <3>1, <3>2
  <2>7. ASSUME NEW m \in Mods, SetPermission(m) PROVE Advances
    <3> DEFINE n == LoadSize(file[m]) \div PAGE
    <3>1. At("protect", m) /\ Rest(m) # {} /\ step' = step /\ want_x' = want_x
      BY <2>7 DEF SetPermission
    <3>2. CASE failed'
      BY <2>3, <3>1, <3>2
    <3>3. CASE pg' = AfterRun(m)
      <4>1. Max(Run(m)) \in Rest(m) /\ pg <= Max(Run(m)) /\ pg \in Nat
        BY <2>1, <3>1, RunIs DEF Typed
      <4>2. n \in Nat
        BY <2>1, ImageIs, Division, LoaderAssumption
      <4>3. Max(Run(m)) \in 0..(n - 1)
        BY <4>1 DEF Rest, Pages
      <4> HIDE DEF n
      <4>4. pg < pg' /\ pg' \in 1..n
        BY <3>3, <4>1, <4>2, <4>3 DEF AfterRun
      <4> QED
        BY <3>1, <4>4 DEF Advances, n
    <3> QED
      BY <2>7, <3>2, <3>3 DEF SetPermission
  <2> QED
    BY <1>1, <2>4, <2>5, <2>6, <2>7 DEF LoaderNext
<1>2. LoaderInv /\ [LoaderNext]_loaderVars => [Advances]_loaderVars
  BY <1>1
<1> QED
  BY <1>2, LoaderSpecInv, PTL DEF LoaderSpec

----------------------------------------------------------------------------
(***************************************************************************)
(* The loop: the engine's view of the pad and of the finger is the         *)
(* player's, for every set of buttons, panel, number of fingers and screen *)
(* width.                                                                  *)
(***************************************************************************)

(* Outside of the call to pushSensor the engine holds what the builder     *)
(* last saw; inside it the edges lead from the one to the other.           *)
KeysInv ==
    /\ pad \subseteq Buttons
    /\ pc # "push" => held = key_last
    /\ pc = "push" =>
         /\ storage.key_on = key_now \ held
         /\ storage.key_off = held \ key_now
         /\ key_last = key_now
    /\ pc = "update" => key_last = key_now
    /\ pc \in {"touch", "build", "push", "update"} => key_now = NativeKeys(pad)

(* No key is held, or known to be held, at first.                        *)
LEMMA KeysInit == Init => KeysInv
  BY DEF Init, KeysInv

(***************************************************************************)
(* Every step of the loop keeps the engine's keys those of the builder.    *)
(***************************************************************************)
LEMMA KeysStep == KeysInv /\ [Next]_vars => KeysInv'
<1> SUFFICES ASSUME KeysInv, [Next]_vars PROVE KeysInv'
  OBVIOUS
<1> USE DEF KeysInv
<1>1. CASE UpdateKeys
  BY <1>1 DEF UpdateKeys, Go, builderVars, engineVars, loopVars, NativeKeys
<1>2. CASE BuildSensorArray
  BY <1>2 DEF BuildSensorArray, KeyEdges, Go, inputVars, engineVars, NativeKeys
<1>3. CASE PushSensor
  <2>1. held' = (held \cup (key_now \ held)) \ (held \ key_now)
    BY <1>3 DEF PushSensor, Go
  <2>2. held' = key_now
    BY <2>1
  <2>3. pc' = "update" /\ key_last' = key_last /\ UNCHANGED <<pad, key_now>>
    BY <1>3 DEF PushSensor, Go, inputVars, builderVars
  <2>4. key_last = key_now /\ key_now = NativeKeys(pad)
    BY <1>3 DEF PushSensor, Go
  <2>5. NativeKeys(pad)' = NativeKeys(pad)
    BY <2>3 DEF NativeKeys
  <2> QED
    BY <2>2, <2>3, <2>4, <2>5
<1>4. CASE LoopTop \/ UpdateTouch \/ OnFrameUpdate \/ OnFrameRender
             \/ SwapBuffers \/ OnPause \/ OnStop \/ Destruct \/ Exit
             \/ RequestExit \/ UNCHANGED vars
  <2>1. UNCHANGED <<pad, key_now, key_last, held>>
    BY <1>4 DEF LoopTop, UpdateTouch, OnFrameUpdate, OnFrameRender, SwapBuffers,
       OnPause, OnStop, Destruct, Exit, RequestExit, EngineRuns, vars,
       inputVars, builderVars, engineVars
  <2>2. NativeKeys(pad)' = NativeKeys(pad)
    BY <2>1 DEF NativeKeys
  <2>3. \/ pc' \notin {"touch", "build", "push", "update"}
        \/ pc = "touch" /\ pc' = "build"
        \/ pc' = pc /\ UNCHANGED <<storage>>
    BY <1>4 DEF LoopTop, UpdateTouch, OnFrameUpdate, OnFrameRender, SwapBuffers,
       OnPause, OnStop, Destruct, Exit, RequestExit, EngineRuns, Go, vars,
       builderVars
  <2>4. pc = "push" => pc' = pc
    BY <1>4 DEF LoopTop, UpdateTouch, OnFrameUpdate, OnFrameRender, SwapBuffers,
       OnPause, OnStop, Destruct, Exit, RequestExit, EngineRuns, Go, vars
  <2> QED
    BY <2>1, <2>2, <2>3, <2>4
<1> QED
  BY <1>1, <1>2, <1>3, <1>4 DEF Next, Step

(***************************************************************************)
(* The mapping of update_keys, read from the engine's side: which buttons  *)
(* each key comes from.                                                    *)
(***************************************************************************)
LEMMA KeysMeant ==
  ASSUME NEW d \in SUBSET Buttons
  PROVE  /\ NativeKeys(d) \subseteq Bits
         /\ \A key \in Bits :
              key \in NativeKeys(d) <=> /\ d \cap MeantBy[key] # {}
                                        /\ key = "R1" => "X" \notin d
<1>1. DOMAIN Plain = {"A", "B", "Y", "L", "ZL", "ZR", "StickL", "StickR", "Plus",
                      "Minus", "Up", "Down", "Left", "Right"}
  BY DEF Plain
<1>2. d \ {"X", "R"} \subseteq DOMAIN Plain
  BY <1>1, LoopAssumption
<1>3. \A b \in DOMAIN Plain :
        /\ Plain[b] \in Bits
        /\ \A key \in Bits : b \in MeantBy[key] <=> key = Plain[b]
  BY <1>1 DEF Plain, MeantBy, Bits
<1>4. /\ "X" \in MeantBy["L1"] /\ "X" \in MeantBy["X"] /\ "R" \in MeantBy["R1"]
      /\ \A key \in Bits : /\ "X" \in MeantBy[key] => key \in {"L1", "X"}
                           /\ "R" \in MeantBy[key] => key = "R1"
      /\ MeantBy["R1"] = {"R"}
  BY DEF MeantBy, Bits
<1>5. NativeKeys(d) \subseteq Bits
  BY <1>2, <1>3 DEF NativeKeys, Bits
<1>6. ASSUME NEW key \in Bits, key \in NativeKeys(d)
      PROVE  d \cap MeantBy[key] # {} /\ (key = "R1" => "X" \notin d)
  BY <1>2, <1>3, <1>4, <1>6 DEF NativeKeys
<1>7. ASSUME NEW key \in Bits, d \cap MeantBy[key] # {}, key = "R1" => "X" \notin d
      PROVE  key \in NativeKeys(d)
  BY <1>2, <1>3, <1>4, <1>7 DEF NativeKeys
<1> QED
  BY <1>5, <1>6, <1>7

(***************************************************************************)
(* In every behaviour of the loop the keys the engine has accumulated from *)
(* press and release edges are those the buttons on the pad stand for.     *)
(***************************************************************************)
THEOREM KeysHeld == Spec => []HeldIsPad
<1>1. KeysInv => HeldIsPad
  BY KeysMeant DEF KeysInv, HeldIsPad
<1> QED
  BY KeysInit, KeysStep, <1>1, PTL DEF Spec

(***************************************************************************)
(* The native bits L1 and R1 together come from L and R without X.         *)
(***************************************************************************)
LEMMA MapChord ==
  ASSUME NEW d \in SUBSET Buttons, "L1" \in NativeKeys(d), "R1" \in NativeKeys(d)
  PROVE  "L" \in d /\ "R" \in d /\ "X" \notin d
<1>1. DOMAIN Plain = {"A", "B", "Y", "L", "ZL", "ZR", "StickL", "StickR", "Plus",
                      "Minus", "Up", "Down", "Left", "Right"}
  BY DEF Plain
<1>2. d \ {"X", "R"} \subseteq DOMAIN Plain
  BY <1>1, LoopAssumption
<1>3. \A b \in DOMAIN Plain : Plain[b] # "R1" /\ (Plain[b] = "L1" => b = "L")
  BY <1>1 DEF Plain
<1>4. "R" \in d /\ "X" \notin d
  BY <1>2, <1>3 DEF NativeKeys
<1>5. \E b \in d \ {"X", "R"} : Plain[b] = "L1"
  BY <1>4 DEF NativeKeys
<1> QED
  BY <1>2, <1>3, <1>4, <1>5

(***************************************************************************)
(* The engine sees the map command only when the player holds L and R.     *)
(***************************************************************************)
THEOREM MapByPlayerOnly == Spec => []MapOnlyByPlayer
<1>1. KeysInv => MapOnlyByPlayer
  BY MapChord DEF KeysInv, MapOnlyByPlayer
<1> QED
  BY KeysInit, KeysStep, <1>1, PTL DEF Spec

----------------------------------------------------------------------------
(* The builder's statics are the two ends of the stroke, and the engine    *)
(* has them outside of the call to pushSensor; inside it the array says    *)
(* what changed.                                                           *)
StrokeInv ==
    /\ stroke = <<>> => ~touch_last /\ ~press.down
    /\ stroke # <<>> => start_x = stroke[1] /\ last_x = stroke[2]
    /\ pc # "push" =>
         /\ press.down = touch_last
         /\ stroke # <<>> => press.start = stroke[1] /\ press.at = stroke[2]
    /\ pc = "push" =>
         /\ storage.touch_on = (down /\ ~press.down)
         /\ storage.touch_off = (press.down /\ ~down)
         /\ touch_last = down
         /\ stroke # <<>> => storage.start = stroke[1] /\ storage.move = stroke[2]
         /\ ~down /\ ~press.down /\ stroke # <<>> =>
              press.start = stroke[1] /\ press.at = stroke[2]
    /\ pc = "update" => touch_last = down
    /\ press.down \in BOOLEAN /\ touch_last \in BOOLEAN

(* No stroke has begun at first.                                         *)
LEMMA StrokeInit == Init => StrokeInv
<1> SUFFICES ASSUME Init PROVE StrokeInv
  OBVIOUS
<1>1. press.down = FALSE
  BY DEF Init, NoPress
<1>2. pc = "top" /\ stroke = <<>> /\ touch_last = FALSE
  BY DEF Init
<1> QED
  BY <1>1, <1>2 DEF StrokeInv

(***************************************************************************)
(* Every step of the loop keeps the ends of the stroke where they are due. *)
(***************************************************************************)
LEMMA StrokeStep == StrokeInv /\ [Next]_vars => StrokeInv'
<1> SUFFICES ASSUME StrokeInv, [Next]_vars PROVE StrokeInv'
  OBVIOUS
<1>1. CASE BuildSensorArray
  <2>1. /\ pc = "build" /\ pc' = "push"
        /\ UNCHANGED <<press, touch, down>>
        /\ touch_last' = down
    BY <1>1 DEF BuildSensorArray, Go, engineVars, inputVars, down
  <2>2. /\ storage'.touch_on = (down /\ ~touch_last)
        /\ storage'.touch_off = (touch_last /\ ~down)
        /\ storage'.start = start_x' /\ storage'.move = Current
    BY <1>1 DEF BuildSensorArray
  <2>3. down \in BOOLEAN
    BY DEF down
  <2>4. CASE down /\ ~touch_last
    <3>1. stroke' = <<touch[1], touch[1]>> /\ start_x' = touch[1]
          /\ last_x' = touch[1] /\ Current = touch[1]
      BY <1>1, <2>4 DEF BuildSensorArray, Current
    <3> QED
      BY <2>1, <2>2, <2>3, <2>4, <3>1 DEF StrokeInv
  <2>5. CASE down /\ touch_last
    <3>1. stroke' = <<stroke[1], touch[1]>> /\ start_x' = start_x
          /\ last_x' = touch[1] /\ Current = touch[1]
      BY <1>1, <2>5 DEF BuildSensorArray, Current
    <3> QED
      BY <2>1, <2>2, <2>3, <2>5, <3>1 DEF StrokeInv
  <2>6. CASE ~down
    <3>1. stroke' = stroke /\ start_x' = start_x /\ last_x' = last_x
          /\ Current = last_x
      BY <1>1, <2>6 DEF BuildSensorArray, Current
    <3> QED
      BY <2>1, <2>2, <2>3, <2>6, <3>1 DEF StrokeInv
  <2> QED
    BY <2>3, <2>4, <2>5, <2>6
<1>2. CASE PushSensor
  <2>1. /\ pc = "push" /\ pc' = "update"
        /\ UNCHANGED <<touch, down, touch_last, stroke, start_x, last_x>>
    BY <1>2 DEF PushSensor, Go, inputVars, builderVars, down
  <2>2. down \in BOOLEAN
    BY DEF down
  <2>3. CASE storage.touch_on \/ storage.touch_off \/ press.down
    <3>1. press'.down = (~storage.touch_off /\ (press.down \/ storage.touch_on))
          /\ press'.start = storage.start /\ press'.at = storage.move
      BY <1>2, <2>3 DEF PushSensor
    <3> QED
      BY <2>1, <2>2, <2>3, <3>1 DEF StrokeInv
  <2>4. CASE ~(storage.touch_on \/ storage.touch_off \/ press.down)
    <3>1. press' = press
      BY <1>2, <2>4 DEF PushSensor
    <3> QED
      BY <2>1, <2>2, <2>4, <3>1 DEF StrokeInv
  <2> QED
    BY <2>3, <2>4
<1>3. CASE UpdateTouch
  BY <1>3 DEF UpdateTouch, Go, StrokeInv, builderVars, engineVars
<1>4. CASE LoopTop \/ UpdateKeys \/ OnFrameUpdate \/ OnFrameRender
             \/ SwapBuffers \/ OnPause \/ OnStop \/ Destruct \/ Exit
             \/ RequestExit \/ UNCHANGED vars
  <2>1. UNCHANGED <<touch, touch_last, start_x, last_x, press, stroke, storage>>
    BY <1>4 DEF LoopTop, UpdateKeys, OnFrameUpdate, OnFrameRender, SwapBuffers,
       OnPause, OnStop, Destruct, Exit, RequestExit, EngineRuns, vars,
       inputVars, builderVars, engineVars
  <2>2. pc' = pc \/ (pc # "push" /\ pc' \notin {"push", "update"})
    BY <1>4 DEF LoopTop, UpdateKeys, OnFrameUpdate, OnFrameRender, SwapBuffers,
       OnPause, OnStop, Destruct, Exit, RequestExit, EngineRuns, Go, vars
  <2> QED
    BY <2>1, <2>2 DEF StrokeInv, down
<1> QED
  BY <1>1, <1>2, <1>3, <1>4 DEF Next, Step

(***************************************************************************)
(* In every behaviour a touch is one stroke of the engine, begun where the *)
(* finger was first sampled and, after the release, ended where it was     *)
(* last sampled.                                                           *)
(***************************************************************************)
THEOREM StrokesAreReported == Spec => []StrokesReported
<1>1. StrokeInv => StrokesReported
  BY DEF StrokeInv, StrokesReported
<1> QED
  BY StrokeInit, StrokeStep, <1>1, PTL DEF Spec

----------------------------------------------------------------------------
(* The screen has a width, and does not change it.                         *)
TypeInv == TypeOK /\ screen_width \in Nat \ {0}

(* A product with a larger factor is larger.                               *)
LEMMA ProductGrows ==
  ASSUME NEW a \in Nat, NEW b \in Nat, NEW c \in Nat, a <= b
  PROVE  c * a <= c * b
<1>1. c * b = c * a + c * (b - a) /\ c * a \in Nat /\ c * (b - a) \in Nat
  OBVIOUS
<1> QED
  BY <1>1

(* A position on the panel is scaled to one on the screen.                 *)
LEMMA ScaleOnScreen ==
  ASSUME screen_width \in Nat \ {0}, NEW x \in Positions
  PROVE  Scale(x) \in Screen
<1> DEFINE w == screen_width
           q == (x * w) \div PANEL
<1>1. x \in Nat /\ x <= PANEL - 1 /\ w \in Nat /\ w >= 1 /\ PANEL \in Nat \ {0}
  BY LoopAssumption DEF Positions
<1>2. x * w \in Nat
  BY <1>1
<1>3. q \in Nat /\ PANEL * q <= x * w
  <2> HIDE DEF w
  <2>1. \A n \in Nat : \A p \in Nat \ {0} :
          n \div p \in Nat /\ p * (n \div p) <= n
    BY SMT
  <2> QED
    BY <1>1, <1>2, <2>1
<1>4. ASSUME w <= q PROVE FALSE
  <2>1. PANEL * w <= PANEL * q
    BY <1>1, <1>3, <1>4, ProductGrows
  <2>2. w * (x + 1) <= w * PANEL
    BY <1>1, ProductGrows
  <2>3. w * (x + 1) = x * w + w /\ w * PANEL = PANEL * w
    BY <1>1
  <2>4. PANEL * w \in Nat /\ PANEL * q \in Nat
    BY <1>1, <1>3
  <2> QED
    BY <1>1, <1>2, <1>3, <2>1, <2>2, <2>3, <2>4
<1>5. q \in 0..(w - 1)
  BY <1>1, <1>3, <1>4
<1> QED
  BY <1>5 DEF Scale, Screen

(* Every button is mapped to native bits.                                  *)
LEMMA NativeBits ==
  ASSUME NEW d \in SUBSET Buttons
  PROVE  NativeKeys(d) \subseteq Bits
<1>1. d \ {"X", "R"} \subseteq
        {"A", "B", "Y", "L", "ZL", "ZR", "StickL", "StickR", "Plus", "Minus",
         "Up", "Down", "Left", "Right"}
  BY LoopAssumption
<1>2. \A b \in d \ {"X", "R"} : Plain[b] \in Bits
  BY <1>1 DEF Plain, Bits
<1> QED
  BY <1>2 DEF NativeKeys, Bits

(* set_screen_size leaves a screen of at least one position.               *)
LEMMA TypeInit == Init => TypeInv
<1> SUFFICES ASSUME Init PROVE TypeInv
  OBVIOUS
<1>1. MAX_WIDTH \in Nat \ {0}
  <2>1. \A n \in Nat \ {0} : (3 * n) \div 2 \in Nat \ {0}
    BY SMT
  <2> QED
    BY <2>1, LoopAssumption DEF MAX_WIDTH
<1>2. \A w \in Configured, docked \in BOOLEAN :
        ScreenWidth(w, docked) \in Nat \ {0}
  BY <1>1, LoopAssumption DEF Configured, ScreenWidth
<1>3. screen_width \in Nat \ {0}
  BY <1>2 DEF Init
<1>4. 0 \in Screen
  BY <1>3 DEF Screen
<1>5. touch \in UNION {[1..n -> Screen] : n \in 0..AOM_MAX_TOUCH}
  <2>1. <<>> \in [1..0 -> Screen] /\ 0 \in 0..AOM_MAX_TOUCH
    BY LoopAssumption
  <2>2. touch = <<>>
    BY DEF Init
  <2> QED
    BY <2>1, <2>2
<1>6. storage \in Sensor
  BY <1>4 DEF Init, Sensor
<1>7. press \in [down : BOOLEAN, start : Screen, at : Screen]
  BY <1>4 DEF Init, NoPress
<1>8. {applet, jni_quit_requested, boost, touch_last} \subseteq BOOLEAN
  BY Zenon DEF Init
<1>9. boot_frames \in 0..BOOST_FRAMES
  BY LoopAssumption DEF Init
<1>10. /\ pad \subseteq Buttons /\ key_now \subseteq Bits
       /\ key_last \subseteq Bits /\ held \subseteq Bits
       /\ last_x \in Screen /\ start_x \in Screen /\ pc = "top"
  BY <1>4 DEF Init
<1> QED
  BY <1>3, <1>5, <1>6, <1>7, <1>8, <1>9, <1>10 DEF TypeInv, TypeOK

(***************************************************************************)
(* Every step keeps the types; the sampling is where positions could leave *)
(* the screen.                                                             *)
(***************************************************************************)
LEMMA TypeStep == TypeInv /\ [Next]_vars => TypeInv'
<1> SUFFICES ASSUME TypeInv, [Next]_vars PROVE TypeInv'
  OBVIOUS
<1> USE DEF TypeInv, TypeOK, loopVars, inputVars, builderVars, engineVars, Go
<1>1. CASE UpdateTouch
  <2>1. UNCHANGED screen_width
    BY <1>1 DEF UpdateTouch
  <2>2. PICK f \in Fingers :
          touch' = [j \in 1..(IF Len(f) < AOM_MAX_TOUCH THEN Len(f)
                                                        ELSE AOM_MAX_TOUCH)
                     |-> Scale(f[j])]
    BY <1>1 DEF UpdateTouch
  <2>3. PICK n \in 0..MaxFingers : f \in [1..n -> Positions]
    BY DEF Fingers
  <2>4. n \in Nat /\ Len(f) = n
    BY <2>3, LoopAssumption
  <2> DEFINE m == IF n < AOM_MAX_TOUCH THEN n ELSE AOM_MAX_TOUCH
  <2>5. m \in 0..AOM_MAX_TOUCH /\ 1..m \subseteq 1..n
    BY <2>4, LoopAssumption
  <2>6. \A j \in 1..m : Scale(f[j]) \in Screen
    BY <2>3, <2>5, ScaleOnScreen
  <2>7. touch' \in [1..m -> Screen]
    BY <2>2, <2>4, <2>6
  <2>8. touch' \in UNION {[1..k -> Screen] : k \in 0..AOM_MAX_TOUCH}
    BY <2>5, <2>7
  <2> QED
    BY <1>1, <2>1, <2>8 DEF UpdateTouch, Screen, Sensor
<1>2. CASE UpdateKeys
  <2>1. key_now' \subseteq Bits
    BY <1>2, NativeBits DEF UpdateKeys
  <2> QED
    BY <1>2, <2>1 DEF UpdateKeys, Screen, Sensor
<1>3. CASE BuildSensorArray
  <2>1. UNCHANGED <<screen_width, touch, key_now>>
    BY <1>3 DEF BuildSensorArray
  <2>2. down => touch[1] \in Screen
    <3>1. PICK n \in 0..AOM_MAX_TOUCH : touch \in [1..n -> Screen]
      OBVIOUS
    <3>2. down => n # 0
      BY <3>1 DEF down
    <3>3. n # 0 => 1 \in 1..n
      BY <3>1, LoopAssumption
    <3> QED
      BY <3>1, <3>2, <3>3
  <2>3. down \in BOOLEAN
    BY DEF down
  <2>4. start_x' \in Screen /\ last_x' \in Screen /\ Current \in Screen
    BY <1>3, <2>2 DEF BuildSensorArray, Current
  <2>5. storage' \in Sensor
    BY <1>3, <2>3, <2>4 DEF BuildSensorArray, KeyEdges, Sensor
  <2> QED
    BY <1>3, <2>1, <2>3, <2>4, <2>5 DEF BuildSensorArray, Screen, Sensor
<1>4. CASE PushSensor
  <2>1. /\ storage.start \in Screen /\ storage.move \in Screen
        /\ storage.key_on \subseteq Bits /\ storage.touch_on \in BOOLEAN
        /\ storage.touch_off \in BOOLEAN
    BY DEF Sensor
  <2>2. press' \in [down : BOOLEAN, start : Screen, at : Screen]
    BY <1>4, <2>1 DEF PushSensor
  <2> QED
    BY <1>4, <2>1, <2>2 DEF PushSensor, Screen, Sensor
<1>5. CASE SwapBuffers
  <2>1. boot_frames' \in 0..BOOST_FRAMES
    BY <1>5, LoopAssumption DEF SwapBuffers
  <2> QED
    BY <1>5, <2>1 DEF SwapBuffers, Screen, Sensor
<1>6. CASE LoopTop \/ OnFrameUpdate \/ OnFrameRender \/ OnPause \/ OnStop
             \/ Destruct \/ Exit \/ RequestExit \/ UNCHANGED vars
  BY <1>6 DEF LoopTop, OnFrameUpdate, OnFrameRender, OnPause, OnStop, Destruct,
     Exit, RequestExit, EngineRuns, vars, Screen, Sensor
<1> QED
  BY <1>1, <1>2, <1>3, <1>4, <1>5, <1>6 DEF Next, Step

(***************************************************************************)
(* Every key is one of the engine's bits and every position, sampled,      *)
(* kept, pushed or followed, is on the screen, whatever its width, the     *)
(* panel's and the number of fingers.                                      *)
(***************************************************************************)
THEOREM TypeCorrect == Spec => []TypeOK
<1>1. TypeInv => TypeOK
  BY DEF TypeInv
<1> QED
  BY TypeInit, TypeStep, <1>1, PTL DEF Spec

=============================================================================
