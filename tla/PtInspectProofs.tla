--------------------------- MODULE PtInspectProofs ---------------------------
(***************************************************************************)
(* Proofs about the page-table inspector, for every number of levels and   *)
(* of entries, every memory, and whatever words the tables hold.           *)
(***************************************************************************)
EXTENDS PtInspect, FiniteSetTheorems, TLAPS

-----------------------------------------------------------------------------
(* Spans.                                                                  *)

\* Every set of naturals that is not empty has a least element.
LEMMA LeastNatural ==
  ASSUME NEW S, S \subseteq Nat, S # {}
  PROVE  \E m \in S : \A k \in S : m <= k
<1>1. PICK m \in S : \A k \in S : ~ (<<k, m>> \in OpToRel(<, Nat))
  BY WFMin, NatLessThanWellFounded
<1>2. \A k \in S : ~ (k < m)
  BY <1>1 DEF OpToRel
<1> QED
  BY <1>2

\* f has the spans of the levels up to n.
Spans(n, f) == f = [l \in 0 .. n |-> IF l = 0 THEN 1 ELSE PT_ENTRIES * f[l - 1]]

LEMMA SpansExist ==
  ASSUME NEW n \in Nat
  PROVE  \E f : Spans(n, f)
<1> DEFINE S == {m \in Nat : ~ \E f : Spans(m, f)}
<1> SUFFICES ASSUME S # {} PROVE FALSE
  OBVIOUS
<1>1. PICK m \in S : \A k \in S : m <= k
  BY LeastNatural
<1>2. CASE m = 0
  <2>1. Spans(0, [l \in 0 .. 0 |-> 1])
    BY DEF Spans
  <2> QED
    BY <1>2, <2>1
<1>3. CASE m # 0
  <2>1. PICK f : Spans(m - 1, f)
    BY <1>1, <1>3
  <2> DEFINE g == [l \in 0 .. m |-> IF l = m THEN PT_ENTRIES * f[m - 1] ELSE f[l]]
  <2>2. ASSUME NEW l \in 0 .. m
        PROVE  g[l] = IF l = 0 THEN 1 ELSE PT_ENTRIES * g[l - 1]
    <3>1. CASE l = m
      BY <1>3, <3>1
    <3>2. CASE l # m
      <4>1. l \in 0 .. m - 1 /\ (l # 0 => l - 1 \in 0 .. m /\ l - 1 # m)
        BY <1>3, <3>2
      <4>2. f[l] = IF l = 0 THEN 1 ELSE PT_ENTRIES * f[l - 1]
        BY <2>1, <4>1 DEF Spans
      <4> QED
        BY <3>2, <4>1, <4>2
    <3> QED
      BY <3>1, <3>2
  <2>3. Spans(m, g)
    BY <2>2 DEF Spans
  <2> QED
    BY <2>3
<1> QED
  BY <1>2, <1>3

LEMMA SpanEquation ==
  /\ sf_va_level_span[0] = 1
  /\ \A l \in 1 .. PT_LEVELS : sf_va_level_span[l] = PT_ENTRIES * sf_va_level_span[l - 1]
<1>1. PT_LEVELS \in Nat \ {0}
  BY PtInspectAssumption
<1>2. \E f : Spans(PT_LEVELS, f)
  BY <1>1, SpansExist
<1>3. sf_va_level_span = CHOOSE f : Spans(PT_LEVELS, f)
  BY DEF sf_va_level_span, Spans
<1>4. Spans(PT_LEVELS, sf_va_level_span)
  BY <1>2, <1>3
<1> QED
  BY <1>1, <1>4 DEF Spans

LEMMA SpanIs ==
  /\ sf_va_level_span[0] = 1
  /\ \A l \in 0 .. PT_LEVELS : sf_va_level_span[l] \in Nat \ {0}
  /\ \A l \in LevelsOf : /\ l + 1 \in 1 .. PT_LEVELS /\ l \in 0 .. PT_LEVELS
                         /\ sf_va_level_span[l + 1] = PT_ENTRIES * sf_va_level_span[l]
<1>0. PT_LEVELS \in Nat \ {0} /\ PT_ENTRIES \in Nat \ {0}
  BY PtInspectAssumption
<1>1. ASSUME NEW l \in LevelsOf
      PROVE  /\ l + 1 \in 1 .. PT_LEVELS /\ l \in 0 .. PT_LEVELS
             /\ sf_va_level_span[l + 1] = PT_ENTRIES * sf_va_level_span[l]
  <2>1. l + 1 \in 1 .. PT_LEVELS /\ l \in 0 .. PT_LEVELS /\ (l + 1) - 1 = l
    BY <1>0 DEF LevelsOf
  <2> QED
    BY <2>1, SpanEquation
<1> DEFINE S == {l \in Nat : l <= PT_LEVELS /\ sf_va_level_span[l] \notin Nat \ {0}}
<1>2. S = {}
  <2> SUFFICES ASSUME S # {} PROVE FALSE
    OBVIOUS
  <2>1. PICK l \in S : \A k \in S : l <= k
    BY LeastNatural
  <2>2. l # 0
    BY <2>1, SpanEquation
  <2>3. l - 1 \in LevelsOf /\ l - 1 \in Nat /\ l - 1 <= PT_LEVELS /\ (l - 1) + 1 = l /\ ~ (l <= l - 1)
    BY <1>0, <2>1, <2>2 DEF LevelsOf
  <2>4. sf_va_level_span[l - 1] \in Nat \ {0}
    BY <2>1, <2>3
  <2>5. sf_va_level_span[l] = PT_ENTRIES * sf_va_level_span[l - 1]
    BY <1>1, <2>3
  <2>6. sf_va_level_span[l] \in Nat \ {0}
    BY <1>0, <2>4, <2>5
  <2> QED
    BY <2>1, <2>6
<1> QED
  BY <1>0, <1>1, <1>2, SpanEquation

\* The first page of a table, or of an entry, at level l.
Aligned(first, l) == first \in Nat /\ \E q \in Nat : first = q * sf_va_level_span[l]

\* The pages of an entry at level l.
Window(first, l) == first .. first + sf_va_level_span[l] - 1

\* A quotient is known by its bounds.
LEMMA Quotient ==
  ASSUME NEW s \in Nat \ {0}, NEW q \in Nat, NEW va \in Nat, q * s <= va, va < q * s + s
  PROVE  va \div s = q
<1> DEFINE d == va \div s
<1>1. d \in Nat /\ s * d <= va /\ va < s * d + s
  OBVIOUS
<1> HIDE DEF d
<1>2. CASE d >= q + 1
  <2>1. s * d >= s * (q + 1)
    BY <1>1, <1>2
  <2> QED
    BY <1>1, <2>1
<1>3. CASE d + 1 <= q
  <2>1. s * (d + 1) <= s * q
    BY <1>1, <1>3
  <2> QED
    BY <1>1, <2>1
<1> QED
  BY <1>1, <1>2, <1>3 DEF d

LEMMA Remainder ==
  ASSUME NEW P \in Nat \ {0}, NEW q \in Nat, NEW i \in 0 .. P - 1
  PROVE  (q * P + i) % P = i
<1> DEFINE n == q * P + i
<1>1. n \in Nat /\ q * P <= n /\ n < q * P + P
  OBVIOUS
<1>2. n \div P = q
  BY <1>1, Quotient
<1>3. n = P * (n \div P) + (n % P)
  BY <1>1
<1> HIDE DEF n
<1>4. n % P \in Int /\ n = P * q + (n % P)
  BY <1>1, <1>2, <1>3
<1> QED
  BY <1>4 DEF n

\* sf_va_vpn finds the entry whose pages va is among.
LEMMA VpnIs ==
  ASSUME NEW l \in LevelsOf, NEW first, Aligned(first, l + 1), NEW i \in Indices,
         NEW va \in Window(first + i * sf_va_level_span[l], l)
  PROVE  sf_va_vpn(va, l) = i
<1> DEFINE s == sf_va_level_span[l]
           P == PT_ENTRIES
<1>1. s \in Nat \ {0} /\ P \in Nat \ {0} /\ sf_va_level_span[l + 1] = P * s
  BY SpanIs, PtInspectAssumption
<1>2. PICK q \in Nat : first = q * (P * s)
  BY <1>1 DEF Aligned
<1>3. i \in Nat /\ i \in 0 .. P - 1
  BY DEF Indices
<1>4. va \in Nat /\ first + i * s <= va /\ va < first + i * s + s
  <2>1. first \in Nat /\ i * s \in Nat
    BY <1>1, <1>2, <1>3
  <2> QED
    BY <1>1, <2>1 DEF Window
<1> HIDE DEF s, P
<1>5. (q * P + i) * s = first + i * s /\ q * P + i \in Nat
  <2>1. q * (P * s) = (q * P) * s
    BY <1>1
  <2>2. (q * P + i) * s = (q * P) * s + i * s
    BY <1>1, <1>3
  <2>3. q * P + i \in Nat
    BY <1>1, <1>3
  <2> QED
    BY <1>2, <2>1, <2>2, <2>3
<1>6. va \div s = q * P + i
  BY <1>1, <1>4, <1>5, Quotient
<1>7. (q * P + i) % P = i
  BY <1>1, <1>3, Remainder
<1> QED
  BY <1>6, <1>7 DEF sf_va_vpn, s, P

LEMMA AlignedEntry ==
  ASSUME NEW l \in LevelsOf, NEW first, Aligned(first, l + 1), NEW i \in Nat
  PROVE  Aligned(first + i * sf_va_level_span[l], l)
<1> DEFINE s == sf_va_level_span[l]
           P == PT_ENTRIES
<1>1. s \in Nat \ {0} /\ P \in Nat \ {0} /\ sf_va_level_span[l + 1] = P * s
  BY SpanIs, PtInspectAssumption
<1>2. PICK q \in Nat : first = q * (P * s)
  BY <1>1 DEF Aligned
<1>3. first \in Nat
  BY DEF Aligned
<1> HIDE DEF s, P
<1>4. q * P + i \in Nat /\ first + i * s \in Nat
  BY <1>1, <1>3
<1>5. first + i * s = (q * P + i) * s
  <2>1. q * (P * s) = (q * P) * s
    BY <1>1
  <2>2. (q * P + i) * s = (q * P) * s + i * s
    BY <1>1
  <2> QED
    BY <1>2, <2>1, <2>2
<1> QED
  BY <1>4, <1>5 DEF Aligned, s

\* There is one first page in a window.
LEMMA OneFirst ==
  ASSUME NEW l \in 0 .. PT_LEVELS, NEW first, Aligned(first, l),
         NEW va \in Firsts(l), va \in Window(first, l)
  PROVE  va = first
<1> DEFINE s == sf_va_level_span[l]
<1>1. s \in Nat \ {0}
  BY SpanIs
<1>2. PICK q \in Nat : first = q * s
  BY DEF Aligned
<1>3. va \in Nat /\ va % s = 0
  BY DEF Firsts, Pages
<1>4. first \in Nat /\ first <= va /\ va < first + s
  BY <1>1, <1>3 DEF Window, Aligned
<1> HIDE DEF s
<1>5. va \div s = q
  BY <1>1, <1>2, <1>3, <1>4, Quotient
<1>6. va = s * (va \div s) + (va % s)
  BY <1>1, <1>3
<1> QED
  BY <1>1, <1>2, <1>3, <1>5, <1>6

LEMMA AlignedFirst ==
  ASSUME NEW l \in 0 .. PT_LEVELS, NEW first \in Pages, Aligned(first, l)
  PROVE  first \in Firsts(l)
<1> DEFINE s == sf_va_level_span[l]
<1>1. s \in Nat \ {0}
  BY SpanIs
<1>2. PICK q \in Nat : first = q * s
  BY DEF Aligned
<1> HIDE DEF s
<1>3. (q * s + 0) % s = 0
  BY <1>1, Remainder
<1>4. q * s + 0 = q * s
  BY <1>1
<1> QED
  BY <1>2, <1>3, <1>4 DEF Firsts, s

-----------------------------------------------------------------------------
(* The open calls.                                                         *)

Open == level .. PT_LEVELS - 1

\* The first page of the entry that the call at level l stands at.
First(l) == prefix[l] + index[l] * sf_va_level_span[l]

\* An open call, and the entry it waits for.
CallOK(l) ==
  /\ path[l] \in Allocated
  /\ Aligned(prefix[l], l + 1) /\ prefix[l] + sf_va_level_span[l + 1] <= VA_LIMIT

WaitsFor(k, m) ==
  /\ path[m] # path[k] /\ index[k] < PT_ENTRIES
  /\ First(k) <= prefix[m]
  /\ prefix[m] + sf_va_level_span[m + 1] <= First(k) + sf_va_level_span[k]

Link(k) ==
  /\ data[path[k]][index[k]] = [frame |-> path[k - 1], flags |-> {"V"}]
  /\ data[path[k]][index[k]] \in Words

CallsOK ==
  /\ root_frame \in Allocated
  /\ path[PT_LEVELS - 1] = root_frame /\ prefix[PT_LEVELS - 1] = 0
  /\ \A m \in Open : CallOK(m)
  /\ \A m \in Open : \A k \in m + 1 .. PT_LEVELS - 1 : WaitsFor(k, m)
  /\ \A k \in level + 1 .. PT_LEVELS - 1 : Link(k)

WalkInv == TypeOK /\ (Visiting => CallsOK)

LEMMA Bounds ==
  /\ PT_LEVELS \in Nat \ {0} /\ PT_ENTRIES \in Nat \ {0} /\ NUM_FRAME \in Nat
  /\ Allocated \subseteq Frames /\ Allocated \subseteq Nat
  /\ VA_LIMIT \in Nat \ {0} /\ VA_LIMIT = sf_va_level_span[PT_LEVELS]
  /\ \A pte \in Words : pte.frame \in Nat
  /\ Unread \notin Words
<1>1. PT_LEVELS \in 0 .. PT_LEVELS
  BY PtInspectAssumption
<1>2. \A pte \in Words : pte.frame \in Nat
  BY PtInspectAssumption
<1> QED
  BY <1>1, <1>2, SpanIs, PtInspectAssumption DEF VA_LIMIT, Frames

LEMMA LevelSpans ==
  ASSUME NEW l \in LevelsOf
  PROVE  /\ sf_va_level_span[l] \in Nat \ {0} /\ sf_va_level_span[l + 1] \in Nat \ {0}
         /\ sf_va_level_span[l + 1] = PT_ENTRIES * sf_va_level_span[l]
<1>1. l \in 0 .. PT_LEVELS /\ l + 1 \in 0 .. PT_LEVELS
  BY Bounds DEF LevelsOf
<1> QED
  BY <1>1, SpanIs

\* Where an open call stands.
LEMMA CallTypes ==
  ASSUME TypeOK, CallsOK, NEW k \in Open, level \in LevelsOf
  PROVE  /\ k \in LevelsOf /\ path[k] \in Frames /\ path[k] \in Allocated
         /\ index[k] \in 0 .. PT_ENTRIES /\ index[k] \in Nat /\ prefix[k] \in Nat
         /\ First(k) \in Nat
         /\ k # level => index[k] \in Indices
<1>1. k \in LevelsOf
  BY Bounds DEF Open, LevelsOf
<1>2. path[k] \in Allocated
  BY DEF CallsOK, CallOK
<1>3. index[k] \in 0 .. PT_ENTRIES /\ prefix[k] \in Nat
  BY <1>1 DEF TypeOK
<1>4. First(k) \in Nat
  BY <1>1, <1>3, LevelSpans DEF First
<1>5. ASSUME k # level PROVE index[k] \in Indices
  <2>1. k \in level + 1 .. PT_LEVELS - 1 /\ level \in Open
    BY <1>1, <1>5, Bounds DEF Open, LevelsOf
  <2>2. WaitsFor(k, level)
    BY <2>1 DEF CallsOK
  <2> QED
    BY <1>3, <2>2, Bounds DEF WaitsFor, Indices
<1>6. path[k] \in Frames
  BY <1>2, Bounds
<1>7. index[k] \in Nat
  BY <1>3, Bounds
<1> QED
  BY <1>1, <1>2, <1>3, <1>4, <1>5, <1>6, <1>7

\* What is read is a word, and only one place changes.
LEMMA ReadStep ==
  ASSUME WalkInv, NEW pte \in Words, Reads(pte)
  PROVE  /\ level \in LevelsOf /\ index[level] \in Indices /\ path[level] \in Frames /\ CallsOK
         /\ Page \in Nat /\ Page = First(level)
         /\ data' \in [Frames -> [Indices -> Words \cup {Unread}]] /\ root_frame' = root_frame
         /\ data'[path[level]][index[level]] = pte
         /\ data[path[level]][index[level]] \in {Unread, pte}
         /\ \A f \in Frames, i \in Indices :
              <<f, i>> # <<path[level], index[level]>> => data'[f][i] = data[f][i]
<1>1. Visiting /\ index[level] < PT_ENTRIES /\ CallsOK /\ TypeOK
  BY DEF Reads, WalkInv
<1>2. level \in LevelsOf /\ level \in Open
  BY <1>1, Bounds DEF Visiting, TypeOK, LevelsOf, Open
<1>3. index[level] \in Indices /\ path[level] \in Frames
  BY <1>1, <1>2, Bounds DEF TypeOK, Indices, CallsOK, CallOK
<1>4. Page \in Nat /\ Page = First(level)
  <2>1. prefix[level] \in Nat /\ index[level] \in Nat /\ sf_va_level_span[level] \in Nat
    BY <1>1, <1>2, SpanIs DEF TypeOK
  <2> QED
    BY <2>1 DEF Page, First
<1>5. data \in [Frames -> [Indices -> Words \cup {Unread}]]
  BY <1>1 DEF TypeOK
<1>6. data' = [data EXCEPT ![path[level]][index[level]] = pte] /\ root_frame' = root_frame
  BY DEF Reads
<1>7. data[path[level]][index[level]] \in {Unread, pte}
  BY DEF Reads
<1> QED
  BY <1>1, <1>2, <1>3, <1>4, <1>5, <1>6, <1>7

\* The three counters.
LEMMA CountedIs ==
  ASSUME summary \in [{"table_frames", "mappings", "malformed"} -> Nat],
         NEW what \in {"table_frames", "mappings", "malformed"}, Counted(what)
  PROVE  /\ summary' \in [{"table_frames", "mappings", "malformed"} -> Nat]
         /\ summary'[what] = summary[what] + 1
         /\ \A w \in {"table_frames", "mappings", "malformed"} \ {what} : summary'[w] = summary[w]
BY DEF Counted

LEMMA InitTypes == Init => TypeOK
<1> SUFFICES ASSUME Init PROVE TypeOK
  OBVIOUS
<1>1. root_frame \in Nat /\ 0 \in Nat /\ 0 \in 0 .. PT_ENTRIES
  BY PtInspectAssumption DEF Init
<1>2. data \in [Frames -> [Indices -> Words \cup {Unread}]]
  BY DEF Init
<1>3. path \in [LevelsOf -> Nat] /\ index \in [LevelsOf -> 0 .. PT_ENTRIES]
      /\ prefix \in [LevelsOf -> Nat]
  BY <1>1 DEF Init
<1>4. level \in 0 .. PT_LEVELS
  BY PtInspectAssumption DEF Init
<1>5. mappings \in Seq([va : Nat, frame : Nat, permissions : SUBSET {"V", "R", "W", "X", "other"}])
      /\ tables \in Seq(Nat)
  <2>1. CASE root_frame \in Allocated /\ TableCapacity > 0
    <3>1. tables = <<root_frame>> /\ mappings = << >>
      BY <2>1 DEF Init
    <3> QED
      BY <1>1, <3>1
  <2>2. CASE ~ (root_frame \in Allocated /\ TableCapacity > 0)
    <3>1. tables = << >> /\ mappings = << >>
      BY <2>2 DEF Init
    <3> QED
      BY <3>1
  <2> QED
    BY <2>1, <2>2
<1>6. summary \in [{"table_frames", "mappings", "malformed"} -> Nat]
  BY DEF Init
<1> QED
  BY <1>2, <1>3, <1>4, <1>5, <1>6 DEF Init, TypeOK

LEMMA InitWalk == Init => WalkInv
<1> SUFFICES ASSUME Init, Visiting PROVE CallsOK
  BY InitTypes DEF WalkInv
<1>1. root_frame \in Allocated /\ level = PT_LEVELS - 1 /\ level \in LevelsOf
      /\ level + 1 = PT_LEVELS
  BY Bounds DEF Init, Visiting, LevelsOf
<1>2. Open = {level} /\ path[level] = root_frame /\ prefix[level] = 0
  BY <1>1, Bounds DEF Init, Open
<1>3. Aligned(0, PT_LEVELS)
  <2>1. 0 = 0 * sf_va_level_span[PT_LEVELS]
    BY Bounds
  <2> QED
    BY <2>1 DEF Aligned
<1>4. CallOK(level)
  BY <1>1, <1>2, <1>3, Bounds DEF CallOK
<1>5. level + 1 .. PT_LEVELS - 1 = {}
  BY <1>1, Bounds
<1> QED
  BY <1>1, <1>2, <1>4, <1>5 DEF CallsOK

\* The caller of a table is entered.
LEMMA EnterTypes ==
  ASSUME WalkInv, NEW table \in Nat, NEW l \in LevelsOf, NEW first \in Nat, Enter(table, l, first)
  PROVE  /\ level' \in 0 .. PT_LEVELS /\ path' \in [LevelsOf -> Nat]
         /\ index' \in [LevelsOf -> 0 .. PT_ENTRIES] /\ prefix' \in [LevelsOf -> Nat]
         /\ tables' \in Seq(Nat)
<1>1. TypeOK /\ 0 \in 0 .. PT_ENTRIES /\ l \in 0 .. PT_LEVELS
  BY Bounds DEF WalkInv, LevelsOf
<1>2. tables' \in Seq(Nat)
  BY <1>1 DEF Enter, TypeOK
<1> QED
  BY <1>1, <1>2 DEF Enter, TypeOK

LEMMA AdvanceTypes ==
  ASSUME TypeOK, level \in LevelsOf, index[level] \in Indices, Advance
  PROVE  /\ index' \in [LevelsOf -> 0 .. PT_ENTRIES]
         /\ index'[level] = index[level] + 1
         /\ \A l \in LevelsOf \ {level} : index'[l] = index[l]
<1>1. index[level] + 1 \in 0 .. PT_ENTRIES
  BY Bounds DEF Indices
<1> QED
  BY <1>1 DEF Advance, TypeOK

LEMMA TypeStep == WalkInv /\ [Next]_vars => TypeOK'
<1> SUFFICES ASSUME WalkInv, [Next]_vars PROVE TypeOK'
  OBVIOUS
<1>0. TypeOK
  BY DEF WalkInv
<1>1. ASSUME NEW pte \in Words, Absent(pte) PROVE TypeOK'
  <2>1. Reads(pte) /\ Advance /\ UNCHANGED <<level, path, prefix, summary, mappings, tables>>
    BY <1>1 DEF Absent
  <2> QED
    BY <1>0, <2>1, ReadStep, AdvanceTypes DEF TypeOK
<1>2. ASSUME NEW pte \in Words, malformed(pte) PROVE TypeOK'
  <2>1. Reads(pte) /\ Advance /\ UNCHANGED <<level, path, prefix, mappings, tables>>
        /\ Counted("malformed")
    BY <1>2 DEF malformed
  <2>2. summary' \in [{"table_frames", "mappings", "malformed"} -> Nat]
    BY <1>0, <2>1, CountedIs DEF TypeOK
  <2> QED
    BY <1>0, <2>1, <2>2, ReadStep, AdvanceTypes DEF TypeOK
<1>3. ASSUME NEW pte \in Words, Descend(pte) PROVE TypeOK'
  <2>1. /\ Reads(pte) /\ level > 0 /\ Enter(pte.frame, level - 1, Page)
        /\ Counted("table_frames") /\ UNCHANGED mappings
    BY <1>3 DEF Descend
  <2>2. level - 1 \in LevelsOf /\ pte.frame \in Nat /\ Page \in Nat
    BY <2>1, ReadStep, Bounds DEF LevelsOf
  <2>3. summary' \in [{"table_frames", "mappings", "malformed"} -> Nat]
    BY <1>0, <2>1, CountedIs DEF TypeOK
  <2> QED
    BY <1>0, <2>1, <2>2, <2>3, ReadStep, EnterTypes DEF TypeOK
<1>4. ASSUME NEW pte \in Words, Leaf(pte) PROVE TypeOK'
  <2>1. Reads(pte) /\ Advance /\ UNCHANGED <<level, path, prefix, tables>> /\ Counted("mappings")
    BY <1>4 DEF Leaf
  <2>2. summary' \in [{"table_frames", "mappings", "malformed"} -> Nat]
    BY <1>0, <2>1, CountedIs DEF TypeOK
  <2>3. mappings' \in Seq([va : Nat, frame : Nat,
                           permissions : SUBSET {"V", "R", "W", "X", "other"}])
    <3> DEFINE Rec == [va : Nat, frame : Nat, permissions : SUBSET {"V", "R", "W", "X", "other"}]
               new == [va |-> Page, frame |-> pte.frame, permissions |-> Permissions(pte)]
    <3>1. pte.flags \in SUBSET {"V", "R", "W", "X", "other"}
      BY PtInspectAssumption
    <3>2. Permissions(pte) \in SUBSET {"V", "R", "W", "X", "other"}
      BY <3>1 DEF Permissions
    <3>3. Page \in Nat /\ pte.frame \in Nat
      BY <2>1, ReadStep, Bounds
    <3>4. new \in Rec
      BY <3>2, <3>3
    <3>5. mappings \in Seq(Rec) /\ (mappings' = mappings \/ mappings' = Append(mappings, new))
      BY <1>0, <1>4 DEF Leaf, TypeOK
    <3> HIDE DEF new, Rec
    <3>6. mappings' \in Seq(Rec)
      BY <3>4, <3>5
    <3> QED
      BY <3>6 DEF Rec
  <2> QED
    BY <1>0, <2>1, <2>2, <2>3, ReadStep, AdvanceTypes DEF TypeOK
<1>5. CASE Return
  <2>1. level' = level + 1 /\ level \in LevelsOf
        /\ UNCHANGED <<root_frame, data, path, prefix, summary, mappings, tables>>
    BY <1>0, <1>5, Bounds DEF Return, Visiting, TypeOK, LevelsOf
  <2>2. level' \in 0 .. PT_LEVELS
    BY <2>1, Bounds DEF LevelsOf
  <2>3. index' \in [LevelsOf -> 0 .. PT_ENTRIES]
    <3>1. CASE level + 1 < PT_LEVELS
      <4>1. level + 1 \in LevelsOf /\ Visiting /\ CallsOK
        BY <1>5, <2>1, <3>1, Bounds DEF LevelsOf, Return, WalkInv
      <4>2. index[level + 1] < PT_ENTRIES
        <5>1. level \in Open /\ level + 1 \in level + 1 .. PT_LEVELS - 1
          BY <2>1, <4>1, Bounds DEF Open, LevelsOf
        <5> QED
          BY <4>1, <5>1 DEF CallsOK, WaitsFor
      <4>3. index[level + 1] + 1 \in 0 .. PT_ENTRIES
        BY <1>0, <4>1, <4>2, Bounds DEF TypeOK
      <4>4. index' = [index EXCEPT ![level + 1] = index[level + 1] + 1]
        BY <1>5, <3>1 DEF Return
      <4> QED
        BY <1>0, <4>1, <4>3, <4>4 DEF TypeOK
    <3>2. CASE ~ (level + 1 < PT_LEVELS)
      BY <1>0, <1>5, <3>2 DEF Return, TypeOK
    <3> QED
      BY <3>1, <3>2
  <2> QED
    BY <1>0, <2>1, <2>2, <2>3 DEF TypeOK
<1>6. CASE UNCHANGED vars
  BY <1>0, <1>6 DEF TypeOK, vars, walk
<1> QED
  BY <1>1, <1>2, <1>3, <1>4, <1>5, <1>6 DEF Next

\* An entry is done: the calls above are where they were.
LEMMA AdvanceCalls ==
  ASSUME WalkInv, NEW pte \in Words, Reads(pte), Advance, UNCHANGED <<level, path, prefix>>
  PROVE  CallsOK'
<1>1. CallsOK /\ level \in LevelsOf /\ index[level] \in Indices /\ TypeOK /\ root_frame' = root_frame
  BY ReadStep DEF WalkInv
<1>2. \A l \in LevelsOf \ {level} : index'[l] = index[l]
  BY <1>1, AdvanceTypes
<1>3. Open' = Open /\ Open \subseteq LevelsOf /\ level \in Open
  BY <1>1, Bounds DEF Open, LevelsOf
<1>4. \A k \in level + 1 .. PT_LEVELS - 1 : k \in LevelsOf /\ k # level /\ k \in Open
  BY <1>1, Bounds DEF Open, LevelsOf
<1>5. \A m \in Open : CallOK(m)'
  BY <1>1, <1>3 DEF CallsOK, CallOK, Aligned
<1>6. ASSUME NEW m \in Open, NEW k \in m + 1 .. PT_LEVELS - 1
      PROVE  WaitsFor(k, m)'
  <2>1. k \in level + 1 .. PT_LEVELS - 1
    BY <1>1, <1>3, Bounds DEF Open, LevelsOf
  <2>2. index'[k] = index[k]
    BY <1>2, <1>4, <2>1
  <2>3. WaitsFor(k, m)
    BY <1>1 DEF CallsOK
  <2> QED
    BY <2>2, <2>3 DEF WaitsFor, First
<1>7. ASSUME NEW k \in level + 1 .. PT_LEVELS - 1 PROVE Link(k)'
  <2>1. /\ k \in LevelsOf /\ index'[k] = index[k] /\ Link(k) /\ k \in Open
        /\ WaitsFor(k, level)
    BY <1>1, <1>2, <1>3, <1>4 DEF CallsOK
  <2>2. path[k] # path[level] /\ path[k] \in Frames /\ index[k] \in Indices
    BY <1>1, <2>1, Bounds DEF WaitsFor, CallsOK, CallOK, Indices, TypeOK
  <2>3. data'[path[k]][index[k]] = data[path[k]][index[k]]
    BY <2>2, ReadStep
  <2> QED
    BY <2>1, <2>3 DEF Link
<1> QED
  BY <1>1, <1>3, <1>5, <1>6, <1>7 DEF CallsOK

\* A table below is entered: the running call waits for it, and all above do.
LEMMA DescendCalls ==
  ASSUME WalkInv, NEW pte \in Words, Descend(pte)
  PROVE  CallsOK'
<1>0. PICK n : n = level - 1
  OBVIOUS
<1>1. Reads(pte) /\ level > 0 /\ Refers(pte, OnPath) /\ Enter(pte.frame, n, Page)
  BY <1>0 DEF Descend, Valid
<1>2. CallsOK /\ level \in LevelsOf /\ index[level] \in Indices /\ TypeOK /\ root_frame' = root_frame
      /\ Page = First(level) /\ Page \in Nat
  BY <1>1, ReadStep DEF WalkInv
<1>3. n \in LevelsOf /\ n + 1 = level /\ level' = n /\ level \in Open
      /\ Open' = Open \cup {n} /\ Open \subseteq LevelsOf /\ n \notin Open
  BY <1>0, <1>1, <1>2, Bounds DEF Open, LevelsOf, Enter
<1>4. /\ path'[n] = pte.frame /\ index'[n] = 0 /\ prefix'[n] = Page
      /\ \A l \in LevelsOf \ {n} : path'[l] = path[l] /\ index'[l] = index[l] /\ prefix'[l] = prefix[l]
  <2>1. /\ path' = [path EXCEPT ![n] = pte.frame] /\ index' = [index EXCEPT ![n] = 0]
        /\ prefix' = [prefix EXCEPT ![n] = Page]
    BY <1>1 DEF Enter
  <2>2. DOMAIN path = LevelsOf /\ DOMAIN index = LevelsOf /\ DOMAIN prefix = LevelsOf
    BY <1>2 DEF TypeOK
  <2> QED
    BY <1>3, <2>1, <2>2
<1>5. pte.flags = {"V"} /\ pte.frame \in Allocated /\ pte.frame \notin {path[m] : m \in Open}
  BY <1>1 DEF Refers, valid_frame_reference, OnPath, Open
<1>6. \A m \in Open : CallOK(m)' /\ First(m)' = First(m) /\ path'[m] = path[m] /\ index'[m] = index[m]
  BY <1>2, <1>3, <1>4 DEF CallsOK, CallOK, Aligned, First
<1>7. CallOK(level) /\ prefix[level] \in Nat /\ index[level] \in Nat /\ index[level] < PT_ENTRIES
      /\ sf_va_level_span[level] \in Nat /\ sf_va_level_span[level + 1] \in Nat
      /\ sf_va_level_span[level + 1] = PT_ENTRIES * sf_va_level_span[level]
  <2>1. CallOK(level)
    BY <1>2, <1>3 DEF CallsOK
  <2>2. index[level] < PT_ENTRIES
    BY <1>2, Bounds DEF Indices
  <2> QED
    BY <1>2, <1>3, <2>1, <2>2, CallTypes, LevelSpans
<1>8. First(level) + sf_va_level_span[level] <= prefix[level] + sf_va_level_span[level + 1]
      /\ First(level) \in Nat /\ prefix[level] <= First(level)
  <2> DEFINE s == sf_va_level_span[level]
             j == index[level]
  <2>1. (j + 1) * s <= PT_ENTRIES * s /\ j * s \in Nat /\ (j + 1) * s = j * s + s
    BY <1>7, Bounds
  <2> QED
    BY <1>7, <2>1 DEF First
<1>9. CallOK(n)'
  <2>1. Aligned(Page, n + 1)
    BY <1>2, <1>3, <1>7, AlignedEntry DEF CallOK, First
  <2>2. Page + sf_va_level_span[n + 1] <= VA_LIMIT
    BY <1>2, <1>3, <1>7, <1>8, Bounds DEF CallOK
  <2> QED
    BY <1>3, <1>4, <1>5, <2>1, <2>2 DEF CallOK, Aligned
<1>10. ASSUME NEW k \in n + 1 .. PT_LEVELS - 1 PROVE WaitsFor(k, n)'
  <2>1. k \in Open /\ k \in LevelsOf /\ k # n
    BY <1>3, Bounds DEF Open, LevelsOf
  <2>2. path'[n] # path'[k]
    BY <1>4, <1>5, <1>6, <2>1
  <2>3. CASE k = level
    BY <1>2, <1>3, <1>4, <1>6, <1>7, <2>1, <2>2, <2>3, Bounds DEF WaitsFor
  <2>4. CASE k # level
    <3>1. k \in level + 1 .. PT_LEVELS - 1
      BY <1>2, <1>3, <2>1, <2>4, Bounds DEF Open, LevelsOf
    <3>2. WaitsFor(k, level)
      BY <1>2, <1>3, <3>1 DEF CallsOK
    <3>3. First(k) \in Nat /\ sf_va_level_span[k] \in Nat
      BY <1>2, <2>1, CallTypes, LevelSpans
    <3>4. First(k) <= Page /\ Page + sf_va_level_span[level] <= First(k) + sf_va_level_span[k]
      BY <1>2, <1>7, <1>8, <3>2, <3>3 DEF WaitsFor
    <3> QED
      BY <1>3, <1>4, <1>6, <2>1, <2>2, <3>2, <3>4 DEF WaitsFor
  <2> QED
    BY <2>3, <2>4
<1>11. ASSUME NEW m \in Open', NEW k \in m + 1 .. PT_LEVELS - 1 PROVE WaitsFor(k, m)'
  <2>1. CASE m = n
    BY <1>10, <2>1
  <2>2. CASE m # n
    <3>1. m \in Open /\ m \in LevelsOf /\ k \in Open /\ k \in LevelsOf /\ k # n
      BY <1>3, <2>2, Bounds DEF Open, LevelsOf
    <3>2. WaitsFor(k, m)
      BY <1>2, <3>1 DEF CallsOK
    <3> QED
      BY <1>4, <1>6, <2>2, <3>1, <3>2 DEF WaitsFor
  <2> QED
    BY <2>1, <2>2
<1>12. ASSUME NEW k \in level' + 1 .. PT_LEVELS - 1 PROVE Link(k)'
  <2>1. k \in Open /\ k \in LevelsOf /\ k # n
    BY <1>3, Bounds DEF Open, LevelsOf
  <2>2. CASE k = level
    <3>1. data'[path[level]][index[level]] = pte
      BY <1>1, ReadStep
    <3>2. pte = [frame |-> pte.frame, flags |-> {"V"}]
      BY <1>5, PtInspectAssumption
    <3>3. k - 1 = n
      BY <1>0, <2>2
    <3> QED
      BY <1>4, <1>6, <2>1, <2>2, <3>1, <3>2, <3>3 DEF Link
  <2>3. CASE k # level
    <3>1. k \in level + 1 .. PT_LEVELS - 1 /\ k - 1 \in Open /\ k - 1 \in LevelsOf
      BY <1>2, <1>3, <2>1, <2>3, Bounds DEF Open, LevelsOf
    <3>2. Link(k) /\ WaitsFor(k, level)
      BY <1>2, <1>3, <3>1 DEF CallsOK
    <3>3. path[k] # path[level] /\ path[k] \in Frames /\ index[k] \in Indices
      BY <1>2, <2>1, <2>3, <3>2, CallTypes DEF WaitsFor
    <3>4. data'[path[k]][index[k]] = data[path[k]][index[k]]
      BY <1>1, <3>3, ReadStep
    <3> QED
      BY <1>4, <1>6, <2>1, <3>1, <3>2, <3>4 DEF Link
  <2> QED
    BY <2>2, <2>3
<1>13. path'[PT_LEVELS - 1] = path[PT_LEVELS - 1] /\ prefix'[PT_LEVELS - 1] = prefix[PT_LEVELS - 1]
  <2>1. PT_LEVELS - 1 \in LevelsOf \ {n}
    BY <1>2, <1>3, Bounds DEF LevelsOf, Open
  <2> QED
    BY <1>4, <2>1
<1> QED
  BY <1>2, <1>3, <1>6, <1>9, <1>11, <1>12, <1>13 DEF CallsOK

\* A call returns to one that waits.
LEMMA ReturnCalls ==
  ASSUME WalkInv, Return, Visiting'
  PROVE  CallsOK'
<1>0. PICK n : n = level + 1
  OBVIOUS
<1>1. /\ CallsOK /\ TypeOK /\ Visiting /\ level' = n
      /\ UNCHANGED <<root_frame, data, path, prefix>>
      /\ n < PT_LEVELS /\ index' = [index EXCEPT ![n] = @ + 1]
  BY <1>0 DEF Return, WalkInv, Visiting
<1>2. /\ level \in Open /\ level \in LevelsOf /\ n \in Open /\ n \in LevelsOf
      /\ Open' = Open \ {level} /\ Open \subseteq LevelsOf
  <2>1. level \in LevelsOf
    BY <1>1, Bounds DEF LevelsOf, TypeOK, Visiting
  <2>2. Open' = n .. PT_LEVELS - 1
    BY <1>1 DEF Open
  <2> QED
    BY <1>0, <1>1, <2>1, <2>2, Bounds DEF Open, LevelsOf
<1>3. \A l \in LevelsOf \ {n} : index'[l] = index[l]
  BY <1>1 DEF TypeOK
<1>4. \A m \in Open' : CallOK(m)'
  BY <1>1, <1>2 DEF CallsOK, CallOK, Aligned
<1>5. ASSUME NEW m \in Open', NEW k \in m + 1 .. PT_LEVELS - 1 PROVE WaitsFor(k, m)'
  <2>1. m \in Open /\ k \in LevelsOf /\ k # n
    BY <1>0, <1>1, <1>2, Bounds DEF Open, LevelsOf
  <2>2. WaitsFor(k, m)
    BY <1>1, <2>1 DEF CallsOK
  <2> QED
    BY <1>1, <1>3, <2>1, <2>2 DEF WaitsFor, First
<1>6. ASSUME NEW k \in level' + 1 .. PT_LEVELS - 1 PROVE Link(k)'
  <2>1. k \in LevelsOf /\ k # n /\ k \in level + 1 .. PT_LEVELS - 1
    BY <1>0, <1>1, <1>2, Bounds DEF Open, LevelsOf
  <2>2. Link(k)
    BY <1>1, <2>1 DEF CallsOK
  <2> QED
    BY <1>1, <1>3, <2>1, <2>2 DEF Link
<1> QED
  BY <1>1, <1>4, <1>5, <1>6 DEF CallsOK

LEMMA WalkStep == WalkInv /\ [Next]_vars => WalkInv'
<1> SUFFICES ASSUME WalkInv, [Next]_vars, Visiting' PROVE CallsOK'
  BY TypeStep DEF WalkInv
<1>1. ASSUME NEW pte \in Words, Absent(pte) \/ malformed(pte) \/ Leaf(pte) PROVE CallsOK'
  BY <1>1, AdvanceCalls DEF Absent, malformed, Leaf
<1>2. ASSUME NEW pte \in Words, Descend(pte) PROVE CallsOK'
  BY <1>2, DescendCalls
<1>3. CASE Return
  BY <1>3, ReturnCalls
<1>4. CASE UNCHANGED vars
  BY <1>4 DEF vars, walk, WalkInv, CallsOK, Visiting, Open, CallOK, Aligned, WaitsFor, First, Link
<1> QED
  BY <1>1, <1>2, <1>3, <1>4 DEF Next

LEMMA WalkInvariant == Spec => []WalkInv
BY InitWalk, WalkStep, PTL DEF Spec

(* Every variable keeps its type, whatever words the tables hold.          *)
THEOREM TypeCorrect == Spec => []TypeOK
BY WalkInvariant, PTL DEF WalkInv

-----------------------------------------------------------------------------
(* What the layout says of the pages that the visitor stands at.  D is any *)
(* memory that agrees with the words read so far: what the unread words    *)
(* will turn out to be.                                                    *)

Completes(D) ==
  /\ D \in [Frames -> [Indices -> Words \cup {Unread}]]
  /\ \A f \in Frames, i \in Indices : data[f][i] # Unread => D[f][i] = data[f][i]

\* Page va is one of those that the calls above the running one stand at.
Under(va) == va \in Nat /\ \A k \in level + 1 .. PT_LEVELS - 1 : va \in Window(First(k), k)

\* The tables of the open calls, from level k up.
PathFrom(k) == [m \in k .. PT_LEVELS - 1 |-> path[m]]

LEMMA WalkTypes ==
  ASSUME WalkInv, Visiting
  PROVE  TypeOK /\ CallsOK /\ level \in LevelsOf
<1>1. TypeOK /\ CallsOK
  BY DEF WalkInv
<1>2. level \in 0 .. PT_LEVELS /\ level < PT_LEVELS
  BY <1>1 DEF TypeOK, Visiting
<1> QED
  BY <1>1, <1>2, Bounds DEF LevelsOf

\* For such a page, a waiting call stands at the entry that leads to the next one.
LEMMA EntryAbove ==
  ASSUME WalkInv, Visiting, NEW D, Completes(D), NEW va, Under(va),
         NEW k \in level + 1 .. PT_LEVELS - 1
  PROVE  /\ k \in Open /\ k - 1 \in Open /\ k - 1 \in LevelsOf /\ sf_va_vpn(va, k) = index[k]
         /\ path[k] \in Frames /\ index[k] \in Indices
         /\ D[path[k]][index[k]] = [frame |-> path[k - 1], flags |-> {"V"}]
         /\ data[path[k]][index[k]] # Unread
<1>1. TypeOK /\ CallsOK /\ level \in LevelsOf
  BY WalkTypes
<1>2. k \in Open /\ k - 1 \in Open /\ k - 1 \in LevelsOf /\ k # level
  BY <1>1, Bounds DEF Open, LevelsOf
<1>3. k \in LevelsOf /\ path[k] \in Frames /\ index[k] \in Indices
  BY <1>1, <1>2, CallTypes
<1>4. Aligned(prefix[k], k + 1) /\ va \in Window(prefix[k] + index[k] * sf_va_level_span[k], k)
  BY <1>1, <1>2 DEF CallsOK, CallOK, Under, First
<1>5. sf_va_vpn(va, k) = index[k]
  BY <1>3, <1>4, VpnIs
<1>6. Link(k)
  BY <1>1 DEF CallsOK
<1>7. data[path[k]][index[k]] # Unread
  BY <1>6, Bounds DEF Link
<1> QED
  BY <1>2, <1>3, <1>5, <1>6, <1>7 DEF Link, Completes

\* No other tables lead to it.
LEMMA PathIs ==
  ASSUME WalkInv, Visiting, NEW D, Completes(D), NEW va, Under(va),
         NEW j \in LevelsOf, NEW tbl \in Chains(D, j, va), NEW m \in Open, j <= m
  PROVE  tbl[m] = path[m]
<1> DEFINE S == {d \in Nat : PT_LEVELS - 1 - d >= j /\ PT_LEVELS - 1 - d \in Open
                             /\ tbl[PT_LEVELS - 1 - d] # path[PT_LEVELS - 1 - d]}
<1>0. TypeOK /\ CallsOK /\ level \in LevelsOf
  BY WalkTypes
<1>1. S = {}
  <2> SUFFICES ASSUME S # {} PROVE FALSE
    OBVIOUS
  <2>1. PICK d \in S : \A k \in S : d <= k
    BY LeastNatural
  <2>2. PICK n : n = PT_LEVELS - 1 - d
    OBVIOUS
  <2>3. n \in Open /\ n \in LevelsOf /\ n >= j /\ tbl[n] # path[n]
    BY <1>0, <2>1, <2>2, Bounds DEF Open, LevelsOf
  <2>4. tbl[PT_LEVELS - 1] = root_frame /\ path[PT_LEVELS - 1] = root_frame
    BY <1>0 DEF CallsOK, Chains, Chain
  <2>5. n # PT_LEVELS - 1
    BY <2>3, <2>4
  <2>6. d - 1 \in Nat /\ ~ (d <= d - 1) /\ PT_LEVELS - 1 - (d - 1) = n + 1
    BY <1>0, <2>1, <2>2, <2>3, <2>5, Bounds DEF LevelsOf
  <2>7. n + 1 \in level + 1 .. PT_LEVELS - 1 /\ (n + 1) - 1 = n /\ n + 1 >= j
        /\ n \in j .. PT_LEVELS - 2
    BY <1>0, <2>3, <2>5, Bounds DEF Open, LevelsOf
  <2>8. n + 1 \in Open /\ sf_va_vpn(va, n + 1) = index[n + 1]
        /\ D[path[n + 1]][index[n + 1]] = [frame |-> path[n], flags |-> {"V"}]
    BY <2>7, EntryAbove
  <2>9. tbl[n + 1] = path[n + 1]
    BY <2>1, <2>6, <2>7, <2>8
  <2>10. D[tbl[n + 1]][sf_va_vpn(va, n + 1)] = [frame |-> tbl[n], flags |-> {"V"}]
    BY <2>7 DEF Chains, Chain
  <2>11. tbl[n] = path[n]
    BY <2>8, <2>9, <2>10
  <2> QED
    BY <2>3, <2>11
<1>2. PT_LEVELS - 1 - m \in Nat /\ PT_LEVELS - 1 - (PT_LEVELS - 1 - m) = m
  BY <1>0, Bounds DEF Open, LevelsOf
<1> QED
  BY <1>1, <1>2

LEMMA OnlyPath ==
  ASSUME WalkInv, Visiting, NEW D, Completes(D), NEW va, Under(va),
         NEW j \in Open, NEW tbl \in Chains(D, j, va)
  PROVE  tbl = PathFrom(j) /\ Range(tbl) = {path[m] : m \in j .. PT_LEVELS - 1}
<1>1. level \in LevelsOf /\ j \in LevelsOf /\ \A m \in j .. PT_LEVELS - 1 : m \in Open /\ j <= m
  BY WalkTypes, Bounds DEF LevelsOf, Open
<1>2. \A m \in j .. PT_LEVELS - 1 : tbl[m] = path[m]
  BY <1>1, PathIs
<1>3. tbl \in [j .. PT_LEVELS - 1 -> Allocated]
  BY DEF Chains
<1> QED
  BY <1>2, <1>3 DEF PathFrom, Range

\* The tables of the open calls do lead to it.
LEMMA PathChain ==
  ASSUME WalkInv, Visiting, NEW D, Completes(D), NEW va, Under(va)
  PROVE  PathFrom(level) \in Chains(D, level, va)
<1> DEFINE tbl == PathFrom(level)
<1>0. CallsOK /\ level \in LevelsOf /\ PT_LEVELS - 1 \in Open
  BY WalkTypes, Bounds DEF LevelsOf, Open
<1>1. tbl \in [level .. PT_LEVELS - 1 -> Allocated]
  BY <1>0 DEF CallsOK, CallOK, Open, PathFrom
<1>2. \A m \in level .. PT_LEVELS - 1 : tbl[m] = path[m]
  BY DEF PathFrom
<1>3. tbl[PT_LEVELS - 1] = root_frame
  BY <1>0, <1>2 DEF CallsOK, Open
<1>4. IsInjective(tbl)
  <2> SUFFICES ASSUME NEW a \in level .. PT_LEVELS - 1, NEW b \in level .. PT_LEVELS - 1, a < b
               PROVE  path[a] # path[b]
    <3>1. \A a, b \in level .. PT_LEVELS - 1 : a # b => a < b \/ b < a
      BY <1>0, Bounds DEF LevelsOf
    <3>2. DOMAIN tbl = level .. PT_LEVELS - 1
      BY DEF PathFrom
    <3> HIDE DEF tbl
    <3> QED
      BY <1>2, <3>1, <3>2 DEF IsInjective
  <2>1. a \in Open /\ b \in a + 1 .. PT_LEVELS - 1
    BY <1>0, Bounds DEF LevelsOf, Open
  <2> QED
    BY <1>0, <2>1 DEF CallsOK, WaitsFor
<1>5. ASSUME NEW m \in level .. PT_LEVELS - 2
      PROVE  D[tbl[m + 1]][sf_va_vpn(va, m + 1)] = [frame |-> tbl[m], flags |-> {"V"}]
  <2>1. /\ m + 1 \in level + 1 .. PT_LEVELS - 1 /\ (m + 1) - 1 = m
        /\ m \in level .. PT_LEVELS - 1 /\ m + 1 \in level .. PT_LEVELS - 1
    BY <1>0, Bounds DEF LevelsOf
  <2> QED
    BY <1>2, <2>1, EntryAbove
<1> HIDE DEF tbl
<1>6. Chain(D, tbl, level, va)
  BY <1>3, <1>4, <1>5 DEF Chain
<1>7. tbl \in Chains(D, level, va)
  BY <1>1, <1>6 DEF Chains
<1> QED
  BY <1>7 DEF tbl

-----------------------------------------------------------------------------
(* What the layout says of the pages of the entry that is read.            *)

\* The entry is one that the visitor does not go below.
Passes(pte) == ~ (level > 0 /\ sf_pte_is_present(pte) /\ Valid(pte))

Here(va) == va \in Window(Page, level)

LEMMA ReadsAt ==
  ASSUME WalkInv, NEW pte \in Words, Reads(pte)
  PROVE  Visiting /\ level \in LevelsOf /\ level \in Open /\ TypeOK /\ CallsOK
<1>1. Visiting
  BY DEF Reads
<1>2. TypeOK /\ CallsOK /\ level \in LevelsOf
  BY <1>1, WalkTypes
<1> QED
  BY <1>1, <1>2, Bounds DEF Open, LevelsOf

LEMMA ReadCompletes ==
  ASSUME WalkInv, NEW pte \in Words, Reads(pte), NEW D, Completes(D)'
  PROVE  Completes(D) /\ D[path[level]][index[level]] = pte
<1>1. pte # Unread
  BY Bounds
<1> QED
  BY <1>1, ReadStep DEF Completes

LEMMA EntryHere ==
  ASSUME WalkInv, NEW pte \in Words, Reads(pte), NEW va, Here(va)
  PROVE  Under(va) /\ sf_va_vpn(va, level) = index[level] /\ va >= Page
         /\ prefix[level] <= va /\ va < prefix[level] + sf_va_level_span[level + 1]
         /\ va \in Pages
<1>1. /\ level \in LevelsOf /\ index[level] \in Indices /\ Page \in Nat /\ Page = First(level)
      /\ CallsOK /\ TypeOK /\ level \in Open /\ PT_ENTRIES \in Nat
  BY ReadStep, Bounds DEF WalkInv, Open, LevelsOf
<1>2. /\ Aligned(prefix[level], level + 1)
      /\ prefix[level] + sf_va_level_span[level + 1] <= VA_LIMIT
  BY <1>1 DEF CallsOK, CallOK
<1>3. sf_va_level_span[level] \in Nat /\ prefix[level] \in Nat /\ index[level] \in Nat
      /\ sf_va_level_span[level + 1] = PT_ENTRIES * sf_va_level_span[level]
      /\ index[level] + 1 <= PT_ENTRIES
  BY <1>1, LevelSpans, CallTypes, Bounds DEF Indices
<1>4. va \in Nat /\ Page <= va /\ va < Page + sf_va_level_span[level]
  BY <1>1, <1>3 DEF Here, Window
<1>5. /\ Page + sf_va_level_span[level] <= prefix[level] + sf_va_level_span[level + 1]
      /\ prefix[level] <= Page
  <2> DEFINE s == sf_va_level_span[level]
             j == index[level]
  <2>1. (j + 1) * s <= PT_ENTRIES * s /\ j * s \in Nat /\ (j + 1) * s = j * s + s
    BY <1>1, <1>3
  <2> QED
    BY <1>1, <1>3, <2>1 DEF First
<1>6. prefix[level] <= va /\ va < prefix[level] + sf_va_level_span[level + 1] /\ va < VA_LIMIT
  BY <1>1, <1>2, <1>3, <1>4, <1>5, Bounds
<1>7. ASSUME NEW k \in level + 1 .. PT_LEVELS - 1 PROVE va \in Window(First(k), k)
  <2>1. WaitsFor(k, level) /\ k \in Open
    BY <1>1, Bounds DEF CallsOK, Open, LevelsOf
  <2>2. First(k) \in Nat /\ sf_va_level_span[k] \in Nat
    BY <1>1, <2>1, CallTypes, LevelSpans
  <2>3. First(k) <= prefix[level]
        /\ prefix[level] + sf_va_level_span[level + 1] <= First(k) + sf_va_level_span[k]
    BY <2>1 DEF WaitsFor
  <2>4. First(k) <= va /\ va < First(k) + sf_va_level_span[k]
    <3>1. sf_va_level_span[level + 1] \in Nat
      BY <1>1, LevelSpans
    <3> QED
      BY <1>3, <1>4, <1>6, <2>2, <2>3, <3>1
  <2> QED
    BY <1>4, <2>2, <2>4 DEF Window
<1>8. sf_va_vpn(va, level) = index[level]
  BY <1>1, <1>2, VpnIs DEF Here, First
<1> QED
  BY <1>4, <1>6, <1>7, <1>8, Bounds DEF Under, Pages

\* There are no tables under an entry that the visitor does not go below.
LEMMA NothingBelow ==
  ASSUME WalkInv, NEW pte \in Words, Reads(pte), Passes(pte), NEW D, Completes(D)',
         NEW va, Here(va), NEW j \in LevelsOf, j < level
  PROVE  Chains(D, j, va) = {}
<1> SUFFICES ASSUME NEW tbl \in Chains(D, j, va) PROVE FALSE
  OBVIOUS
<1>1. /\ level \in LevelsOf /\ level \in Open /\ Visiting /\ level > 0
      /\ level - 1 \in j .. PT_LEVELS - 2 /\ (level - 1) + 1 = level
      /\ \A m \in Open : j <= m /\ m \in j .. PT_LEVELS - 1 /\ m # level - 1
      /\ level - 1 \in j .. PT_LEVELS - 1
  BY ReadsAt, Bounds DEF Open, LevelsOf
<1>2. Completes(D) /\ D[path[level]][index[level]] = pte
  BY ReadCompletes
<1>3. Under(va) /\ sf_va_vpn(va, level) = index[level]
  BY EntryHere
<1>4. \A m \in Open : tbl[m] = path[m]
  BY <1>1, <1>2, <1>3, PathIs
<1>5. tbl \in [j .. PT_LEVELS - 1 -> Allocated] /\ Chain(D, tbl, j, va)
  BY DEF Chains
<1>6. D[tbl[level]][sf_va_vpn(va, level)] = [frame |-> tbl[level - 1], flags |-> {"V"}]
  BY <1>1, <1>5 DEF Chain
<1>7. pte = [frame |-> tbl[level - 1], flags |-> {"V"}]
  BY <1>1, <1>2, <1>3, <1>4, <1>6
<1>8. tbl[level - 1] \in Allocated /\ tbl[level - 1] \notin OnPath
  <2>1. \A m \in Open : tbl[m] # tbl[level - 1]
    BY <1>1, <1>5 DEF Chain, IsInjective
  <2> QED
    BY <1>1, <1>4, <1>5, <2>1 DEF OnPath, Open
<1>9. valid_frame_reference(pte.frame, OnPath)
  BY <1>7, <1>8, Bounds DEF valid_frame_reference, Frames
<1>10. pte.flags = {"V"} /\ Refers(pte, OnPath) /\ sf_pte_is_present(pte)
  BY <1>7, <1>9 DEF Refers, sf_pte_is_present
<1> QED
  BY <1>1, <1>10 DEF Passes, Valid

\* The entries over it are those of the open calls.
LEMMA EntriesAre ==
  ASSUME WalkInv, NEW pte \in Words, Reads(pte), NEW D, Completes(D)',
         NEW va, Here(va), NEW j \in Open
  PROVE  \A e \in Entries(D, j, va) :
            e = [pte |-> IF j = level THEN pte ELSE [frame |-> path[j - 1], flags |-> {"V"}],
                 over |-> {path[m] : m \in j .. PT_LEVELS - 1}]
<1> SUFFICES ASSUME NEW tbl \in Chains(D, j, va)
             PROVE  /\ Range(tbl) = {path[m] : m \in j .. PT_LEVELS - 1}
                    /\ D[tbl[j]][sf_va_vpn(va, j)]
                         = IF j = level THEN pte ELSE [frame |-> path[j - 1], flags |-> {"V"}]
  BY DEF Entries
<1>1. Visiting /\ level \in LevelsOf /\ j \in LevelsOf /\ j <= j
      /\ (j # level => j \in level + 1 .. PT_LEVELS - 1)
  BY ReadsAt, Bounds DEF Open, LevelsOf
<1>2. Completes(D) /\ D[path[level]][index[level]] = pte
  BY ReadCompletes
<1>3. Under(va) /\ sf_va_vpn(va, level) = index[level]
  BY EntryHere
<1>4. Range(tbl) = {path[m] : m \in j .. PT_LEVELS - 1} /\ tbl[j] = path[j]
  BY <1>1, <1>2, <1>3, OnlyPath, PathIs
<1>5. CASE j = level
  BY <1>2, <1>3, <1>4, <1>5
<1>6. CASE j # level
  BY <1>1, <1>2, <1>3, <1>4, <1>6, EntryAbove
<1> QED
  BY <1>4, <1>5, <1>6

LEMMA EntryIs ==
  ASSUME WalkInv, NEW pte \in Words, Reads(pte), NEW D, Completes(D)', NEW va, Here(va)
  PROVE  [pte |-> pte, over |-> OnPath] \in Entries(D, level, va)
<1>1. Visiting /\ level \in LevelsOf /\ level \in Open
  BY ReadsAt
<1>2. Completes(D) /\ Under(va)
  BY ReadCompletes, EntryHere
<1>3. PICK tbl : tbl \in Chains(D, level, va)
  BY <1>1, <1>2, PathChain
<1>4. PICK e : e \in Entries(D, level, va)
  BY <1>3 DEF Entries
<1>5. e = [pte |-> pte, over |-> {path[m] : m \in level .. PT_LEVELS - 1}]
  BY <1>1, <1>4, EntriesAre
<1> QED
  BY <1>4, <1>5 DEF OnPath

-----------------------------------------------------------------------------
(* What the layout has below the page that the visitor has come to.        *)

Cursor == IF Visiting THEN Page ELSE VA_LIMIT

MappingsBelow(D, c)  == {x \in AllMappings(D) : x.va < c}
MalformedBelow(D, c) == {x \in AllMalformed(D) : x[2] < c}
TablesBelow(D, c)    == {x \in AllTables(D) : x[2] < c}

\* The tables of the open calls, each with its first page.
OpenTables == {<<m, prefix[m]>> : m \in Open}

\* The mapping that a leaf makes.
Listed(pte) == [va |-> Page, frame |-> pte.frame, permissions |-> Permissions(pte)]

\* The page after the entry that is read.
After == Page + sf_va_level_span[level]

LEMMA AfterIs ==
  ASSUME WalkInv, NEW pte \in Words, Reads(pte)
  PROVE  /\ Page \in Nat /\ After \in Nat /\ Page < After
         /\ \A va \in Nat : Here(va) <=> Page <= va /\ va < After
         /\ Page \in Pages /\ Cursor = Page
         /\ \A va : Here(va) => va \in Pages
         /\ level = 0 => \A va : Here(va) => va = Page
<1>1. Page \in Nat /\ level \in LevelsOf /\ sf_va_level_span[level] \in Nat \ {0} /\ Visiting
  BY ReadsAt, ReadStep, LevelSpans
<1>2. /\ After \in Nat /\ Page < After
      /\ \A va \in Nat : Here(va) <=> Page <= va /\ va < After
  BY <1>1 DEF After, Here, Window
<1>3. \A va : Here(va) => va \in Pages /\ va \in Nat
  BY EntryHere, Bounds DEF Pages
<1>4. ASSUME level = 0, NEW va, Here(va) PROVE va = Page
  <2>1. After = Page + 1 /\ va \in Nat
    BY <1>1, <1>3, <1>4, SpanIs DEF After
  <2> QED
    BY <1>1, <1>2, <1>4, <2>1
<1> QED
  BY <1>1, <1>2, <1>3, <1>4 DEF Cursor

\* A reference is valid when it names an allocated frame that is none of these.
LEMMA ValidReference ==
  ASSUME NEW f, NEW onPath
  PROVE  valid_frame_reference(f, onPath) <=> f \in Allocated \ onPath
<1>1. f \in Allocated => f < NUM_FRAME
  BY Bounds DEF Frames
<1> QED
  BY <1>1 DEF valid_frame_reference

LEMMA MappingIn ==
  ASSUME NEW D, NEW x
  PROVE  x \in AllMappings(D) <=>
           \E va \in Pages : \E e \in Entries(D, 0, va) :
              /\ IsLeaf(e, va)
              /\ x = [va |-> va, frame |-> e.pte.frame, permissions |-> Permissions(e.pte)]
BY DEF AllMappings, MappingsOf

LEMMA TableIn ==
  ASSUME NEW D, NEW x
  PROVE  x \in AllTables(D) <=>
           \E l \in LevelsOf : \E va \in Firsts(l + 1) : x = <<l, va>> /\ Chains(D, l, va) # {}
BY DEF AllTables

IsMalformed(e, l, va) ==
  /\ "V" \in e.pte.flags
  /\ IF l = 0 THEN ~IsLeaf(e, va)
     ELSE ~(e.pte.flags = {"V"} /\ e.pte.frame \in Allocated \ e.over)

LEMMA MalformedIn ==
  ASSUME NEW D, NEW x
  PROVE  x \in AllMalformed(D) <=>
           \E l \in LevelsOf : \E va \in Firsts(l) :
             x = <<l, va>> /\ \E e \in Entries(D, l, va) : IsMalformed(e, l, va)
BY DEF AllMalformed, IsMalformed

LEMMA LeafHere ==
  ASSUME level = 0, NEW pte
  PROVE  IsLeaf([pte |-> pte, over |-> OnPath], Page) <=> sf_pte_is_present(pte) /\ Valid(pte)
BY ValidReference DEF IsLeaf, sf_pte_is_present, Valid

\* Passing an entry, the visitor passes the mapping it is, if it is one.
LEMMA PassMappings ==
  ASSUME WalkInv, NEW pte \in Words, Reads(pte), Passes(pte), NEW D, Completes(D)'
  PROVE  MappingsBelow(D, After) = MappingsBelow(D, Page) \cup
           (IF level = 0 /\ sf_pte_is_present(pte) /\ Valid(pte) THEN {Listed(pte)} ELSE {})
<1> DEFINE one == [pte |-> pte, over |-> OnPath]
<1>0. level \in LevelsOf /\ 0 \in LevelsOf /\ level \in Open
  BY ReadsAt, Bounds DEF LevelsOf
<1>1. ASSUME NEW x \in AllMappings(D), x.va < After, ~ (x.va < Page)
      PROVE  level = 0 /\ sf_pte_is_present(pte) /\ Valid(pte) /\ x = Listed(pte)
  <2>1. PICK va \in Pages : \E e \in Entries(D, 0, va) :
              /\ IsLeaf(e, va)
              /\ x = [va |-> va, frame |-> e.pte.frame, permissions |-> Permissions(e.pte)]
    BY <1>1, MappingIn
  <2>2. PICK e \in Entries(D, 0, va) :
              /\ IsLeaf(e, va)
              /\ x = [va |-> va, frame |-> e.pte.frame, permissions |-> Permissions(e.pte)]
    BY <2>1
  <2>3. va \in Nat /\ x.va = va
    BY <2>2, Bounds DEF Pages
  <2>4. Here(va)
    BY <1>1, <2>3, AfterIs
  <2>5. level = 0
    <3> SUFFICES ASSUME 0 < level PROVE FALSE
      BY <1>0, Bounds DEF LevelsOf
    <3>1. Chains(D, 0, va) = {}
      BY <1>0, <2>4, NothingBelow
    <3> QED
      BY <2>2, <3>1 DEF Entries
  <2>6. va = Page
    BY <2>4, <2>5, AfterIs
  <2>7. e = one
    BY <1>0, <2>2, <2>4, <2>5, EntriesAre DEF OnPath
  <2> QED
    BY <2>2, <2>5, <2>6, <2>7, LeafHere DEF Listed
<1>2. ASSUME level = 0, sf_pte_is_present(pte), Valid(pte)
      PROVE  Listed(pte) \in MappingsBelow(D, After)
  <2>1. Page \in Pages /\ Page < After /\ Here(Page)
    BY AfterIs
  <2>2. one \in Entries(D, 0, Page)
    BY <1>2, <2>1, EntryIs
  <2>3. IsLeaf(one, Page)
    BY <1>2, LeafHere
  <2>4. Listed(pte) \in AllMappings(D)
    BY <2>1, <2>2, <2>3, MappingIn DEF Listed
  <2>5. Listed(pte).va = Page
    BY DEF Listed
  <2> QED
    BY <2>1, <2>4, <2>5 DEF MappingsBelow
<1>3. ASSUME NEW x \in AllMappings(D), x.va < Page PROVE x.va < After
  <2>1. PICK va \in Pages : x.va = va
    BY <1>3, MappingIn
  <2>2. va \in Nat
    BY <2>1, Bounds DEF Pages
  <2> QED
    BY <1>3, <2>1, <2>2, AfterIs
<1> QED
  BY <1>1, <1>2, <1>3 DEF MappingsBelow

\* ... and the malformed entry, if it is one.
LEMMA PassMalformed ==
  ASSUME WalkInv, NEW pte \in Words, Reads(pte), Passes(pte), NEW D, Completes(D)'
  PROVE  MalformedBelow(D, After) = MalformedBelow(D, Page) \cup
           (IF sf_pte_is_present(pte) /\ ~ Valid(pte) THEN {<<level, Page>>} ELSE {})
<1> DEFINE one == [pte |-> pte, over |-> OnPath]
<1>0. level \in LevelsOf /\ level \in Open /\ CallsOK /\ TypeOK /\ Visiting
  BY ReadsAt
<1>1. IsMalformed(one, level, Page) <=> sf_pte_is_present(pte) /\ ~ Valid(pte)
  <2>1. CASE level = 0
    BY <2>1, LeafHere DEF IsMalformed, sf_pte_is_present
  <2>2. CASE level # 0
    <3>1. level > 0
      BY <1>0, <2>2, Bounds DEF LevelsOf
    <3> QED
      BY <3>1, <2>2, ValidReference DEF IsMalformed, sf_pte_is_present, Valid, Refers
  <2> QED
    BY <2>1, <2>2
<1>2. Page \in Firsts(level)
  <2>1. Aligned(prefix[level], level + 1) /\ index[level] \in Nat
    BY <1>0, CallTypes DEF CallsOK, CallOK
  <2>2. Aligned(Page, level)
    BY <1>0, <2>1, AlignedEntry DEF Page
  <2>3. level \in 0 .. PT_LEVELS
    BY <1>0, SpanIs
  <2> QED
    BY <2>2, <2>3, AfterIs, AlignedFirst
<1>3. ASSUME NEW x \in AllMalformed(D), x[2] < After, ~ (x[2] < Page)
      PROVE  sf_pte_is_present(pte) /\ ~ Valid(pte) /\ x = <<level, Page>>
  <2>1. PICK k \in LevelsOf, va \in Pages :
           /\ va \in Firsts(k) /\ x = <<k, va>>
           /\ \E e \in Entries(D, k, va) : IsMalformed(e, k, va)
    BY <1>3, MalformedIn DEF Firsts
  <2>2. PICK e \in Entries(D, k, va) : IsMalformed(e, k, va)
    BY <2>1
  <2>3. va \in Nat /\ x[2] = va
    BY <2>1, Bounds DEF Pages
  <2>4. Here(va)
    BY <1>3, <2>3, AfterIs
  <2>5. k \in Open
    <3>1. ~ (k < level)
      BY <2>2, <2>4, NothingBelow DEF Entries
    <3> QED
      BY <1>0, <3>1, Bounds DEF Open, LevelsOf
  <2>6. e = [pte |-> IF k = level THEN pte ELSE [frame |-> path[k - 1], flags |-> {"V"}],
             over |-> {path[m] : m \in k .. PT_LEVELS - 1}]
    BY <2>4, <2>5, <2>2, EntriesAre
  <2>7. k = level
    <3> SUFFICES ASSUME k # level PROVE FALSE
      OBVIOUS
    <3>1. /\ k \in level + 1 .. PT_LEVELS - 1 /\ k # 0 /\ k - 1 \in Open
          /\ \A m \in k .. PT_LEVELS - 1 : m \in (k - 1) + 1 .. PT_LEVELS - 1
      BY <1>0, <2>5, Bounds DEF Open, LevelsOf
    <3>2. path[k - 1] \in Allocated
      BY <1>0, <3>1 DEF CallsOK, CallOK
    <3>3. \A m \in k .. PT_LEVELS - 1 : path[m] # path[k - 1]
      BY <1>0, <3>1 DEF CallsOK, WaitsFor
    <3>4. e.pte.flags = {"V"} /\ e.pte.frame = path[k - 1]
          /\ e.over = {path[m] : m \in k .. PT_LEVELS - 1}
      BY <2>6
    <3> QED
      BY <2>2, <3>1, <3>2, <3>3, <3>4 DEF IsMalformed
  <2>8. va = Page
    <3>1. level \in 0 .. PT_LEVELS /\ Aligned(Page, level)
      <4>1. Aligned(prefix[level], level + 1) /\ index[level] \in Nat
        BY <1>0, CallTypes DEF CallsOK, CallOK
      <4> QED
        BY <1>0, <4>1, SpanIs, AlignedEntry DEF Page
    <3> QED
      BY <2>1, <2>4, <2>7, <3>1, OneFirst DEF Here
  <2>9. e = one
    BY <2>6, <2>7 DEF OnPath
  <2> QED
    BY <1>1, <2>1, <2>2, <2>7, <2>8, <2>9
<1>4. ASSUME sf_pte_is_present(pte), ~ Valid(pte)
      PROVE  <<level, Page>> \in MalformedBelow(D, After)
  <2>1. Here(Page) /\ Page < After
    BY AfterIs
  <2>2. one \in Entries(D, level, Page)
    BY <2>1, EntryIs
  <2>3. <<level, Page>> \in AllMalformed(D)
    BY <1>0, <1>1, <1>2, <1>4, <2>2, MalformedIn
  <2> QED
    BY <2>1, <2>3 DEF MalformedBelow
<1>5. ASSUME NEW x \in AllMalformed(D), x[2] < Page PROVE x[2] < After
  <2>1. PICK k \in LevelsOf, va \in Pages : x = <<k, va>>
    BY <1>5, MalformedIn DEF Firsts
  <2>2. x[2] \in Nat
    BY <2>1, Bounds DEF Pages
  <2> QED
    BY <1>5, <2>2, AfterIs
<1> QED
  BY <1>3, <1>4, <1>5 DEF MalformedBelow

\* ... and no table that is not open.
LEMMA PassTables ==
  ASSUME WalkInv, NEW pte \in Words, Reads(pte), Passes(pte), NEW D, Completes(D)'
  PROVE  TablesBelow(D, After) \cup OpenTables = TablesBelow(D, Page) \cup OpenTables
<1>0. level \in LevelsOf /\ level \in Open /\ CallsOK /\ TypeOK /\ Visiting
  BY ReadsAt
<1>1. ASSUME NEW x \in AllTables(D), x[2] < After, ~ (x[2] < Page)
      PROVE  x \in OpenTables
  <2>1. PICK k \in LevelsOf, va \in Pages :
           va \in Firsts(k + 1) /\ x = <<k, va>> /\ Chains(D, k, va) # {}
    BY <1>1, TableIn DEF Firsts
  <2>2. va \in Nat /\ x[2] = va
    BY <2>1, Bounds DEF Pages
  <2>3. Here(va)
    BY <1>1, <2>2, AfterIs
  <2>4. k \in Open
    <3>1. ~ (k < level)
      BY <2>1, <2>3, NothingBelow
    <3> QED
      BY <1>0, <3>1, Bounds DEF Open, LevelsOf
  <2>5. va \in Window(prefix[k], k + 1)
    <3>1. prefix[k] \in Nat /\ First(k) \in Nat /\ sf_va_level_span[k + 1] \in Nat
          /\ prefix[level] \in Nat /\ sf_va_level_span[level + 1] \in Nat
      BY <1>0, <2>4, CallTypes, LevelSpans
    <3>2. prefix[level] <= va /\ va < prefix[level] + sf_va_level_span[level + 1]
      BY <2>3, EntryHere
    <3>3. CASE k = level
      BY <2>2, <3>1, <3>2, <3>3 DEF Window
    <3>4. CASE k # level
      <4>1. k \in level + 1 .. PT_LEVELS - 1 /\ k \in LevelsOf
        BY <1>0, <2>4, <3>4, Bounds DEF Open, LevelsOf
      <4>2. /\ WaitsFor(k, level) /\ index[k] < PT_ENTRIES /\ index[k] \in Nat
            /\ sf_va_level_span[k] \in Nat
            /\ sf_va_level_span[k + 1] = PT_ENTRIES * sf_va_level_span[k]
        BY <1>0, <2>4, <4>1, CallTypes, LevelSpans DEF CallsOK, WaitsFor
      <4>3. First(k) + sf_va_level_span[k] <= prefix[k] + sf_va_level_span[k + 1]
            /\ prefix[k] <= First(k)
        <5> DEFINE s == sf_va_level_span[k]
                   j == index[k]
        <5>1. (j + 1) * s <= PT_ENTRIES * s /\ j * s \in Nat /\ (j + 1) * s = j * s + s
          BY <4>2, Bounds
        <5> QED
          BY <3>1, <4>2, <5>1 DEF First
      <4>4. First(k) <= prefix[level]
            /\ prefix[level] + sf_va_level_span[level + 1] <= First(k) + sf_va_level_span[k]
        BY <4>2 DEF WaitsFor
      <4>5. prefix[k] <= va /\ va < prefix[k] + sf_va_level_span[k + 1]
        BY <2>2, <3>1, <3>2, <4>2, <4>3, <4>4
      <4> QED
        BY <2>2, <3>1, <4>5 DEF Window
    <3> QED
      BY <3>3, <3>4
  <2>6. va = prefix[k]
    <3>1. Aligned(prefix[k], k + 1) /\ k + 1 \in 0 .. PT_LEVELS
      BY <1>0, <2>4, Bounds DEF CallsOK, CallOK, LevelsOf
    <3> QED
      BY <2>1, <2>5, <3>1, OneFirst
  <2> QED
    BY <2>1, <2>4, <2>6 DEF OpenTables
<1>2. ASSUME NEW x \in AllTables(D), x[2] < Page PROVE x[2] < After
  <2>1. PICK k \in LevelsOf, va \in Pages : x = <<k, va>>
    BY <1>2, TableIn DEF Firsts
  <2>2. x[2] \in Nat
    BY <2>1, Bounds DEF Pages
  <2> QED
    BY <1>2, <2>2, AfterIs
<1> QED
  BY <1>1, <1>2 DEF TablesBelow

-----------------------------------------------------------------------------
(* What has been counted and listed so far, against the layout.            *)

MappingsCounted(D) ==
  /\ IsFiniteSet(MappingsBelow(D, Cursor))
  /\ summary.mappings = Cardinality(MappingsBelow(D, Cursor))

\* The malformed entry that a root outside the pool is.
RootEntry == IF root_frame \in Allocated \cup {INVALID_FRAME} THEN 0 ELSE 1

MalformedCounted(D) ==
  /\ IsFiniteSet(MalformedBelow(D, Cursor))
  /\ summary.malformed = Cardinality(MalformedBelow(D, Cursor)) + RootEntry

TablesCounted(D) ==
  /\ IsFiniteSet(TablesBelow(D, Cursor) \cup OpenTables)
  /\ summary.table_frames = Cardinality(TablesBelow(D, Cursor) \cup OpenTables)

LowestListed(D) ==
  /\ Range(mappings) \subseteq MappingsBelow(D, Cursor)
  /\ summary.mappings <= MappingCapacity => MappingsBelow(D, Cursor) \subseteq Range(mappings)
  /\ \A m \in Range(mappings), x \in MappingsBelow(D, Cursor) : x.va < m.va => x \in Range(mappings)

\* Every entry over a page that has been passed has been read.
Settled(D) ==
  \A va \in Nat : va < Cursor =>
    \A j \in LevelsOf : \A tbl \in Chains(D, j, va) : data[tbl[j]][sf_va_vpn(va, j)] # Unread

Inspected(D) ==
  MappingsCounted(D) /\ MalformedCounted(D) /\ TablesCounted(D) /\ LowestListed(D) /\ Settled(D)

ListLengths ==
  /\ Len(mappings) = AtMost(summary.mappings, MappingCapacity)
  /\ Len(tables) = AtMost(summary.table_frames, TableCapacity)

Ascending ==
  \A i, j \in 1 .. Len(mappings) : i < j => mappings[i].va < mappings[j].va

InspectInv ==
  WalkInv /\ ListLengths /\ Ascending /\ \A D : Completes(D) => Inspected(D)

LEMMA RangeOfAppend ==
  ASSUME NEW S, NEW s \in Seq(S), NEW e
  PROVE  Range(Append(s, e)) = Range(s) \cup {e}
<1>1. Len(s) \in Nat /\ DOMAIN s = 1 .. Len(s)
  OBVIOUS
<1>2. DOMAIN Append(s, e) = 1 .. Len(s) + 1
  OBVIOUS
<1>3. \A i \in 1 .. Len(s) : Append(s, e)[i] = s[i] /\ i \in 1 .. Len(s) + 1
  OBVIOUS
<1>4. Append(s, e)[Len(s) + 1] = e /\ Len(s) + 1 \in 1 .. Len(s) + 1
  BY <1>1
<1>5. \A i \in 1 .. Len(s) + 1 : i \in 1 .. Len(s) \/ i = Len(s) + 1
  BY <1>1
<1> QED
  BY <1>1, <1>2, <1>3, <1>4, <1>5 DEF Range

-----------------------------------------------------------------------------
(* An entry is passed.                                                     *)

PassesEntry(pte) ==
  Reads(pte) /\ Passes(pte) /\ Advance /\ UNCHANGED <<level, path, prefix>>

LEMMA PassCursor ==
  ASSUME WalkInv, NEW pte \in Words, PassesEntry(pte)
  PROVE  Cursor = Page /\ Cursor' = After /\ OpenTables' = OpenTables
<1>1. Reads(pte) /\ Advance /\ UNCHANGED <<level, path, prefix>>
  BY DEF PassesEntry
<1>2. Visiting /\ level \in LevelsOf /\ level \in Open /\ TypeOK /\ CallsOK
      /\ index[level] \in Indices
  BY <1>1, ReadsAt, ReadStep
<1>3. index'[level] = index[level] + 1
  BY <1>1, <1>2, AdvanceTypes
<1>4. index[level] \in Nat /\ prefix[level] \in Nat /\ sf_va_level_span[level] \in Nat
  BY <1>2, CallTypes, LevelSpans
<1>5. (index[level] + 1) * sf_va_level_span[level]
        = index[level] * sf_va_level_span[level] + sf_va_level_span[level]
      /\ index[level] * sf_va_level_span[level] \in Nat
  BY <1>4
<1>6. Visiting' /\ Page' = prefix[level] + (index[level] + 1) * sf_va_level_span[level]
  BY <1>1, <1>2, <1>3 DEF Visiting, Page
<1>7. Page' = After
  BY <1>4, <1>5, <1>6 DEF After, Page
<1>8. OpenTables' = OpenTables
  BY <1>1 DEF OpenTables, Open
<1> QED
  BY <1>2, <1>6, <1>7, <1>8 DEF Cursor

LEMMA PassSettled ==
  ASSUME WalkInv, NEW pte \in Words, PassesEntry(pte), NEW D, Completes(D)', Settled(D)
  PROVE  Settled(D)'
<1>1. Reads(pte) /\ Passes(pte) /\ Cursor = Page /\ Cursor' = After
  BY PassCursor DEF PassesEntry
<1>2. SUFFICES ASSUME NEW va \in Nat, va < After, NEW j \in LevelsOf, NEW tbl \in Chains(D, j, va)
               PROVE  data'[tbl[j]][sf_va_vpn(va, j)] # Unread
  <2>1. \A j \in LevelsOf, va \in Nat : Chains(D, j, va)' = Chains(D, j, va)
    BY <1>1 DEF Chains, Chain, Reads
  <2> QED
    BY <1>1, <2>1 DEF Settled
<1>3. /\ level \in LevelsOf /\ level \in Open /\ Visiting /\ index[level] \in Indices
      /\ path[level] \in Frames /\ data'[path[level]][index[level]] = pte /\ pte # Unread
  BY <1>1, ReadsAt, ReadStep, Bounds
<1>4. \A f \in Frames, i \in Indices : data[f][i] # Unread => data'[f][i] # Unread
  BY <1>1, <1>3, ReadStep
<1>5. tbl[j] \in Frames /\ sf_va_vpn(va, j) \in Indices
  <2>1. tbl[j] \in Allocated
    BY Bounds DEF Chains, LevelsOf
  <2>2. \A n \in Int, d \in Nat \ {0} : n % d \in 0 .. d - 1
    OBVIOUS
  <2>3. va \div sf_va_level_span[j] \in Int
    BY LevelSpans
  <2> QED
    BY <2>1, <2>2, <2>3, Bounds DEF sf_va_vpn, Indices
<1>6. CASE va < Page
  <2>1. data[tbl[j]][sf_va_vpn(va, j)] # Unread
    BY <1>1, <1>6 DEF Settled
  <2> QED
    BY <1>4, <1>5, <2>1
<1>7. CASE ~ (va < Page)
  <2>1. Here(va)
    BY <1>1, <1>2, <1>7, AfterIs
  <2>2. Completes(D) /\ Under(va) /\ sf_va_vpn(va, level) = index[level]
    BY <1>1, <2>1, ReadCompletes, EntryHere
  <2>3. j \in Open
    <3>1. ~ (j < level)
      BY <1>1, <2>1, NothingBelow
    <3> QED
      BY <1>3, <3>1, Bounds DEF Open, LevelsOf
  <2>4. tbl[j] = path[j]
    BY <1>3, <2>2, <2>3, PathIs, Bounds DEF LevelsOf
  <2>5. CASE j = level
    BY <1>3, <2>2, <2>4, <2>5
  <2>6. CASE j # level
    <3>1. j \in level + 1 .. PT_LEVELS - 1
      BY <1>3, <2>3, <2>6, Bounds DEF Open, LevelsOf
    <3>2. data[tbl[j]][sf_va_vpn(va, j)] # Unread
      BY <1>3, <2>2, <2>4, <3>1, EntryAbove
    <3> QED
      BY <1>4, <1>5, <3>2
  <2> QED
    BY <2>5, <2>6
<1> QED
  BY <1>6, <1>7

\* The sets of the layout depend on the memory and on the root alone.
LEMMA SetsStay ==
  ASSUME root_frame' = root_frame, NEW D
  PROVE  /\ \A c : MappingsBelow(D, c)' = MappingsBelow(D, c)
         /\ \A c : MalformedBelow(D, c)' = MalformedBelow(D, c)
         /\ \A c : TablesBelow(D, c)' = TablesBelow(D, c)
         /\ \A j, va : Chains(D, j, va)' = Chains(D, j, va)
         /\ RootEntry' = RootEntry
<1>1. \A j, va : Chains(D, j, va)' = Chains(D, j, va)
  BY DEF Chains, Chain
<1>2. \A j, va : Entries(D, j, va)' = Entries(D, j, va)
  BY <1>1 DEF Entries
<1>3. \A e, va : IsLeaf(e, va)' = IsLeaf(e, va)
  BY DEF IsLeaf
<1>4. AllMappings(D)' = AllMappings(D)
  BY <1>2, <1>3 DEF AllMappings, MappingsOf
<1>5. AllMalformed(D)' = AllMalformed(D)
  BY <1>2, <1>3 DEF AllMalformed
<1>6. AllTables(D)' = AllTables(D)
  BY <1>1 DEF AllTables
<1> QED
  BY <1>1, <1>4, <1>5, <1>6 DEF MappingsBelow, MalformedBelow, TablesBelow, RootEntry

LEMMA InspectedCompletes ==
  ASSUME InspectInv, NEW pte \in Words, Reads(pte), NEW D, Completes(D)'
  PROVE  WalkInv /\ Completes(D) /\ Inspected(D)
<1>1. WalkInv
  BY DEF InspectInv
<1>2. Completes(D)
  BY <1>1, ReadCompletes
<1> QED
  BY <1>1, <1>2 DEF InspectInv

\* The entry is not present: nothing is counted.
LEMMA AbsentInspected ==
  ASSUME InspectInv, NEW pte \in Words, Absent(pte), NEW D, Completes(D)'
  PROVE  Inspected(D)'
<1>1. /\ Reads(pte) /\ ~ sf_pte_is_present(pte) /\ PassesEntry(pte) /\ Passes(pte)
      /\ UNCHANGED <<summary, mappings>> /\ root_frame' = root_frame
  BY DEF Absent, PassesEntry, Passes, Reads
<1>2. WalkInv /\ Inspected(D)
  BY <1>1, InspectedCompletes
<1>3. Cursor = Page /\ Cursor' = After /\ OpenTables' = OpenTables
  BY <1>1, <1>2, PassCursor
<1>4. /\ MappingsBelow(D, After) = MappingsBelow(D, Page)
      /\ MalformedBelow(D, After) = MalformedBelow(D, Page)
      /\ TablesBelow(D, After) \cup OpenTables = TablesBelow(D, Page) \cup OpenTables
  BY <1>1, <1>2, PassMappings, PassMalformed, PassTables
<1>5. Settled(D)'
  BY <1>1, <1>2, PassSettled DEF Inspected
<1>6. /\ MappingsBelow(D, Cursor)' = MappingsBelow(D, Cursor)
      /\ MalformedBelow(D, Cursor)' = MalformedBelow(D, Cursor) /\ RootEntry' = RootEntry
      /\ (TablesBelow(D, Cursor) \cup OpenTables)' = TablesBelow(D, Cursor) \cup OpenTables
  BY <1>1, <1>3, <1>4, SetsStay
<1> QED
  BY <1>1, <1>2, <1>5, <1>6
  DEF Inspected, MappingsCounted, MalformedCounted, TablesCounted, LowestListed

\* The entry is malformed: one more.
LEMMA MalformedInspected ==
  ASSUME InspectInv, NEW pte \in Words, malformed(pte), NEW D, Completes(D)'
  PROVE  Inspected(D)'
<1>1. /\ Reads(pte) /\ sf_pte_is_present(pte) /\ ~ Valid(pte) /\ PassesEntry(pte) /\ Passes(pte)
      /\ Counted("malformed") /\ mappings' = mappings /\ root_frame' = root_frame
  BY DEF malformed, PassesEntry, Passes, Reads
<1>2. WalkInv /\ Inspected(D) /\ TypeOK
  BY <1>1, InspectedCompletes DEF WalkInv
<1>3. Cursor = Page /\ Cursor' = After /\ OpenTables' = OpenTables
  BY <1>1, <1>2, PassCursor
<1>4. /\ MappingsBelow(D, After) = MappingsBelow(D, Page)
      /\ MalformedBelow(D, After) = MalformedBelow(D, Page) \cup {<<level, Page>>}
      /\ TablesBelow(D, After) \cup OpenTables = TablesBelow(D, Page) \cup OpenTables
  BY <1>1, <1>2, PassMappings, PassMalformed, PassTables
<1>5. Settled(D)'
  BY <1>1, <1>2, PassSettled DEF Inspected
<1>6. /\ MappingsBelow(D, Cursor)' = MappingsBelow(D, Cursor)
      /\ MalformedBelow(D, Cursor)' = MalformedBelow(D, Cursor) \cup {<<level, Page>>}
      /\ RootEntry' = RootEntry
      /\ (TablesBelow(D, Cursor) \cup OpenTables)' = TablesBelow(D, Cursor) \cup OpenTables
  BY <1>1, <1>3, <1>4, SetsStay
<1>7. summary'["malformed"] = summary["malformed"] + 1
      /\ summary'["mappings"] = summary["mappings"]
      /\ summary'["table_frames"] = summary["table_frames"]
  BY <1>1, <1>2, CountedIs DEF TypeOK
<1>8. MalformedCounted(D)'
  <2> DEFINE S == MalformedBelow(D, Cursor)
  <2>1. IsFiniteSet(S) /\ summary.malformed = Cardinality(S) + RootEntry
    BY <1>2 DEF Inspected, MalformedCounted
  <2>2. <<level, Page>> \notin S
    BY <1>3, AfterIs, <1>1, <1>2 DEF MalformedBelow
  <2>3. IsFiniteSet(S \cup {<<level, Page>>})
        /\ Cardinality(S \cup {<<level, Page>>}) = Cardinality(S) + 1
    BY <2>1, <2>2, FS_AddElement
  <2>4. Cardinality(S) \in Nat /\ RootEntry \in Nat
    BY <2>1, FS_CardinalityType DEF RootEntry
  <2> HIDE DEF S
  <2>5. summary'.malformed = Cardinality(S \cup {<<level, Page>>}) + RootEntry
    BY <1>7, <2>1, <2>3, <2>4
  <2> QED
    BY <1>6, <2>3, <2>5 DEF MalformedCounted, S
<1> QED
  BY <1>1, <1>2, <1>5, <1>6, <1>7, <1>8
  DEF Inspected, MappingsCounted, TablesCounted, LowestListed

\* The entry is a mapping: one more, listed if there is room.
LEMMA LeafInspected ==
  ASSUME InspectInv, NEW pte \in Words, Leaf(pte), NEW D, Completes(D)'
  PROVE  Inspected(D)'
<1>1. /\ Reads(pte) /\ sf_pte_is_present(pte) /\ Valid(pte) /\ level = 0
      /\ Counted("mappings") /\ root_frame' = root_frame /\ Advance
      /\ UNCHANGED <<level, path, prefix>>
      /\ mappings' = IF summary.mappings < MappingCapacity THEN Append(mappings, Listed(pte))
                     ELSE mappings
  BY DEF Leaf, Reads, Listed
<1>12. Passes(pte) /\ PassesEntry(pte)
  BY <1>1 DEF Passes, PassesEntry
<1>2. WalkInv /\ Inspected(D) /\ TypeOK
  BY <1>1, InspectedCompletes DEF WalkInv
<1>3. Cursor = Page /\ Cursor' = After /\ OpenTables' = OpenTables
  BY <1>12, <1>2, PassCursor
<1>4. /\ MappingsBelow(D, After) = MappingsBelow(D, Page) \cup {Listed(pte)}
      /\ MalformedBelow(D, After) = MalformedBelow(D, Page)
      /\ TablesBelow(D, After) \cup OpenTables = TablesBelow(D, Page) \cup OpenTables
  BY <1>1, <1>12, <1>2, PassMappings, PassMalformed, PassTables
<1>5. Settled(D)'
  BY <1>12, <1>2, PassSettled DEF Inspected
<1>6. /\ MappingsBelow(D, Cursor)' = MappingsBelow(D, Cursor) \cup {Listed(pte)}
      /\ MalformedBelow(D, Cursor)' = MalformedBelow(D, Cursor)
      /\ RootEntry' = RootEntry
      /\ (TablesBelow(D, Cursor) \cup OpenTables)' = TablesBelow(D, Cursor) \cup OpenTables
  BY <1>1, <1>3, <1>4, SetsStay
<1>7. summary'["mappings"] = summary["mappings"] + 1
      /\ summary'["malformed"] = summary["malformed"]
      /\ summary'["table_frames"] = summary["table_frames"]
      /\ summary["mappings"] \in Nat
  BY <1>1, <1>2, CountedIs DEF TypeOK
<1> DEFINE S == MappingsBelow(D, Cursor)
           new == Listed(pte)
<1>8. /\ IsFiniteSet(S) /\ summary.mappings = Cardinality(S)
      /\ Range(mappings) \subseteq S
      /\ summary.mappings <= MappingCapacity => S \subseteq Range(mappings)
      /\ \A m \in Range(mappings), x \in S : x.va < m.va => x \in Range(mappings)
  BY <1>2 DEF Inspected, MappingsCounted, LowestListed
<1>9. new.va = Page /\ Page \in Nat /\ new \notin S
      /\ \A x \in S : x.va < Page /\ x.va \in Nat
  <2>1. Page \in Nat /\ new.va = Page
    BY <1>1, <1>2, AfterIs DEF Listed
  <2>2. \A x \in AllMappings(D) : x.va \in Nat
    <3> SUFFICES ASSUME NEW x \in AllMappings(D) PROVE x.va \in Nat
      OBVIOUS
    <3>1. PICK va \in Pages : x.va = va
      BY MappingIn
    <3> QED
      BY <3>1, Bounds DEF Pages
  <2> QED
    BY <1>3, <2>1, <2>2 DEF MappingsBelow
<1>10. MappingsCounted(D)'
  <2>1. IsFiniteSet(S \cup {new}) /\ Cardinality(S \cup {new}) = Cardinality(S) + 1
    BY <1>8, <1>9, FS_AddElement
  <2> HIDE DEF S
  <2> QED
    BY <1>6, <1>7, <1>8, <2>1 DEF MappingsCounted, S
<1>11. LowestListed(D)'
  <2> HIDE DEF S, new
  <2>0. MappingCapacity \in Nat /\ S' = S \cup {new}
    BY <1>6, PtInspectAssumption DEF S, new
  <2>1. CASE summary.mappings < MappingCapacity
    <3>1. Range(mappings') = Range(mappings) \cup {new}
      BY <1>1, <1>2, <2>1, RangeOfAppend DEF TypeOK, new
    <3>2. S \subseteq Range(mappings)
      BY <1>7, <1>8, <2>0, <2>1
    <3>3. \A m \in Range(mappings'), x \in S' : x.va < m.va => x \in Range(mappings')
      BY <1>8, <1>9, <2>0, <3>1, <3>2
    <3> QED
      BY <1>8, <2>0, <3>1, <3>2, <3>3 DEF LowestListed, S
  <2>2. CASE ~ (summary.mappings < MappingCapacity)
    <3>1. mappings' = mappings /\ ~ (summary'.mappings <= MappingCapacity)
      BY <1>1, <1>7, <2>0, <2>2
    <3>2. \A m \in Range(mappings), x \in S' : x.va < m.va => x \in Range(mappings)
      BY <1>8, <1>9, <2>0
    <3> QED
      BY <1>8, <2>0, <3>1, <3>2 DEF LowestListed, S
  <2> QED
    BY <2>1, <2>2
<1> QED
  BY <1>2, <1>5, <1>6, <1>7, <1>10, <1>11 DEF Inspected, MalformedCounted, TablesCounted

\* A table is entered: one more that is open.
LEMMA DescendInspected ==
  ASSUME InspectInv, NEW pte \in Words, Descend(pte), NEW D, Completes(D)'
  PROVE  Inspected(D)'
<1>0. PICK n : n = level - 1
  OBVIOUS
<1>1. /\ Reads(pte) /\ level > 0 /\ Enter(pte.frame, n, Page) /\ Counted("table_frames")
      /\ mappings' = mappings /\ root_frame' = root_frame
  BY <1>0 DEF Descend, Reads
<1>2. WalkInv /\ Inspected(D) /\ TypeOK
  BY <1>1, InspectedCompletes DEF WalkInv
<1>3. /\ level \in LevelsOf /\ level \in Open /\ Visiting /\ n \in LevelsOf /\ n + 1 = level
      /\ n # PT_LEVELS /\ level' = n /\ Open' = Open \cup {n} /\ n \notin Open
      /\ Open \subseteq LevelsOf /\ Visiting'
  <2>1. level \in LevelsOf /\ level \in Open /\ Visiting
    BY <1>1, <1>2, ReadsAt
  <2> QED
    BY <1>0, <1>1, <2>1, Bounds DEF Open, LevelsOf, Enter, Visiting
<1>4. prefix'[n] = Page /\ index'[n] = 0 /\ \A l \in LevelsOf \ {n} : prefix'[l] = prefix[l]
  <2>1. prefix' = [prefix EXCEPT ![n] = Page] /\ index' = [index EXCEPT ![n] = 0]
    BY <1>1 DEF Enter
  <2>2. DOMAIN index = LevelsOf /\ DOMAIN prefix = LevelsOf
    BY <1>2 DEF TypeOK
  <2> QED
    BY <1>3, <2>1, <2>2
<1>5. Cursor = Page /\ Cursor' = Page /\ Page \in Nat
  <2>1. Page \in Nat /\ sf_va_level_span[n] \in Nat
    BY <1>1, <1>2, <1>3, ReadStep, LevelSpans
  <2>2. Page' = Page
    BY <1>3, <1>4, <2>1 DEF Page
  <2> QED
    BY <1>3, <2>1, <2>2 DEF Cursor
<1>6. OpenTables' = OpenTables \cup {<<n, Page>>}
  <2>1. \A m \in Open : m \in LevelsOf \ {n} /\ prefix'[m] = prefix[m]
    BY <1>3, <1>4
  <2> QED
    BY <1>3, <1>4, <2>1 DEF OpenTables
<1>7. /\ MappingsBelow(D, Cursor)' = MappingsBelow(D, Cursor)
      /\ MalformedBelow(D, Cursor)' = MalformedBelow(D, Cursor) /\ RootEntry' = RootEntry
      /\ TablesBelow(D, Cursor)' = TablesBelow(D, Cursor)
      /\ \A j, va : Chains(D, j, va)' = Chains(D, j, va)
  BY <1>1, <1>5, SetsStay
<1>8. summary'["table_frames"] = summary["table_frames"] + 1
      /\ summary'["malformed"] = summary["malformed"]
      /\ summary'["mappings"] = summary["mappings"]
  BY <1>1, <1>2, CountedIs DEF TypeOK
<1>9. TablesCounted(D)'
  <2> DEFINE S == TablesBelow(D, Cursor) \cup OpenTables
  <2>1. IsFiniteSet(S) /\ summary.table_frames = Cardinality(S)
    BY <1>2 DEF Inspected, TablesCounted
  <2>2. <<n, Page>> \notin S
    BY <1>3, <1>5 DEF TablesBelow, OpenTables
  <2>3. IsFiniteSet(S \cup {<<n, Page>>})
        /\ Cardinality(S \cup {<<n, Page>>}) = Cardinality(S) + 1
    BY <2>1, <2>2, FS_AddElement
  <2>4. (TablesBelow(D, Cursor) \cup OpenTables)' = S \cup {<<n, Page>>}
    BY <1>6, <1>7
  <2> HIDE DEF S
  <2> QED
    BY <1>8, <2>1, <2>3, <2>4 DEF TablesCounted
<1>10. Settled(D)'
  <2>1. \A f \in Frames, i \in Indices : data[f][i] # Unread => data'[f][i] # Unread
    BY <1>1, <1>2, ReadStep, Bounds
  <2>2. ASSUME NEW va \in Nat, va < Page, NEW j \in LevelsOf, NEW tbl \in Chains(D, j, va)
        PROVE  data'[tbl[j]][sf_va_vpn(va, j)] # Unread
    <3>1. tbl[j] \in Frames /\ sf_va_vpn(va, j) \in Indices
      <4>1. tbl[j] \in Allocated
        BY Bounds DEF Chains, LevelsOf
      <4>2. \A k \in Int, d \in Nat \ {0} : k % d \in 0 .. d - 1
        OBVIOUS
      <4>3. va \div sf_va_level_span[j] \in Int
        BY LevelSpans
      <4> QED
        BY <4>1, <4>2, <4>3, Bounds DEF sf_va_vpn, Indices
    <3>2. data[tbl[j]][sf_va_vpn(va, j)] # Unread
      BY <1>2, <1>5, <2>2 DEF Inspected, Settled
    <3> QED
      BY <2>1, <3>1, <3>2
  <2> QED
    BY <1>5, <1>7, <2>2 DEF Settled
<1> QED
  BY <1>1, <1>2, <1>7, <1>8, <1>9, <1>10
  DEF Inspected, MappingsCounted, MalformedCounted, LowestListed

\* A call returns: its table was open, and is now one that has been passed.
LEMMA ReturnInspected ==
  ASSUME InspectInv, Return, NEW D, Completes(D)'
  PROVE  Inspected(D)'
<1>0. PICK n : n = level + 1
  OBVIOUS
<1>1. /\ Visiting /\ index[level] = PT_ENTRIES /\ level' = n
      /\ index' = IF n < PT_LEVELS THEN [index EXCEPT ![n] = @ + 1] ELSE index
      /\ UNCHANGED <<root_frame, data, path, prefix, summary, mappings, tables>>
  BY <1>0 DEF Return
<1>2. Completes(D) /\ WalkInv
  BY <1>1 DEF Completes, InspectInv
<1>3. Inspected(D) /\ TypeOK /\ CallsOK /\ level \in LevelsOf /\ level \in Open
  <2>1. TypeOK /\ CallsOK /\ level \in LevelsOf
    BY <1>1, <1>2, WalkTypes
  <2> QED
    BY <1>2, <2>1, Bounds DEF InspectInv, Open, LevelsOf
<1>4. /\ prefix[level] \in Nat /\ sf_va_level_span[level + 1] \in Nat \ {0}
      /\ Page = prefix[level] + sf_va_level_span[level + 1]
      /\ Aligned(prefix[level], level + 1) /\ Page <= VA_LIMIT
  <2>1. CallOK(level)
    BY <1>3 DEF CallsOK
  <2> QED
    BY <1>1, <1>3, <2>1, CallTypes, LevelSpans DEF Page, CallOK
<1>5. Cursor = Page /\ Cursor' = Page
  <2>1. CASE n < PT_LEVELS
    <3>1. n \in Open /\ n \in level + 1 .. PT_LEVELS - 1 /\ n \in LevelsOf
      BY <1>0, <1>3, <2>1, Bounds DEF Open, LevelsOf
    <3>2. /\ WaitsFor(n, level) /\ index[n] \in Nat /\ prefix[n] \in Nat
          /\ sf_va_level_span[n] \in Nat
      BY <1>3, <3>1, CallTypes, LevelSpans DEF CallsOK
    <3>3. First(n) = prefix[level]
      <4>1. First(n) \in Nat
        BY <1>3, <3>1, CallTypes
      <4> QED
        BY <1>0, <1>4, <3>2, <4>1 DEF WaitsFor
    <3>4. index'[n] = index[n] + 1 /\ Visiting'
      BY <1>1, <1>3, <2>1, <3>1 DEF TypeOK, Visiting
    <3>5. (index[n] + 1) * sf_va_level_span[n]
            = index[n] * sf_va_level_span[n] + sf_va_level_span[n]
          /\ index[n] * sf_va_level_span[n] \in Nat
      BY <3>2
    <3>6. Page' = prefix[n] + (index[n] + 1) * sf_va_level_span[n]
      BY <1>1, <3>4 DEF Page
    <3>7. Page' = Page
      BY <1>0, <1>4, <3>2, <3>3, <3>5, <3>6 DEF First
    <3> QED
      BY <1>1, <3>4, <3>7 DEF Cursor
  <2>2. CASE ~ (n < PT_LEVELS)
    <3>1. level = PT_LEVELS - 1 /\ n = PT_LEVELS /\ level + 1 = PT_LEVELS
      BY <1>0, <1>3, <2>2, Bounds DEF LevelsOf
    <3>2. Page = VA_LIMIT
      BY <1>3, <1>4, <3>1, Bounds DEF CallsOK
    <3> QED
      BY <1>1, <3>1, <3>2, Bounds DEF Cursor, Visiting
  <2> QED
    BY <2>1, <2>2
<1>6. Under(prefix[level])
  <2> SUFFICES ASSUME NEW k \in level + 1 .. PT_LEVELS - 1
               PROVE  prefix[level] \in Window(First(k), k)
    BY <1>4 DEF Under
  <2>1. WaitsFor(k, level) /\ k \in Open
    BY <1>3, Bounds DEF CallsOK, Open, LevelsOf
  <2>2. First(k) \in Nat /\ sf_va_level_span[k] \in Nat
    BY <1>3, <2>1, CallTypes, LevelSpans
  <2>3. First(k) <= prefix[level] /\ prefix[level] < First(k) + sf_va_level_span[k]
    BY <1>4, <2>1, <2>2 DEF WaitsFor
  <2> QED
    BY <1>4, <2>2, <2>3 DEF Window
<1>7. <<level, prefix[level]>> \in TablesBelow(D, Page)
  <2>1. PathFrom(level) \in Chains(D, level, prefix[level])
    BY <1>1, <1>2, <1>6, PathChain
  <2>2. prefix[level] \in Pages /\ level + 1 \in 0 .. PT_LEVELS
    BY <1>3, <1>4, Bounds DEF Pages, LevelsOf
  <2>3. prefix[level] \in Firsts(level + 1)
    BY <1>4, <2>2, AlignedFirst
  <2>4. <<level, prefix[level]>> \in AllTables(D)
    BY <1>3, <2>1, <2>3, TableIn
  <2>5. prefix[level] < Page
    BY <1>4
  <2> QED
    BY <2>4, <2>5 DEF TablesBelow
<1>8. OpenTables = OpenTables' \cup {<<level, prefix[level]>>}
  <2>1. Open = Open' \cup {level}
    <3>1. Open' = n .. PT_LEVELS - 1
      BY <1>1 DEF Open
    <3>2. level \in Int /\ PT_LEVELS \in Int /\ level <= PT_LEVELS - 1
      BY <1>3, Bounds DEF LevelsOf
    <3>3. level .. PT_LEVELS - 1 = (level + 1 .. PT_LEVELS - 1) \cup {level}
      BY <3>2
    <3> QED
      BY <1>0, <3>1, <3>3 DEF Open
  <2>2. OpenTables' = {<<m, prefix[m]>> : m \in Open'}
    BY <1>1 DEF OpenTables
  <2> QED
    BY <2>1, <2>2 DEF OpenTables
<1>9. /\ MappingsBelow(D, Cursor)' = MappingsBelow(D, Cursor)
      /\ MalformedBelow(D, Cursor)' = MalformedBelow(D, Cursor) /\ RootEntry' = RootEntry
      /\ TablesBelow(D, Cursor)' = TablesBelow(D, Cursor)
      /\ \A j, va : Chains(D, j, va)' = Chains(D, j, va)
  BY <1>1, <1>5, SetsStay
<1>10. (TablesBelow(D, Cursor) \cup OpenTables)' = TablesBelow(D, Cursor) \cup OpenTables
  BY <1>5, <1>7, <1>8, <1>9
<1>11. Settled(D)'
  BY <1>1, <1>3, <1>5, <1>9 DEF Inspected, Settled
<1> QED
  BY <1>1, <1>3, <1>9, <1>10, <1>11
  DEF Inspected, MappingsCounted, MalformedCounted, TablesCounted, LowestListed

-----------------------------------------------------------------------------
(* The lists.                                                              *)

LEMMA LengthsStep ==
  ASSUME TypeOK, ListLengths, NEW pte \in Words,
         Absent(pte) \/ malformed(pte) \/ Descend(pte) \/ Leaf(pte)
  PROVE  ListLengths'
<1>0. /\ summary \in [{"table_frames", "mappings", "malformed"} -> Nat]
      /\ MappingCapacity \in Nat /\ TableCapacity \in Nat
      /\ mappings \in Seq([va : Nat, frame : Nat, permissions : SUBSET {"V", "R", "W", "X", "other"}])
      /\ tables \in Seq(Nat)
  BY PtInspectAssumption DEF TypeOK
<1>1. ASSUME NEW S, NEW s \in Seq(S), NEW e PROVE Len(Append(s, e)) = Len(s) + 1
  OBVIOUS
<1>2. CASE Absent(pte)
  BY <1>2 DEF Absent, ListLengths
<1>3. CASE malformed(pte)
  <2>1. Counted("malformed") /\ UNCHANGED <<mappings, tables>>
    BY <1>3 DEF malformed
  <2>2. summary'["mappings"] = summary["mappings"]
        /\ summary'["table_frames"] = summary["table_frames"]
    BY <1>0, <2>1, CountedIs
  <2> QED
    BY <2>1, <2>2 DEF ListLengths
<1>4. CASE Descend(pte)
  <2>1. /\ Counted("table_frames") /\ UNCHANGED mappings
        /\ tables' = IF summary.table_frames < TableCapacity THEN Append(tables, pte.frame)
                     ELSE tables
    BY <1>4 DEF Descend, Enter
  <2>2. summary'["mappings"] = summary["mappings"]
        /\ summary'["table_frames"] = summary["table_frames"] + 1
        /\ summary["table_frames"] \in Nat
    BY <1>0, <2>1, CountedIs
  <2>3. Len(tables') = AtMost(summary'.table_frames, TableCapacity)
    BY <1>0, <1>1, <2>1, <2>2 DEF ListLengths, AtMost
  <2> QED
    BY <2>1, <2>2, <2>3 DEF ListLengths
<1>5. CASE Leaf(pte)
  <2>1. /\ Counted("mappings") /\ UNCHANGED tables
        /\ mappings' = IF summary.mappings < MappingCapacity THEN Append(mappings, Listed(pte))
                       ELSE mappings
    BY <1>5 DEF Leaf, Listed
  <2>2. summary'["table_frames"] = summary["table_frames"]
        /\ summary'["mappings"] = summary["mappings"] + 1
        /\ summary["mappings"] \in Nat
    BY <1>0, <2>1, CountedIs
  <2>3. Len(mappings') = AtMost(summary'.mappings, MappingCapacity)
    BY <1>0, <1>1, <2>1, <2>2 DEF ListLengths, AtMost
  <2> QED
    BY <2>1, <2>2, <2>3 DEF ListLengths
<1> QED
  BY <1>2, <1>3, <1>4, <1>5

\* The words read so far complete themselves, so every listed mapping is below the cursor.
LEMMA ListedBelow ==
  ASSUME InspectInv
  PROVE  \A m \in Range(mappings) : m.va < Cursor
<1>1. Completes(data)
  BY DEF Completes, InspectInv, WalkInv, TypeOK
<1>2. LowestListed(data)
  BY <1>1 DEF InspectInv, Inspected
<1> QED
  BY <1>2 DEF LowestListed, MappingsBelow

LEMMA AscendStep ==
  ASSUME InspectInv, NEW pte \in Words, Leaf(pte)
  PROVE  Ascending'
<1>1. mappings' = IF summary.mappings < MappingCapacity THEN Append(mappings, Listed(pte))
                  ELSE mappings
  BY DEF Leaf, Listed
<1>2. /\ mappings \in Seq([va : Nat, frame : Nat, permissions : SUBSET {"V", "R", "W", "X", "other"}])
      /\ Ascending
  BY DEF InspectInv, WalkInv, TypeOK
<1>3. CASE mappings' = mappings
  BY <1>2, <1>3 DEF Ascending
<1>4. CASE mappings' = Append(mappings, Listed(pte))
  <2>1. /\ Len(mappings) \in Nat /\ Len(mappings') = Len(mappings) + 1
        /\ \A i \in 1 .. Len(mappings) : mappings'[i] = mappings[i] /\ mappings[i] \in Range(mappings)
        /\ mappings'[Len(mappings) + 1] = Listed(pte)
    <3>1. \A i \in 1 .. Len(mappings) : mappings[i] \in Range(mappings)
      BY <1>2 DEF Range
    <3> HIDE DEF Ascending
    <3> QED
      BY <1>2, <1>4, <3>1
  <2>2. Cursor = Page
    BY DEF Cursor, Leaf, Reads
  <2>3. \A i \in 1 .. Len(mappings) : mappings[i].va < Listed(pte).va
    BY <2>1, <2>2, ListedBelow DEF Listed
  <2>4. \A i, j \in 1 .. Len(mappings) : i < j => mappings[i].va < mappings[j].va
    BY <1>2 DEF Ascending
  <2>5. ASSUME NEW i \in 1 .. Len(mappings'), NEW j \in 1 .. Len(mappings'), i < j
        PROVE  mappings'[i].va < mappings'[j].va
    <3>1. i \in 1 .. Len(mappings)
      BY <2>1, <2>5
    <3>2. CASE j = Len(mappings) + 1
      BY <2>1, <2>3, <3>1, <3>2
    <3>3. CASE j # Len(mappings) + 1
      <4>1. j \in 1 .. Len(mappings)
        BY <2>1, <3>3
      <4> QED
        BY <2>1, <2>4, <2>5, <3>1, <4>1
    <3> QED
      BY <3>2, <3>3
  <2> QED
    BY <2>5 DEF Ascending
<1> QED
  BY <1>1, <1>3, <1>4

-----------------------------------------------------------------------------
(* The invariant.                                                          *)

LEMMA NoChainsFromOutside ==
  ASSUME root_frame \notin Allocated, NEW D, NEW j \in LevelsOf, NEW va
  PROVE  Chains(D, j, va) = {}
<1>1. PT_LEVELS - 1 \in j .. PT_LEVELS - 1
  BY Bounds DEF LevelsOf
<1> QED
  BY <1>1 DEF Chains, Chain

LEMMA InitInspect == Init => InspectInv
<1> SUFFICES ASSUME Init PROVE InspectInv
  OBVIOUS
<1>1. WalkInv
  BY InitWalk
<1>2. /\ mappings = << >> /\ Range(mappings) = {}
      /\ summary.mappings = 0
      /\ summary.table_frames = IF root_frame \in Allocated THEN 1 ELSE 0
      /\ summary.malformed = RootEntry
      /\ tables = IF root_frame \in Allocated /\ TableCapacity > 0 THEN <<root_frame>> ELSE << >>
      /\ MappingCapacity \in Nat /\ TableCapacity \in Nat
  BY PtInspectAssumption DEF Init, RootEntry, Range
<1>3. ListLengths
  BY <1>2 DEF ListLengths, AtMost
<1>4. Ascending
  BY <1>2 DEF Ascending
<1>5. ASSUME NEW D PROVE Inspected(D)
  <2>0. 0 \in LevelsOf
    BY Bounds DEF LevelsOf
  <2>1. CASE root_frame \in Allocated
    <3>1. /\ level = PT_LEVELS - 1 /\ Visiting /\ level \in LevelsOf
          /\ prefix[level] = 0 /\ index[level] = 0 /\ Open = {level}
      <4>1. level = PT_LEVELS - 1 /\ level \in LevelsOf /\ Visiting
        BY <2>1, Bounds DEF Init, Visiting, LevelsOf
      <4>2. prefix[level] = 0 /\ index[level] = 0
        BY <4>1 DEF Init
      <4>3. Open = {level}
        BY <4>1, Bounds DEF Open
      <4> QED
        BY <4>1, <4>2, <4>3
    <3>2. Cursor = 0
      <4>1. sf_va_level_span[level] \in Nat
        BY <3>1, LevelSpans
      <4> QED
        BY <3>1, <4>1 DEF Cursor, Page
    <3>3. OpenTables = {<<level, 0>>}
      BY <3>1 DEF OpenTables
    <3>4. MappingsBelow(D, 0) = {}
      <4> SUFFICES ASSUME NEW x \in AllMappings(D) PROVE ~ (x.va < 0)
        BY DEF MappingsBelow
      <4>1. PICK va \in Pages : x.va = va
        BY MappingIn
      <4> QED
        BY <4>1, Bounds DEF Pages
    <3>5. MalformedBelow(D, 0) = {}
      <4> SUFFICES ASSUME NEW x \in AllMalformed(D) PROVE ~ (x[2] < 0)
        BY DEF MalformedBelow
      <4>1. PICK k \in LevelsOf, va \in Pages : x = <<k, va>>
        BY MalformedIn DEF Firsts
      <4> QED
        BY <4>1, Bounds DEF Pages
    <3>6. TablesBelow(D, 0) = {}
      <4> SUFFICES ASSUME NEW x \in AllTables(D) PROVE ~ (x[2] < 0)
        BY DEF TablesBelow
      <4>1. PICK k \in LevelsOf, va \in Pages : x = <<k, va>>
        BY TableIn DEF Firsts
      <4> QED
        BY <4>1, Bounds DEF Pages
    <3>7. Settled(D)
      BY <3>2 DEF Settled
    <3>8. RootEntry = 0
      BY <2>1 DEF RootEntry
    <3>9. LowestListed(D)
      BY <1>2, <3>2, <3>4 DEF LowestListed
    <3>10. MappingsCounted(D) /\ MalformedCounted(D)
      <4>1. IsFiniteSet({}) /\ Cardinality({}) = 0
        BY FS_EmptySet
      <4>2. summary.mappings = 0 /\ summary.malformed = 0
        BY <1>2, <3>8
      <4> QED
        BY <3>2, <3>4, <3>5, <3>8, <4>1, <4>2 DEF MappingsCounted, MalformedCounted
    <3>11. TablesCounted(D)
      <4>1. TablesBelow(D, Cursor) \cup OpenTables = {<<level, 0>>}
        BY <3>2, <3>3, <3>6
      <4>2. IsFiniteSet({<<level, 0>>}) /\ Cardinality({<<level, 0>>}) = 1
        BY FS_Singleton
      <4>3. summary.table_frames = 1
        BY <1>2, <2>1
      <4> QED
        BY <4>1, <4>2, <4>3 DEF TablesCounted
    <3> QED
      BY <3>7, <3>9, <3>10, <3>11 DEF Inspected
  <2>2. CASE root_frame \notin Allocated
    <3>1. level = PT_LEVELS /\ ~ Visiting /\ Open = {} /\ OpenTables = {} /\ Cursor = VA_LIMIT
      BY <2>2, Bounds DEF Init, Visiting, Open, OpenTables, Cursor
    <3>2. \A j \in LevelsOf, va \in Pages : Chains(D, j, va) = {} /\ Entries(D, j, va) = {}
      BY <2>2, NoChainsFromOutside DEF Entries
    <3>3. MappingsBelow(D, Cursor) = {}
      BY <2>0, <3>2, MappingIn DEF MappingsBelow
    <3>4. MalformedBelow(D, Cursor) = {}
      BY <3>2, MalformedIn DEF MalformedBelow, Firsts
    <3>5. TablesBelow(D, Cursor) = {}
      BY <3>2, TableIn DEF TablesBelow, Firsts
    <3>6. Settled(D)
      BY <2>2, NoChainsFromOutside DEF Settled
    <3>7. LowestListed(D)
      BY <1>2, <3>3 DEF LowestListed
    <3>8. MappingsCounted(D)
      BY <1>2, <3>3, FS_EmptySet DEF MappingsCounted
    <3>9. MalformedCounted(D)
      <4>1. RootEntry = 0 + RootEntry
        BY DEF RootEntry
      <4> QED
        BY <1>2, <3>4, <4>1, FS_EmptySet DEF MalformedCounted
    <3>10. TablesCounted(D)
      BY <1>2, <2>2, <3>1, <3>5, FS_EmptySet DEF TablesCounted
    <3> QED
      BY <3>6, <3>7, <3>8, <3>9, <3>10 DEF Inspected
  <2> QED
    BY <2>1, <2>2
<1> QED
  BY <1>1, <1>3, <1>4, <1>5 DEF InspectInv

LEMMA StayInspected ==
  ASSUME InspectInv, UNCHANGED vars
  PROVE  InspectInv'
<1>1. /\ UNCHANGED <<root_frame, data, level, path, index, prefix, summary, mappings, tables>>
      /\ WalkInv'
  BY WalkStep DEF vars, walk, InspectInv
<1>2. ListLengths' /\ Ascending'
  BY <1>1 DEF InspectInv, ListLengths, Ascending
<1>3. ASSUME NEW D, Completes(D)' PROVE Inspected(D)'
  <2>1. Completes(D)
    BY <1>1, <1>3 DEF Completes
  <2>2. Inspected(D)
    BY <2>1 DEF InspectInv
  <2>3. Cursor' = Cursor /\ OpenTables' = OpenTables
    BY <1>1 DEF Cursor, Visiting, Page, OpenTables, Open
  <2>4. /\ MappingsBelow(D, Cursor)' = MappingsBelow(D, Cursor)
        /\ MalformedBelow(D, Cursor)' = MalformedBelow(D, Cursor) /\ RootEntry' = RootEntry
        /\ TablesBelow(D, Cursor)' = TablesBelow(D, Cursor)
        /\ \A j, va : Chains(D, j, va)' = Chains(D, j, va)
    BY <1>1, <2>3, SetsStay
  <2>5. Settled(D)'
    BY <1>1, <2>2, <2>3, <2>4 DEF Inspected, Settled
  <2> QED
    BY <1>1, <2>2, <2>3, <2>4, <2>5
    DEF Inspected, MappingsCounted, MalformedCounted, TablesCounted, LowestListed
<1> QED
  BY <1>1, <1>2, <1>3 DEF InspectInv

LEMMA StepInspected == InspectInv /\ [Next]_vars => InspectInv'
<1> SUFFICES ASSUME InspectInv, [Next]_vars PROVE InspectInv'
  OBVIOUS
<1>1. WalkInv' /\ TypeOK
  BY WalkStep DEF InspectInv, WalkInv
<1>2. ASSUME NEW pte \in Words, Absent(pte) \/ malformed(pte) \/ Descend(pte) \/ Leaf(pte)
      PROVE  InspectInv'
  <2>1. ListLengths'
    BY <1>1, <1>2, LengthsStep DEF InspectInv
  <2>2. Ascending'
    <3>1. CASE Leaf(pte)
      BY <3>1, AscendStep
    <3>2. CASE ~ Leaf(pte)
      <4>1. mappings' = mappings
        BY <1>2, <3>2 DEF Absent, malformed, Descend
      <4> QED
        BY <4>1 DEF InspectInv, Ascending
    <3> QED
      BY <3>1, <3>2
  <2>3. ASSUME NEW D, Completes(D)' PROVE Inspected(D)'
    BY <1>2, <2>3, AbsentInspected, MalformedInspected, DescendInspected, LeafInspected
  <2> QED
    BY <1>1, <2>1, <2>2, <2>3 DEF InspectInv
<1>3. CASE Return
  <2>1. UNCHANGED <<summary, mappings, tables>>
    BY <1>3 DEF Return
  <2>2. ListLengths' /\ Ascending'
    BY <2>1 DEF InspectInv, ListLengths, Ascending
  <2>3. ASSUME NEW D, Completes(D)' PROVE Inspected(D)'
    BY <1>3, <2>3, ReturnInspected
  <2> QED
    BY <1>1, <2>2, <2>3 DEF InspectInv
<1>4. CASE UNCHANGED vars
  BY <1>4, StayInspected
<1> QED
  BY <1>2, <1>3, <1>4 DEF Next

LEMMA InspectInvariant == Spec => []InspectInv
BY InitInspect, StepInspected, PTL DEF Spec

(* The caller's array of mappings ascends at every moment, no page is      *)
(* listed twice, and the entry the visitor stands at is above all of them. *)
THEOREM MappingsAlwaysAscend == Spec => []MappingsAscend
<1>1. InspectInv => MappingsAscend
  <2> SUFFICES ASSUME InspectInv PROVE MappingsAscend
    OBVIOUS
  <2>1. \A i \in 1 .. Len(mappings) : mappings[i] \in Range(mappings)
    BY DEF InspectInv, WalkInv, TypeOK, Range
  <2>2. Visiting => \A i \in 1 .. Len(mappings) : mappings[i].va < Page
    BY <2>1, ListedBelow DEF Cursor
  <2> QED
    BY <2>2 DEF MappingsAscend, InspectInv, Ascending
<1> QED
  BY <1>1, InspectInvariant, PTL

\* When the visitor is done, everything is below the cursor.
LEMMA DoneIsTrue == InspectInv => InspectionIsTrue
<1> SUFFICES ASSUME InspectInv, Done PROVE InspectionIsTrue
  BY DEF InspectionIsTrue
<1>1. Cursor = VA_LIMIT /\ OpenTables = {}
  BY Bounds DEF Done, Cursor, Visiting, OpenTables, Open
<1>2. Inspected(data)
  <2>1. Completes(data)
    BY DEF Completes, InspectInv, WalkInv, TypeOK
  <2> QED
    BY <2>1 DEF InspectInv
<1>3. MappingsBelow(data, VA_LIMIT) = AllMappings(data)
  <2> SUFFICES ASSUME NEW x \in AllMappings(data) PROVE x.va < VA_LIMIT
    BY DEF MappingsBelow
  <2>1. PICK va \in Pages : x.va = va
    BY MappingIn
  <2> QED
    BY <2>1, Bounds DEF Pages
<1>4. MalformedBelow(data, VA_LIMIT) = AllMalformed(data)
  <2> SUFFICES ASSUME NEW x \in AllMalformed(data) PROVE x[2] < VA_LIMIT
    BY DEF MalformedBelow
  <2>1. PICK k \in LevelsOf, va \in Pages : x = <<k, va>>
    BY MalformedIn DEF Firsts
  <2> QED
    BY <2>1, Bounds DEF Pages
<1>5. TablesBelow(data, VA_LIMIT) = AllTables(data)
  <2> SUFFICES ASSUME NEW x \in AllTables(data) PROVE x[2] < VA_LIMIT
    BY DEF TablesBelow
  <2>1. PICK k \in LevelsOf, va \in Pages : x = <<k, va>>
    BY TableIn DEF Firsts
  <2> QED
    BY <2>1, Bounds DEF Pages
<1>6. ListLengths
  BY DEF InspectInv
<1>7. MappingsCounted(data) /\ MalformedCounted(data) /\ TablesCounted(data) /\ LowestListed(data)
  BY <1>2 DEF Inspected
<1> QED
  BY <1>1, <1>3, <1>4, <1>5, <1>6, <1>7
  DEF InspectionIsTrue, MappingsCounted, MalformedCounted, TablesCounted, LowestListed,
      ListLengths, RootEntry

(* Whatever the tables hold, the visitor counts each table and mapping of  *)
(* the layout once and every entry it skips, and lists the lowest.         *)
THEOREM InspectionIsRight == Spec => []InspectionIsTrue
BY DoneIsTrue, InspectInvariant, PTL

-----------------------------------------------------------------------------
(* The walk down to one page.                                              *)

\* The tables from a level up, from those above it.
Below(above, va, l) ==
  LET pte == data[Head(above)][sf_va_vpn(va, l + 1)]
  IN  IF above # << >> /\ Refers(pte, Range(above)) THEN <<pte.frame>> \o above ELSE << >>

FromRoot(va) == IF va < USER_VA_BASE \/ va >= VA_LIMIT \/ root_frame \notin Allocated
                THEN << >> ELSE <<root_frame>>

Downs(va, n, f) ==
  f = [l \in n .. PT_LEVELS - 1 |->
         IF l = PT_LEVELS - 1 THEN FromRoot(va) ELSE Below(f[l + 1], va, l)]

LEMMA DownsExist ==
  ASSUME NEW va, NEW n \in LevelsOf
  PROVE  \E f : Downs(va, n, f)
<1> DEFINE S == {d \in Nat : d <= PT_LEVELS - 1 /\ ~ \E f : Downs(va, PT_LEVELS - 1 - d, f)}
<1>1. S = {}
  <2> SUFFICES ASSUME S # {} PROVE FALSE
    OBVIOUS
  <2>1. PICK d \in S : \A k \in S : d <= k
    BY LeastNatural
  <2>2. PICK t : t = PT_LEVELS - 1
    OBVIOUS
  <2>3. t \in Nat /\ d \in Nat /\ d <= t
    BY <2>1, <2>2, Bounds
  <2>4. CASE d = 0
    <3>1. Downs(va, t, [l \in t .. t |-> FromRoot(va)])
      BY <2>2, <2>3 DEF Downs
    <3> QED
      BY <2>1, <2>2, <2>3, <2>4, <3>1
  <2>5. CASE d # 0
    <3>1. d - 1 \in Nat /\ d - 1 <= t /\ ~ (d <= d - 1)
      BY <2>3, <2>5
    <3>2. PICK m : m = t - d
      OBVIOUS
    <3>3. m \in Nat /\ m < t /\ t - (d - 1) = m + 1
      BY <2>3, <2>5, <3>2
    <3>4. PICK f : Downs(va, m + 1, f)
      BY <2>1, <2>2, <3>1, <3>3
    <3> DEFINE g == [l \in m .. t |-> IF l = m THEN Below(f[m + 1], va, m) ELSE f[l]]
    <3>5. ASSUME NEW l \in m .. t
          PROVE  g[l] = IF l = t THEN FromRoot(va) ELSE Below(g[l + 1], va, l)
      <4>1. CASE l = m
        <5>1. m # t /\ m + 1 \in m .. t /\ m + 1 # m
          BY <2>3, <3>3
        <5> QED
          BY <4>1, <5>1
      <4>2. CASE l # m
        <5>1. l \in m + 1 .. t /\ (l # t => l + 1 \in m .. t /\ l + 1 # m)
          BY <2>3, <3>3, <4>2
        <5>2. f[l] = IF l = t THEN FromRoot(va) ELSE Below(f[l + 1], va, l)
          BY <2>2, <3>4, <5>1 DEF Downs
        <5> QED
          BY <4>2, <5>1, <5>2
      <4> QED
        BY <4>1, <4>2
    <3>6. Downs(va, m, g)
      BY <2>2, <3>5 DEF Downs
    <3> QED
      BY <2>1, <2>2, <3>2, <3>6
  <2> QED
    BY <2>4, <2>5
<1>2. /\ PT_LEVELS - 1 - n \in Nat /\ PT_LEVELS - 1 - n <= PT_LEVELS - 1
      /\ PT_LEVELS - 1 - (PT_LEVELS - 1 - n) = n
  BY Bounds DEF LevelsOf
<1> QED
  BY <1>1, <1>2

LEMMA DecodeIs ==
  ASSUME NEW va
  PROVE  \E f : /\ Downs(va, 0, f)
                /\ decode_leaf(va) = IF f[0] = << >> THEN NoLeaf ELSE LeafOf(f[0], va)
<1>1. 0 \in LevelsOf
  BY Bounds DEF LevelsOf
<1>2. \E f : Downs(va, 0, f)
  BY <1>1, DownsExist
<1> DEFINE f == CHOOSE x : Downs(va, 0, x)
<1>3. Downs(va, 0, f)
  BY <1>2
<1>4. decode_leaf(va) = IF f[0] = << >> THEN NoLeaf ELSE LeafOf(f[0], va)
  BY DEF decode_leaf, Downs, Below, FromRoot, LevelsOf
<1> QED
  BY <1>3, <1>4

\* A frame put before some tables.
LEMMA Before ==
  ASSUME NEW S, NEW s \in Seq(S), NEW x \in S
  PROVE  /\ <<x>> \o s \in Seq(S) /\ <<x>> \o s # << >> /\ Head(<<x>> \o s) = x
         /\ Range(<<x>> \o s) = {x} \cup Range(s)
<1> DEFINE c == <<x>> \o s
<1>1. c \in Seq(S) /\ Len(c) = Len(s) + 1 /\ Len(s) \in Nat
  OBVIOUS
<1>2. c[1] = x /\ \A i \in 1 .. Len(s) : c[i + 1] = s[i]
  OBVIOUS
<1>3. DOMAIN c = 1 .. Len(s) + 1 /\ DOMAIN s = 1 .. Len(s)
  BY <1>1
<1> HIDE DEF c
<1>4. Range(c) = {x} \cup Range(s)
  <2>1. \A i \in 1 .. Len(s) + 1 : i = 1 \/ (i - 1 \in 1 .. Len(s) /\ (i - 1) + 1 = i)
    BY <1>1
  <2>2. \A i \in 1 .. Len(s) : i + 1 \in 1 .. Len(s) + 1
    BY <1>1
  <2>3. 1 \in 1 .. Len(s) + 1
    BY <1>1
  <2>4. ASSUME NEW i \in 1 .. Len(s) + 1 PROVE c[i] \in {x} \cup {s[k] : k \in 1 .. Len(s)}
    <3>1. CASE i = 1
      BY <1>2, <3>1
    <3>2. CASE i # 1
      <4>1. c[(i - 1) + 1] = s[i - 1] /\ (i - 1) + 1 = i /\ i - 1 \in 1 .. Len(s)
        BY <1>2, <2>1, <3>2
      <4> QED
        BY <4>1
    <3> QED
      BY <3>1, <3>2
  <2>5. x \in {c[i] : i \in 1 .. Len(s) + 1}
    BY <1>2, <2>3
  <2>6. \A i \in 1 .. Len(s) : s[i] \in {c[k] : k \in 1 .. Len(s) + 1}
    BY <1>2, <2>2
  <2>7. Range(c) = {c[k] : k \in 1 .. Len(s) + 1} /\ Range(s) = {s[k] : k \in 1 .. Len(s)}
    BY <1>3 DEF Range
  <2> QED
    BY <2>4, <2>5, <2>6, <2>7
<1>5. c # << >> /\ Head(c) = x
  BY <1>1, <1>2
<1> QED
  BY <1>1, <1>4, <1>5 DEF c

\* What the tables that the walk has found at a level are: the one chain there is.
Found(ts, l, va) ==
  IF ts = << >> THEN Chains(data, l, va) = {} \/ va < USER_VA_BASE
  ELSE \E tbl : /\ va >= USER_VA_BASE /\ Chains(data, l, va) = {tbl}
                /\ ts \in Seq(Nat) /\ Head(ts) = tbl[l] /\ Range(ts) = Range(tbl)

\* tbl is the chain up with the frame f, which its last table refers to.
Extends(tbl, up, f, l, va) ==
  /\ data[up[l + 1]][sf_va_vpn(va, l + 1)] = [frame |-> f, flags |-> {"V"}]
  /\ tbl = [m \in l .. PT_LEVELS - 1 |-> IF m = l THEN f ELSE up[m]]

\* A chain is one of the level above and a frame that its last table refers to.
LEMMA ChainBelow ==
  ASSUME NEW l \in LevelsOf, l + 1 \in LevelsOf, NEW va, NEW tbl
  PROVE  tbl \in Chains(data, l, va) <=>
           \E up \in Chains(data, l + 1, va) : \E f \in Allocated \ Range(up) :
             Extends(tbl, up, f, l, va)
<1>0. /\ l \in Nat /\ PT_LEVELS \in Nat /\ l + 1 <= PT_LEVELS - 1
      /\ l .. PT_LEVELS - 1 = {l} \cup (l + 1 .. PT_LEVELS - 1)
      /\ l .. PT_LEVELS - 2 = {l} \cup (l + 1 .. PT_LEVELS - 2)
      /\ l \notin l + 1 .. PT_LEVELS - 1 /\ PT_LEVELS - 1 \in l + 1 .. PT_LEVELS - 1
      /\ l + 1 \in l + 1 .. PT_LEVELS - 1 /\ PT_LEVELS - 1 # l /\ l + 1 # l
      /\ \A m \in l + 1 .. PT_LEVELS - 2 : m + 1 \in l + 1 .. PT_LEVELS - 1 /\ m + 1 # l
                                          /\ m \in l + 1 .. PT_LEVELS - 1
  BY Bounds DEF LevelsOf
<1>1. ASSUME tbl \in Chains(data, l, va)
      PROVE  \E up \in Chains(data, l + 1, va) : \E f \in Allocated \ Range(up) :
               Extends(tbl, up, f, l, va)
  <2> DEFINE up == [m \in l + 1 .. PT_LEVELS - 1 |-> tbl[m]]
  <2>1. tbl \in [l .. PT_LEVELS - 1 -> Allocated] /\ Chain(data, tbl, l, va)
    BY <1>1 DEF Chains
  <2>2. up \in [l + 1 .. PT_LEVELS - 1 -> Allocated]
    BY <1>0, <2>1
  <2>3. IsInjective(up)
    BY <1>0, <2>1 DEF Chain, IsInjective
  <2>4. up[PT_LEVELS - 1] = root_frame
    BY <1>0, <2>1 DEF Chain
  <2>5. \A m \in l + 1 .. PT_LEVELS - 2 :
          data[up[m + 1]][sf_va_vpn(va, m + 1)] = [frame |-> up[m], flags |-> {"V"}]
    BY <1>0, <2>1 DEF Chain
  <2>6. data[up[l + 1]][sf_va_vpn(va, l + 1)] = [frame |-> tbl[l], flags |-> {"V"}]
    BY <1>0, <2>1 DEF Chain
  <2>7. tbl[l] \in Allocated \ Range(up)
    BY <1>0, <2>1 DEF Chain, IsInjective, Range
  <2>8. tbl = [m \in l .. PT_LEVELS - 1 |-> IF m = l THEN tbl[l] ELSE up[m]]
    BY <1>0, <2>1
  <2> HIDE DEF up
  <2>9. up \in Chains(data, l + 1, va)
    BY <2>2, <2>3, <2>4, <2>5 DEF Chains, Chain
  <2> QED
    BY <2>6, <2>7, <2>8, <2>9 DEF Extends
<1>2. ASSUME NEW up \in Chains(data, l + 1, va), NEW f \in Allocated \ Range(up),
             data[up[l + 1]][sf_va_vpn(va, l + 1)] = [frame |-> f, flags |-> {"V"}],
             tbl = [m \in l .. PT_LEVELS - 1 |-> IF m = l THEN f ELSE up[m]]
      PROVE  tbl \in Chains(data, l, va)
  <2>1. up \in [l + 1 .. PT_LEVELS - 1 -> Allocated] /\ Chain(data, up, l + 1, va)
    BY DEF Chains
  <2>2. /\ tbl[l] = f /\ \A m \in l + 1 .. PT_LEVELS - 1 : tbl[m] = up[m]
        /\ DOMAIN tbl = l .. PT_LEVELS - 1
    BY <1>0, <1>2
  <2>3. tbl \in [l .. PT_LEVELS - 1 -> Allocated]
    BY <1>0, <1>2, <2>1
  <2>4. IsInjective(tbl)
    <3>1. \A a, b \in l + 1 .. PT_LEVELS - 1 : up[a] = up[b] => a = b
      BY <2>1 DEF Chain, IsInjective
    <3>2. \A a \in l + 1 .. PT_LEVELS - 1 : up[a] # f
      BY <2>1 DEF Range
    <3> QED
      BY <1>0, <2>2, <3>1, <3>2 DEF IsInjective
  <2>5. tbl[PT_LEVELS - 1] = root_frame
    BY <1>0, <2>1, <2>2 DEF Chain
  <2>6. ASSUME NEW m \in l .. PT_LEVELS - 2
        PROVE  data[tbl[m + 1]][sf_va_vpn(va, m + 1)] = [frame |-> tbl[m], flags |-> {"V"}]
    <3>1. CASE m = l
      BY <1>0, <1>2, <2>2, <3>1
    <3>2. CASE m # l
      BY <1>0, <2>1, <2>2, <3>2 DEF Chain
    <3> QED
      BY <3>1, <3>2
  <2> QED
    BY <2>3, <2>4, <2>5, <2>6 DEF Chains, Chain
<1>3. ASSUME NEW up \in Chains(data, l + 1, va), NEW f \in Allocated \ Range(up),
             Extends(tbl, up, f, l, va)
      PROVE  tbl \in Chains(data, l, va)
  BY <1>2, <1>3 DEF Extends
<1> QED
  BY <1>1, <1>3

\* Once the visitor is done, every entry over a page has been read.
LEMMA AllRead ==
  ASSUME InspectInv, Done, NEW va \in Pages, NEW j \in LevelsOf, NEW tbl \in Chains(data, j, va)
  PROVE  data[tbl[j]][sf_va_vpn(va, j)] \in Words
<1>1. Completes(data) /\ data \in [Frames -> [Indices -> Words \cup {Unread}]]
  BY DEF Completes, InspectInv, WalkInv, TypeOK
<1>2. Settled(data) /\ Cursor = VA_LIMIT
  BY <1>1, Bounds DEF InspectInv, Inspected, Done, Cursor, Visiting
<1>3. va \in Nat /\ va < VA_LIMIT
  BY Bounds DEF Pages
<1>4. data[tbl[j]][sf_va_vpn(va, j)] # Unread
  BY <1>2, <1>3 DEF Settled
<1>5. tbl[j] \in Frames
  <2>1. j \in j .. PT_LEVELS - 1
    BY Bounds DEF LevelsOf
  <2>2. tbl[j] \in Allocated
    BY <2>1 DEF Chains
  <2> QED
    BY <2>2, Bounds
<1>6. sf_va_vpn(va, j) \in Indices
  <2>1. \A n \in Int, d \in Nat \ {0} : n % d \in 0 .. d - 1
    OBVIOUS
  <2>2. va \div sf_va_level_span[j] \in Int
    BY <1>3, LevelSpans
  <2> QED
    BY <2>1, <2>2, Bounds DEF sf_va_vpn, Indices
<1> QED
  BY <1>1, <1>4, <1>5, <1>6

LEMMA FoundAtRoot ==
  ASSUME TypeOK, NEW va \in Pages
  PROVE  Found(FromRoot(va), PT_LEVELS - 1, va)
<1> DEFINE t == PT_LEVELS - 1
           only == [m \in t .. t |-> root_frame]
<1>1. va \in Nat /\ va < VA_LIMIT /\ t \in Nat /\ t .. t = {t} /\ t .. PT_LEVELS - 2 = {}
      /\ root_frame \in Nat /\ USER_VA_BASE \in Nat
  BY Bounds, PtInspectAssumption DEF Pages, TypeOK
<1>2. CASE root_frame \notin Allocated
  <2>1. Chains(data, t, va) = {} /\ FromRoot(va) = << >>
    <3>1. t \in LevelsOf
      BY Bounds DEF LevelsOf
    <3> QED
      BY <1>2, <3>1, NoChainsFromOutside DEF FromRoot
  <2> QED
    BY <2>1 DEF Found
<1>3. CASE root_frame \in Allocated /\ va < USER_VA_BASE
  BY <1>3 DEF Found, FromRoot
<1>4. CASE root_frame \in Allocated /\ ~ (va < USER_VA_BASE)
  <2>1. FromRoot(va) = <<root_frame>> /\ va >= USER_VA_BASE
    <3>1. ~ (va >= VA_LIMIT)
      BY <1>1, Bounds
    <3> QED
      BY <1>1, <1>4, <3>1 DEF FromRoot
  <2>2. only \in Chains(data, t, va)
    <3>1. only \in [t .. PT_LEVELS - 1 -> Allocated] /\ only[t] = root_frame
      BY <1>1, <1>4
    <3>2. IsInjective(only)
      BY <1>1 DEF IsInjective
    <3> QED
      BY <1>1, <3>1, <3>2 DEF Chains, Chain
  <2>3. ASSUME NEW tbl \in Chains(data, t, va) PROVE tbl = only
    <3>1. tbl \in [t .. t -> Allocated] /\ tbl[t] = root_frame
      BY DEF Chains, Chain
    <3>2. \A m \in t .. t : tbl[m] = only[m]
      BY <1>1, <3>1
    <3> QED
      BY <3>1, <3>2
  <2>4. Chains(data, t, va) = {only}
    BY <2>2, <2>3
  <2>5. /\ <<root_frame>> # << >> /\ <<root_frame>> \in Seq(Nat) /\ Head(<<root_frame>>) = only[t]
    BY <1>1
  <2>6. Range(<<root_frame>>) = Range(only)
    <3>1. Range(<<root_frame>>) = {root_frame}
      BY DEF Range
    <3>2. Range(only) = {root_frame}
      BY <1>1 DEF Range
    <3> QED
      BY <3>1, <3>2
  <2> QED
    BY <2>1, <2>4, <2>5, <2>6 DEF Found
<1> QED
  BY <1>2, <1>3, <1>4

LEMMA FoundBelow ==
  ASSUME InspectInv, Done, NEW va \in Pages, NEW l \in LevelsOf, l + 1 \in LevelsOf,
         NEW ts, Found(ts, l + 1, va)
  PROVE  Found(Below(ts, va, l), l, va)
<1>1. CASE ts = << >>
  <2>1. Below(ts, va, l) = << >>
    BY <1>1 DEF Below
  <2>2. CASE va < USER_VA_BASE
    BY <2>1, <2>2 DEF Found
  <2>3. CASE Chains(data, l + 1, va) = {}
    <3>1. Chains(data, l, va) = {}
      BY <2>3, ChainBelow
    <3> QED
      BY <2>1, <3>1 DEF Found
  <2> QED
    BY <1>1, <2>2, <2>3 DEF Found
<1>2. CASE ts # << >>
  <2>1. PICK up : /\ va >= USER_VA_BASE /\ Chains(data, l + 1, va) = {up}
                  /\ ts \in Seq(Nat) /\ Head(ts) = up[l + 1] /\ Range(ts) = Range(up)
    BY <1>2 DEF Found
  <2> DEFINE pte == data[up[l + 1]][sf_va_vpn(va, l + 1)]
             with(f) == [m \in l .. PT_LEVELS - 1 |-> IF m = l THEN f ELSE up[m]]
  <2>2. pte \in Words /\ pte.frame \in Nat /\ pte = [frame |-> pte.frame, flags |-> pte.flags]
    <3>1. pte \in Words
      BY <2>1, AllRead
    <3> HIDE DEF pte
    <3> QED
      BY <3>1, PtInspectAssumption
  <2>3. Below(ts, va, l) = IF Refers(pte, Range(up)) THEN <<pte.frame>> \o ts ELSE << >>
    BY <1>2, <2>1 DEF Below
  <2>4. \A tbl : tbl \in Chains(data, l, va) <=>
          \E f \in Allocated \ Range(up) : pte = [frame |-> f, flags |-> {"V"}] /\ tbl = with(f)
    <3> TAKE tbl
    <3>1. tbl \in Chains(data, l, va) <=>
            \E u \in Chains(data, l + 1, va) : \E f \in Allocated \ Range(u) :
              Extends(tbl, u, f, l, va)
      BY ChainBelow
    <3>2. \A f : Extends(tbl, up, f, l, va) <=> pte = [frame |-> f, flags |-> {"V"}] /\ tbl = with(f)
      BY DEF Extends
    <3> HIDE DEF pte, with
    <3> QED
      BY <2>1, <3>1, <3>2
  <2> HIDE DEF pte
  <2>5. CASE ~ Refers(pte, Range(up))
    <3>1. ASSUME NEW f \in Allocated \ Range(up), pte = [frame |-> f, flags |-> {"V"}]
          PROVE  FALSE
      <4>1. pte.frame = f /\ pte.flags = {"V"}
        BY <3>1
      <4> QED
        BY <2>5, <4>1, ValidReference DEF Refers
    <3>2. Chains(data, l, va) = {}
      BY <2>4, <3>1
    <3> QED
      BY <2>3, <2>5, <3>2 DEF Found
  <2>6. CASE Refers(pte, Range(up))
    <3> DEFINE f == pte.frame
               tbl == with(f)
    <3>1. f \in Allocated \ Range(up) /\ pte.flags = {"V"}
      BY <2>6, ValidReference DEF Refers
    <3>2. pte = [frame |-> f, flags |-> {"V"}]
      BY <2>2, <3>1
    <3>3. tbl \in Chains(data, l, va)
      BY <2>4, <3>1, <3>2
    <3>4. ASSUME NEW g, pte = [frame |-> g, flags |-> {"V"}] PROVE g = f
      BY <3>4
    <3>5. \A x \in Chains(data, l, va) : x = tbl
      BY <2>4, <3>4
    <3>6. Chains(data, l, va) = {tbl}
      BY <3>3, <3>5
    <3>7. /\ <<f>> \o ts \in Seq(Nat) /\ <<f>> \o ts # << >> /\ Head(<<f>> \o ts) = f
          /\ Range(<<f>> \o ts) = {f} \cup Range(ts)
      BY <2>1, <2>2, Before
    <3>8. tbl[l] = f /\ Range(tbl) = {f} \cup Range(up)
      <4>1. /\ l .. PT_LEVELS - 1 = {l} \cup (l + 1 .. PT_LEVELS - 1)
            /\ l \notin l + 1 .. PT_LEVELS - 1
        BY Bounds DEF LevelsOf
      <4>2. DOMAIN up = l + 1 .. PT_LEVELS - 1
        BY <2>1 DEF Chains
      <4>3. /\ DOMAIN tbl = {l} \cup (l + 1 .. PT_LEVELS - 1)
            /\ tbl[l] = f /\ \A m \in l + 1 .. PT_LEVELS - 1 : tbl[m] = up[m]
        BY <4>1
      <4> HIDE DEF tbl, f
      <4> QED
        BY <4>2, <4>3 DEF Range
    <3>9. Below(ts, va, l) = <<f>> \o ts
      BY <2>3, <2>6
    <3> HIDE DEF tbl, f
    <3> QED
      BY <2>1, <3>6, <3>7, <3>8, <3>9 DEF Found
  <2> QED
    BY <2>5, <2>6
<1> QED
  BY <1>1, <1>2

LEMMA FoundAtBottom ==
  ASSUME InspectInv, Done, NEW va \in Pages, NEW f, Downs(va, 0, f)
  PROVE  Found(f[0], 0, va)
<1> DEFINE S == {d \in Nat : d <= PT_LEVELS - 1 /\ ~ Found(f[PT_LEVELS - 1 - d], PT_LEVELS - 1 - d, va)}
<1>1. S = {}
  <2> SUFFICES ASSUME S # {} PROVE FALSE
    OBVIOUS
  <2>1. PICK d \in S : \A k \in S : d <= k
    BY LeastNatural
  <2>2. PICK n : n = PT_LEVELS - 1 - d
    OBVIOUS
  <2>3. n \in LevelsOf /\ n \in 0 .. PT_LEVELS - 1 /\ ~ Found(f[n], n, va)
        /\ (d = 0 => n = PT_LEVELS - 1)
        /\ (d # 0 => /\ n + 1 \in LevelsOf /\ d - 1 \in Nat /\ d - 1 <= PT_LEVELS - 1
                     /\ ~ (d <= d - 1) /\ PT_LEVELS - 1 - (d - 1) = n + 1 /\ n # PT_LEVELS - 1)
    BY <2>1, <2>2, Bounds DEF LevelsOf
  <2>4. f[n] = IF n = PT_LEVELS - 1 THEN FromRoot(va) ELSE Below(f[n + 1], va, n)
    BY <2>3 DEF Downs
  <2>5. CASE d = 0
    BY <2>3, <2>4, <2>5, FoundAtRoot DEF InspectInv, WalkInv
  <2>6. CASE d # 0
    <3>1. Found(f[n + 1], n + 1, va)
      BY <2>1, <2>3, <2>6
    <3> QED
      BY <2>3, <2>4, <2>6, <3>1, FoundBelow
  <2> QED
    BY <2>5, <2>6
<1>2. PT_LEVELS - 1 \in Nat /\ PT_LEVELS - 1 - (PT_LEVELS - 1) = 0
  BY Bounds
<1> QED
  BY <1>1, <1>2

\* The walk finds exactly the mapping that the layout has of the page.
LEMMA DecodeIsRight ==
  ASSUME InspectInv, Done, NEW va \in Pages, NEW fr, NEW perm
  PROVE  decode_leaf(va) = [found |-> TRUE, frame |-> fr, permissions |-> perm]
           <=> [va |-> va, frame |-> fr, permissions |-> perm] \in MappingsOf(data, va)
<1>0. va \in Nat /\ USER_VA_BASE \in Nat /\ 0 \in LevelsOf
  BY Bounds, PtInspectAssumption DEF Pages, LevelsOf
<1>1. PICK f : /\ Downs(va, 0, f)
               /\ decode_leaf(va) = IF f[0] = << >> THEN NoLeaf ELSE LeafOf(f[0], va)
  BY DecodeIs
<1>2. Found(f[0], 0, va)
  BY <1>1, FoundAtBottom
<1>3. NoLeaf # [found |-> TRUE, frame |-> fr, permissions |-> perm]
  BY DEF NoLeaf
<1>4. CASE f[0] = << >>
  <2>1. MappingsOf(data, va) = {}
    <3>1. CASE va < USER_VA_BASE
      BY <1>0, <3>1 DEF MappingsOf, IsLeaf
    <3>2. CASE Chains(data, 0, va) = {}
      BY <3>2 DEF MappingsOf, Entries
    <3> QED
      BY <1>2, <1>4, <3>1, <3>2 DEF Found
  <2> QED
    BY <1>1, <1>3, <1>4, <2>1
<1>5. CASE f[0] # << >>
  <2>1. PICK tbl : /\ Chains(data, 0, va) = {tbl}
                   /\ f[0] \in Seq(Nat) /\ Head(f[0]) = tbl[0] /\ Range(f[0]) = Range(tbl)
    BY <1>2, <1>5 DEF Found
  <2> DEFINE pte == data[tbl[0]][sf_va_vpn(va, 0)]
             over == Range(tbl)
             leaf == /\ sf_pte_is_present(pte) /\ sf_permissions_valid(Permissions(pte))
                     /\ valid_frame_reference(pte.frame, over)
  <2>2. va >= USER_VA_BASE
    BY <1>2, <1>5 DEF Found
  <2>3. decode_leaf(va) = IF leaf THEN [found |-> TRUE, frame |-> pte.frame,
                                        permissions |-> Permissions(pte)] ELSE NoLeaf
    BY <1>1, <1>5, <2>1 DEF LeafOf
  <2>4. Entries(data, 0, va) = {[pte |-> pte, over |-> over]}
    BY <2>1 DEF Entries
  <2>5. IsLeaf([pte |-> pte, over |-> over], va) <=> leaf
    BY <2>2, ValidReference DEF IsLeaf, sf_pte_is_present
  <2>6. \A x : x \in MappingsOf(data, va) <=>
          leaf /\ x = [va |-> va, frame |-> pte.frame, permissions |-> Permissions(pte)]
    BY <2>4, <2>5 DEF MappingsOf
  <2> HIDE DEF pte, over, leaf
  <2>7. [va |-> va, frame |-> fr, permissions |-> perm]
           = [va |-> va, frame |-> pte.frame, permissions |-> Permissions(pte)]
        <=> fr = pte.frame /\ perm = Permissions(pte)
    OBVIOUS
  <2>8. [found |-> TRUE, frame |-> fr, permissions |-> perm]
           = [found |-> TRUE, frame |-> pte.frame, permissions |-> Permissions(pte)]
        <=> fr = pte.frame /\ perm = Permissions(pte)
    OBVIOUS
  <2> QED
    BY <1>3, <2>3, <2>6, <2>7, <2>8
<1> QED
  BY <1>4, <1>5

LEMMA CountOfOne ==
  ASSUME NEW S, NEW x, S \subseteq {x}
  PROVE  Cardinality(S) = 0 <=> x \notin S
<1>1. CASE S = {}
  BY <1>1, FS_EmptySet
<1>2. CASE S = {x}
  BY <1>2, FS_Singleton
<1> QED
  BY <1>1, <1>2

LEMMA TlbCountIsRight == InspectInv => TlbCountIsTrue
<1> SUFFICES ASSUME InspectInv, Done, NEW vpn \in 0 .. VA_LIMIT, NEW i \in 0 .. TLB_ENTRIES - 1,
                    NEW w \in Words
             PROVE  LET entry == [vpn |-> vpn, frame |-> w.frame, permissions |-> Permissions(w)]
                    IN  sf_pt_incoherent_tlb_entries([s \in {i} |-> entry]) = 0 <=>
                          /\ vpn % TLB_ENTRIES = i
                          /\ vpn \in Pages
                          /\ [va |-> vpn, frame |-> w.frame, permissions |-> Permissions(w)]
                               \in MappingsOf(data, vpn)
  BY DEF TlbCountIsTrue
<1> DEFINE entry == [vpn |-> vpn, frame |-> w.frame, permissions |-> Permissions(w)]
           tlb == [s \in {i} |-> entry]
           hit == decode_leaf(vpn)
                    = [found |-> TRUE, frame |-> w.frame, permissions |-> Permissions(w)]
           bad == {s \in DOMAIN tlb :
                    \/ tlb[s].vpn >= VA_LIMIT
                    \/ sf_tlb_index(tlb[s].vpn) # s
                    \/ decode_leaf(tlb[s].vpn) # [found |-> TRUE, frame |-> tlb[s].frame,
                                                  permissions |-> tlb[s].permissions]}
<1>1. vpn \in Nat /\ (vpn \in Pages <=> ~ (vpn >= VA_LIMIT))
  BY Bounds DEF Pages
<1>2. /\ DOMAIN tlb = {i} /\ tlb[i].vpn = vpn /\ tlb[i].frame = w.frame
      /\ tlb[i].permissions = Permissions(w)
  OBVIOUS
<1>3. bad \subseteq {i}
        /\ (i \in bad <=> vpn >= VA_LIMIT \/ vpn % TLB_ENTRIES # i \/ ~ hit)
  BY <1>2 DEF sf_tlb_index
<1>4. sf_pt_incoherent_tlb_entries(tlb) = Cardinality(bad)
  BY DEF sf_pt_incoherent_tlb_entries
<1> HIDE DEF bad, tlb, hit
<1>5. sf_pt_incoherent_tlb_entries(tlb) = 0
        <=> ~ (vpn >= VA_LIMIT) /\ vpn % TLB_ENTRIES = i /\ hit
  BY <1>3, <1>4, CountOfOne
<1>6. ASSUME vpn \in Pages
      PROVE  hit <=> [va |-> vpn, frame |-> w.frame, permissions |-> Permissions(w)]
                       \in MappingsOf(data, vpn)
  BY <1>6, DecodeIsRight DEF hit
<1> QED
  BY <1>1, <1>5, <1>6 DEF tlb

(* A cached translation is incoherent exactly when it is in the wrong slot *)
(* or the layout has no such mapping: the walk to one page and the visitor *)
(* agree about every page.                                                 *)
THEOREM TlbIsJudgedRight == Spec => []TlbCountIsTrue
BY TlbCountIsRight, InspectInvariant, PTL
=============================================================================
