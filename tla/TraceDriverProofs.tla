------------------------- MODULE TraceDriverProofs -------------------------
(***************************************************************************)
(* Proofs about the pager's trace driver, for every set of names, every    *)
(* size of the memory and of the tables, and traces of any length.         *)
(***************************************************************************)
EXTENDS TraceDriver, FiniteSetTheorems, SequenceTheorems, TLAPS

-----------------------------------------------------------------------------
(* The table of names.                                                     *)

Entry == [name : Names, region : Region]

\* e is the entry that find_name finds for n.
IsEntry(table, n, e) ==
  /\ e \in DOMAIN table /\ table[e].name = n
  /\ \A j \in 1 .. e - 1 : table[j].name # n

\* A set with a lower bound among its elements has that as its minimum.
LEMMA MinIs ==
  ASSUME NEW S, S \subseteq Nat, NEW m \in S, \A k \in S : m <= k
  PROVE  Min(S) = m
<1>1. \E x \in S : \A y \in S : x <= y
  OBVIOUS
<1>2. Min(S) \in S /\ \A k \in S : Min(S) <= k
  BY <1>1 DEF Min
<1>3. PICK x \in S : x = Min(S)
  BY <1>2
<1>4. x <= m /\ m <= x /\ x \in Nat /\ m \in Nat
  BY <1>2, <1>3
<1> QED
  BY <1>3, <1>4

\* Every set of naturals that is not empty has a least element.
LEMMA LeastNatural ==
  ASSUME NEW S, S \subseteq Nat, S # {}
  PROVE  \E m \in S : \A k \in S : m <= k
<1>1. PICK m \in S : \A k \in S : ~ (<<k, m>> \in OpToRel(<, Nat))
  BY WFMin, NatLessThanWellFounded
<1>2. \A k \in S : ~ (k < m)
  BY <1>1 DEF OpToRel
<1> QED
  BY <1>2

\* find_name finds the first entry.
LEMMA FirstFound ==
  ASSUME names \in Seq(Entry), NEW n, NEW e, IsEntry(names, n, e)
  PROVE  Of(n) = names[e].region
<1> DEFINE S == {k \in DOMAIN names : names[k].name = n}
<1>1. S \subseteq Nat /\ e \in S
  BY DEF IsEntry
<1>2. \A k \in S : e <= k
  <2> SUFFICES ASSUME NEW k \in S, k < e PROVE FALSE
    BY <1>1
  <2>1. k \in 1 .. e - 1
    BY <1>1
  <2> QED
    BY <2>1 DEF IsEntry
<1>3. Min(S) = e
  BY <1>1, <1>2, MinIs
<1> QED
  BY <1>3 DEF Of, EntryOf

\* A known name has a first entry.
LEMMA KnownHasEntry ==
  ASSUME names \in Seq(Entry), NEW n \in Known
  PROVE  \E e \in DOMAIN names : IsEntry(names, n, e)
<1> DEFINE S == {k \in DOMAIN names : names[k].name = n}
<1>1. S \subseteq Nat /\ S # {}
  BY DEF Known
<1>2. PICK e \in S : \A k \in S : e <= k
  BY <1>1, LeastNatural
<1>3. \A j \in 1 .. e - 1 : names[j].name # n
  <2> SUFFICES ASSUME NEW j \in 1 .. e - 1, names[j].name = n PROVE FALSE
    OBVIOUS
  <2>1. j \in DOMAIN names /\ j < e
    BY <1>2
  <2> QED
    BY <2>1, <1>2
<1> QED
  BY <1>2, <1>3 DEF IsEntry

\* Each name's first entry holds what `of` says; a name without one has nothing.
Stands(table, of) ==
  /\ \A n \in Names, e \in DOMAIN table : IsEntry(table, n, e) => table[e].region = of[n]
  /\ \A n \in Names : (\A e \in DOMAIN table : table[e].name # n) => of[n] = ZeroRegion

LEMMA ZeroIsRegion == ZeroRegion \in Region
BY TraceDriverAssumption DEF ZeroRegion, Region

\* Making an entry for a name changes nobody's region.
LEMMA EntryIsNeutral ==
  ASSUME names \in Seq(Entry), NEW n \in Names, Stands(names, latest)
  PROVE  /\ WithEntry(n) \in Seq(Entry)
         /\ Stands(WithEntry(n), latest)
         /\ \E e \in DOMAIN WithEntry(n) : WithEntry(n)[e].name = n
<1>1. CASE n \in Known
  BY <1>1 DEF WithEntry, Known
<1>2. CASE n \notin Known
  <2> DEFINE new   == [name |-> n, region |-> ZeroRegion]
             table == Append(names, new)
             len   == Len(names)
  <2>1. WithEntry(n) = table
    BY <1>2 DEF WithEntry
  <2>2. new \in Entry
    BY ZeroIsRegion DEF Entry
  <2>3. /\ table \in Seq(Entry) /\ DOMAIN table = 1 .. len + 1 /\ len \in Nat
        /\ table[len + 1] = new /\ DOMAIN names = 1 .. len
        /\ \A k \in 1 .. len : table[k] = names[k]
    BY <2>2
  <2> HIDE DEF table
  <2>4. \A k \in 1 .. len : names[k].name # n
    BY <1>2, <2>3 DEF Known
  <2>5. latest[n] = ZeroRegion
    BY <2>3, <2>4 DEF Stands
  <2>6. ASSUME NEW m \in Names, NEW e \in DOMAIN table, IsEntry(table, m, e)
        PROVE  table[e].region = latest[m]
    <3>1. CASE e = len + 1
      <4>1. m = n /\ table[e].region = ZeroRegion
        BY <2>3, <2>6, <3>1 DEF IsEntry
      <4> QED
        BY <4>1, <2>5
    <3>2. CASE e # len + 1
      <4>1. e \in 1 .. len /\ 1 .. e - 1 \subseteq 1 .. len
        BY <2>3, <3>2
      <4>2. IsEntry(names, m, e)
        BY <4>1, <2>3, <2>6 DEF IsEntry
      <4> QED
        BY <4>1, <4>2, <2>3 DEF Stands
    <3> QED
      BY <3>1, <3>2
  <2>7. ASSUME NEW m \in Names, \A e \in DOMAIN table : table[e].name # m
        PROVE  latest[m] = ZeroRegion
    <3>1. \A e \in DOMAIN names : names[e].name # m
      <4> SUFFICES ASSUME NEW e \in DOMAIN names PROVE names[e].name # m
        OBVIOUS
      <4>1. e \in 1 .. len /\ e \in DOMAIN table
        BY <2>3
      <4> QED
        BY <4>1, <2>3, <2>7
    <3> QED
      BY <3>1 DEF Stands
  <2>8. Stands(table, latest)
    BY <2>6, <2>7 DEF Stands
  <2>9. len + 1 \in DOMAIN table /\ table[len + 1].name = n
    BY <2>3
  <2> QED
    BY <2>1, <2>3, <2>8, <2>9
<1> QED
  BY <1>1, <1>2

\* A region that is set is that of its name, and nobody else's.
LEMMA SetStands ==
  ASSUME NEW table \in Seq(Entry), NEW of \in [Names -> Region], Stands(table, of),
         NEW n \in Names, NEW r \in Region,
         \E e \in DOMAIN table : table[e].name = n
  PROVE  /\ SetRegion(table, n, r) \in Seq(Entry)
         /\ Stands(SetRegion(table, n, r), [of EXCEPT ![n] = r])
<1> DEFINE after == SetRegion(table, n, r)
           now   == [of EXCEPT ![n] = r]
<1>1. DOMAIN after = DOMAIN table /\ DOMAIN table = 1 .. Len(table) /\ Len(table) \in Nat
  BY DEF SetRegion
<1>2. \A e \in DOMAIN table :
        after[e] = IF IsEntry(table, n, e) THEN [table[e] EXCEPT !.region = r] ELSE table[e]
  BY DEF SetRegion, IsEntry
<1>3. \A e \in DOMAIN table : table[e] \in Entry
  OBVIOUS
<1>4. \A e \in DOMAIN table : after[e] \in Entry /\ after[e].name = table[e].name
  BY <1>2, <1>3 DEF Entry
<1>5. \A e \in DOMAIN table : IsEntry(table, n, e) => after[e].region = r
  BY <1>2, <1>3 DEF Entry
<1>6. after \in Seq(Entry)
  <2>1. after = [e \in 1 .. Len(table) |-> after[e]]
    BY <1>1 DEF SetRegion
  <2>2. \A e \in 1 .. Len(table) : after[e] \in Entry
    BY <1>1, <1>4
  <2> HIDE DEF after
  <2>3. after \in [1 .. Len(table) -> Entry]
    BY <2>1, <2>2
  <2> QED
    BY <2>3, <1>1
<1> HIDE DEF after
<1>7. ASSUME NEW m \in Names, NEW e \in DOMAIN after, IsEntry(after, m, e)
      PROVE  after[e].region = now[m]
  <2>1. e \in 1 .. Len(table) /\ 1 .. e - 1 \subseteq DOMAIN table
    BY <1>1
  <2>2. IsEntry(table, m, e)
    BY <1>1, <1>4, <1>7, <2>1 DEF IsEntry
  <2>3. CASE m = n
    BY <1>1, <1>5, <2>2, <2>3
  <2>4. CASE m # n
    <3>1. table[e].name # n
      BY <2>2, <2>4 DEF IsEntry
    <3>2. after[e] = table[e]
      BY <1>1, <1>2, <3>1 DEF IsEntry
    <3>3. table[e].region = of[m]
      BY <1>1, <2>2 DEF Stands
    <3> QED
      BY <2>4, <3>2, <3>3
  <2> QED
    BY <2>3, <2>4
<1>8. ASSUME NEW m \in Names, \A e \in DOMAIN after : after[e].name # m
      PROVE  now[m] = ZeroRegion
  <2>1. \A e \in DOMAIN table : table[e].name # m
    BY <1>1, <1>4, <1>8
  <2>2. m # n /\ of[m] = ZeroRegion
    BY <2>1 DEF Stands
  <2> QED
    BY <2>2
<1> QED
  BY <1>6, <1>7, <1>8 DEF Stands, after

-----------------------------------------------------------------------------
(* The frames.                                                             *)

\* A set of frames in ascending order: each of them once.
LEMMA AscendingLists ==
  ASSUME NEW S, S \subseteq Frames
  PROVE  /\ Ascending(S) \in Seq(S)
         /\ {Ascending(S)[j] : j \in DOMAIN Ascending(S)} = S
         /\ \A j, k \in DOMAIN Ascending(S) : Ascending(S)[j] = Ascending(S)[k] => j = k
<1> DEFINE size == Cardinality(S)
           rank == [f \in S |-> Cardinality(Below(f, S))]
           ranks == 0 .. size - 1
<1>1. IsFiniteSet(S) /\ size \in Nat /\ S \subseteq Int
  <2>1. NumFrame \in Nat
    BY TraceDriverAssumption
  <2>2. IsFiniteSet(0 .. NumFrame - 1)
    BY <2>1, FS_Interval
  <2>3. IsFiniteSet(S)
    BY <2>2, FS_Subset DEF Frames
  <2> QED
    BY <2>1, <2>3, FS_CardinalityType DEF Frames
<1>2. \A f \in S : IsFiniteSet(Below(f, S)) /\ Cardinality(Below(f, S)) \in 0 .. size - 1
  <2> SUFFICES ASSUME NEW f \in S
               PROVE  IsFiniteSet(Below(f, S)) /\ Cardinality(Below(f, S)) \in 0 .. size - 1
    OBVIOUS
  <2>1. Below(f, S) \subseteq S /\ f \notin Below(f, S)
    BY <1>1 DEF Below
  <2>2. /\ IsFiniteSet(Below(f, S)) /\ Cardinality(Below(f, S)) <= size
        /\ (size = Cardinality(Below(f, S)) => S = Below(f, S))
    BY <1>1, <2>1, FS_Subset
  <2>3. Cardinality(Below(f, S)) \in Nat
    BY <2>2, FS_CardinalityType
  <2> QED
    BY <1>1, <2>1, <2>2, <2>3
<1>3. \A f, g \in S : f < g => Cardinality(Below(f, S)) < Cardinality(Below(g, S))
  <2> SUFFICES ASSUME NEW f \in S, NEW g \in S, f < g
               PROVE  Cardinality(Below(f, S)) < Cardinality(Below(g, S))
    OBVIOUS
  <2>1. Below(f, S) \subseteq Below(g, S) /\ f \in Below(g, S) /\ f \notin Below(f, S)
    <3>1. f \in Int /\ g \in Int /\ \A h \in S : h \in Int
      BY <1>1
    <3>2. \A h \in S : h < f => h < g
      BY <3>1
    <3>3. ~ (f < f)
      BY <3>1
    <3> QED
      BY <3>2, <3>3, Zenon DEF Below
  <2>2. /\ Cardinality(Below(f, S)) <= Cardinality(Below(g, S))
        /\ (Cardinality(Below(g, S)) = Cardinality(Below(f, S)) => Below(g, S) = Below(f, S))
    BY <1>2, <2>1, FS_Subset
  <2> QED
    BY <1>2, <2>1, <2>2
<1>4. rank \in Injection(S, ranks)
  <2>1. rank \in [S -> ranks]
    BY <1>2
  <2>2. \A f, g \in S : rank[f] = rank[g] => f = g
    <3> SUFFICES ASSUME NEW f \in S, NEW g \in S, rank[f] = rank[g], f # g PROVE FALSE
      OBVIOUS
    <3>1. f < g \/ g < f
      BY <1>1
    <3> QED
      BY <1>2, <1>3, <3>1
  <2> QED
    BY <2>1, <2>2 DEF Injection, IsInjective
<1>5. IsFiniteSet(ranks) /\ Cardinality(ranks) = size
  BY <1>1, FS_Interval
<1>6. \A x \in ranks : \E f \in S : rank[f] = x
  <2>1. rank \in Surjection(S, ranks)
    BY <1>4, <1>5, FS_Injection
  <2> QED
    BY <2>1 DEF Surjection
<1> DEFINE seq == Ascending(S)
<1>7. DOMAIN seq = 1 .. size
  BY DEF Ascending
<1>8. \A j \in 1 .. size : seq[j] \in S /\ rank[seq[j]] = j - 1
  <2> SUFFICES ASSUME NEW j \in 1 .. size PROVE seq[j] \in S /\ rank[seq[j]] = j - 1
    OBVIOUS
  <2>1. j - 1 \in ranks
    BY <1>1
  <2>2. \E f \in S : Cardinality(Below(f, S)) = j - 1
    BY <1>6, <2>1
  <2> QED
    BY <2>2 DEF Ascending
<1>9. seq \in Seq(S)
  <2>1. seq = [j \in 1 .. size |-> seq[j]]
    BY DEF Ascending
  <2> HIDE DEF seq
  <2>2. seq \in [1 .. size -> S]
    BY <2>1, <1>8
  <2> QED
    BY <2>2, <1>1
<1> HIDE DEF seq
<1>10. \A f \in S : \E j \in DOMAIN seq : seq[j] = f
  <2> SUFFICES ASSUME NEW f \in S PROVE \E j \in DOMAIN seq : seq[j] = f
    OBVIOUS
  <2>1. rank[f] \in 0 .. size - 1 /\ rank[f] + 1 \in 1 .. size
    BY <1>1, <1>2
  <2>2. rank[seq[rank[f] + 1]] = rank[f] /\ seq[rank[f] + 1] \in S
    BY <1>1, <1>8, <2>1
  <2>3. seq[rank[f] + 1] = f
    BY <1>4, <2>2 DEF Injection, IsInjective
  <2> QED
    BY <1>7, <2>1, <2>3
<1>11. \A j, k \in DOMAIN seq : seq[j] = seq[k] => j = k
  <2> SUFFICES ASSUME NEW j \in 1 .. size, NEW k \in 1 .. size, seq[j] = seq[k] PROVE j = k
    BY <1>7
  <2>1. rank[seq[j]] = j - 1 /\ rank[seq[k]] = k - 1
    BY <1>8
  <2>2. j - 1 = k - 1
    BY <2>1
  <2> QED
    BY <1>1, <2>2
<1>12. {seq[j] : j \in DOMAIN seq} = S
  BY <1>7, <1>8, <1>10
<1> QED
  BY <1>9, <1>11, <1>12 DEF seq

-----------------------------------------------------------------------------
(* The invariant for names: ids are given out in order, and a name's       *)
(* region has an id that was given out under that name.                    *)
NamesInv ==
  /\ names \in Seq(Entry) /\ latest \in [Names -> Region] /\ owner \in Seq(Names)
  /\ next_id = Len(owner) + 1
  /\ Stands(names, latest)
  /\ \A r \in regions : r.id \in 1 .. Len(owner)
  /\ \A n \in Names :
       latest[n].id # 0 => latest[n].id \in 1 .. Len(owner) /\ owner[latest[n].id] = n

LEMMA NamesInit == Init => NamesInv
<1> SUFFICES ASSUME Init PROVE NamesInv
  OBVIOUS
<1>1. /\ names = << >> /\ latest = [n \in Names |-> ZeroRegion] /\ owner = << >>
      /\ next_id = 1 /\ regions = {}
  BY DEF Init
<1>2. latest \in [Names -> Region] /\ \A n \in Names : latest[n].id = 0
  BY <1>1, ZeroIsRegion DEF ZeroRegion
<1>3. Stands(names, latest)
  BY <1>1 DEF Stands, IsEntry
<1> QED
  BY <1>1, <1>2, <1>3 DEF NamesInv

LEMMA AllocOKNames ==
  ASSUME NamesInv, NEW n \in Names, AllocOK(n)
  PROVE  NamesInv'
<1>1. PICK pages \in 1 .. NumPage, s \in 1 .. NumPage :
        /\ regions' = regions \cup {[id |-> next_id, start |-> s, pages |-> pages]}
        /\ names' = SetRegion(WithEntry(n), n, [id |-> next_id, start |-> s, pages |-> pages])
        /\ latest' = [latest EXCEPT ![n] = [id |-> next_id, start |-> s, pages |-> pages]]
  BY DEF AllocOK
<1> DEFINE r == [id |-> next_id, start |-> s, pages |-> pages]
<1>2. Len(owner) \in Nat /\ next_id \in Nat
  BY DEF NamesInv
<1>3. r \in Region /\ r.id = next_id
  BY <1>2, TraceDriverAssumption DEF Region
<1>4. regions' = regions \cup {r} /\ names' = SetRegion(WithEntry(n), n, r)
      /\ latest' = [latest EXCEPT ![n] = r]
  BY <1>1
<1> HIDE DEF r
<1>5. names' \in Seq(Entry) /\ Stands(names', latest')
  <2>1. /\ WithEntry(n) \in Seq(Entry) /\ Stands(WithEntry(n), latest)
        /\ \E e \in DOMAIN WithEntry(n) : WithEntry(n)[e].name = n
    BY EntryIsNeutral DEF NamesInv
  <2>2. latest \in [Names -> Region]
    BY DEF NamesInv
  <2> QED
    BY <1>3, <1>4, <2>1, <2>2, SetStands
<1>6. owner' = Append(owner, n) /\ next_id' = next_id + 1
  BY DEF AllocOK
<1>7. /\ owner' \in Seq(Names) /\ Len(owner') = Len(owner) + 1
      /\ owner'[Len(owner) + 1] = n
      /\ \A k \in 1 .. Len(owner) : owner'[k] = owner[k]
  BY <1>6 DEF NamesInv
<1>8. latest' \in [Names -> Region]
  BY <1>3, <1>4 DEF NamesInv
<1>9. \A x \in regions' : x.id \in 1 .. Len(owner')
  BY <1>2, <1>3, <1>4, <1>7 DEF NamesInv
<1>10. ASSUME NEW m \in Names, latest'[m].id # 0
       PROVE  latest'[m].id \in 1 .. Len(owner') /\ owner'[latest'[m].id] = m
  <2>1. CASE m = n
    <3>1. latest'[m] = r
      BY <1>4, <2>1 DEF NamesInv
    <3> QED
      BY <1>2, <1>3, <1>7, <2>1, <3>1 DEF NamesInv
  <2>2. CASE m # n
    <3>1. latest'[m] = latest[m]
      BY <1>4, <2>2 DEF NamesInv
    <3>2. latest[m].id \in 1 .. Len(owner) /\ owner[latest[m].id] = m
      BY <1>10, <3>1 DEF NamesInv
    <3> QED
      BY <1>2, <1>7, <3>1, <3>2
  <2> QED
    BY <2>1, <2>2
<1>11. next_id' = Len(owner') + 1
  BY <1>2, <1>6, <1>7 DEF NamesInv
<1> QED
  BY <1>5, <1>7, <1>8, <1>9, <1>10, <1>11 DEF NamesInv

\* The commands that change no name, no region and no id.
LEMMA NamesQuiet ==
  ASSUME [Next]_vars
  PROVE  \/ \E n \in Names : AllocOK(n) \/ AllocFails(n) \/ FreeName(n)
         \/ UNCHANGED <<names, latest, owner, next_id, regions>>
<1> USE DEF vm, hist, driver, out
<1>1. ASSUME NEW n \in Names, Protect(n) PROVE UNCHANGED <<names, latest, owner, next_id, regions>>
  BY <1>1 DEF Protect
<1>2. ASSUME NEW p \in Targets, Write(p) PROVE UNCHANGED <<names, latest, owner, next_id, regions>>
  BY <1>2 DEF Write, Access
<1>3. ASSUME NEW p \in Targets, Read(p) PROVE UNCHANGED <<names, latest, owner, next_id, regions>>
  BY <1>3 DEF Read, Access
<1>4. ASSUME NEW p \in Targets, Translate(p) PROVE UNCHANGED <<names, latest, owner, next_id, regions>>
  BY <1>4 DEF Translate
<1>5. ASSUME NEW k, Hold(k) PROVE UNCHANGED <<names, latest, owner, next_id, regions>>
  BY <1>5 DEF Hold
<1>6. ASSUME NEW mode, FramesCommand(mode) PROVE UNCHANGED <<names, latest, owner, next_id, regions>>
  BY <1>6 DEF FramesCommand
<1>7. ReleaseHeld \/ Inspect \/ Stats \/ Blank \/ NoTrace \/ Fail \/ EndOfTrace
        => UNCHANGED <<names, latest, owner, next_id, regions>>
  BY DEF ReleaseHeld, Inspect, Stats, Blank, NoTrace, Fail, EndOfTrace
<1>8. UNCHANGED vars => UNCHANGED <<names, latest, owner, next_id, regions>>
  BY DEF vars
<1> QED
  BY <1>1, <1>2, <1>3, <1>4, <1>5, <1>6, <1>7, <1>8 DEF Next

LEMMA NamesStep == NamesInv /\ [Next]_vars => NamesInv'
<1> SUFFICES ASSUME NamesInv, [Next]_vars PROVE NamesInv'
  OBVIOUS
<1>1. ASSUME NEW n \in Names, AllocFails(n) PROVE NamesInv'
  <2>1. names' = WithEntry(n) /\ UNCHANGED <<latest, owner, next_id, regions>>
    BY <1>1 DEF AllocFails, AfterFailure, vm, hist
  <2>2. names' \in Seq(Entry) /\ Stands(names', latest)
    BY <2>1, EntryIsNeutral DEF NamesInv
  <2> QED
    BY <2>1, <2>2 DEF NamesInv
<1>2. ASSUME NEW n \in Names, FreeName(n) PROVE NamesInv'
  <2>1. UNCHANGED <<names, latest, owner, next_id>> /\ regions' \subseteq regions
    BY <1>2 DEF FreeName, Release, hist
  <2> QED
    BY <2>1 DEF NamesInv
<1>3. CASE UNCHANGED <<names, latest, owner, next_id, regions>>
  BY <1>3 DEF NamesInv
<1> QED
  BY <1>1, <1>2, <1>3, AllocOKNames, NamesQuiet

LEMMA NamesInvariant == Spec => []NamesInv
BY NamesInit, NamesStep, PTL DEF Spec

\* What the invariant says of the names.
LEMMA NamesStand == NamesInv => NameIsLatestRegion
<1> SUFFICES ASSUME NamesInv, NEW n \in Names
             PROVE  IF n \in Known THEN Of(n) = latest[n] ELSE latest[n] = ZeroRegion
  BY DEF NameIsLatestRegion
<1>1. CASE n \in Known
  <2>1. PICK e \in DOMAIN names : IsEntry(names, n, e)
    BY <1>1, KnownHasEntry DEF NamesInv
  <2>2. Of(n) = names[e].region
    BY <2>1, FirstFound DEF NamesInv
  <2>3. names[e].region = latest[n]
    BY <2>1 DEF NamesInv, Stands
  <2> QED
    BY <1>1, <2>2, <2>3
<1>2. CASE n \notin Known
  <2>1. \A e \in DOMAIN names : names[e].name # n
    BY <1>2 DEF Known
  <2>2. latest[n] = ZeroRegion
    BY <2>1 DEF NamesInv, Stands
  <2> QED
    BY <1>2, <2>2
<1> QED
  BY <1>1, <1>2

\* The region that free ends has an id that the name was given.
LEMMA FreesItsOwn ==
  NamesInv => \A n \in Names : FreeName(n) => \A r \in regions \ regions' : owner[r.id] = n
<1> SUFFICES ASSUME NamesInv, NEW n \in Names, FreeName(n), NEW r \in regions \ regions'
             PROVE  owner[r.id] = n
  OBVIOUS
<1>1. n \in Known /\ r \in RegionsWith(Of(n))
  BY DEF FreeName, Release
<1>2. Of(n) = latest[n]
  BY <1>1, NamesStand DEF NameIsLatestRegion
<1>3. r.id = latest[n].id /\ r.id \in 1 .. Len(owner)
  BY <1>1, <1>2 DEF RegionsWith, NamesInv
<1>4. latest[n].id # 0
  BY <1>3 DEF NamesInv
<1> QED
  BY <1>3, <1>4 DEF NamesInv

-----------------------------------------------------------------------------
(* The invariant for frames.                                               *)
FramesInv == frames \subseteq Frames /\ held \in Seq(Frames) /\ NoFrameLost

LEMMA FramesInit == Init => FramesInv
BY DEF Init, FramesInv, NoFrameLost, ToSet

\* Frames that the VM takes or gives back leave those of hold alone.
LEMMA VmFrames ==
  ASSUME FramesInv, held' = held,
         \/ \E new \in SUBSET Free : frames' = frames \cup new /\ vm_frames' = vm_frames \cup new
         \/ \E back \in SUBSET vm_frames :
               frames' = frames \ back /\ vm_frames' = vm_frames \ back
         \/ UNCHANGED <<frames, vm_frames>>
  PROVE  FramesInv'
<1>1. ToSet(held)' = ToSet(held)
  OBVIOUS
<1>2. frames' \subseteq Frames
  BY DEF FramesInv, Free
<1>3. frames' = vm_frames' \cup ToSet(held) /\ vm_frames' \cap ToSet(held) = {}
  BY DEF FramesInv, NoFrameLost, Free
<1> QED
  BY <1>1, <1>2, <1>3 DEF FramesInv, NoFrameLost

LEMMA HoldFrames ==
  ASSUME FramesInv, NEW k, Hold(k)
  PROVE  FramesInv'
<1> DEFINE more == Ascending(Lowest(k))
<1>1. Lowest(k) \subseteq Frames \ frames
  BY DEF Lowest, Free
<1>2. /\ more \in Seq(Lowest(k))
      /\ {more[j] : j \in DOMAIN more} = Lowest(k)
      /\ \A a, b \in DOMAIN more : more[a] = more[b] => a = b
  BY <1>1, AscendingLists
<1>3. held' = held \o more /\ frames' = frames \cup Lowest(k) /\ vm_frames' = vm_frames
  BY DEF Hold
<1> HIDE DEF more
<1>4. more \in Seq(Frames) /\ held \in Seq(Frames)
  <2>1. more \in [1 .. Len(more) -> Lowest(k)] /\ Len(more) \in Nat
    BY <1>2
  <2>2. more \in [1 .. Len(more) -> Frames]
    BY <1>1, <2>1
  <2> QED
    BY <2>1, <2>2 DEF FramesInv
<1> DEFINE a == Len(held)
           b == Len(more)
<1>5. /\ a \in Nat /\ b \in Nat /\ DOMAIN held = 1 .. a /\ DOMAIN more = 1 .. b
      /\ held' \in Seq(Frames) /\ DOMAIN held' = 1 .. a + b
      /\ \A j \in 1 .. a : held'[j] = held[j]
      /\ \A j \in a + 1 .. a + b : held'[j] = more[j - a]
  BY <1>3, <1>4
<1>6. \A j \in 1 .. a : held'[j] \in ToSet(held)
  BY <1>5 DEF ToSet
<1>7. \A j \in a + 1 .. a + b : j - a \in 1 .. b /\ held'[j] \in Lowest(k)
  BY <1>2, <1>5
<1>8. ToSet(held)' = ToSet(held) \cup Lowest(k)
  <2>1. \A f \in ToSet(held)' : f \in ToSet(held) \cup Lowest(k)
    <3> SUFFICES ASSUME NEW j \in 1 .. a + b PROVE held'[j] \in ToSet(held) \cup Lowest(k)
      BY <1>5 DEF ToSet
    <3>1. j \in 1 .. a \/ j \in a + 1 .. a + b
      BY <1>5
    <3> QED
      BY <1>6, <1>7, <3>1
  <2>2. \A f \in ToSet(held) : f \in ToSet(held)'
    <3> SUFFICES ASSUME NEW j \in 1 .. a PROVE held[j] \in ToSet(held)'
      BY <1>5 DEF ToSet
    <3>1. j \in 1 .. a + b /\ held'[j] = held[j]
      BY <1>5
    <3> QED
      BY <1>5, <3>1 DEF ToSet
  <2>3. \A f \in Lowest(k) : f \in ToSet(held)'
    <3> SUFFICES ASSUME NEW j \in 1 .. b PROVE more[j] \in ToSet(held)'
      BY <1>2, <1>5
    <3>1. a + j \in a + 1 .. a + b /\ (a + j) - a = j /\ a + j \in 1 .. a + b
      BY <1>5
    <3>2. held'[a + j] = more[j]
      BY <1>5, <3>1
    <3> QED
      BY <1>5, <3>1, <3>2 DEF ToSet
  <2> QED
    BY <2>1, <2>2, <2>3
<1>9. Lowest(k) \cap ToSet(held) = {} /\ Lowest(k) \cap vm_frames = {}
  BY <1>1 DEF FramesInv, NoFrameLost
<1>10. ASSUME NEW i \in 1 .. a + b, NEW j \in 1 .. a + b, held'[i] = held'[j] PROVE i = j
  <2>1. CASE i \in 1 .. a /\ j \in 1 .. a
    BY <1>5, <1>10, <2>1 DEF FramesInv, NoFrameLost
  <2>2. CASE i \in a + 1 .. a + b /\ j \in a + 1 .. a + b
    <3>1. i - a \in DOMAIN more /\ j - a \in DOMAIN more /\ more[i - a] = more[j - a]
      BY <1>5, <1>7, <1>10, <2>2
    <3>2. i - a = j - a
      BY <1>2, <3>1
    <3> QED
      BY <1>5, <3>2
  <2>3. CASE i \in 1 .. a /\ j \in a + 1 .. a + b
    BY <1>6, <1>7, <1>9, <1>10, <2>3
  <2>4. CASE i \in a + 1 .. a + b /\ j \in 1 .. a
    BY <1>6, <1>7, <1>9, <1>10, <2>4
  <2>5. (i \in 1 .. a \/ i \in a + 1 .. a + b) /\ (j \in 1 .. a \/ j \in a + 1 .. a + b)
    BY <1>5
  <2> QED
    BY <2>1, <2>2, <2>3, <2>4, <2>5
<1>11. frames' \subseteq Frames
  BY <1>1, <1>3 DEF FramesInv
<1>12. frames' = vm_frames' \cup ToSet(held)' /\ vm_frames' \cap ToSet(held)' = {}
  BY <1>3, <1>8, <1>9 DEF FramesInv, NoFrameLost
<1> QED
  BY <1>5, <1>10, <1>11, <1>12 DEF FramesInv, NoFrameLost

LEMMA ReleaseFrames ==
  ASSUME FramesInv, ReleaseHeld
  PROVE  FramesInv'
<1>1. held' = << >> /\ frames' = frames \ HeldFrames /\ vm_frames' = vm_frames
  BY DEF ReleaseHeld
<1>2. HeldFrames = ToSet(held)
  BY DEF HeldFrames, ToSet
<1>3. ToSet(held)' = {}
  BY <1>1 DEF ToSet
<1>4. frames' = vm_frames'
  BY <1>1, <1>2 DEF FramesInv, NoFrameLost
<1>5. frames' \subseteq Frames /\ held' \in Seq(Frames)
  BY <1>1 DEF FramesInv
<1> QED
  BY <1>1, <1>3, <1>4, <1>5 DEF FramesInv, NoFrameLost

LEMMA FramesStep == FramesInv /\ [Next]_vars => FramesInv'
<1> SUFFICES ASSUME FramesInv, [Next]_vars PROVE FramesInv'
  OBVIOUS
<1> DEFINE Quiet == UNCHANGED <<frames, vm_frames, held>>
<1>1. Quiet => FramesInv'
  BY VmFrames
<1> USE DEF vm, driver, out, hist
<1>2. ASSUME NEW n \in Names, AllocOK(n) \/ AllocFails(n) \/ Protect(n) PROVE Quiet
  BY <1>2 DEF AllocOK, AllocFails, Protect
<1>3. ASSUME NEW n \in Names, FreeName(n) PROVE FramesInv'
  BY <1>3, VmFrames DEF FreeName, Release
<1>4. ASSUME NEW p \in Targets, Write(p) PROVE FramesInv'
  BY <1>4, VmFrames DEF Write, Access
<1>5. ASSUME NEW p \in Targets, Read(p) PROVE FramesInv'
  BY <1>5, VmFrames DEF Read, Access
<1>6. ASSUME NEW p \in Targets, Translate(p) PROVE Quiet
  BY <1>6 DEF Translate
<1>7. ASSUME NEW mode, FramesCommand(mode) PROVE Quiet
  BY <1>7 DEF FramesCommand
<1>8. Inspect \/ Stats \/ Blank \/ NoTrace \/ Fail \/ EndOfTrace => Quiet
  BY DEF Inspect, Stats, Blank, NoTrace, Fail, EndOfTrace
<1>9. UNCHANGED vars => Quiet
  BY DEF vars
<1> QED
  BY <1>1, <1>2, <1>3, <1>4, <1>5, <1>6, <1>7, <1>8, <1>9, HoldFrames, ReleaseFrames DEF Next

LEMMA FramesInvariant == Spec => []FramesInv
BY FramesInit, FramesStep, PTL DEF Spec

-----------------------------------------------------------------------------
(* The frame map.                                                          *)

\* The range that starts at a frame.
Piece(used, first) ==
  [allocated |-> first \in used, first |-> first, last |-> RangeEnd(used, first) - 1]

\* from is what print_frames makes of the frames from lo on.
RangesAre(used, lo, from) ==
  from = [first \in lo .. NumFrame |->
            IF first = NumFrame THEN <<>>
            ELSE LET end == RangeEnd(used, first)
                 IN <<Piece(used, first)>> \o from[end]]

\* A range ends at the next frame that is different, or after the last one.
LEMMA RangeEnds ==
  ASSUME NEW used, NEW first \in 0 .. NumFrame - 1
  PROVE  LET end == RangeEnd(used, first)
         IN  /\ end \in first + 1 .. NumFrame
             /\ end # NumFrame => (end \in used) # (first \in used)
             /\ \A f \in first .. end - 1 : (f \in used) = (first \in used)
<1> DEFINE S   == {e \in first + 1 .. NumFrame : e = NumFrame \/ (e \in used) # (first \in used)}
           end == RangeEnd(used, first)
<1>1. NumFrame \in Nat \ {0} /\ first \in Nat
  BY TraceDriverAssumption
<1>2. S \subseteq Nat /\ NumFrame \in S
  BY <1>1
<1>3. PICK m \in S : \A k \in S : m <= k
  BY <1>2, LeastNatural
<1>4. end = m
  BY <1>2, <1>3, MinIs DEF RangeEnd
<1>5. ASSUME NEW f \in first .. m - 1 PROVE (f \in used) = (first \in used)
  <2>1. CASE f = first
    BY <2>1
  <2>2. CASE f # first
    <3>1. f \in first + 1 .. NumFrame /\ f < m /\ f # NumFrame
      BY <1>1, <1>3, <2>2
    <3>2. f \notin S
      BY <1>1, <1>3, <3>1
    <3> QED
      BY <3>1, <3>2
  <2> QED
    BY <2>1, <2>2
<1> QED
  BY <1>3, <1>4, <1>5

\* The recursion of print_frames ends: it goes from frame to later frame.
LEMMA PrintingEnds ==
  ASSUME NEW used
  PROVE  \E from : RangesAre(used, 0, from)
<1> DEFINE S == {n \in Nat : n <= NumFrame /\ ~ \E from : RangesAre(used, NumFrame - n, from)}
<1>0. NumFrame \in Nat \ {0}
  BY TraceDriverAssumption
<1>1. SUFFICES ASSUME S # {} PROVE FALSE
  <2>1. NumFrame \in Nat /\ NumFrame <= NumFrame /\ NumFrame - NumFrame = 0
    BY <1>0
  <2> QED
    BY <1>1, <2>1
<1>2. PICK n \in S : \A k \in S : n <= k
  BY <1>1, LeastNatural
<1> DEFINE lo == NumFrame - n
<1>3. lo \in 0 .. NumFrame
  BY <1>0, <1>2
<1>4. CASE n = 0
  <2>1. RangesAre(used, lo, [first \in lo .. NumFrame |-> <<>>])
    BY <1>0, <1>4 DEF RangesAre
  <2> QED
    BY <1>2, <2>1
<1>5. CASE n # 0
  <2>1. n - 1 \in Nat /\ n - 1 <= NumFrame /\ n - 1 \notin S /\ NumFrame - (n - 1) = lo + 1
    BY <1>0, <1>2, <1>5
  <2>2. PICK f : RangesAre(used, lo + 1, f)
    BY <2>1
  <2> DEFINE g == [first \in lo .. NumFrame |->
                     IF first = lo THEN <<Piece(used, lo)>> \o f[RangeEnd(used, lo)] ELSE f[first]]
  <2>3. lo \in 0 .. NumFrame - 1
    BY <1>0, <1>3, <1>5
  <2> HIDE DEF lo
  <2>4. ASSUME NEW first \in lo .. NumFrame
        PROVE  g[first] = IF first = NumFrame THEN <<>>
                          ELSE <<Piece(used, first)>> \o g[RangeEnd(used, first)]
    <3>1. CASE first = NumFrame
      <4>1. first # lo /\ first \in lo + 1 .. NumFrame
        BY <1>0, <2>3, <3>1
      <4>2. f[first] = <<>>
        BY <2>2, <3>1, <4>1 DEF RangesAre
      <4> QED
        BY <3>1, <4>1, <4>2
    <3>2. CASE first # NumFrame
      <4>1. first \in 0 .. NumFrame - 1
        BY <1>0, <2>3, <3>2
      <4>2. RangeEnd(used, first) \in first + 1 .. NumFrame
        BY <4>1, RangeEnds
      <4>3. RangeEnd(used, first) \in lo .. NumFrame /\ RangeEnd(used, first) # lo
        BY <1>0, <2>3, <4>1, <4>2
      <4>4. g[RangeEnd(used, first)] = f[RangeEnd(used, first)]
        BY <4>3
      <4>5. CASE first = lo
        BY <3>2, <4>4, <4>5
      <4>6. CASE first # lo
        <5>1. first \in lo + 1 .. NumFrame
          BY <1>0, <2>3, <4>6
        <5>2. f[first] = <<Piece(used, first)>> \o f[RangeEnd(used, first)]
          BY <2>2, <3>2, <5>1 DEF RangesAre
        <5> QED
          BY <3>2, <4>4, <4>6, <5>2
      <4> QED
        BY <4>5, <4>6
    <3> QED
      BY <3>1, <3>2
  <2>5. RangesAre(used, lo, g)
    <3> HIDE DEF g
    <3>1. g = [first \in lo .. NumFrame |-> g[first]]
      BY DEF g
    <3> QED
      BY <2>4, <3>1 DEF RangesAre
  <2> QED
    BY <1>2, <2>5 DEF lo
<1> QED
  BY <1>4, <1>5

LEMMA PrintFramesPrints ==
  ASSUME NEW used
  PROVE  \E from : RangesAre(used, 0, from) /\ print_frames(used) = from[0]
<1> DEFINE from == CHOOSE f : RangesAre(used, 0, f)
<1>1. RangesAre(used, 0, from)
  BY PrintingEnds
<1>2. print_frames(used) = from[0]
  BY DEF print_frames, RangesAre, Piece
<1> QED
  BY <1>1, <1>2

\* What a piece of the map that starts at a frame shows.
ShowsFrom(ranges, used, first) ==
  /\ ranges \in Seq([allocated : BOOLEAN, first : 0 .. NumFrame, last : 0 .. NumFrame])
  /\ Len(ranges) >= 1
  /\ \A k \in 1 .. Len(ranges) : \A f \in ranges[k].first .. ranges[k].last :
        ranges[k].allocated = (f \in used)
  /\ ranges[1].first = first /\ ranges[1].allocated = (first \in used)
  /\ ranges[Len(ranges)].last = NumFrame - 1
  /\ \A k \in 1 .. Len(ranges) - 1 :
        /\ ranges[k].first <= ranges[k].last /\ ranges[k + 1].first = ranges[k].last + 1
        /\ ranges[k].allocated # ranges[k + 1].allocated

LEMMA PieceIs ==
  ASSUME NEW used, NEW first \in 0 .. NumFrame - 1
  PROVE  /\ Piece(used, first) \in [allocated : BOOLEAN, first : 0 .. NumFrame, last : 0 .. NumFrame]
         /\ Piece(used, first).first = first
         /\ Piece(used, first).allocated = (first \in used)
         /\ Piece(used, first).last = RangeEnd(used, first) - 1
<1>1. RangeEnd(used, first) \in first + 1 .. NumFrame /\ NumFrame \in Nat
  BY RangeEnds, TraceDriverAssumption
<1>2. RangeEnd(used, first) - 1 \in 0 .. NumFrame /\ first \in 0 .. NumFrame
  BY <1>1
<1> QED
  BY <1>2 DEF Piece

\* The last range alone.
LEMMA LastPiece ==
  ASSUME NEW used, NEW first \in 0 .. NumFrame - 1, RangeEnd(used, first) = NumFrame
  PROVE  ShowsFrom(<<Piece(used, first)>>, used, first)
<1> DEFINE p == Piece(used, first)
           Rec == [allocated : BOOLEAN, first : 0 .. NumFrame, last : 0 .. NumFrame]
<1>1. p \in Rec /\ p.first = first /\ p.allocated = (first \in used) /\ p.last = NumFrame - 1
  BY PieceIs
<1>2. \A f \in first .. NumFrame - 1 : (f \in used) = (first \in used)
  BY RangeEnds
<1> HIDE DEF p, Rec
<1>3. <<p>> \in Seq(Rec) /\ Len(<<p>>) = 1 /\ <<p>>[1] = p
  BY <1>1
<1>4. \A f \in p.first .. p.last : p.allocated = (f \in used)
  BY <1>1, <1>2
<1> QED
  BY <1>1, <1>3, <1>4 DEF ShowsFrom, p, Rec

\* A range before the others.
LEMMA NextPiece ==
  ASSUME NEW used, NEW first \in 0 .. NumFrame - 1, RangeEnd(used, first) # NumFrame,
         NEW rest, ShowsFrom(rest, used, RangeEnd(used, first))
  PROVE  ShowsFrom(<<Piece(used, first)>> \o rest, used, first)
<1> DEFINE p   == Piece(used, first)
           end == RangeEnd(used, first)
           all == <<p>> \o rest
           Rec == [allocated : BOOLEAN, first : 0 .. NumFrame, last : 0 .. NumFrame]
<1>1. p \in Rec /\ p.first = first /\ p.allocated = (first \in used) /\ p.last = end - 1
  BY PieceIs
<1>2. /\ end \in first + 1 .. NumFrame /\ (end \in used) # (first \in used)
      /\ \A f \in first .. end - 1 : (f \in used) = (first \in used)
  BY RangeEnds
<1>3. /\ rest \in Seq(Rec) /\ Len(rest) >= 1 /\ Len(rest) \in Nat
      /\ rest[1].first = end /\ rest[1].allocated = (end \in used)
      /\ rest[Len(rest)].last = NumFrame - 1
  BY DEF ShowsFrom
<1>4. \A k \in 1 .. Len(rest) : \A f \in rest[k].first .. rest[k].last :
        rest[k].allocated = (f \in used)
  BY DEF ShowsFrom
<1>5. \A k \in 1 .. Len(rest) - 1 :
        /\ rest[k].first <= rest[k].last /\ rest[k + 1].first = rest[k].last + 1
        /\ rest[k].allocated # rest[k + 1].allocated
  BY DEF ShowsFrom
<1> HIDE DEF p, end, Rec
<1>6. /\ all \in Seq(Rec) /\ Len(all) = Len(rest) + 1 /\ all[1] = p
      /\ \A k \in 1 .. Len(rest) : all[k + 1] = rest[k]
  BY <1>1, <1>3
<1>7. \A k \in 2 .. Len(all) : k - 1 \in 1 .. Len(rest) /\ all[k] = rest[k - 1]
  <2> TAKE k \in 2 .. Len(all)
  <2>1. k - 1 \in 1 .. Len(rest) /\ (k - 1) + 1 = k
    BY <1>3, <1>6
  <2> QED
    BY <1>6, <2>1
<1> HIDE DEF all
<1>8. \A f \in p.first .. p.last : p.allocated = (f \in used)
  BY <1>1, <1>2
<1>9. ASSUME NEW k \in 1 .. Len(all)
      PROVE  \A f \in all[k].first .. all[k].last : all[k].allocated = (f \in used)
  <2>1. CASE k = 1
    BY <1>6, <1>8, <2>1
  <2>2. CASE k # 1
    <3>1. k \in 2 .. Len(all)
      BY <1>3, <1>6, <2>2
    <3> QED
      BY <1>4, <1>7, <3>1
  <2> QED
    BY <2>1, <2>2
<1>10. ASSUME NEW k \in 1 .. Len(all) - 1
       PROVE  /\ all[k].first <= all[k].last /\ all[k + 1].first = all[k].last + 1
              /\ all[k].allocated # all[k + 1].allocated
  <2>1. CASE k = 1
    <3>1. all[k] = p /\ all[k + 1] = rest[1]
      BY <1>3, <1>6, <2>1
    <3>2. p.first <= p.last /\ p.last + 1 = end
      BY <1>1, <1>2
    <3>3. p.allocated # rest[1].allocated
      BY <1>1, <1>2, <1>3
    <3> QED
      BY <1>3, <3>1, <3>2, <3>3
  <2>2. CASE k # 1
    <3>1. k \in 2 .. Len(all) /\ k + 1 \in 2 .. Len(all) /\ k - 1 \in 1 .. Len(rest) - 1
          /\ (k + 1) - 1 = (k - 1) + 1
      BY <1>3, <1>6, <2>2
    <3>2. all[k] = rest[k - 1] /\ all[k + 1] = rest[(k - 1) + 1]
      BY <1>7, <3>1
    <3> QED
      BY <1>5, <3>1, <3>2
  <2> QED
    BY <2>1, <2>2
<1>11. all[1].first = first /\ all[1].allocated = (first \in used)
  BY <1>1, <1>6
<1>12. Len(all) >= 1 /\ all[Len(all)].last = NumFrame - 1
  <2>1. Len(all) \in 2 .. Len(all) /\ Len(all) - 1 = Len(rest)
    BY <1>3, <1>6
  <2>2. all[Len(all)] = rest[Len(rest)]
    BY <1>7, <2>1
  <2> QED
    BY <1>3, <2>1, <2>2
<1>13. all \in Seq(Rec)
  BY <1>6
<1>14. ShowsFrom(all, used, first)
  BY <1>9, <1>10, <1>11, <1>12, <1>13 DEF ShowsFrom, Rec
<1> QED
  BY <1>14 DEF all, p

\* The map shows every frame as what it is.
LEMMA MapIsRight ==
  ASSUME NEW used
  PROVE  Shows(print_frames(used), used)
<1>0. NumFrame \in Nat \ {0}
  BY TraceDriverAssumption
<1>1. PICK from : RangesAre(used, 0, from) /\ print_frames(used) = from[0]
  BY PrintFramesPrints
<1> DEFINE S == {n \in Nat : n >= 1 /\ n <= NumFrame /\ ~ ShowsFrom(from[NumFrame - n], used, NumFrame - n)}
<1>2. S = {}
  <2> SUFFICES ASSUME S # {} PROVE FALSE
    OBVIOUS
  <2>1. PICK n \in S : \A k \in S : n <= k
    BY LeastNatural
  <2> DEFINE first == NumFrame - n
             end   == RangeEnd(used, first)
  <2>2. first \in 0 .. NumFrame - 1
    BY <1>0, <2>1
  <2>3. end \in first + 1 .. NumFrame
    BY <2>2, RangeEnds
  <2>4. from[first] = <<Piece(used, first)>> \o from[end]
    <3>1. first \in 0 .. NumFrame /\ first # NumFrame
      BY <1>0, <2>2
    <3> HIDE DEF first
    <3> QED
      BY <1>1, <3>1 DEF RangesAre
  <2>5. ~ ShowsFrom(from[first], used, first)
    BY <2>1
  <2>6. CASE end = NumFrame
    <3>1. from[end] = <<>>
      BY <1>0, <1>1, <2>6 DEF RangesAre
    <3>2. from[first] = <<Piece(used, first)>>
      BY <2>4, <3>1
    <3> QED
      BY <2>2, <2>5, <2>6, <3>2, LastPiece
  <2>7. CASE end # NumFrame
    <3>1. NumFrame - end \in Nat /\ NumFrame - end >= 1 /\ NumFrame - end <= NumFrame
          /\ NumFrame - end < n /\ NumFrame - (NumFrame - end) = end
      BY <1>0, <2>1, <2>2, <2>3, <2>7
    <3>2. NumFrame - end \notin S
      BY <2>1, <3>1
    <3>3. ShowsFrom(from[end], used, end)
      BY <3>1, <3>2
    <3> QED
      BY <2>2, <2>4, <2>5, <2>7, <3>3, NextPiece
  <2> QED
    BY <2>6, <2>7
<1>3. ShowsFrom(from[0], used, 0)
  <2>1. NumFrame \notin S /\ NumFrame - NumFrame = 0
    BY <1>0, <1>2
  <2> QED
    BY <1>0, <2>1
<1>4. Last(from[0]) = from[0][Len(from[0])] /\ DOMAIN from[0] = 1 .. Len(from[0])
  BY <1>3 DEF Last, ShowsFrom
<1> QED
  BY <1>1, <1>3, <1>4 DEF Shows, ShowsFrom

-----------------------------------------------------------------------------
(* What is printed is what there is.                                       *)

OutputInv ==
  /\ OutputIsCurrent
  /\ mismatch = wrong
  /\ summary_is_last => summary = Counters

LEMMA OutputInit == Init => OutputInv
BY TraceDriverAssumption DEF Init, OutputInv, OutputIsCurrent

\* After a command that ran the map is there if it is asked for.
LEMMA RanShows ==
  ASSUME NEW command, Reading, Ran(command), mismatch' = wrong',
         command = "stats" => summary' = Counters'
  PROVE  OutputInv'
<1>1. exit' = None /\ None \notin {0, 1}
  BY TraceDriverAssumption DEF Ran, Reading
<1>2. show_frames' => map' = print_frames(frames')
  BY DEF Ran, MapAfter
<1>3. show_frames' => Shows(map', frames')
  BY <1>2, MapIsRight
<1>4. summary_is_last' => summary' = Counters'
  BY DEF Ran, IsSummary
<1> QED
  BY <1>1, <1>3, <1>4 DEF OutputInv, OutputIsCurrent

LEMMA OutputStep == OutputInv /\ [Next]_vars => OutputInv'
<1> SUFFICES ASSUME OutputInv, [Next]_vars PROVE OutputInv'
  OBVIOUS
<1>0. mismatch = wrong /\ None \notin {0, 1, 2}
  BY TraceDriverAssumption DEF OutputInv
<1>1. ASSUME NEW n \in Names, AllocOK(n) PROVE OutputInv'
  BY <1>0, <1>1, RanShows DEF AllocOK
<1>2. ASSUME NEW n \in Names, AllocFails(n) PROVE OutputInv'
  BY <1>0, <1>2, RanShows DEF AllocFails, hist
<1>3. ASSUME NEW n \in Names, FreeName(n) PROVE OutputInv'
  BY <1>0, <1>3, RanShows DEF FreeName, hist
<1>4. ASSUME NEW n \in Names, Protect(n) PROVE OutputInv'
  BY <1>0, <1>4, RanShows DEF Protect, hist
<1>5. ASSUME NEW page, Write(page) PROVE OutputInv'
  BY <1>0, <1>5, RanShows DEF Write, hist
<1>6. ASSUME NEW page, Read(page) PROVE OutputInv'
  <2>1. mismatch' = wrong'
    BY <1>0, <1>6 DEF Read, Remembered
  <2> QED
    BY <1>6, <2>1, RanShows DEF Read
<1>7. ASSUME NEW page, Translate(page) PROVE OutputInv'
  BY <1>0, <1>7, RanShows DEF Translate, hist
<1>8. ASSUME NEW k, Hold(k) PROVE OutputInv'
  BY <1>0, <1>8, RanShows DEF Hold, hist
<1>9. ASSUME NEW mode, FramesCommand(mode) PROVE OutputInv'
  <2>1. /\ exit' = None /\ mismatch' = wrong' /\ ~ summary_is_last' /\ frames' = frames
    BY <1>0, <1>9 DEF FramesCommand, Reading, IsSummary, hist, vm
  <2>2. mode # "off" => map' = print_frames(frames')
    BY <1>9, <2>1 DEF FramesCommand
  <2>3. mode = "off" => ~ show_frames'
    BY <1>9 DEF FramesCommand
  <2>4. show_frames' => Shows(map', frames')
    BY <2>2, <2>3, MapIsRight
  <2> QED
    BY <1>0, <2>1, <2>4 DEF OutputInv, OutputIsCurrent
<1>10. CASE ReleaseHeld
  BY <1>0, <1>10, RanShows DEF ReleaseHeld, hist
<1>11. CASE Inspect
  BY <1>0, <1>11, RanShows DEF Inspect, hist
<1>12. CASE Stats
  <2>1. summary' = Counters'
    BY <1>12 DEF Stats, Counters, vm
  <2> QED
    BY <1>0, <1>12, <2>1, RanShows DEF Stats, hist
<1>13. CASE Blank
  BY <1>13 DEF Blank, vm, out, hist, OutputInv, OutputIsCurrent, Counters
<1>14. CASE NoTrace
  BY <1>0, <1>14 DEF NoTrace, driver, vm, hist, OutputInv, OutputIsCurrent, Counters
<1>15. CASE Fail
  BY <1>0, <1>15 DEF Fail, vm, hist, OutputInv, OutputIsCurrent, Counters
<1>16. CASE EndOfTrace
  <2>1. summary' = Counters /\ Counters' = Counters
    BY <1>16 DEF EndOfTrace, driver, vm, Counters, OutputInv
  <2>2. exit' = (IF wrong' THEN 1 ELSE 0) /\ exit' # None /\ mismatch' = wrong'
    BY <1>0, <1>16 DEF EndOfTrace, driver, hist
  <2> QED
    BY <2>1, <2>2 DEF OutputInv, OutputIsCurrent
<1>17. CASE UNCHANGED vars
  BY <1>17 DEF vars, driver, vm, out, hist, OutputInv, OutputIsCurrent, Counters
<1> QED
  BY <1>1, <1>2, <1>3, <1>4, <1>5, <1>6, <1>7, <1>8, <1>9, <1>10, <1>11, <1>12, <1>13,
     <1>14, <1>15, <1>16, <1>17 DEF Next

-----------------------------------------------------------------------------
(* How a line is read: texts and their parts.                              *)

\* What holds of 0 and goes from each number to the next holds of all up to n.
LEMMA StepByStep ==
  ASSUME NEW n \in Nat, NEW T, 0 \in T, \A i \in 0 .. n - 1 : i \in T => i + 1 \in T
  PROVE  \A i \in 0 .. n : i \in T
<1> DEFINE S == {i \in Nat : i <= n /\ i \notin T}
<1> SUFFICES ASSUME S # {} PROVE FALSE
  OBVIOUS
<1>1. PICK m \in S : \A k \in S : m <= k
  BY LeastNatural
<1>2. m # 0 /\ m - 1 \in 0 .. n - 1
  BY <1>1
<1>3. m - 1 \in T
  BY <1>1, <1>2
<1>4. (m - 1) + 1 \in T
  BY <1>2, <1>3
<1> QED
  BY <1>1, <1>4

-----------------------------------------------------------------------------
(* Numbers.                                                                *)

Chars == TokenChars \cup {SPACE}
Texts == Seq(Chars)

\* The characters of w from pos on begin with those of s.
PartOf(w, pos, s) == pos + Len(s) <= Len(w) /\ \A k \in 1 .. Len(s) : w[pos + k] = s[k]

\* Two texts put together: first the one, then the other.
LEMMA JoinsAny ==
  ASSUME NEW C, NEW s \in Seq(C), NEW t \in Seq(C)
  PROVE  /\ s \o t \in Seq(C) /\ Len(s \o t) = Len(s) + Len(t)
         /\ PartOf(s \o t, 0, s) /\ PartOf(s \o t, Len(s), t)
<1>1. s \o t \in Seq(C) /\ Len(s \o t) = Len(s) + Len(t)
  BY ConcatProperties
<1>2. \A i \in 1 .. Len(s) + Len(t) : (s \o t)[i] = IF i <= Len(s) THEN s[i] ELSE t[i - Len(s)]
  BY ConcatProperties
<1>3. Len(s) \in Nat /\ Len(t) \in Nat
  OBVIOUS
<1>4. PartOf(s \o t, 0, s)
  BY <1>1, <1>2, <1>3 DEF PartOf
<1>5. PartOf(s \o t, Len(s), t)
  <2>1. \A k \in 1 .. Len(t) : (s \o t)[Len(s) + k] = t[k]
    <3> TAKE k \in 1 .. Len(t)
    <3>1. Len(s) + k \in 1 .. Len(s) + Len(t) /\ ~ (Len(s) + k <= Len(s)) /\ (Len(s) + k) - Len(s) = k
      BY <1>3
    <3> QED
      BY <1>2, <3>1
  <2> QED
    BY <1>1, <1>3, <2>1 DEF PartOf
<1> QED
  BY <1>1, <1>4, <1>5

\* The same for the texts of a trace.
LEMMA Joins ==
  ASSUME NEW s \in Texts, NEW t \in Texts
  PROVE  /\ s \o t \in Texts /\ Len(s \o t) = Len(s) + Len(t)
         /\ PartOf(s \o t, 0, s) /\ PartOf(s \o t, Len(s), t)
BY JoinsAny DEF Texts

\* A part of a part is a part.
LEMMA PartOfPart ==
  ASSUME NEW w \in Texts, NEW s \in Texts, NEW t \in Texts, NEW pos \in Nat, NEW b \in Nat,
         PartOf(w, pos, s), PartOf(s, b, t)
  PROVE  PartOf(w, pos + b, t)
<1>1. Len(w) \in Nat /\ Len(s) \in Nat /\ Len(t) \in Nat
  BY DEF Texts
<1>2. (pos + b) + Len(t) <= Len(w)
  BY <1>1 DEF PartOf
<1>3. \A k \in 1 .. Len(t) : w[(pos + b) + k] = t[k]
  <2> TAKE k \in 1 .. Len(t)
  <2>1. b + k \in 1 .. Len(s) /\ (pos + b) + k = pos + (b + k)
    BY <1>1 DEF PartOf
  <2>2. w[pos + (b + k)] = s[b + k]
    BY <2>1 DEF PartOf
  <2>3. s[b + k] = t[k]
    BY DEF PartOf
  <2> QED
    BY <2>1, <2>2, <2>3
<1> QED
  BY <1>2, <1>3 DEF PartOf

\* What is put behind a text disturbs none of its parts.
LEMMA StaysPart ==
  ASSUME NEW s \in Texts, NEW t \in Texts, NEW u \in Texts, NEW pos \in Nat, PartOf(s, pos, u)
  PROVE  PartOf(s \o t, pos, u)
<1>1. PartOf(s \o t, 0, s) /\ s \o t \in Texts
  BY Joins
<1>2. PartOf(s \o t, 0 + pos, u)
  BY <1>1, PartOfPart
<1>3. 0 + pos = pos
  OBVIOUS
<1> QED
  BY <1>2, <1>3

\* A text with something in it.
LEMMA NotEmpty ==
  ASSUME NEW p \in Texts, Len(p) > 0
  PROVE  p # << >> /\ DOMAIN p = 1 .. Len(p)
BY DEF Texts

\* The digits are different characters, and none of them is a sign.
LEMMA DigitsDiffer == \A u, v \in 0 .. 15 : Digits[u + 1] = Digits[v + 1] => u = v
<1> SUFFICES ASSUME NEW u \in 0 .. 15, NEW v \in 0 .. 15, Digits[u + 1] = Digits[v + 1]
             PROVE  u = v
  OBVIOUS
<1> QED
  BY DEF Digits

\* A digit is a character that starts no sign, prefix, comment or gap.
LEMMA NoDigitIsSign == \A v \in 0 .. 15 : /\ Digits[v + 1] \in Chars
                                          /\ Digits[v + 1] \notin {"x", "+", "-", "#", " "}
<1> TAKE v \in 0 .. 15
<1>1. Digits[v + 1] \notin {"x", "+", "-", "#", " "}
  <2>1. Digits[v + 1] # "x" /\ Digits[v + 1] # "+"
    BY DEF Digits
  <2>2. Digits[v + 1] # "-" /\ Digits[v + 1] # "#"
    BY DEF Digits
  <2>3. Digits[v + 1] # " "
    <3>1. Digits[v + 1] \in {"0", "1", "2", "3", "4", "5", "6", "7", "8", "9",
                            "a", "b", "c", "d", "e", "f"}
      BY DEF Digits
    <3> QED
      BY Zenon, <3>1
  <2> QED
    BY <2>1, <2>2, <2>3
<1>2. v + 1 \in 1 .. 16
  OBVIOUS
<1> QED
  BY Zenon, <1>1, <1>2 DEF Chars, TokenChars, Letters

\* Each digit stands for its place among the digits.
LEMMA DigitOfIs ==
  ASSUME NEW v \in 0 .. 15
  PROVE  DigitOf(Digits[v + 1]) = v
<1>1. \A u \in 0 .. 15 : Digits[u + 1] = Digits[v + 1] => u = v
  BY Zenon, DigitsDiffer
<1> QED
  BY Zenon, <1>1 DEF DigitOf

\* One digit of the value of a text.
Step(p, base, i, prev) == IF i = 0 THEN 0 ELSE prev * base + DigitOf(p[i])
Adds(p, base, n, f) == f = [i \in 0 .. n |-> Step(p, base, i, f[i - 1])]

\* The function that adds up the digits is the one that its recursion describes.
LEMMA AddsExist ==
  ASSUME NEW p, NEW base, NEW n \in Nat
  PROVE  \E f : Adds(p, base, n, f)
<1> DEFINE T == {k \in 0 .. n : \E f : Adds(p, base, k, f)}
<1>1. 0 \in T
  <2>1. Adds(p, base, 0, [i \in 0 .. 0 |-> 0])
    BY DEF Adds, Step
  <2> QED
    BY <2>1
<1>2. ASSUME NEW k \in 0 .. n - 1, k \in T PROVE k + 1 \in T
  <2>1. PICK f : Adds(p, base, k, f)
    BY <1>2
  <2>0. \A j \in 0 .. k : f[j] = Step(p, base, j, f[j - 1])
    BY <2>1 DEF Adds
  <2> DEFINE g == [i \in 0 .. k + 1 |-> IF i = k + 1 THEN Step(p, base, i, f[k]) ELSE f[i]]
  <2>2. \A i \in 0 .. k + 1 : g[i] = Step(p, base, i, g[i - 1])
    <3> TAKE i \in 0 .. k + 1
    <3>1. CASE i = k + 1
      <4>1. g[i] = Step(p, base, i, f[k]) /\ g[i - 1] = f[k]
        BY <3>1
      <4> HIDE DEF g
      <4> QED
        BY <4>1
    <3>2. CASE i # k + 1
      <4>1. i \in 0 .. k /\ g[i] = f[i] /\ (i # 0 => g[i - 1] = f[i - 1])
        BY <3>2
      <4>2. f[i] = Step(p, base, i, f[i - 1])
        BY <2>0, <4>1
      <4> HIDE DEF g
      <4>3. CASE i = 0
        BY <4>1, <4>2, <4>3 DEF Step
      <4>4. CASE i # 0
        BY Zenon, <4>1, <4>2, <4>4
      <4> QED
        BY <4>3, <4>4
    <3> QED
      BY <3>1, <3>2
  <2>3. Adds(p, base, k + 1, g)
    <3>1. g = [i \in 0 .. k + 1 |-> Step(p, base, i, g[i - 1])]
      BY Zenon, <2>2
    <3> HIDE DEF g
    <3> QED
      BY Zenon, <3>1 DEF Adds
  <2> QED
    BY <2>3
<1>3. \A k \in 0 .. n : k \in T
  <2> HIDE DEF T
  <2> QED
    BY <1>1, <1>2, StepByStep
<1> QED
  BY <1>3

\* The value of a text, digit by digit.
LEMMA ValuesAre ==
  ASSUME NEW p \in Texts, NEW base
  PROVE  \A i \in 0 .. Len(p) : Value(p, base)[i] = Step(p, base, i, Value(p, base)[i - 1])
<1>1. Len(p) \in Nat
  BY DEF Texts
<1>2. PICK f : Adds(p, base, Len(p), f)
  BY <1>1, AddsExist
<1>3. Adds(p, base, Len(p), Value(p, base))
  BY <1>2 DEF Adds, Step, Value
<1> QED
  BY <1>3 DEF Adds

\* The value so far is a number, and that of a text that begins like another the same.
LEMMA ValuesAgree ==
  ASSUME NEW p \in Texts, NEW q \in Texts, NEW base \in Nat,
         NEW n \in Nat, n <= Len(p), n <= Len(q),
         \A i \in 1 .. n : p[i] = q[i]
  PROVE  Value(p, base)[n] = Value(q, base)[n]
<1>0. Len(p) \in Nat /\ Len(q) \in Nat
  BY DEF Texts
<1> DEFINE T == {k \in 0 .. n : Value(p, base)[k] = Value(q, base)[k]}
<1>1. 0 \in T
  <2>1. 0 \in 0 .. Len(p) /\ 0 \in 0 .. Len(q) /\ 0 \in 0 .. n
    BY <1>0
  <2>2. Value(p, base)[0] = 0 /\ Value(q, base)[0] = 0
    BY Zenon, <2>1, ValuesAre DEF Step
  <2> QED
    BY <2>1, <2>2
<1>2. ASSUME NEW k \in 0 .. n - 1, k \in T PROVE k + 1 \in T
  <2>1. /\ k + 1 \in 0 .. Len(p) /\ k + 1 \in 0 .. Len(q) /\ k + 1 \in 1 .. n /\ k + 1 # 0
        /\ (k + 1) - 1 = k /\ k + 1 \in 0 .. n
    BY <1>0
  <2>2. /\ Value(p, base)[k + 1] = Step(p, base, k + 1, Value(p, base)[(k + 1) - 1])
        /\ Value(q, base)[k + 1] = Step(q, base, k + 1, Value(q, base)[(k + 1) - 1])
    BY Zenon, <2>1, ValuesAre
  <2>3. Value(p, base)[k] = Value(q, base)[k] /\ p[k + 1] = q[k + 1]
    BY Zenon, <1>2, <2>1
  <2>4. Value(p, base)[k + 1] = Value(q, base)[k + 1]
    BY Zenon, <2>1, <2>2, <2>3 DEF Step
  <2> QED
    BY Zenon, <2>1, <2>4
<1>3. \A k \in 0 .. n : k \in T
  <2> HIDE DEF T
  <2> QED
    BY <1>1, <1>2, StepByStep
<1> QED
  BY <1>3

\* A digit more.
LEMMA DigitAdded ==
  ASSUME NEW p \in Texts, NEW base \in Nat, NEW d \in 0 .. 15
  PROVE  /\ p \o <<Digits[d + 1]>> \in Texts
         /\ Len(p \o <<Digits[d + 1]>>) = Len(p) + 1
         /\ \A i \in 1 .. Len(p) : (p \o <<Digits[d + 1]>>)[i] = p[i]
         /\ (p \o <<Digits[d + 1]>>)[Len(p) + 1] = Digits[d + 1]
         /\ Value(p \o <<Digits[d + 1]>>, base)[Len(p) + 1] = Value(p, base)[Len(p)] * base + d
<1> DEFINE c == Digits[d + 1]
           q == p \o <<c>>
<1>1. c \in Chars /\ DigitOf(c) = d
  BY NoDigitIsSign, DigitOfIs
<1> HIDE DEF c
<1>2. PICK m \in Nat : m = Len(p)
  BY DEF Texts
<1>3. q \in Texts /\ Len(q) = m + 1 /\ (\A i \in 1 .. m : q[i] = p[i]) /\ q[m + 1] = c
  BY <1>1, <1>2 DEF Texts
<1> HIDE DEF q
<1>4. Value(q, base)[m] = Value(p, base)[m]
  BY <1>2, <1>3, ValuesAgree
<1>5. Value(q, base)[m + 1] = Step(q, base, m + 1, Value(q, base)[(m + 1) - 1])
  <2>1. m + 1 \in 0 .. Len(q)
    BY <1>3
  <2> QED
    BY Zenon, <1>3, <2>1, ValuesAre
<1>6. Value(q, base)[m + 1] = Value(p, base)[m] * base + d
  <2>1. m + 1 # 0 /\ (m + 1) - 1 = m
    OBVIOUS
  <2> QED
    BY Zenon, <1>1, <1>3, <1>4, <1>5, <2>1 DEF Step
<1> QED
  BY Zenon, <1>2, <1>3, <1>6 DEF c, q

-----------------------------------------------------------------------------
(* A number as it is printed.                                              *)

Bases == {10, 16}

\* Before its last digit, and its last digit.
LEMMA LastDigit ==
  ASSUME NEW base \in Bases, NEW k \in Nat
  PROVE  /\ k \div base \in Nat /\ k % base \in 0 .. base - 1
         /\ k = (k \div base) * base + (k % base)
         /\ base <= k => k \div base > 0 /\ k \div base < k
<1>1. CASE base = 10
  BY <1>1
<1>2. CASE base = 16
  BY <1>2
<1> QED
  BY <1>1, <1>2 DEF Bases

Digit(k, base, prev) ==
  IF k < base THEN <<Digits[k + 1]>> ELSE prev \o <<Digits[(k % base) + 1]>>
Prints(n, base, f) == f = [k \in 0 .. n |-> Digit(k, base, f[k \div base])]

\* There are the printed forms of all numbers up to n.
LEMMA PrintsExist ==
  ASSUME NEW base \in Bases, NEW n \in Nat
  PROVE  \E f : Prints(n, base, f)
<1>0. base \in Nat /\ base > 0
  BY DEF Bases
<1> DEFINE T == {k \in 0 .. n : \E f : Prints(k, base, f)}
<1>1. 0 \in T
  <2> DEFINE f == [k \in 0 .. 0 |-> <<Digits[1]>>]
  <2>1. \A k \in 0 .. 0 : f[k] = Digit(k, base, f[k \div base])
    BY <1>0 DEF Digit
  <2>2. f = [k \in 0 .. 0 |-> Digit(k, base, f[k \div base])]
    BY Zenon, <2>1
  <2>3. Prints(0, base, f)
    <3> HIDE DEF f
    <3> QED
      BY Zenon, <2>2 DEF Prints
  <2> QED
    BY <2>3
<1>2. ASSUME NEW k \in 0 .. n - 1, k \in T PROVE k + 1 \in T
  <2>1. PICK f : Prints(k, base, f)
    BY <1>2
  <2>0. \A j \in 0 .. k : f[j] = Digit(j, base, f[j \div base])
    BY <2>1 DEF Prints
  <2> DEFINE g == [i \in 0 .. k + 1 |-> IF i = k + 1 THEN Digit(i, base, f[i \div base]) ELSE f[i]]
  <2>2. \A i \in 0 .. k + 1 : g[i] = Digit(i, base, g[i \div base])
    <3> TAKE i \in 0 .. k + 1
    <3>1. CASE i < base
      <4>1. g[i] = Digit(i, base, f[i \div base])
        BY <2>0, <3>1
      <4> HIDE DEF g
      <4> QED
        BY Zenon, <3>1, <4>1 DEF Digit
    <3>2. CASE ~ (i < base)
      <4>1. i \div base \in 0 .. k
        <5>1. i \div base \in Nat /\ i \div base < i
          BY <1>0, <3>2, LastDigit
        <5> QED
          BY <5>1
      <4>2. g[i \div base] = f[i \div base]
        <5>1. i \div base \in 0 .. k + 1 /\ i \div base # k + 1
          BY <4>1
        <5> QED
          BY Zenon, <5>1
      <4>3. g[i] = Digit(i, base, f[i \div base])
        <5>1. CASE i = k + 1
          BY Zenon, <5>1
        <5>2. CASE i # k + 1
          <6>1. i \in 0 .. k
            BY <5>2
          <6> QED
            BY Zenon, <2>0, <5>2, <6>1
        <5> QED
          BY <5>1, <5>2
      <4> HIDE DEF g
      <4> QED
        BY Zenon, <4>2, <4>3
    <3> QED
      BY <3>1, <3>2
  <2>3. Prints(k + 1, base, g)
    <3>1. g = [i \in 0 .. k + 1 |-> Digit(i, base, g[i \div base])]
      BY Zenon, <2>2
    <3> HIDE DEF g
    <3> QED
      BY Zenon, <3>1 DEF Prints
  <2>4. k + 1 \in 0 .. n
    OBVIOUS
  <2> QED
    BY Zenon, <2>3, <2>4
<1>3. \A k \in 0 .. n : k \in T
  <2> HIDE DEF T
  <2> QED
    BY <1>1, <1>2, StepByStep
<1>4. n \in 0 .. n
  OBVIOUS
<1> QED
  BY Zenon, <1>3, <1>4

\* p is a number in digits, of which the first is 0 only if it is the only one.
Reads(p, k, base) ==
  /\ p \in Texts /\ Len(p) > 0
  /\ \A i \in 1 .. Len(p) : \E d \in 0 .. base - 1 : p[i] = Digits[d + 1]
  /\ p[1] = Digits[1] => k = 0 /\ Len(p) = 1
  /\ Value(p, base)[Len(p)] = k

\* A number below the base is one digit ...
LEMMA OneDigitReads ==
  ASSUME NEW base \in Bases, NEW k \in 0 .. base - 1
  PROVE  Reads(<<Digits[k + 1]>>, k, base)
<1> DEFINE e == << >>
           p == e \o <<Digits[k + 1]>>
<1>0. base \in Nat /\ base <= 16 /\ base > 0 /\ k \in 0 .. 15
  BY DEF Bases
<1>1. e \in Texts /\ Len(e) = 0 /\ 0 \in 0 .. Len(e)
  BY DEF Texts
<1>2. Value(e, base)[0] = 0
  BY Zenon, <1>1, ValuesAre DEF Step
<1>3. <<Digits[k + 1]>> = p
  OBVIOUS
<1> HIDE DEF e
<1>4. /\ p \in Texts /\ Len(p) = 0 + 1 /\ p[0 + 1] = Digits[k + 1]
      /\ Value(p, base)[0 + 1] = 0 * base + k
  <2>1. /\ p \in Texts /\ Len(p) = Len(e) + 1 /\ p[Len(e) + 1] = Digits[k + 1]
        /\ Value(p, base)[Len(e) + 1] = Value(e, base)[Len(e)] * base + k
    BY Zenon, <1>0, <1>1, DigitAdded
  <2> HIDE DEF p
  <2> QED
    BY Zenon, <1>1, <1>2, <2>1
<1>5. p[1] = Digits[1] => k = 0
  <2>1. Digits[k + 1] = Digits[0 + 1] => k = 0
    <3>1. 0 \in 0 .. 15
      OBVIOUS
    <3> QED
      BY Zenon, <1>0, <3>1, DigitsDiffer
  <2> QED
    BY <1>4, <2>1
<1> HIDE DEF p
<1>6. Value(p, base)[Len(p)] = k
  BY <1>0, <1>4
<1>7. \A i \in 1 .. Len(p) : \E d \in 0 .. base - 1 : p[i] = Digits[d + 1]
  <2> TAKE i \in 1 .. Len(p)
  <2>1. i = 0 + 1
    BY <1>4
  <2> QED
    BY Zenon, <1>4, <2>1
<1>8. Len(p) > 0 /\ Len(p) = 1
  BY <1>4
<1>9. Reads(p, k, base)
  BY Zenon, <1>4, <1>5, <1>6, <1>7, <1>8 DEF Reads
<1> QED
  BY Zenon, <1>3, <1>9

\* ... and one digit more makes a printed k \div base a printed k.
LEMMA DigitMoreReads ==
  ASSUME NEW base \in Bases, NEW k \in Nat, base <= k, NEW q, Reads(q, k \div base, base)
  PROVE  Reads(q \o <<Digits[(k % base) + 1]>>, k, base)
<1> DEFINE d == k % base
           j == k \div base
           p == q \o <<Digits[d + 1]>>
<1>0. base \in Nat /\ base <= 16 /\ base > 0
  BY DEF Bases
<1>1. d \in 0 .. base - 1 /\ j \in Nat /\ j > 0 /\ k = j * base + d
  BY LastDigit
<1>2. Reads(q, j, base)
  OBVIOUS
<1>9. Reads(p, k, base) <=> Reads(q \o <<Digits[(k % base) + 1]>>, k, base)
  OBVIOUS
<1> HIDE DEF d, j
<1>3. d \in 0 .. 15
  BY <1>0, <1>1
<1>4. q \in Texts /\ Len(q) > 0 /\ Value(q, base)[Len(q)] = j
  BY <1>2 DEF Reads
<1>5. PICK m \in Nat : m = Len(q)
  BY <1>4 DEF Texts
<1>6. /\ p \in Texts /\ Len(p) = m + 1 /\ \A i \in 1 .. m : p[i] = q[i]
      /\ p[m + 1] = Digits[d + 1] /\ Value(p, base)[m + 1] = j * base + d
  BY Zenon, <1>0, <1>3, <1>4, <1>5, DigitAdded
<1> HIDE DEF p
<1>7. \A i \in 1 .. Len(p) : \E v \in 0 .. base - 1 : p[i] = Digits[v + 1]
  <2> TAKE i \in 1 .. Len(p)
  <2>1. CASE i = m + 1
    BY Zenon, <1>1, <1>6, <2>1
  <2>2. CASE i # m + 1
    <3>1. i \in 1 .. m
      BY <1>6, <2>2
    <3> QED
      BY Zenon, <1>2, <1>5, <1>6, <3>1 DEF Reads
  <2> QED
    BY <2>1, <2>2
<1>8. p[1] # Digits[1]
  <2>1. 1 \in 1 .. m /\ j # 0
    BY <1>1, <1>4, <1>5
  <2>2. q[1] # Digits[1]
    BY Zenon, <1>2, <2>1 DEF Reads
  <2> QED
    BY Zenon, <1>6, <2>1, <2>2
<1>10. Len(p) > 0 /\ Value(p, base)[Len(p)] = k
  BY <1>1, <1>6
<1>11. Reads(p, k, base)
  BY Zenon, <1>6, <1>7, <1>8, <1>10 DEF Reads
<1> QED
  BY <1>9, <1>11

\* Whatever number is printed: its digits are those of the number.
LEMMA PrintedReads ==
  ASSUME NEW base \in Bases, NEW n \in Nat
  PROVE  Reads(Printed(n, base), n, base)
<1>0. base \in Nat
  BY DEF Bases
<1>1. PICK f : Prints(n, base, f)
  BY PrintsExist
<1> DEFINE g == CHOOSE g : Prints(n, base, g)
<1>2. Prints(n, base, g)
  BY <1>1
<1>3. Printed(n, base) = g[n]
  BY DEF Printed, Prints, Digit
<1> HIDE DEF g
<1>4. \A k \in 0 .. n : g[k] = Digit(k, base, g[k \div base])
  BY <1>2 DEF Prints
<1> DEFINE S == {k \in 0 .. n : ~ Reads(g[k], k, base)}
<1>5. S = {}
  <2> SUFFICES ASSUME S # {} PROVE FALSE
    OBVIOUS
  <2>1. S \subseteq Nat
    OBVIOUS
  <2>2. PICK k \in S : \A i \in S : k <= i
    BY <2>1, LeastNatural
  <2>3. k \in 0 .. n /\ k \in Nat /\ ~ Reads(g[k], k, base)
    BY <2>2
  <2>4. g[k] = Digit(k, base, g[k \div base])
    BY <1>4, <2>3
  <2>5. CASE k < base
    <3>1. k \in 0 .. base - 1 /\ g[k] = <<Digits[k + 1]>>
      BY <1>0, <2>3, <2>4, <2>5 DEF Digit
    <3> QED
      BY Zenon, <2>3, <3>1, OneDigitReads
  <2>6. CASE ~ (k < base)
    <3>1. base <= k /\ g[k] = g[k \div base] \o <<Digits[(k % base) + 1]>>
      BY <1>0, <2>3, <2>4, <2>6 DEF Digit
    <3>2. k \div base \in 0 .. n /\ ~ (k <= k \div base)
      <4>1. k \div base \in Nat /\ k \div base < k
        BY <2>3, <3>1, LastDigit
      <4> QED
        BY <2>3, <4>1
    <3>3. Reads(g[k \div base], k \div base, base)
      BY <2>2, <3>2
    <3> QED
      BY Zenon, <2>3, <3>1, <3>3, DigitMoreReads
  <2> QED
    BY <2>5, <2>6
<1>6. n \in 0 .. n
  OBVIOUS
<1>7. Reads(g[n], n, base)
  BY <1>5, <1>6
<1> QED
  BY Zenon, <1>3, <1>7

\* What a text is read as that is n in digits of its base.
Within(n, limit) == IF n <= limit THEN {n} ELSE Refused

\* The digits of n are read as n, as far as the limit allows.
LEMMA MagnitudeIs ==
  ASSUME NEW t, NEW p \in Texts, p = (IF Base(t) = 16 THEN SubSeq(t, 3, Len(t)) ELSE t),
         Len(p) > 0, \A i \in 1 .. Len(p) : IsDigit(p[i], Base(t)),
         NEW n, Value(p, Base(t))[Len(p)] = n, NEW limit
  PROVE  Magnitude(t, limit) = Within(n, limit)
<1>1. p # << >> /\ DOMAIN p = 1 .. Len(p)
  BY Zenon, NotEmpty
<1> QED
  BY Zenon, <1>1 DEF Magnitude, Within

\* A printed number has digits of its base only.
LEMMA ReadsDigits ==
  ASSUME NEW base \in Bases, NEW n, NEW p, Reads(p, n, base)
  PROVE  \A i \in 1 .. Len(p) : IsDigit(p[i], base)
<1> TAKE i \in 1 .. Len(p)
<1>1. PICK d \in 0 .. base - 1 : p[i] = Digits[d + 1]
  BY Zenon DEF Reads
<1>2. d + 1 \in 1 .. base
  BY DEF Bases
<1> QED
  BY Zenon, <1>1, <1>2 DEF IsDigit

\* The first character of a number is no sign.
LEMMA NoSignFirst ==
  ASSUME NEW base \in Bases, NEW n, NEW p, Reads(p, n, base)
  PROVE  ~ StartsWith(p, "-") /\ ~ StartsWith(p, "+")
<1>1. Len(p) \in Nat /\ Len(p) > 0
  BY DEF Reads, Texts
<1>2. PICK d \in 0 .. base - 1 : p[1] = Digits[d + 1]
  <2>1. 1 \in 1 .. Len(p)
    BY <1>1
  <2> QED
    BY Zenon, <2>1 DEF Reads
<1>3. d \in 0 .. 15
  BY DEF Bases
<1> QED
  BY Zenon, <1>2, <1>3, NoDigitIsSign DEF StartsWith

\* A number printed in decimal is read as it is, and has no sign in front ...
LEMMA DecimalIsRead ==
  ASSUME NEW n \in Nat, NEW limit
  PROVE  /\ Magnitude(Printed(n, 10), limit) = Within(n, limit)
         /\ ~ StartsWith(Printed(n, 10), "-") /\ ~ StartsWith(Printed(n, 10), "+")
<1> DEFINE p == Printed(n, 10)
<1>1. 10 \in Bases /\ Reads(p, n, 10)
  BY PrintedReads DEF Bases
<1> HIDE DEF p
<1>2. ~ StartsWith(p, "-") /\ ~ StartsWith(p, "+")
  BY Zenon, <1>1, NoSignFirst
<1>3. p \in Texts /\ Len(p) \in Nat /\ Len(p) > 0 /\ p # << >>
  BY <1>1 DEF Reads, Texts
<1>4. Digits[1] = "0" /\ Digits[0 + 1] = Digits[1]
  BY DEF Digits
<1>5. CASE p[1] # "0"
  <2>1. Base(p) = 10 /\ Base(p) # 16
    BY <1>5 DEF Base, StartsWith
  <2>2. \A i \in 1 .. Len(p) : IsDigit(p[i], 10)
    BY Zenon, <1>1, ReadsDigits
  <2>3. Value(p, 10)[Len(p)] = n
    BY Zenon, <1>1 DEF Reads
  <2>4. Magnitude(p, limit) = Within(n, limit)
    BY Zenon, <1>3, <2>1, <2>2, <2>3, MagnitudeIs
  <2> QED
    BY Zenon, <1>2, <2>4 DEF p
<1>6. CASE p[1] = "0"
  <2>1. n = 0 /\ Len(p) = 1
    BY Zenon, <1>1, <1>4, <1>6 DEF Reads
  <2>2. Base(p) = 8 /\ Base(p) # 16
    BY <1>3, <1>6, <2>1 DEF Base, StartsWith
  <2>3. \A i \in 1 .. Len(p) : IsDigit(p[i], 8)
    <3> TAKE i \in 1 .. Len(p)
    <3>1. i = 1 /\ 1 \in 1 .. 8
      BY <2>1
    <3> QED
      BY Zenon, <1>4, <1>6, <3>1 DEF IsDigit
  <2>4. Value(p, 8)[1] = 0
    <3>1. /\ 1 \in 0 .. Len(p) /\ 1 - 1 = 0 /\ 0 \in 0 .. Len(p) /\ 1 # 0 /\ 0 \in 0 .. 15
      BY <2>1
    <3>2. Value(p, 8)[0] = 0
      BY Zenon, <1>3, <3>1, ValuesAre DEF Step
    <3>3. Value(p, 8)[1] = Value(p, 8)[0] * 8 + DigitOf(p[1])
      BY Zenon, <1>3, <3>1, ValuesAre DEF Step
    <3>4. DigitOf(p[1]) = 0
      BY Zenon, <1>4, <1>6, <3>1, DigitOfIs
    <3> QED
      BY <3>2, <3>3, <3>4
  <2>5. Magnitude(p, limit) = Within(n, limit)
    <3>1. Value(p, Base(p))[Len(p)] = n
      BY Zenon, <2>1, <2>2, <2>4
    <3> QED
      BY Zenon, <1>3, <2>2, <2>3, <3>1, MagnitudeIs
  <2> QED
    BY Zenon, <1>2, <2>5 DEF p
<1> QED
  BY <1>5, <1>6

\* ... and so is one printed in hexadecimal, behind its prefix.
LEMMA HexadecimalIsRead ==
  ASSUME NEW n \in Nat, NEW limit
  PROVE  /\ Magnitude(Hexadecimal(n), limit) = Within(n, limit)
         /\ Hexadecimal(n) \in Texts
         /\ ~ StartsWith(Hexadecimal(n), "-") /\ ~ StartsWith(Hexadecimal(n), "+")
<1> DEFINE p == Printed(n, 16)
           e == <<"0", "x">>
           t == e \o p
<1>1. 16 \in Bases /\ Reads(p, n, 16)
  BY PrintedReads DEF Bases
<1> HIDE DEF p
<1>2. \A i \in 1 .. Len(p) : IsDigit(p[i], 16)
  BY Zenon, <1>1, ReadsDigits
<1>3. p \in Texts /\ Value(p, 16)[Len(p)] = n
  BY Zenon, <1>1 DEF Reads
<1>4. PICK m \in Nat : m = Len(p) /\ m > 0
  BY <1>1 DEF Reads, Texts
<1>5. e \in Texts /\ Len(e) = 2 /\ e[1] = "0" /\ e[2] = "x"
  <2>1. "0" \in Chars
    <3>1. Digits[1] = "0" /\ 1 \in 1 .. 16
      BY DEF Digits
    <3> QED
      BY Zenon, <3>1 DEF Chars, TokenChars, Letters
  <2>2. "x" \in Chars
    BY Zenon DEF Chars, TokenChars, Letters
  <2> QED
    BY <2>1, <2>2 DEF Texts
<1> HIDE DEF e
<1>6. /\ t \in Texts /\ Len(t) = m + 2 /\ t[1] = "0" /\ t[2] = "x"
      /\ \A i \in 1 .. m : t[i + 2] = p[i]
  <2>1. t \in Texts /\ Len(t) = Len(e) + Len(p) /\ PartOf(t, 0, e) /\ PartOf(t, Len(e), p)
    BY Zenon, <1>3, <1>5, Joins
  <2> HIDE DEF t
  <2>2. \A i \in 1 .. m : t[2 + i] = p[i]
    BY Zenon, <1>4, <1>5, <2>1 DEF PartOf
  <2>3. t[0 + 1] = e[1] /\ t[0 + 2] = e[2]
    <3>1. 1 \in 1 .. Len(e) /\ 2 \in 1 .. Len(e)
      BY <1>5
    <3> QED
      BY Zenon, <2>1, <3>1 DEF PartOf
  <2> QED
    BY <1>4, <1>5, <2>1, <2>2, <2>3
<1>7. Hexadecimal(n) = t
  BY DEF Hexadecimal, e, p
<1> HIDE DEF t
<1>8. Base(t) = 16
  <2>1. 1 \in 1 .. m /\ 1 + 2 = 3 /\ Len(t) > 2 /\ t # << >>
    BY <1>4, <1>6 DEF Texts
  <2>2. IsDigit(t[3], 16)
    BY Zenon, <1>2, <1>4, <1>6, <2>1
  <2> QED
    BY Zenon, <1>6, <2>1, <2>2 DEF Base, StartsWith
<1>9. SubSeq(t, 3, Len(t)) = p
  <2> DEFINE u == SubSeq(t, 3, Len(t))
  <2>1. u \in Texts /\ Len(u) = m /\ \A i \in 1 .. m : u[i] = t[i + 2]
    BY <1>6 DEF Texts
  <2> HIDE DEF u
  <2>2. u = p
    BY <1>3, <1>4, <1>6, <2>1 DEF Texts
  <2> QED
    BY <2>2 DEF u
<1>10. Magnitude(t, limit) = Within(n, limit)
  <2>1. Len(p) > 0
    BY <1>4
  <2> QED
    BY Zenon, <1>2, <1>3, <1>8, <1>9, <2>1, MagnitudeIs
<1>11. ~ StartsWith(t, "-") /\ ~ StartsWith(t, "+")
  BY <1>6 DEF StartsWith
<1> QED
  BY Zenon, <1>6, <1>7, <1>10, <1>11

\* Both are read by parse_u64 as the number they were printed from.
LEMMA AddressesComeBack ==
  ASSUME NEW n \in Nat
  PROVE  /\ parse_u64(Printed(n, 10)) = Within(n, WORDS - 1)
         /\ parse_u64(Hexadecimal(n)) = Within(n, WORDS - 1)
BY Zenon, DecimalIsRead, HexadecimalIsRead DEF parse_u64, Unsigned

\* parse_word reads both signs; the most negative word has room, its opposite has not.
LEMMA WordsComeBack ==
  ASSUME NEW n \in Int
  PROVE  parse_word(Decimal(n)) = {n} \cap (-HALF .. HALF - 1)
<1>0. HALF \in Nat
  BY TraceLineAssumption
<1>1. CASE n >= 0
  <2>1. n \in Nat /\ ~ (n < 0)
    BY <1>1
  <2>2. parse_word(Decimal(n)) = Within(n, HALF - 1)
    BY Zenon, <2>1, DecimalIsRead DEF parse_word, Decimal, Unsigned
  <2> QED
    BY <1>0, <2>1, <2>2 DEF Within, Refused
<1>2. CASE n < 0
  <2> DEFINE p == Printed(-n, 10)
             e == <<"-">>
             t == e \o p
  <2>1. -n \in Nat
    BY <1>2
  <2>2. Magnitude(p, HALF) = Within(-n, HALF)
    BY Zenon, <2>1, DecimalIsRead
  <2>3. 10 \in Bases /\ Reads(p, -n, 10)
    BY <2>1, PrintedReads DEF Bases
  <2> HIDE DEF p
  <2>4. p \in Texts
    BY <2>3 DEF Reads
  <2>5. e \in Texts /\ Len(e) = 1 /\ e[1] = "-"
    <3>1. "-" \in Chars
      BY Zenon DEF Chars, TokenChars, Letters
    <3> QED
      BY <3>1 DEF Texts
  <2> HIDE DEF e
  <2>6. t \in Texts /\ Len(t) = Len(p) + 1 /\ t[1] = "-" /\ t # << >>
        /\ \A i \in 1 .. Len(p) : t[i + 1] = p[i]
    <3>1. t \in Texts /\ Len(t) = Len(e) + Len(p) /\ PartOf(t, 0, e) /\ PartOf(t, Len(e), p)
      BY Zenon, <2>4, <2>5, Joins
    <3> HIDE DEF t
    <3>2. PICK m \in Nat : m = Len(p)
      BY <2>4 DEF Texts
    <3>3. \A i \in 1 .. m : t[1 + i] = p[i]
      BY Zenon, <2>5, <3>1, <3>2 DEF PartOf
    <3>4. t[0 + 1] = e[1]
      <4>1. 1 \in 1 .. Len(e)
        BY <2>5
      <4> QED
        BY Zenon, <3>1, <4>1 DEF PartOf
    <3>5. Len(t) > 0
      BY <2>5, <3>1, <3>2
    <3>6. t # << >>
      BY Zenon, <3>1, <3>5, NotEmpty
    <3> QED
      BY <2>5, <3>1, <3>2, <3>3, <3>4, <3>6
  <2>7. Decimal(n) = t
    BY <1>2 DEF Decimal, e, p
  <2> HIDE DEF t
  <2>8. Tail(t) = p
    <3> DEFINE u == Tail(t)
    <3>1. u \in Texts /\ Len(u) = Len(p) /\ \A i \in 1 .. Len(p) : u[i] = t[i + 1]
      BY <2>4, <2>6 DEF Texts
    <3> HIDE DEF u
    <3>2. u = p
      BY <2>4, <2>6, <3>1 DEF Texts
    <3> QED
      BY <3>2 DEF u
  <2>9. parse_word(t) = {-m : m \in Within(-n, HALF)}
    BY Zenon, <2>2, <2>6, <2>8 DEF parse_word, StartsWith
  <2>10. parse_word(t) = {n} \cap (-HALF .. HALF - 1)
    BY <1>0, <1>2, <2>9 DEF Within, Refused
  <2> QED
    BY <2>7, <2>10
<1> QED
  BY <1>1, <1>2

\* Numbers come back, whatever the number of bits.
LEMMA NumbersAreRead == NumbersComeBack
<1>0. HALF \in Nat \ {0} /\ WORDS = 2 * HALF
  BY TraceLineAssumption DEF WORDS
<1>1. ASSUME NEW n \in 0 .. 2 * WORDS
      PROVE  LET meant == IF n < WORDS THEN {n} ELSE Refused
             IN  parse_u64(Decimal(n)) = meant /\ parse_u64(Hexadecimal(n)) = meant
  <2>1. n \in Nat /\ ~ (n < 0)
    BY <1>0
  <2>2. Decimal(n) = Printed(n, 10)
    BY Zenon, <2>1 DEF Decimal
  <2>3. Within(n, WORDS - 1) = IF n < WORDS THEN {n} ELSE Refused
    BY <1>0, <2>1 DEF Within
  <2> QED
    BY Zenon, <2>1, <2>2, <2>3, AddressesComeBack
<1>2. ASSUME NEW n \in -WORDS .. WORDS
      PROVE  parse_word(Decimal(n)) = {n} \cap (-HALF .. HALF - 1)
  <2>1. n \in Int
    BY <1>0
  <2> QED
    BY <2>1, WordsComeBack
<1> QED
  BY Zenon, <1>1, <1>2 DEF NumbersComeBack

\* SubSeq cuts out a part.
LEMMA SubSeqAny ==
  ASSUME NEW C, NEW w \in Seq(C), NEW t \in Seq(C), NEW pos \in Nat, PartOf(w, pos, t),
         NEW last, last = pos + Len(t)
  PROVE  SubSeq(w, pos + 1, last) = t
<1>1. Len(w) \in Nat /\ Len(t) \in Nat
  OBVIOUS
<1>2. pos + Len(t) <= Len(w) /\ \A k \in 1 .. Len(t) : w[pos + k] = t[k]
  BY DEF PartOf
<1> DEFINE u == SubSeq(w, pos + 1, last)
<1>3. u \in Seq(C) /\ Len(u) = Len(t) /\ \A k \in 1 .. Len(t) : u[k] = w[pos + k]
  BY <1>1, <1>2
<1> HIDE DEF u
<1>4. \A k \in 1 .. Len(t) : u[k] = t[k]
  BY <1>2, <1>3
<1>5. u = t
  BY <1>1, <1>3, <1>4
<1> QED
  BY <1>5 DEF u

\* A part is what SubSeq takes from its place.
LEMMA SubSeqIs ==
  ASSUME NEW w \in Texts, NEW t \in Texts, NEW pos \in Nat, PartOf(w, pos, t),
         NEW last, last = pos + Len(t)
  PROVE  SubSeq(w, pos + 1, last) = t
BY SubSeqAny DEF Texts

Cut(w, first, last) == SubSeq(w, first, last)

\* The same by the name of Cut.
LEMMA PartIsCut ==
  ASSUME NEW w \in Texts, NEW t \in Texts, NEW pos \in Nat, PartOf(w, pos, t),
         NEW first, first = pos + 1, NEW last, last = pos + Len(t)
  PROVE  Cut(w, first, last) = t
<1>1. SubSeq(w, pos + 1, last) = t
  BY SubSeqIs
<1> QED
  BY Zenon, <1>1 DEF Cut

-----------------------------------------------------------------------------
(* Names.                                                                  *)

\* A name, which begins with a letter, is no number.
LEMMA LettersAreNoDigits == \A v \in 1 .. 10 : Digits[v] \notin Letters
BY DEF Digits, Letters

\* A name is not empty, not too long, no number, and holds no + sign.
LEMMA NamesHaveNoSign ==
  ASSUME NEW t \in Texts, valid_name(t)
  PROVE  /\ Len(t) \in Nat /\ Len(t) > 0 /\ Len(t) <= MAX_NAME_LENGTH
         /\ ~ IsDigit(t[1], 10) /\ \A i \in 1 .. Len(t) : t[i] # "+"
<1>1. Len(t) \in Nat /\ Len(t) > 0 /\ DOMAIN t = 1 .. Len(t)
  <2>1. t # << >>
    BY Zenon DEF valid_name
  <2> QED
    BY <2>1 DEF Texts
<1>2. ~ IsDigit(t[1], 10)
  BY Zenon, LettersAreNoDigits DEF valid_name, IsDigit
<1>3. ASSUME NEW i \in 1 .. Len(t) PROVE t[i] # "+"
  <2>1. CASE t[i] \in Letters \cup {"_"}
    BY Zenon, <2>1 DEF Letters
  <2>2. CASE IsDigit(t[i], 10)
    <3>1. PICK v \in 1 .. 10 : Digits[v] = t[i]
      BY Zenon, <2>2 DEF IsDigit
    <3>2. v - 1 \in 0 .. 15 /\ (v - 1) + 1 = v
      OBVIOUS
    <3> QED
      BY Zenon, <3>1, <3>2, NoDigitIsSign
  <2> QED
    BY Zenon, <1>1, <2>1, <2>2 DEF valid_name
<1> QED
  BY <1>1, <1>2, <1>3 DEF valid_name

\* A known name is the target at its start.
LEMMA NameIsTarget ==
  ASSUME NEW t \in Texts, valid_name(t), NEW start, t \in DOMAIN start
  PROVE  parse_target(t, start) = {(start[t] + 0) % WORDS}
<1>1. /\ Len(t) \in Nat /\ Len(t) <= MAX_NAME_LENGTH
      /\ ~ IsDigit(t[1], 10) /\ \A i \in 1 .. Len(t) : t[i] # "+"
  BY NamesHaveNoSign
<1>2. MAX_NAME_LENGTH \in Nat /\ ~ (Len(t) > MAX_NAME_LENGTH)
  BY <1>1, TraceLineAssumption
<1>3. {i \in 1 .. Len(t) : t[i] = "+"} = {}
  BY Zenon, <1>1
<1>4. SelectInSeq(t, LAMBDA c : c = "+") = 0
  BY Zenon, <1>3 DEF SelectInSeq
<1> QED
  BY Zenon, <1>1, <1>2, <1>4 DEF parse_target

TargetIs(u, start, t, h) == parse_target(u, start) = {(start[t] + n) % WORDS : n \in parse_u64(h)}

\* With an offset behind it, it is the target so far behind its start.
LEMMA NameAndOffset ==
  ASSUME NEW t \in Texts, valid_name(t), NEW start, t \in DOMAIN start,
         NEW h \in Texts, NEW u, u = t \o <<"+">> \o h
  PROVE  TargetIs(u, start, t, h)
<1>1. /\ Len(t) \in Nat /\ Len(t) > 0 /\ Len(t) <= MAX_NAME_LENGTH
      /\ ~ IsDigit(t[1], 10) /\ \A i \in 1 .. Len(t) : t[i] # "+"
  BY NamesHaveNoSign
<1>2. MAX_NAME_LENGTH \in Nat /\ ~ (Len(t) > MAX_NAME_LENGTH)
  BY <1>1, TraceLineAssumption
<1> DEFINE e == <<"+">>
           s == t \o e
           w == s \o h
<1>3. e \in Texts /\ Len(e) = 1 /\ e[1] = "+"
  <2>1. "+" \in Chars
    BY Zenon DEF Chars, TokenChars, Letters
  <2> QED
    BY <2>1 DEF Texts
<1>4. u = w
  OBVIOUS
<1> HIDE DEF e
<1>5. PICK l \in Nat : l = Len(t) /\ l > 0
  BY <1>1
<1>6. s \in Texts /\ Len(s) = Len(t) + Len(e) /\ PartOf(s, 0, t) /\ PartOf(s, Len(t), e)
  BY Zenon, <1>3, Joins
<1> HIDE DEF s
<1>7. w \in Texts /\ Len(w) = Len(s) + Len(h) /\ PartOf(w, 0, s) /\ PartOf(w, Len(s), h)
  BY Zenon, <1>6, Joins
<1> HIDE DEF w
<1>8. PICK m \in Nat : m = Len(h)
  BY DEF Texts
<1>9. Len(s) = l + 1 /\ Len(w) = l + 1 + m
  BY <1>3, <1>5, <1>6, <1>7, <1>8
<1>10. PartOf(w, 0, t)
  <2>1. \A i \in 1 .. l : i \in 1 .. l + 1 /\ 0 + i = i
    OBVIOUS
  <2>2. \A i \in 1 .. l + 1 : w[0 + i] = s[i]
    BY Zenon, <1>7, <1>9 DEF PartOf
  <2>3. \A i \in 1 .. l : s[0 + i] = t[i]
    BY Zenon, <1>5, <1>6 DEF PartOf
  <2>4. \A i \in 1 .. l : w[0 + i] = t[i]
    BY Zenon, <2>1, <2>2, <2>3
  <2>5. 0 + Len(t) <= Len(w)
    BY <1>5, <1>9
  <2> QED
    BY Zenon, <1>5, <2>4, <2>5 DEF PartOf
<1>11. w[l + 1] = "+"
  <2>1. l + 1 \in 1 .. l + 1 /\ 0 + (l + 1) = l + 1 /\ 1 \in 1 .. 1
    OBVIOUS
  <2>2. w[0 + (l + 1)] = s[l + 1]
    BY Zenon, <1>7, <1>9, <2>1 DEF PartOf
  <2>3. s[l + 1] = e[1]
    BY Zenon, <1>3, <1>5, <1>6, <2>1 DEF PartOf
  <2> QED
    BY Zenon, <1>3, <2>1, <2>2, <2>3
<1>12. \A i \in 1 .. l : w[i] = t[i]
  <2>1. \A i \in 1 .. l : w[0 + i] = t[i]
    BY Zenon, <1>5, <1>10 DEF PartOf
  <2> QED
    BY <2>1
<1>13. SelectInSeq(w, LAMBDA c : c = "+") = l + 1
  <2> DEFINE I == {i \in 1 .. Len(w) : w[i] = "+"}
  <2>1. I \subseteq Nat /\ l + 1 \in I
    BY <1>9, <1>11
  <2>2. \A i \in I : l + 1 <= i
    <3> TAKE i \in I
    <3>1. i \in 1 .. Len(w) /\ w[i] = "+"
      OBVIOUS
    <3>2. i \notin 1 .. l
      BY Zenon, <1>1, <1>5, <1>12, <3>1
    <3> QED
      BY <1>9, <3>1, <3>2
  <2>3. Min(I) = l + 1
    <3> HIDE DEF I
    <3> QED
      BY Zenon, <2>1, <2>2, MinIs
  <2> QED
    BY Zenon, <2>1, <2>3 DEF SelectInSeq
<1>14. SubSeq(w, 1, (l + 1) - 1) = t
  <2>1. 1 = 0 + 1 /\ (l + 1) - 1 = 0 + Len(t) /\ 0 \in Nat
    BY <1>5
  <2>2. Cut(w, 1, (l + 1) - 1) = t
    BY <1>7, <1>10, <2>1, PartIsCut
  <2> QED
    BY Zenon, <2>2 DEF Cut
<1>15. SubSeq(w, (l + 1) + 1, Len(w)) = h
  <2>1. Len(w) = (l + 1) + Len(h) /\ l + 1 \in Nat
    BY <1>8, <1>9
  <2>2. PartOf(w, l + 1, h)
    BY Zenon, <1>7, <1>9
  <2>3. Cut(w, (l + 1) + 1, Len(w)) = h
    BY <1>7, <2>1, <2>2, PartIsCut
  <2> QED
    BY Zenon, <2>3 DEF Cut
<1>16. ~ IsDigit(w[1], 10) /\ l + 1 # 0
  <2>1. 1 \in 1 .. l /\ l + 1 # 0
    BY <1>5
  <2> QED
    BY Zenon, <1>1, <1>12, <2>1
<1>17. parse_target(w, start) = {(start[t] + n) % WORDS : n \in parse_u64(h)}
  BY Zenon, <1>2, <1>13, <1>14, <1>15, <1>16 DEF parse_target
<1> QED
  BY Zenon, <1>4, <1>17 DEF TargetIs

\* Names are targets, whatever number of bits and length of a name.
LEMMA NamesAreRead == NamesAreTargets
<1> DEFINE start == [t \in NamesTyped |-> Len(t)]
<1>1. ASSUME NEW t \in NamesTyped
      PROVE  /\ t \in Texts /\ valid_name(t) /\ t \in DOMAIN start /\ start[t] = Len(t) /\ Len(t) \in Nat
  <2>1. PICK k \in 1 .. MAX_NAME_LENGTH + 1 : t \in [1 .. k -> {"a", "x", "0", "_", "+"}]
    BY Zenon DEF NamesTyped
  <2>2. {"a", "x", "0", "_", "+"} \subseteq Chars
    <3>1. Digits[1] = "0" /\ 1 \in 1 .. 16
      BY DEF Digits
    <3>2. "0" \in Chars
      BY Zenon, <3>1 DEF Chars, TokenChars, Letters
    <3> QED
      BY Zenon, <3>2 DEF Chars, TokenChars, Letters
  <2>3. t \in [1 .. k -> Chars] /\ k \in Nat
    <3>1. k \in Nat
      BY TraceLineAssumption
    <3>2. t \in [1 .. k -> Chars]
      BY <2>1, <2>2
    <3> QED
      BY <3>1, <3>2
  <2>4. t \in Texts /\ Len(t) \in Nat
    BY <2>3 DEF Texts
  <2>5. valid_name(t)
    BY Zenon DEF NamesTyped
  <2> QED
    BY Zenon, <2>4, <2>5
<1> HIDE DEF start
<1>2. ASSUME NEW t \in NamesTyped
      PROVE  parse_target(t, start) = {Len(t) % WORDS}
  <2>1. parse_target(t, start) = {(Len(t) + 0) % WORDS}
    BY Zenon, <1>1, NameIsTarget
  <2>2. Len(t) + 0 = Len(t)
    BY <1>1
  <2> QED
    BY Zenon, <2>1, <2>2
<1>3. ASSUME NEW t \in NamesTyped, NEW n \in {0, 9, 10, WORDS - 1} \cap 0 .. WORDS - 1
      PROVE  parse_target(t \o <<"+">> \o Hexadecimal(n), start) = {(Len(t) + n) % WORDS}
  <2>1. n \in Nat /\ n <= WORDS - 1
    BY TraceLineAssumption DEF WORDS
  <2>2. Hexadecimal(n) \in Texts /\ parse_u64(Hexadecimal(n)) = {n}
    BY Zenon, <2>1, HexadecimalIsRead, AddressesComeBack DEF Within
  <2> DEFINE h == Hexadecimal(n)
             u == t \o <<"+">> \o h
  <2>3. u = t \o <<"+">> \o h /\ h \in Texts
    BY <2>2
  <2> HIDE DEF u, h
  <2>4. TargetIs(u, start, t, h)
    BY <1>1, <2>3, NameAndOffset
  <2> QED
    BY Zenon, <1>1, <2>2, <2>4 DEF u, h, TargetIs
<1> QED
  BY Zenon, <1>2, <1>3 DEF NamesAreTargets, start

-----------------------------------------------------------------------------
(* Tokens.                                                                 *)

\* What FlattenSeq has put together of the first n sequences.
Joined(seqs, n, f) == f = [i \in 1 .. n |-> IF i = 1 THEN seqs[i] ELSE f[i - 1] \o seqs[i]]

\* What FlattenSeq puts together is what its recursion describes.
LEMMA JoinedExists ==
  ASSUME NEW seqs, NEW n \in Nat
  PROVE  \E f : Joined(seqs, n, f)
<1> DEFINE T == {k \in 0 .. n : \E f : Joined(seqs, k, f)}
<1>1. 0 \in T
  <2>1. Joined(seqs, 0, [i \in 1 .. 0 |-> 0])
    BY DEF Joined
  <2> QED
    BY <2>1
<1>2. ASSUME NEW k \in 0 .. n - 1, k \in T PROVE k + 1 \in T
  <2>1. PICK f : Joined(seqs, k, f)
    BY <1>2
  <2>0. \A j \in 1 .. k : f[j] = IF j = 1 THEN seqs[j] ELSE f[j - 1] \o seqs[j]
    BY <2>1 DEF Joined
  <2> DEFINE g == [i \in 1 .. k + 1 |-> IF i = 1 THEN seqs[i] ELSE IF i = k + 1 THEN f[k] \o seqs[i] ELSE f[i]]
  <2>2. \A i \in 1 .. k + 1 : g[i] = IF i = 1 THEN seqs[i] ELSE g[i - 1] \o seqs[i]
    <3> TAKE i \in 1 .. k + 1
    <3>1. CASE i = 1
      BY <3>1
    <3>2. CASE i # 1
      <4>1. i - 1 \in 1 .. k /\ g[i - 1] = f[i - 1]
        BY <2>0, <3>2
      <4>2. CASE i = k + 1
        <5>1. g[i] = f[k] \o seqs[i]
          BY Zenon, <3>2, <4>2
        <5>2. i - 1 = k /\ i - 1 # k + 1
          BY <4>2
        <5>3. g[i - 1] = f[k]
          BY Zenon, <4>1, <5>2
        <5> HIDE DEF g
        <5> QED
          BY Zenon, <3>2, <5>1, <5>3
      <4>3. CASE i # k + 1
        <5>1. i \in 1 .. k /\ g[i] = f[i]
          BY <3>2, <4>3
        <5> HIDE DEF g
        <5>2. f[i] = f[i - 1] \o seqs[i]
          BY Zenon, <2>0, <3>2, <5>1
        <5> QED
          BY Zenon, <3>2, <4>1, <5>1, <5>2
      <4> QED
        BY <4>2, <4>3
    <3> QED
      BY <3>1, <3>2
  <2>3. Joined(seqs, k + 1, g)
    BY <2>2 DEF Joined
  <2> QED
    BY <2>3
<1>3. \A k \in 0 .. n : k \in T
  <2> HIDE DEF T
  <2> QED
    BY <1>1, <1>2, StepByStep
<1> QED
  BY <1>3

\* off[i] characters of w come before the i-th of the sequences it consists of.
Consists(w, seqs, off) ==
  /\ \A i \in 1 .. Len(seqs) + 1 : off[i] \in Nat
  /\ off[1] = 0
  /\ off[Len(seqs) + 1] = Len(w)
  /\ \A i \in 1 .. Len(seqs) : off[i + 1] = off[i] + Len(seqs[i]) /\ PartOf(w, off[i], seqs[i])

\* FlattenSeq puts the sequences one behind the other.
LEMMA Flattens ==
  ASSUME NEW seqs \in Seq(Texts)
  PROVE  FlattenSeq(seqs) \in Texts /\ \E off : Consists(FlattenSeq(seqs), seqs, off)
<1> DEFINE n == Len(seqs)
           f == CHOOSE f : Joined(seqs, n, f)
           off == [i \in 1 .. n + 1 |-> IF i = 1 THEN 0 ELSE Len(f[i - 1])]
<1>1. n \in Nat /\ \A i \in 1 .. n : seqs[i] \in Texts
  OBVIOUS
<1>2. CASE n = 0
  <2>1. seqs = << >> /\ FlattenSeq(seqs) = seqs
    BY <1>2 DEF FlattenSeq
  <2>2. << >> \in Texts /\ Len(<< >>) = 0
    BY DEF Texts
  <2>3. Consists(<< >>, seqs, [i \in 1 .. 1 |-> 0])
    BY <1>2, <2>2 DEF Consists
  <2> QED
    BY <2>1, <2>2, <2>3
<1>3. CASE n # 0
  <2>1. Joined(seqs, n, f)
    BY <1>1, JoinedExists
  <2>2. FlattenSeq(seqs) = f[n]
    BY <1>3 DEF FlattenSeq, Joined
  <2>3. \A i \in 1 .. n : f[i] = IF i = 1 THEN seqs[i] ELSE f[i - 1] \o seqs[i]
    BY <2>1 DEF Joined
  <2> HIDE DEF f
  <2> DEFINE T == {k \in 0 .. n : k = 0 \/ f[k] \in Texts}
  <2>4. 0 \in T
    BY <1>1
  <2>5. ASSUME NEW k \in 0 .. n - 1, k \in T PROVE k + 1 \in T
    <3>1. k + 1 \in 1 .. n /\ (k + 1) - 1 = k
      BY <1>1
    <3>2. CASE k = 0
      BY <1>1, <2>3, <3>1, <3>2
    <3>3. CASE k # 0
      <4>1. f[k + 1] = f[k] \o seqs[k + 1]
        <5>1. k + 1 # 1
          BY <3>3
        <5>2. f[k + 1] = f[(k + 1) - 1] \o seqs[k + 1]
          BY Zenon, <2>3, <3>1, <5>1
        <5> QED
          BY Zenon, <3>1, <5>2
      <4>2. f[k] \in Texts /\ seqs[k + 1] \in Texts
        BY <1>1, <2>5, <3>1, <3>3
      <4>3. f[k] \o seqs[k + 1] \in Texts
        BY <4>2, Joins
      <4>4. f[k + 1] \in Texts
        BY Zenon, <4>1, <4>3
      <4>5. k + 1 \in 0 .. n
        BY <3>1
      <4> QED
        BY <4>4, <4>5
    <3> QED
      BY <3>2, <3>3
  <2>6. \A k \in 0 .. n : k \in T
    <3> HIDE DEF T, n
    <3> QED
      BY <1>1, <2>4, <2>5, StepByStep
  <2>7. \A k \in 1 .. n : f[k] \in Texts /\ Len(f[k]) \in Nat /\ Len(seqs[k]) \in Nat
    BY <1>1, <2>6 DEF Texts
  <2>8. off[1] = 0 /\ \A i \in 1 .. n : off[i + 1] = Len(f[i])
    OBVIOUS
  <2>9. \A i \in 1 .. n + 1 : off[i] \in Nat
    BY <2>7
  <2> HIDE DEF off
  <2>10. \A i \in 1 .. n : off[i + 1] = off[i] + Len(seqs[i]) /\ PartOf(f[i], off[i], seqs[i])
    <3> TAKE i \in 1 .. n
    <3>1. CASE i = 1
      <4>1. f[i] = seqs[i] /\ off[i] = 0 /\ off[i + 1] = Len(f[i])
        BY <2>3, <2>8, <3>1
      <4>2. PartOf(seqs[i], 0, seqs[i])
        BY <2>7 DEF PartOf
      <4> QED
        BY <2>7, <4>1, <4>2
    <3>2. CASE i # 1
      <4>1. i - 1 \in 1 .. n /\ (i - 1) + 1 = i
        BY <3>2
      <4>2. f[i] = f[i - 1] \o seqs[i] /\ off[i] = Len(f[i - 1]) /\ off[i + 1] = Len(f[i])
        BY <2>3, <2>8, <3>2, <4>1
      <4>3. f[i - 1] \in Texts /\ seqs[i] \in Texts
        BY <1>1, <2>7, <4>1
      <4> QED
        BY <4>2, <4>3, Joins
    <3> QED
      BY <3>1, <3>2
  <2> DEFINE P == {k \in 0 .. n : \A i \in 1 .. k : PartOf(f[k], off[i], seqs[i])}
  <2>11. 0 \in P
    BY <1>1
  <2>12. ASSUME NEW k \in 0 .. n - 1, k \in P PROVE k + 1 \in P
    <3>1. k + 1 \in 1 .. n /\ (k + 1) - 1 = k
      BY <1>1
    <3>2. ASSUME NEW i \in 1 .. k + 1 PROVE PartOf(f[k + 1], off[i], seqs[i])
      <4>1. CASE i = k + 1
        BY <2>10, <3>1, <4>1
      <4>2. CASE i # k + 1
        <5>1. i \in 1 .. k /\ k \in 1 .. n /\ k + 1 # 1 /\ i \in 1 .. n /\ i \in 1 .. n + 1
          BY <1>1, <3>1, <4>2
        <5>2. f[k + 1] = f[k] \o seqs[k + 1]
          BY <2>3, <3>1, <5>1
        <5>3. PartOf(f[k], off[i], seqs[i])
          BY <2>12, <5>1
        <5>4. f[k] \in Texts /\ seqs[k + 1] \in Texts /\ seqs[i] \in Texts /\ off[i] \in Nat
          BY <1>1, <2>7, <2>9, <3>1, <5>1
        <5>5. PartOf(f[k] \o seqs[k + 1], off[i], seqs[i])
          BY <5>3, <5>4, StaysPart
        <5> QED
          BY <5>2, <5>5
      <4> QED
        BY <4>1, <4>2
    <3>3. k + 1 \in 0 .. n
      BY <3>1
    <3> QED
      BY <3>2, <3>3
  <2>13. \A k \in 0 .. n : k \in P
    <3> HIDE DEF P, n
    <3> QED
      BY <1>1, <2>11, <2>12, StepByStep
  <2>14. n \in 1 .. n /\ n \in 0 .. n
    BY <1>1, <1>3
  <2>15. \A i \in 1 .. n : PartOf(f[n], off[i], seqs[i])
    BY <2>13, <2>14
  <2>16. off[n + 1] = Len(f[n])
    BY <2>8, <2>14
  <2>17. Consists(f[n], seqs, off)
    BY <2>8, <2>9, <2>10, <2>15, <2>16 DEF Consists
  <2> QED
    BY <2>2, <2>7, <2>14, <2>17
<1> QED
  BY <1>2, <1>3

\* Where the next token begins and ends.
LEMMA BeginIs ==
  ASSUME NEW s \in Texts, NEW i \in Nat, NEW j \in Nat, i <= j, j <= Len(s),
         s[j] # SPACE, \A k \in i .. j - 1 : s[k] = SPACE
  PROVE  Begin(s, i) = j
<1> DEFINE I == {k \in i .. Len(s) : s[k] # SPACE}
<1>1. Len(s) \in Nat
  BY DEF Texts
<1>2. I \subseteq Nat /\ j \in I /\ \A k \in I : j <= k
  BY <1>1
<1>3. Min(I) = j /\ I # {}
  BY <1>2, MinIs, Zenon
<1> QED
  BY <1>3 DEF Begin, SelectInSubSeq

\* Where only spaces are left, no token begins.
LEMMA NothingBegins ==
  ASSUME NEW s \in Texts, NEW i \in Nat, \A k \in i .. Len(s) : s[k] = SPACE
  PROVE  Begin(s, i) = 0
<1>1. {k \in i .. Len(s) : s[k] # SPACE} = {}
  OBVIOUS
<1> QED
  BY <1>1 DEF Begin, SelectInSubSeq

\* A token ends at the first space behind it.
LEMMA EndIs ==
  ASSUME NEW s \in Texts, NEW i \in Nat, NEW j \in Nat, i <= j, j <= Len(s),
         s[j] = SPACE, \A k \in i .. j - 1 : s[k] # SPACE
  PROVE  End(s, i) = j
<1> DEFINE I == {k \in i .. Len(s) : s[k] = SPACE}
<1>1. Len(s) \in Nat
  BY DEF Texts
<1>2. I \subseteq Nat /\ j \in I /\ \A k \in I : j <= k
  BY <1>1
<1>3. Min(I) = j /\ I # {}
  BY <1>2, MinIs, Zenon
<1> QED
  BY <1>3 DEF End, SelectInSubSeq

\* Where strtok finds a token, from the last one on.
NextBegin(s, k, last) == Begin(s, IF k = 0 THEN 1 ELSE End(s, last))
Advances(s, n, f) == f = [k \in 0 .. n |-> NextBegin(s, k, f[k - 1])]

\* The first n calls of strtok find what their recursion describes.
LEMMA BeginsExist ==
  ASSUME NEW s, NEW n \in Nat
  PROVE  \E f : Advances(s, n, f)
<1> DEFINE T == {k \in 0 .. n : \E f : Advances(s, k, f)}
<1>1. 0 \in T
  <2> DEFINE f == [a \in 0 .. 0 |-> Begin(s, 1)]
  <2>1. Advances(s, 0, f)
    BY DEF Advances, NextBegin
  <2> QED
    BY <2>1
<1>2. ASSUME NEW k \in 0 .. n - 1, k \in T PROVE k + 1 \in T
  <2>1. PICK f : Advances(s, k, f)
    BY <1>2
  <2>2. \A a \in 0 .. k : f[a] = NextBegin(s, a, f[a - 1])
    BY <2>1 DEF Advances
  <2> DEFINE g == [a \in 0 .. k + 1 |-> IF a = k + 1 THEN NextBegin(s, a, f[k]) ELSE f[a]]
  <2>3. \A a \in 0 .. k + 1 : g[a] = NextBegin(s, a, g[a - 1])
    <3> TAKE a \in 0 .. k + 1
    <3>1. CASE a = k + 1
      <4>1. k \in 0 .. k + 1 /\ k # k + 1 /\ a - 1 = k
        BY <3>1
      <4>2. g[a - 1] = f[k] /\ g[a] = NextBegin(s, a, f[k])
        BY <3>1, <4>1
      <4> HIDE DEF g
      <4> QED
        BY Zenon, <4>2
    <3>2. CASE a \in 1 .. k
      <4>1. a - 1 \in 0 .. k + 1 /\ a - 1 # k + 1 /\ a # k + 1 /\ a \in 0 .. k
        BY <3>2
      <4>2. g[a - 1] = f[a - 1] /\ g[a] = f[a]
        BY <4>1
      <4> HIDE DEF g
      <4> QED
        BY Zenon, <2>2, <4>1, <4>2
    <3>3. CASE a = 0
      <4>1. g[0] = f[0] /\ 0 \in 0 .. k
        OBVIOUS
      <4> HIDE DEF g
      <4>2. f[0] = NextBegin(s, 0, f[0 - 1])
        BY Zenon, <2>2, <4>1
      <4>3. NextBegin(s, 0, f[0 - 1]) = NextBegin(s, 0, g[0 - 1])
        BY DEF NextBegin
      <4> QED
        BY Zenon, <3>3, <4>1, <4>2, <4>3
    <3> QED
      BY <3>1, <3>2, <3>3
  <2>4. Advances(s, k + 1, g)
    BY <2>3 DEF Advances
  <2> QED
    BY <2>4
<1>3. \A k \in 0 .. n : k \in T
  <2> HIDE DEF T
  <2> QED
    BY <1>1, <1>2, StepByStep
<1> QED
  BY <1>3

\* Where each call of strtok begins, from where the last one ended.
LEMMA BeginsAre ==
  ASSUME NEW s \in Texts
  PROVE  \A k \in 0 .. Len(s) : Begins(s)[k] = NextBegin(s, k, Begins(s)[k - 1])
<1> DEFINE f == CHOOSE f : Advances(s, Len(s), f)
<1>1. Len(s) \in Nat
  BY DEF Texts
<1>2. Advances(s, Len(s), f)
  BY <1>1, BeginsExist
<1>3. Begins(s) = f
  BY DEF Begins, Advances, NextBegin
<1> QED
  BY <1>2, <1>3 DEF Advances

\* What is in the line s: n tokens, the k-th behind off[k] characters and gap spaces;
\* then nothing but spaces.
Words(typed, n) ==
  \A k \in 1 .. n : /\ typed[k] \in Texts /\ Len(typed[k]) > 0
                    /\ \A i \in 1 .. Len(typed[k]) : typed[k][i] # SPACE

Contained(s, n, gap, typed, off) ==
  \A k \in 1 .. n : /\ off[k + 1] = off[k] + gap + Len(typed[k])
                    /\ \A g \in 1 .. gap : s[off[k] + g] = SPACE
                    /\ \A i \in 1 .. Len(typed[k]) : s[off[k] + gap + i] = typed[k][i]

Ends(s, last) == last + 1 <= Len(s) /\ \A i \in last + 1 .. Len(s) : s[i] = SPACE

Lays(s, n, gap, typed, off) ==
  /\ s \in Texts /\ n \in Nat /\ gap \in Nat \ {0}
  /\ off[1] = 0 /\ \A k \in 1 .. n + 1 : off[k] \in Nat
  /\ \A k \in 1 .. n : off[k + 1] <= off[n + 1] /\ k <= off[k + 1]
  /\ Contained(s, n, gap, typed, off)
  /\ Ends(s, off[n + 1])

\* Where the token after k tokens begins.
Place(n, gap, off, k) == IF k < n THEN off[k + 1] + gap + 1 ELSE 0

\* One token and its place, in plain numbers.
StandsAt(s, a, gap, t) ==
  /\ \A g \in 1 .. gap : s[a + g] = SPACE
  /\ \A i \in 1 .. Len(t) : s[a + gap + i] = t[i]
  /\ a + gap + Len(t) + 1 <= Len(s) /\ s[a + gap + Len(t) + 1] = SPACE

\* Each token of a line has its place in it.
LEMMA TokenStands ==
  ASSUME NEW s, NEW n, NEW gap, NEW typed, NEW off,
         Lays(s, n, gap, typed, off), Words(typed, n), NEW k \in 1 .. n
  PROVE  /\ StandsAt(s, off[k], gap, typed[k]) /\ off[k] \in Nat
         /\ off[k + 1] = off[k] + gap + Len(typed[k])
<1>1. n \in Nat /\ gap \in Nat /\ s \in Texts /\ k + 1 \in 1 .. n + 1 /\ k \in 1 .. n + 1 /\ n + 1 \in 1 .. n + 1
  BY DEF Lays
<1>2. off[k] \in Nat /\ off[k + 1] \in Nat /\ off[n + 1] \in Nat /\ off[k + 1] <= off[n + 1]
  BY <1>1 DEF Lays
<1>3. /\ off[k + 1] = off[k] + gap + Len(typed[k])
      /\ \A g \in 1 .. gap : s[off[k] + g] = SPACE
      /\ \A i \in 1 .. Len(typed[k]) : s[off[k] + gap + i] = typed[k][i]
  BY Zenon DEF Lays, Contained
<1>4. off[n + 1] + 1 <= Len(s) /\ \A i \in off[n + 1] + 1 .. Len(s) : s[i] = SPACE
  BY Zenon DEF Lays, Ends
<1>5. PICK m \in Nat : m = Len(s)
  BY <1>1 DEF Texts
<1>6. off[k + 1] + 1 <= Len(s)
  BY <1>2, <1>4, <1>5
<1>7. s[off[k + 1] + 1] = SPACE
  <2>1. CASE k = n
    <3>1. off[n + 1] + 1 \in off[n + 1] + 1 .. Len(s)
      BY <1>2, <1>4, <1>5
    <3> QED
      BY Zenon, <1>4, <2>1, <3>1
  <2>2. CASE k # n
    <3>1. k + 1 \in 1 .. n /\ 1 \in 1 .. gap
      BY <1>1, <2>2 DEF Lays
    <3> QED
      BY Zenon, <3>1 DEF Lays, Contained
  <2> QED
    BY <2>1, <2>2
<1> QED
  BY Zenon, <1>2, <1>3, <1>6, <1>7 DEF StandsAt

\* A token at its place is what strtok finds there.
LEMMA TokenBegins ==
  ASSUME NEW s \in Texts, NEW a \in Nat, NEW gap \in Nat \ {0}, NEW t \in Texts, Len(t) > 0,
         \A i \in 1 .. Len(t) : t[i] # SPACE, StandsAt(s, a, gap, t)
  PROVE  /\ Begin(s, a + 1) = a + gap + 1
         /\ End(s, a + gap + 1) = a + gap + Len(t) + 1
         /\ Cut(s, a + gap + 1, a + gap + Len(t)) = t
<1>1. PICK l \in Nat : l = Len(t) /\ l > 0
  BY DEF Texts
<1>2. PICK m \in Nat : m = Len(s)
  BY DEF Texts
<1>3. /\ \A g \in 1 .. gap : s[a + g] = SPACE
      /\ \A i \in 1 .. l : s[a + gap + i] = t[i] /\ t[i] # SPACE
      /\ a + gap + l + 1 <= m /\ s[a + gap + l + 1] = SPACE
  BY Zenon, <1>1, <1>2 DEF StandsAt
<1>4. PICK b \in Nat : b = a + gap
  OBVIOUS
<1>5. \A i \in a + 1 .. b : s[i] = SPACE
  <2> TAKE i \in a + 1 .. b
  <2>1. i - a \in 1 .. gap /\ a + (i - a) = i
    BY <1>4
  <2> QED
    BY Zenon, <1>3, <2>1
<1>6. \A i \in b + 1 .. b + l : s[i] # SPACE
  <2> TAKE i \in b + 1 .. b + l
  <2>1. i - b \in 1 .. l /\ b + (i - b) = i
    BY <1>4
  <2>2. \A j \in 1 .. l : s[b + j] # SPACE
    BY Zenon, <1>3, <1>4
  <2> QED
    BY Zenon, <2>1, <2>2
<1>7. Begin(s, a + 1) = b + 1
  <2>1. s[b + 1] # SPACE
    BY <1>1, <1>6
  <2>2. a + 1 \in Nat /\ b + 1 \in Nat /\ a + 1 <= b + 1 /\ b + 1 <= Len(s)
    BY <1>2, <1>3, <1>4
  <2>3. \A k \in a + 1 .. (b + 1) - 1 : s[k] = SPACE
    BY <1>5
  <2> QED
    BY Zenon, <2>1, <2>2, <2>3, BeginIs
<1>8. End(s, b + 1) = b + l + 1
  <2>1. /\ b + 1 \in Nat /\ b + l + 1 \in Nat /\ b + 1 <= b + l + 1 /\ b + l + 1 <= Len(s)
        /\ s[b + l + 1] = SPACE
    BY <1>2, <1>3, <1>4
  <2>2. \A k \in b + 1 .. (b + l + 1) - 1 : s[k] # SPACE
    <3>1. (b + l + 1) - 1 = b + l
      OBVIOUS
    <3> QED
      BY Zenon, <1>6, <3>1
  <2> QED
    BY Zenon, <2>1, <2>2, EndIs
<1>9. Cut(s, b + 1, b + l) = t
  <2>1. PartOf(s, b, t)
    <3>1. b + l <= m
      BY <1>3, <1>4
    <3> QED
      BY Zenon, <1>1, <1>2, <1>3, <1>4, <3>1 DEF PartOf
  <2>2. b + l = b + Len(t) /\ b + 1 = b + 1
    BY <1>1
  <2> QED
    BY <2>1, <2>2, PartIsCut
<1> QED
  BY Zenon, <1>1, <1>4, <1>7, <1>8, <1>9

\* From the end of a token, and from the beginning of the line, to the next token.
LEMMA NextTokenBegins ==
  ASSUME NEW s, NEW n, NEW gap, NEW typed, NEW off,
         Lays(s, n, gap, typed, off), Words(typed, n),
         NEW k \in 0 .. n, NEW p, p = off[k + 1] + 1
  PROVE  Begin(s, p) = Place(n, gap, off, k)
<1>1. n \in Nat /\ gap \in Nat \ {0} /\ s \in Texts /\ n + 1 \in 1 .. n + 1
  BY DEF Lays
<1>2. CASE k = n
  <2>1. off[n + 1] \in Nat
    BY <1>1 DEF Lays
  <2>2. p \in Nat /\ \A i \in p .. Len(s) : s[i] = SPACE
    BY <1>2, <2>1 DEF Lays, Ends
  <2>3. Begin(s, p) = 0
    BY Zenon, <1>1, <2>2, NothingBegins
  <2> QED
    BY <1>1, <1>2, <2>3 DEF Place
<1>3. CASE k # n
  <2>1. k + 1 \in 1 .. n /\ k < n
    BY <1>1, <1>3
  <2>2. StandsAt(s, off[k + 1], gap, typed[k + 1]) /\ off[k + 1] \in Nat
    BY Zenon, <2>1, TokenStands
  <2>3. /\ typed[k + 1] \in Texts /\ Len(typed[k + 1]) > 0
        /\ \A i \in 1 .. Len(typed[k + 1]) : typed[k + 1][i] # SPACE
    BY Zenon, <2>1 DEF Words
  <2>4. Begin(s, off[k + 1] + 1) = off[k + 1] + gap + 1
    BY Zenon, <1>1, <2>2, <2>3, TokenBegins
  <2> QED
    BY Zenon, <2>1, <2>4 DEF Place
<1> QED
  BY <1>2, <1>3

\* The call that begins at the place of the k-th token cuts that token out.
LEMMA TokenIsCut ==
  ASSUME NEW s, NEW n, NEW gap, NEW typed, NEW off,
         Lays(s, n, gap, typed, off), Words(typed, n),
         NEW k \in 1 .. n, NEW p, p = Place(n, gap, off, k - 1)
  PROVE  /\ p # 0 /\ End(s, p) = off[k + 1] + 1 /\ Cut(s, p, off[k + 1]) = typed[k]
         /\ off[k + 1] \in Nat
<1>1. n \in Nat /\ gap \in Nat \ {0} /\ s \in Texts
  BY DEF Lays
<1>2. (k - 1) + 1 = k /\ k - 1 < n
  BY <1>1
<1>3. /\ StandsAt(s, off[k], gap, typed[k]) /\ off[k] \in Nat
      /\ off[k + 1] = off[k] + gap + Len(typed[k])
  BY TokenStands
<1>4. /\ typed[k] \in Texts /\ Len(typed[k]) > 0
      /\ \A i \in 1 .. Len(typed[k]) : typed[k][i] # SPACE
  BY Zenon DEF Words
<1>5. p = off[k] + gap + 1
  BY Zenon, <1>2 DEF Place
<1>6. /\ End(s, off[k] + gap + 1) = off[k] + gap + Len(typed[k]) + 1
      /\ Cut(s, off[k] + gap + 1, off[k] + gap + Len(typed[k])) = typed[k]
  <2> DEFINE a == off[k]
             t == typed[k]
  <2>1. /\ a \in Nat /\ t \in Texts /\ Len(t) > 0
        /\ (\A i \in 1 .. Len(t) : t[i] # SPACE) /\ StandsAt(s, a, gap, t)
    BY Zenon, <1>3, <1>4
  <2> HIDE DEF a, t
  <2>2. /\ End(s, a + gap + 1) = a + gap + Len(t) + 1
        /\ Cut(s, a + gap + 1, a + gap + Len(t)) = t
    BY <1>1, <2>1, TokenBegins
  <2> QED
    BY Zenon, <2>2 DEF a, t
<1>7. p # 0 /\ off[k + 1] \in Nat
  <2>1. Len(typed[k]) \in Nat
    BY <1>4 DEF Texts
  <2> QED
    BY <1>1, <1>3, <1>5, <2>1
<1> QED
  BY Zenon, <1>3, <1>5, <1>6, <1>7

\* strtok's calls find one token after the other.
LEMMA BeginsArePlaces ==
  ASSUME NEW s, NEW n, NEW gap, NEW typed, NEW off,
         Lays(s, n, gap, typed, off), Words(typed, n)
  PROVE  \A k \in 0 .. n : k \in 0 .. Len(s) /\ Begins(s)[k] = Place(n, gap, off, k)
<1>1. s \in Texts /\ n \in Nat /\ Len(s) \in Nat
  BY DEF Lays, Texts
<1>2. off[1] = 0 /\ off[n + 1] \in Nat
  <2>1. n + 1 \in 1 .. n + 1
    BY <1>1
  <2> QED
    BY <2>1 DEF Lays
<1>3. n <= Len(s)
  <2>1. off[n + 1] + 1 <= Len(s)
    BY DEF Lays, Ends
  <2>2. n = 0 \/ n <= off[n + 1]
    <3>1. n # 0 => n \in 1 .. n
      BY <1>1
    <3> QED
      BY <3>1 DEF Lays
  <2> QED
    BY <1>1, <1>2, <2>1, <2>2
<1>4. \A k \in 0 .. n : k \in 0 .. Len(s)
  BY <1>1, <1>3
<1> DEFINE T == {k \in 0 .. n : Begins(s)[k] = Place(n, gap, off, k)}
<1>5. 0 \in T
  <2>1. 0 \in 0 .. n
    BY <1>1
  <2>2. Begins(s)[0] = NextBegin(s, 0, Begins(s)[0 - 1])
    BY <1>1, <1>4, <2>1, BeginsAre
  <2>3. Begins(s)[0] = Begin(s, 1)
    BY <2>2 DEF NextBegin
  <2>4. 1 = off[0 + 1] + 1
    BY <1>2
  <2>5. Begin(s, 1) = Place(n, gap, off, 0)
    BY <2>1, <2>4, NextTokenBegins
  <2> QED
    BY Zenon, <2>1, <2>3, <2>5
<1>6. ASSUME NEW k \in 0 .. n - 1, k \in T PROVE k + 1 \in T
  <2>1. k + 1 \in 1 .. n /\ k + 1 \in 0 .. n /\ k + 1 \in 0 .. Len(s) /\ (k + 1) - 1 = k /\ k + 1 # 0
    BY <1>1, <1>4
  <2> DEFINE p == Place(n, gap, off, k)
  <2>2. Begins(s)[k] = p /\ p = Place(n, gap, off, (k + 1) - 1)
    BY <1>6, <2>1
  <2> HIDE DEF p
  <2>3. Begins(s)[k + 1] = Begin(s, End(s, p))
    <3>1. Begins(s)[k + 1] = NextBegin(s, k + 1, Begins(s)[(k + 1) - 1])
      BY <1>1, <2>1, BeginsAre
    <3>2. Begins(s)[k + 1] = NextBegin(s, k + 1, p)
      BY Zenon, <2>1, <2>2, <3>1
    <3> QED
      BY <2>1, <3>2 DEF NextBegin
  <2>4. End(s, p) = off[(k + 1) + 1] + 1
    BY <2>1, <2>2, TokenIsCut
  <2>5. Begin(s, End(s, p)) = Place(n, gap, off, k + 1)
    BY <2>1, <2>4, NextTokenBegins
  <2> QED
    BY Zenon, <2>1, <2>3, <2>5
<1>7. \A k \in 0 .. n : k \in T
  <2> HIDE DEF T
  <2> QED
    BY <1>1, <1>5, <1>6, StepByStep
<1> QED
  BY <1>4, <1>7

\* All there is in a line.
Tuple(typed, n) == [k \in 1 .. n |-> typed[k]]
Found(text, begin, n) == [k \in 1 .. n |-> SubSeq(text, begin[k - 1], End(text, begin[k - 1]) - 1)]
Stops(s, m) == Begins(s)[m] = 0 /\ \A k \in 0 .. m - 1 : Begins(s)[k] # 0

\* strtok finds as many tokens as there are, and then no more.
LEMMA StopsAt ==
  ASSUME NEW s, NEW n, NEW gap, NEW typed, NEW off,
         Lays(s, n, gap, typed, off), Words(typed, n)
  PROVE  /\ n \in 0 .. Len(s) /\ Stops(s, n)
         /\ \A m \in 0 .. Len(s) : Stops(s, m) => m = n
<1>1. n \in Nat /\ Len(s) \in Nat
  BY DEF Lays, Texts
<1>2. \A k \in 0 .. n : k \in 0 .. Len(s) /\ Begins(s)[k] = Place(n, gap, off, k)
  BY Zenon, BeginsArePlaces
<1>3. Begins(s)[n] = 0 /\ n \in 0 .. Len(s)
  <2>1. n \in 0 .. n /\ ~ (n < n)
    BY <1>1
  <2> QED
    BY Zenon, <1>2, <2>1 DEF Place
<1>4. \A k \in 0 .. n - 1 : Begins(s)[k] # 0
  <2> TAKE k \in 0 .. n - 1
  <2>1. k + 1 \in 1 .. n /\ k \in 0 .. n /\ (k + 1) - 1 = k
    BY <1>1
  <2> DEFINE p == Place(n, gap, off, k)
  <2>2. p = Place(n, gap, off, (k + 1) - 1) /\ Begins(s)[k] = p
    BY Zenon, <1>2, <2>1
  <2> HIDE DEF p
  <2>3. p # 0
    BY <2>1, <2>2, TokenIsCut
  <2> QED
    BY Zenon, <2>2, <2>3
<1>5. Stops(s, n)
  BY <1>3, <1>4 DEF Stops
<1>6. ASSUME NEW m \in 0 .. Len(s), Stops(s, m) PROVE m = n
  <2>0. Begins(s)[m] = 0 /\ \A k \in 0 .. m - 1 : Begins(s)[k] # 0
    BY <1>6 DEF Stops
  <2>1. CASE m < n
    <3>1. m \in 0 .. n - 1
      BY <1>1, <2>1
    <3> QED
      BY <1>4, <2>0, <3>1
  <2>2. CASE n < m
    <3>1. n \in 0 .. m - 1
      BY <1>1, <2>2
    <3> QED
      BY <1>3, <2>0, <3>1
  <2> QED
    BY <1>1, <2>1, <2>2
<1> QED
  BY <1>3, <1>5, <1>6

\* They are those that were typed.
LEMMA TokensAreFound ==
  ASSUME NEW s, NEW n, NEW gap, NEW typed, NEW off,
         Lays(s, n, gap, typed, off), Words(typed, n)
  PROVE  Found(s, Begins(s), n) = Tuple(typed, n)
<1> DEFINE begin == Begins(s)
<1>1. n \in Nat
  BY DEF Lays
<1>2. \A k \in 1 .. n : SubSeq(s, begin[k - 1], End(s, begin[k - 1]) - 1) = typed[k]
  <2> TAKE k \in 1 .. n
  <2>1. k - 1 \in 0 .. n
    BY <1>1
  <2> DEFINE p == Place(n, gap, off, k - 1)
  <2>2. begin[k - 1] = p /\ p = Place(n, gap, off, k - 1)
    BY Zenon, <2>1, BeginsArePlaces
  <2> HIDE DEF p, begin
  <2>3. End(s, p) = off[k + 1] + 1 /\ Cut(s, p, off[k + 1]) = typed[k] /\ off[k + 1] \in Nat
    BY <2>2, TokenIsCut
  <2>4. (off[k + 1] + 1) - 1 = off[k + 1]
    BY <2>3
  <2> QED
    BY Zenon, <2>2, <2>3, <2>4 DEF Cut
<1> HIDE DEF begin
<1>3. Found(s, begin, n) = Tuple(typed, n)
  BY Zenon, <1>2 DEF Found, Tuple
<1> QED
  BY Zenon, <1>3 DEF begin

TokensIn(text) ==
  LET count == CHOOSE m \in 0 .. Len(text) : Stops(text, m)
  IN  IF count > MAX_TOKENS THEN Refused ELSE {Found(text, Begins(text), count)}

\* What is read of a line depends on what is left of it without its comment.
LEMMA TokensOfText ==
  ASSUME NEW line
  PROVE  Tokens(line) = TokensIn(WithoutComment(line) \o <<SPACE>>)
BY DEF Tokens, TokensIn, Stops, Found

\* The tokens of a line that lays out typed are typed, or it is refused.
LEMMA TokensAre ==
  ASSUME NEW line, NEW v, WithoutComment(line) = v, NEW s, s = v \o <<SPACE>>,
         NEW n, NEW gap, NEW typed, NEW off,
         Lays(s, n, gap, typed, off), Words(typed, n)
  PROVE  Tokens(line) = IF n <= MAX_TOKENS THEN {Tuple(typed, n)} ELSE Refused
<1> DEFINE count == CHOOSE m \in 0 .. Len(s) : Stops(s, m)
<1>1. Tokens(line) = IF count > MAX_TOKENS THEN Refused ELSE {Found(s, Begins(s), count)}
  <2>1. Tokens(line) = TokensIn(s)
    BY Zenon, TokensOfText
  <2> QED
    BY Zenon, <2>1 DEF TokensIn
<1>2. count = n
  <2>1. \E m \in 0 .. Len(s) : Stops(s, m)
    BY Zenon, StopsAt
  <2>2. count \in 0 .. Len(s) /\ Stops(s, count)
    BY Zenon, <2>1
  <2> HIDE DEF count
  <2> QED
    BY Zenon, <2>2, StopsAt
<1> HIDE DEF count
<1>3. n \in Nat /\ MAX_TOKENS \in Nat
  BY TraceLineAssumption DEF Lays
<1>4. Tokens(line) = IF n > MAX_TOKENS THEN Refused ELSE {Tuple(typed, n)}
  BY Zenon, <1>1, <1>2, TokensAreFound
<1> QED
  BY <1>3, <1>4

-----------------------------------------------------------------------------
(* A line as it is typed.                                                  *)

AnyChars == Chars \cup {"#"}
Comment == <<"#", "a", SPACE, "a">>

\* No token begins a comment.
LEMMA HashIsNoChar == "#" \notin Chars
<1>1. \A v \in 1 .. 16 : Digits[v] # "#"
  <2> TAKE v \in 1 .. 16
  <2>1. v - 1 \in 0 .. 15 /\ (v - 1) + 1 = v
    OBVIOUS
  <2> QED
    BY Zenon, <2>1, NoDigitIsSign
<1> QED
  BY Zenon, <1>1 DEF Chars, TokenChars, Letters, SPACE

\* What is left of a line with a comment.
LEMMA CommentIsCut ==
  ASSUME NEW v \in Texts
  PROVE  WithoutComment(v \o Comment) = v
<1> DEFINE line == v \o Comment
<1>1. v \in Seq(AnyChars)
  BY DEF Texts, AnyChars
<1>2. Comment \in Seq(AnyChars) /\ Len(Comment) = 4 /\ Comment[1] = "#"
  <2>1. "#" \in AnyChars /\ "a" \in AnyChars /\ SPACE \in AnyChars
    BY Zenon DEF AnyChars, Chars, TokenChars, Letters
  <2> HIDE DEF SPACE
  <2> QED
    BY <2>1 DEF Comment
<1>3. /\ line \in Seq(AnyChars) /\ Len(line) = Len(v) + Len(Comment)
      /\ PartOf(line, 0, v) /\ PartOf(line, Len(v), Comment)
  BY Zenon, <1>1, <1>2, JoinsAny
<1> HIDE DEF line
<1>4. PICK m \in Nat : m = Len(v)
  BY DEF Texts
<1>5. \A i \in 1 .. m : line[i] = v[i] /\ v[i] # "#"
  <2> TAKE i \in 1 .. m
  <2>1. v[i] \in Chars
    BY <1>4 DEF Texts
  <2>2. line[0 + i] = v[i] /\ 0 + i = i
    <3>1. line[0 + i] = v[i]
      BY Zenon, <1>3, <1>4 DEF PartOf
    <3> QED
      BY <3>1
  <2> QED
    BY Zenon, <2>1, <2>2, HashIsNoChar
<1>6. line[m + 1] = "#"
  <2>1. 1 \in 1 .. Len(Comment)
    BY <1>2
  <2> QED
    BY Zenon, <1>2, <1>3, <1>4, <2>1 DEF PartOf
<1>7. SelectInSeq(line, LAMBDA c : c = "#") = m + 1
  <2> DEFINE I == {i \in 1 .. Len(line) : line[i] = "#"}
  <2>1. I \subseteq Nat /\ m + 1 \in I
    BY <1>2, <1>3, <1>4, <1>6
  <2>2. \A i \in I : m + 1 <= i
    <3> TAKE i \in I
    <3>1. i \in 1 .. Len(line) /\ line[i] = "#"
      OBVIOUS
    <3>2. i \notin 1 .. m
      BY Zenon, <1>5, <3>1
    <3> QED
      BY <1>2, <1>3, <1>4, <3>1, <3>2
  <2>3. Min(I) = m + 1
    <3> HIDE DEF I
    <3> QED
      BY Zenon, <2>1, <2>2, MinIs
  <2> QED
    BY Zenon, <2>1, <2>3 DEF SelectInSeq
<1>8. SubSeq(line, 1, (m + 1) - 1) = v
  <2>1. 0 \in Nat /\ (m + 1) - 1 = 0 + Len(v) /\ 0 + 1 = 1
    BY <1>4
  <2>2. SubSeq(line, 0 + 1, (m + 1) - 1) = v
    BY <1>1, <1>3, <2>1, SubSeqAny
  <2> QED
    BY <2>1, <2>2
<1>9. m + 1 # 0
  OBVIOUS
<1>10. WithoutComment(line) = v
  BY Zenon, <1>7, <1>8, <1>9 DEF WithoutComment
<1> QED
  BY Zenon, <1>10 DEF line

\* A line that has been put together.
Written(w, n, gap, typed, off) ==
  /\ w \in Texts /\ n \in Nat /\ gap \in Nat \ {0}
  /\ off[1] = 0 /\ \A k \in 1 .. n + 1 : off[k] \in Nat
  /\ off[n + 1] = Len(w)
  /\ \A k \in 1 .. n : off[k + 1] <= off[n + 1] /\ k <= off[k + 1]
  /\ Contained(w, n, gap, typed, off)

WithGaps(typed, gap) == FlattenSeq([j \in DOMAIN typed |-> gap \o typed[j]])

\* What Line puts together of the tokens and their gaps.
LEMMA LineIsWritten ==
  ASSUME NEW n \in Nat, NEW b \in Texts, NEW gap \in Nat \ {0}, gap = Len(b),
         \A g \in 1 .. gap : b[g] = SPACE,
         NEW typed, DOMAIN typed = 1 .. n, Words(typed, n)
  PROVE  \E off : Written(WithGaps(typed, b), n, gap, typed, off)
<1> DEFINE seqs == [k \in DOMAIN typed |-> b \o typed[k]]
           w == WithGaps(typed, b)
<1>1. \A k \in 1 .. n : typed[k] \in Texts /\ Len(typed[k]) \in Nat /\ Len(typed[k]) > 0
  BY DEF Words, Texts
<1>2. \A k \in 1 .. n : seqs[k] = b \o typed[k]
  OBVIOUS
<1>4. w = FlattenSeq(seqs)
  BY DEF WithGaps
<1>6. seqs = [k \in 1 .. n |-> seqs[k]]
  OBVIOUS
<1> HIDE DEF seqs, w
<1>5. \A k \in 1 .. n : /\ seqs[k] \in Texts /\ Len(seqs[k]) = gap + Len(typed[k])
                        /\ PartOf(seqs[k], 0, b) /\ PartOf(seqs[k], gap, typed[k])
  <2> TAKE k \in 1 .. n
  <2>1. /\ b \o typed[k] \in Texts /\ Len(b \o typed[k]) = Len(b) + Len(typed[k])
        /\ PartOf(b \o typed[k], 0, b) /\ PartOf(b \o typed[k], Len(b), typed[k])
    BY Zenon, <1>1, Joins
  <2> QED
    BY Zenon, <1>2, <2>1
<1>7. seqs \in [1 .. n -> Texts]
  BY Zenon, <1>5, <1>6
<1>8. seqs \in Seq(Texts) /\ Len(seqs) = n
  BY <1>7
<1>9. PICK off : Consists(w, seqs, off) /\ w \in Texts
  BY Zenon, <1>4, <1>8, Flattens
<1>10. /\ \A k \in 1 .. n + 1 : off[k] \in Nat
       /\ off[1] = 0 /\ off[n + 1] = Len(w)
       /\ \A k \in 1 .. n : off[k + 1] = off[k] + Len(seqs[k]) /\ PartOf(w, off[k], seqs[k])
  BY Zenon, <1>8, <1>9 DEF Consists
<1>11. ASSUME NEW k \in 1 .. n
       PROVE  /\ off[k + 1] = off[k] + gap + Len(typed[k]) /\ off[k + 1] <= off[n + 1]
              /\ \A g \in 1 .. gap : w[off[k] + g] = SPACE
              /\ \A i \in 1 .. Len(typed[k]) : w[off[k] + gap + i] = typed[k][i]
  <2>1. PICK l \in Nat : l = Len(typed[k])
    BY <1>1, <1>11
  <2>2. PICK a \in Nat : a = off[k]
    BY <1>10, <1>11
  <2>3. /\ seqs[k] \in Texts /\ Len(seqs[k]) = gap + l
        /\ PartOf(seqs[k], 0, b) /\ PartOf(seqs[k], gap, typed[k])
    BY Zenon, <1>5, <1>11, <2>1
  <2>4. off[k + 1] = a + Len(seqs[k]) /\ PartOf(w, a, seqs[k])
    BY Zenon, <1>10, <1>11, <2>2
  <2>5. off[k + 1] = a + gap + l /\ off[k + 1] <= Len(w)
    BY <2>3, <2>4 DEF PartOf
  <2>6. \A i \in 1 .. gap + l : w[a + i] = seqs[k][i]
    BY <2>3, <2>4 DEF PartOf
  <2>7. \A g \in 1 .. gap : seqs[k][0 + g] = SPACE
    BY Zenon, <2>3 DEF PartOf
  <2>8. \A i \in 1 .. l : seqs[k][gap + i] = typed[k][i]
    BY Zenon, <2>1, <2>3 DEF PartOf
  <2>9. \A g \in 1 .. gap : w[a + g] = SPACE
    <3> TAKE g \in 1 .. gap
    <3>1. g \in 1 .. gap + l /\ 0 + g = g
      OBVIOUS
    <3> QED
      BY Zenon, <2>6, <2>7, <3>1
  <2>10. \A i \in 1 .. l : w[a + gap + i] = typed[k][i]
    <3> TAKE i \in 1 .. l
    <3>1. gap + i \in 1 .. gap + l /\ a + (gap + i) = a + gap + i
      OBVIOUS
    <3> QED
      BY Zenon, <2>6, <2>8, <3>1
  <2> QED
    BY Zenon, <1>10, <2>1, <2>2, <2>5, <2>9, <2>10
<1>12. Contained(w, n, gap, typed, off)
  BY Zenon, <1>11 DEF Contained
<1>13. \A k \in 0 .. n : k <= off[k + 1]
  <2> DEFINE T == {k \in 0 .. n : k <= off[k + 1]}
  <2>1. 0 \in T
    BY <1>10
  <2>2. ASSUME NEW k \in 0 .. n - 1, k \in T PROVE k + 1 \in T
    <3>1. k + 1 \in 1 .. n /\ k + 1 \in 1 .. n + 1 /\ k + 1 \in 0 .. n
      OBVIOUS
    <3>2. PICK l \in Nat : l = Len(typed[k + 1]) /\ l > 0
      BY <1>1, <3>1
    <3>3. PICK a \in Nat : a = off[k + 1] /\ k <= a
      BY <1>10, <2>2, <3>1
    <3>4. off[(k + 1) + 1] = a + gap + l
      BY Zenon, <1>11, <3>1, <3>2, <3>3
    <3>5. k + 1 <= off[(k + 1) + 1]
      BY <3>2, <3>3, <3>4
    <3> QED
      BY <3>1, <3>5
  <2> HIDE DEF T
  <2>3. \A k \in 0 .. n : k \in T
    BY <2>1, <2>2, StepByStep
  <2> QED
    BY <2>3 DEF T
<1>14. \A k \in 1 .. n : off[k + 1] <= off[n + 1] /\ k <= off[k + 1]
  <2>1. \A k \in 1 .. n : k \in 0 .. n
    OBVIOUS
  <2> QED
    BY Zenon, <1>11, <1>13, <2>1
<1> QED
  BY Zenon, <1>9, <1>10, <1>12, <1>14 DEF Written, w

\* Such a line with nothing but spaces behind it is laid out as the lemmas above say.
LEMMA WrittenLays ==
  ASSUME NEW w, NEW n, NEW gap, NEW typed, NEW off, Written(w, n, gap, typed, off),
         Words(typed, n),
         NEW s \in Texts, \A i \in 1 .. Len(w) : s[i] = w[i],
         NEW last, last = Len(w), Ends(s, last)
  PROVE  Lays(s, n, gap, typed, off)
<1>1. /\ w \in Texts /\ n \in Nat /\ gap \in Nat \ {0}
      /\ off[1] = 0 /\ \A k \in 1 .. n + 1 : off[k] \in Nat
      /\ off[n + 1] = Len(w)
      /\ \A k \in 1 .. n : off[k + 1] <= off[n + 1] /\ k <= off[k + 1]
  BY Zenon DEF Written
<1>2. PICK m \in Nat : m = Len(w)
  BY <1>1 DEF Texts
<1>3. ASSUME NEW k \in 1 .. n
      PROVE  /\ off[k + 1] = off[k] + gap + Len(typed[k])
             /\ \A g \in 1 .. gap : s[off[k] + g] = SPACE
             /\ \A i \in 1 .. Len(typed[k]) : s[off[k] + gap + i] = typed[k][i]
  <2>1. /\ off[k + 1] = off[k] + gap + Len(typed[k])
        /\ \A g \in 1 .. gap : w[off[k] + g] = SPACE
        /\ \A i \in 1 .. Len(typed[k]) : w[off[k] + gap + i] = typed[k][i]
    BY Zenon, <1>3 DEF Written, Contained
  <2>2. PICK a \in Nat : a = off[k]
    <3>1. k \in 1 .. n + 1
      BY <1>1, <1>3
    <3> QED
      BY <1>1, <3>1
  <2>3. PICK l \in Nat : l = Len(typed[k])
    <3>1. typed[k] \in Texts
      BY <1>3 DEF Words
    <3> QED
      BY <3>1 DEF Texts
  <2>4. a + gap + l <= m
    BY Zenon, <1>1, <1>2, <1>3, <2>1, <2>2, <2>3
  <2>5. \A g \in 1 .. gap : a + g \in 1 .. m
    BY <1>1, <2>4
  <2>6. \A i \in 1 .. l : a + gap + i \in 1 .. m
    BY <1>1, <2>4
  <2> QED
    BY Zenon, <1>2, <2>1, <2>2, <2>3, <2>5, <2>6
<1>4. Contained(s, n, gap, typed, off)
  BY Zenon, <1>3 DEF Contained
<1> QED
  BY Zenon, <1>1, <1>4 DEF Lays

\* A space more at the end of a line.
LEMMA OneSpaceMore ==
  ASSUME NEW w \in Texts
  PROVE  /\ w \o <<SPACE>> \in Texts /\ Len(w \o <<SPACE>>) = Len(w) + 1
         /\ \A i \in 1 .. Len(w) : (w \o <<SPACE>>)[i] = w[i]
         /\ (w \o <<SPACE>>)[Len(w) + 1] = SPACE
<1> DEFINE e == <<SPACE>>
<1>1. e \in Texts /\ Len(e) = 1 /\ e[1] = SPACE
  <2>1. SPACE \in Chars
    BY Zenon DEF Chars
  <2> HIDE DEF SPACE
  <2> QED
    BY <2>1 DEF Texts
<1> HIDE DEF e
<1>2. /\ w \o e \in Texts /\ Len(w \o e) = Len(w) + Len(e)
      /\ PartOf(w \o e, 0, w) /\ PartOf(w \o e, Len(w), e)
  BY Zenon, <1>1, Joins
<1>3. PICK m \in Nat : m = Len(w)
  BY DEF Texts
<1>4. \A i \in 1 .. m : (w \o e)[i] = w[i]
  <2> TAKE i \in 1 .. m
  <2>1. (w \o e)[0 + i] = w[i]
    BY Zenon, <1>2, <1>3 DEF PartOf
  <2>2. 0 + i = i
    OBVIOUS
  <2> QED
    BY Zenon, <2>1, <2>2
<1>5. (w \o e)[m + 1] = SPACE
  <2>1. 1 \in 1 .. Len(e)
    BY <1>1
  <2> QED
    BY Zenon, <1>1, <1>2, <1>3, <2>1 DEF PartOf
<1>6. w \o e \in Texts /\ Len(w \o e) = Len(w) + 1
  BY Zenon, <1>1, <1>2
<1> QED
  BY Zenon, <1>3, <1>4, <1>5, <1>6 DEF e

\* The space that ends a line, and the one that the code looks for behind it.
LEMMA SpacesEnd ==
  ASSUME NEW w \in Texts, NEW v, v = w \o <<SPACE>>, NEW s, s = v \o <<SPACE>>
  PROVE  v \in Texts /\ s \in Texts /\ (\A i \in 1 .. Len(w) : s[i] = w[i]) /\ Ends(s, Len(w))
<1>1. PICK m \in Nat : m = Len(w)
  BY DEF Texts
<1>2. v \in Texts /\ Len(v) = m + 1 /\ (\A i \in 1 .. m : v[i] = w[i]) /\ v[m + 1] = SPACE
  BY Zenon, <1>1, OneSpaceMore
<1>3. /\ s \in Texts /\ Len(s) = (m + 1) + 1
      /\ \A i \in 1 .. m + 1 : s[i] = v[i]
      /\ s[(m + 1) + 1] = SPACE
  BY Zenon, <1>2, OneSpaceMore
<1>4. \A i \in 1 .. m : s[i] = w[i]
  <2> TAKE i \in 1 .. m
  <2>1. i \in 1 .. m + 1
    OBVIOUS
  <2> QED
    BY Zenon, <1>2, <1>3, <2>1
<1>5. \A i \in m + 1 .. Len(s) : s[i] = SPACE
  <2> TAKE i \in m + 1 .. Len(s)
  <2>1. i = m + 1 \/ i = (m + 1) + 1
    BY <1>3
  <2>2. m + 1 \in 1 .. m + 1
    OBVIOUS
  <2> QED
    BY Zenon, <1>2, <1>3, <2>1, <2>2
<1>6. m + 1 <= Len(s)
  BY <1>3
<1> QED
  BY Zenon, <1>1, <1>2, <1>3, <1>4, <1>5, <1>6 DEF Ends

\* What somebody typed comes back, whatever the gap between the tokens.
ComesBack(typed, b, n) ==
  Tokens(Line(typed, b) \o Comment) = IF n <= MAX_TOKENS THEN {typed} ELSE Refused

\* One line, and what somebody typed on it.
LEMMA TypedComesBack ==
  ASSUME NEW n \in Nat, NEW b \in Texts, NEW gap \in Nat \ {0}, gap = Len(b),
         \A g \in 1 .. gap : b[g] = SPACE,
         NEW typed, DOMAIN typed = 1 .. n, typed = Tuple(typed, n), Words(typed, n)
  PROVE  ComesBack(typed, b, n)
<1> DEFINE w == WithGaps(typed, b)
           v == w \o <<SPACE>>
           s == v \o <<SPACE>>
<1>1. PICK off : Written(w, n, gap, typed, off)
  BY Zenon, LineIsWritten
<1>2. Line(typed, b) = v
  BY Zenon DEF Line, WithGaps
<1>3. w \in Texts
  BY Zenon, <1>1 DEF Written
<1> HIDE DEF w
<1>4. v \in Texts /\ s \in Texts /\ (\A i \in 1 .. Len(w) : s[i] = w[i]) /\ Ends(s, Len(w))
  BY Zenon, <1>3, SpacesEnd
<1>5. s = v \o <<SPACE>>
  OBVIOUS
<1> HIDE DEF v, s
<1>6. Lays(s, n, gap, typed, off)
  BY Zenon, <1>1, <1>4, WrittenLays
<1>7. WithoutComment(v \o Comment) = v
  BY Zenon, <1>4, CommentIsCut
<1>8. Tokens(v \o Comment) = IF n <= MAX_TOKENS THEN {Tuple(typed, n)} ELSE Refused
  BY Zenon, <1>5, <1>6, <1>7, TokensAre
<1> QED
  BY Zenon, <1>2, <1>8 DEF ComesBack

\* No token has a space in it.
LEMMA SpaceIsNoTokenChar == SPACE \notin TokenChars
<1>1. \A v \in 1 .. 16 : Digits[v] # SPACE
  <2> TAKE v \in 1 .. 16
  <2>1. v - 1 \in 0 .. 15 /\ (v - 1) + 1 = v
    OBVIOUS
  <2> QED
    BY Zenon, <2>1, NoDigitIsSign DEF SPACE
<1> QED
  BY Zenon, <1>1 DEF TokenChars, Letters, SPACE

\* What the constants say of the tokens that somebody types.
LEMMA TypedAreWords ==
  ASSUME NEW n \in Nat, NEW typed \in [1 .. n -> TypedTokens]
  PROVE  Words(typed, n)
<1> SUFFICES ASSUME NEW k \in 1 .. n
             PROVE  /\ typed[k] \in Texts /\ Len(typed[k]) > 0
                    /\ \A i \in 1 .. Len(typed[k]) : typed[k][i] # SPACE
  BY Zenon DEF Words
<1> DEFINE t == typed[k]
<1>1. t \in Seq(TokenChars) /\ t # << >>
  <2>1. t \in TypedTokens
    OBVIOUS
  <2> HIDE DEF t
  <2> QED
    BY <2>1, TraceLineAssumption
<1> HIDE DEF t
<1>2. t \in Texts /\ Len(t) > 0
  <2> HIDE DEF TokenChars
  <2> QED
    BY <1>1 DEF Texts, Chars
<1>3. \A i \in 1 .. Len(t) : t[i] # SPACE
  <2> TAKE i \in 1 .. Len(t)
  <2>1. t[i] \in TokenChars
    BY <1>1
  <2> QED
    BY Zenon, <2>1, SpaceIsNoTokenChar
<1> QED
  BY Zenon, <1>2, <1>3 DEF t

\* The gaps that TokensComeBack looks at.
LEMMA GapsAreSpaces ==
  ASSUME NEW b \in {<<SPACE>>, <<SPACE, SPACE>>}
  PROVE  b \in Texts /\ \E gap \in Nat \ {0} : gap = Len(b) /\ \A g \in 1 .. gap : b[g] = SPACE
<1>1. SPACE \in Chars
  BY Zenon DEF Chars
<1> HIDE DEF SPACE, Chars
<1>2. CASE b = <<SPACE>>
  <2>1. b \in Texts /\ Len(b) = 1 /\ \A g \in 1 .. 1 : b[g] = SPACE
    BY <1>1, <1>2 DEF Texts
  <2> QED
    BY <2>1
<1>3. CASE b = <<SPACE, SPACE>>
  <2>1. b \in Texts /\ Len(b) = 2 /\ \A g \in 1 .. 2 : b[g] = SPACE
    BY <1>1, <1>3 DEF Texts
  <2> QED
    BY <2>1
<1> QED
  BY <1>2, <1>3

\* A function on 1 .. n is its own tuple.
LEMMA TupleItself ==
  ASSUME NEW n, NEW typed \in [1 .. n -> TypedTokens]
  PROVE  typed = Tuple(typed, n) /\ DOMAIN typed = 1 .. n
BY Zenon DEF Tuple

\* Tokens come back, whatever tokens are typed and however many a line may have.
LEMMA TokensAreRead == TokensComeBack
<1> SUFFICES ASSUME NEW n \in 0 .. MAX_TOKENS + 1, NEW typed \in [1 .. n -> TypedTokens],
                    NEW b \in {<<SPACE>>, <<SPACE, SPACE>>}
             PROVE  ComesBack(typed, b, n)
  BY Zenon DEF TokensComeBack, ComesBack, Comment
<1>1. n \in Nat
  BY TraceLineAssumption
<1>2. Words(typed, n) /\ typed = Tuple(typed, n) /\ DOMAIN typed = 1 .. n
  BY Zenon, <1>1, TypedAreWords, TupleItself
<1>3. b \in Texts /\ \E gap \in Nat \ {0} : gap = Len(b) /\ \A g \in 1 .. gap : b[g] = SPACE
  BY Zenon, GapsAreSpaces
<1> QED
  BY Zenon, <1>1, <1>2, <1>3, TypedComesBack

\* What is typed into a trace is read as it is meant.
LEMMA TracesAreReadAsTyped == ReadsAsTyped
BY Zenon, NumbersAreRead, NamesAreRead, TokensAreRead DEF ReadsAsTyped

-----------------------------------------------------------------------------
(* For every set of names and trace of any length: a name stands for the   *)
(* region of its last alloc that succeeded (main.c:run_command, alloc).    *)
THEOREM NamesStandForRegions == Spec => []NameIsLatestRegion
BY NamesInvariant, NamesStand, PTL

(* free ends no region but one that was allocated under the same name,     *)
(* also when the name is stale (main.c:run_command, free).                 *)
THEOREM StaleNamesAreHarmless == Spec => FreeEndsItsOwn
<1>1. NamesInv /\ [Next]_vars =>
        [\A n \in Names : FreeName(n) =>
           \A r \in regions \ regions' : owner[r.id] = n]_vars
  BY FreesItsOwn
<1> QED
  BY <1>1, NamesInvariant, PTL DEF Spec, FreeEndsItsOwn

(* For every size of the memory: each allocated frame is the VM's or held, *)
(* never both, and held once (main.c:run_command, hold and release).       *)
THEOREM NoFrameIsLost == Spec => []NoFrameLost
BY FramesInvariant, PTL DEF FramesInv

(* For every number of frames and trace of any length: the frame map shows *)
(* each frame as what it is, in the fewest ranges, and summary and exit    *)
(* status are those of the whole trace (main.c:print_frames, run, main).   *)
THEOREM OutputStaysCurrent == Spec => []OutputIsCurrent
<1>1. OutputInv => OutputIsCurrent
  BY DEF OutputInv
<1> QED
  BY <1>1, OutputInit, OutputStep, PTL DEF Spec

(* For every number of bits, every length of a name and every set of       *)
(* tokens: the line that is read first, as any other, means what was typed *)
(* (main.c:parse_u64, parse_word, parse_target, run).                      *)
THEOREM LinesMeanWhatWasTyped == Spec => []LinesAreReadAsTyped
<1>1. LinesAreReadAsTyped
  BY TracesAreReadAsTyped DEF LinesAreReadAsTyped
<1> QED
  BY <1>1, PTL
=============================================================================
