---------------------------- MODULE SymTabProofs ----------------------------
(***************************************************************************)
(* Proofs about SymTab, for every set of names, every hash function, every *)
(* initial capacity of at least 2 and every bound.                         *)
(***************************************************************************)
EXTENDS SymTab, FiniteSetTheorems, TLAPS

USE SymTabAssumption

(* A probe always falls inside the array.                                  *)
LEMMA ProbeInRange ==
  ASSUME NEW n \in Names, NEW p \in Nat, NEW c \in Nat \ {0}
  PROVE  Probe(n, p, c) \in 0 .. c - 1
  <1>1. Hash[n] + p \in Nat
    OBVIOUS
  <1>2. QED
    BY <1>1 DEF Probe

LEMMA EmptyTableType ==
  ASSUME NEW c \in Nat
  PROVE  EmptyTable(c) \in [0 .. c - 1 -> Slot]
  BY DEF EmptyTable, Slot

(* An entry stored in the table leaves an array of slots.                  *)
LEMMA StoreType ==
  ASSUME TypeOK, NEW e \in Entry, Store(e)
  PROVE  /\ slots' \in [0 .. cap' - 1 -> Slot]
         /\ cap' \in Nat \ {0}
         /\ count' \in Nat
  <1>1. PICK p \in 0 .. cap - 1 :
          slots' = [slots EXCEPT ![Probe(e.name, p, cap)] = e]
    BY DEF Store
  <1>2. e \in Slot
    BY DEF Slot
  <1>3. slots' \in [0 .. cap - 1 -> Slot]
    BY <1>1, <1>2 DEF TypeOK
  <1>4. QED
    BY <1>3 DEF Store, TypeOK

(* An entry put in the new array leaves an array of slots.                 *)
LEMMA ReinsertType ==
  ASSUME TypeOK, NEW e \in Entry, Reinsert(e)
  PROVE  slots' \in [0 .. cap - 1 -> Slot]
  <1>1. PICK p, q \in 0 .. cap - 1 :
          LET stamped == [slots EXCEPT ![Probe(e.name, p, cap)] =
                                         [e EXCEPT !.depth = depth]]
          IN /\ FirstMatch(stamped, cap, e, q)
             /\ slots' = [stamped EXCEPT ![Probe(e.name, q, cap)].depth = e.depth]
    BY DEF Reinsert
  <1> DEFINE stamped == [slots EXCEPT ![Probe(e.name, p, cap)] =
                                        [e EXCEPT !.depth = depth]]
             j == Probe(e.name, q, cap)
  <1>2. [e EXCEPT !.depth = depth] \in Entry
    BY DEF Entry, TypeOK
  <1>3. stamped \in [0 .. cap - 1 -> Slot]
    BY <1>2 DEF TypeOK, Slot
  <1>4. j \in 0 .. cap - 1
    BY ProbeInRange DEF TypeOK, Entry
  <1>5. stamped[j] \in Entry
    BY <1>1, <1>3, <1>4 DEF FirstMatch, Matches, Slot
  <1>6. [stamped[j] EXCEPT !.depth = e.depth] \in Entry
    BY <1>5 DEF Entry
  <1>7. slots' = [stamped EXCEPT ![j] = [stamped[j] EXCEPT !.depth = e.depth]]
    BY <1>1
  <1>8. QED
    BY <1>3, <1>6, <1>7 DEF Slot

(* Type correctness of the symbol table.                                   *)
THEOREM TypeCorrect == Spec => []TypeOK
  <1>1. Init => TypeOK
    BY EmptyTableType DEF Init, TypeOK
  <1>2. TypeOK /\ [Next]_vars => TypeOK'
    <2> SUFFICES ASSUME TypeOK, [Next]_vars
                 PROVE  TypeOK'
      OBVIOUS
    <2>1. ASSUME NEW n \in Names, DeclareInPlace(n)
          PROVE  TypeOK'
      <3>1. NewEntry(n) \in Entry
        BY DEF NewEntry, Entry, TypeOK
      <3>2. QED
        BY <2>1, <3>1, StoreType DEF DeclareInPlace, Declaring, copying, TypeOK
    <2>2. ASSUME NEW n \in Names, DeclareAndGrow(n)
          PROVE  TypeOK'
      <3>1. NewEntry(n) \in Entry
        BY DEF NewEntry, Entry, TypeOK
      <3>2. slots' \in [0 .. cap' - 1 -> Slot] /\ cap' \in Nat \ {0}
        BY <2>2, EmptyTableType DEF DeclareAndGrow, TypeOK
      <3>3. QED
        BY <2>2, <3>1, <3>2 DEF DeclareAndGrow, Declaring, TypeOK
    <2>3. CASE Recopy
      <3>1. old[i] \in Entry
        BY <2>3 DEF Recopy, TypeOK, Slot
      <3>2. slots' \in [0 .. cap - 1 -> Slot]
        BY <2>3, <3>1, ReinsertType DEF Recopy
      <3>3. QED
        BY <2>3, <3>2 DEF Recopy, TypeOK
    <2>4. CASE SkipSlot
      BY <2>4 DEF SkipSlot, table, TypeOK
    <2>5. CASE FinishGrowth
      <3>1. pending \in Entry /\ Store(pending)
        BY <2>5 DEF FinishGrowth, TypeOK
      <3>2. /\ slots' \in [0 .. cap' - 1 -> Slot]
            /\ cap' \in Nat \ {0}
            /\ count' \in Nat
        BY <3>1, StoreType
      <3>3. old' \in [0 .. oldcap' - 1 -> Slot] /\ oldcap' \in Nat /\ i' \in 0 .. oldcap'
        BY <2>5, EmptyTableType DEF FinishGrowth
      <3>4. /\ pc' = "ready" /\ pending' = Null
            /\ UNCHANGED <<depth, nlocals, stage, visible>>
        BY <2>5 DEF FinishGrowth
      <3>5. /\ depth' \in Nat /\ nlocals' \in Nat
            /\ stage' \in {"params", "body", "ended"} /\ (stage' = "body" => depth' > 0)
            /\ visible' \subseteq Entry
        BY <3>4 DEF TypeOK
      <3>6. pc' \in {"ready", "rehash"} /\ pending' \in Entry \cup {Null}
        BY <3>4
      <3>7. pc' = "rehash" => pending' \in Entry
        BY <3>4
      <3>8. QED
        BY <3>2, <3>3, <3>5, <3>6, <3>7 DEF TypeOK
    <2>6. CASE ScopePush
      BY <2>6 DEF ScopePush, table, copying, TypeOK
    <2>7. CASE ScopePop
      <3>1. \A j \in 0 .. cap - 1 : AfterPop(slots[j]) \in Slot
        BY DEF AfterPop, TypeOK, Slot
      <3>2. slots' \in [0 .. cap - 1 -> Slot]
        BY <2>7, <3>1 DEF ScopePop
      <3>3. depth' \in Nat /\ (stage' = "body" => depth' > 0)
        BY <2>7 DEF ScopePop, StageAfterPop, TypeOK
      <3>4. QED
        BY <2>7, <3>2, <3>3 DEF ScopePop, StageAfterPop, copying, TypeOK
    <2>8. CASE NextFunction
      <3>1. cap' = InitCap /\ cap' \in Nat \ {0}
        BY <2>8, SymTabAssumption DEF NextFunction
      <3>2. slots' \in [0 .. cap' - 1 -> Slot]
        BY <2>8, <3>1, EmptyTableType DEF NextFunction
      <3>3. /\ count' = 0 /\ depth' = 0 /\ nlocals' = 0 /\ stage' = "params" /\ visible' = {}
            /\ UNCHANGED <<pc, old, oldcap, i, pending>>
        BY <2>8 DEF NextFunction, copying
      <3>4. QED
        BY <3>1, <3>2, <3>3 DEF TypeOK
    <2>9. CASE UNCHANGED vars
      BY <2>9 DEF vars, TypeOK
    <2>10. QED
      BY <2>1, <2>2, <2>3, <2>4, <2>5, <2>6, <2>7, <2>8, <2>9 DEF Next
  <1>3. QED
    BY <1>1, <1>2, PTL DEF Spec

-----------------------------------------------------------------------------
(* The load of the table.                                                  *)

(* The slots in use are a finite set of indices.                           *)
LEMMA UsedFinite ==
  ASSUME NEW c \in Nat, NEW tab \in [0 .. c - 1 -> Slot]
  PROVE  /\ Used(tab) \subseteq 0 .. c - 1
         /\ IsFiniteSet(Used(tab))
         /\ Cardinality(Used(tab)) \in Nat
  <1>1. Used(tab) \subseteq 0 .. c - 1
    BY DEF Used
  <1>2. IsFiniteSet(0 .. c - 1)
    BY FS_Interval
  <1>3. QED
    BY <1>1, <1>2, FS_Subset, FS_CardinalityType

(* A fresh array uses none.                                                *)
LEMMA EmptyUsesNone ==
  ASSUME NEW c \in Nat
  PROVE  Cardinality(Used(EmptyTable(c))) = 0
  <1>1. Used(EmptyTable(c)) = {}
    BY DEF Used, EmptyTable
  <1>2. QED
    BY <1>1, FS_EmptySet

(* A set of indices that grows by at most one has at most one more.        *)
LEMMA AddsAtMostOne ==
  ASSUME NEW c \in Nat, NEW tab \in [0 .. c - 1 -> Slot], NEW T, NEW j,
         T \subseteq Used(tab) \cup {j}
  PROVE  /\ IsFiniteSet(T)
         /\ Cardinality(T) <= Cardinality(Used(tab)) + 1
  <1>1. IsFiniteSet(Used(tab)) /\ Cardinality(Used(tab)) \in Nat
    BY UsedFinite
  <1> DEFINE U == Used(tab)
  <1>2. /\ IsFiniteSet(U \cup {j})
        /\ Cardinality(U \cup {j}) <= Cardinality(U) + 1
    <2>1. /\ IsFiniteSet(U \cup {j})
          /\ Cardinality(U \cup {j}) = IF j \in U THEN Cardinality(U) ELSE Cardinality(U) + 1
      BY <1>1, FS_AddElement
    <2>2. QED
      BY <1>1, <2>1
  <1>3. IsFiniteSet(T) /\ Cardinality(T) <= Cardinality(Used(tab) \cup {j})
    BY <1>2, FS_Subset
  <1>4. Cardinality(T) \in Nat /\ Cardinality(Used(tab) \cup {j}) \in Nat
    BY <1>2, <1>3, FS_CardinalityType
  <1>5. QED
    BY <1>1, <1>2, <1>3, <1>4

(* Storing an entry uses at most one more slot.                            *)
LEMMA StoreUses ==
  ASSUME TypeOK, NEW e \in Entry, Store(e)
  PROVE  Cardinality(Used(slots')) <= Cardinality(Used(slots)) + 1
  <1>1. PICK p \in 0 .. cap - 1 :
          slots' = [slots EXCEPT ![Probe(e.name, p, cap)] = e]
    BY DEF Store
  <1>2. Used(slots') \subseteq Used(slots) \cup {Probe(e.name, p, cap)}
    BY <1>1 DEF Used, TypeOK
  <1>3. QED
    BY <1>2, AddsAtMostOne DEF TypeOK

(* So does putting an entry in the new array.                              *)
LEMMA ReinsertUses ==
  ASSUME TypeOK, NEW e \in Entry, Reinsert(e)
  PROVE  Cardinality(Used(slots')) <= Cardinality(Used(slots)) + 1
  <1>1. PICK p, q \in 0 .. cap - 1 :
          LET stamped == [slots EXCEPT ![Probe(e.name, p, cap)] =
                                         [e EXCEPT !.depth = depth]]
          IN /\ FirstMatch(stamped, cap, e, q)
             /\ slots' = [stamped EXCEPT ![Probe(e.name, q, cap)].depth = e.depth]
    BY DEF Reinsert
  <1> DEFINE stamped == [slots EXCEPT ![Probe(e.name, p, cap)] =
                                        [e EXCEPT !.depth = depth]]
             k == Probe(e.name, p, cap)
             j == Probe(e.name, q, cap)
  <1>2. k \in 0 .. cap - 1 /\ j \in 0 .. cap - 1
    <2>1. e.name \in Names /\ p \in Nat /\ q \in Nat /\ cap \in Nat \ {0}
      BY DEF TypeOK, Entry
    <2>2. QED
      BY <2>1, ProbeInRange
  <1>3. stamped[j] # Null
    BY <1>1 DEF FirstMatch, Matches
  <1>4. \A m \in 0 .. cap - 1 : slots'[m] # Null => slots[m] # Null \/ m = k
    BY <1>1, <1>2, <1>3 DEF TypeOK
  <1>5. DOMAIN slots' = 0 .. cap - 1
    BY <1>1 DEF TypeOK
  <1>6. Used(slots') \subseteq Used(slots) \cup {k}
    BY <1>4, <1>5 DEF Used, TypeOK
  <1>7. QED
    BY <1>6, AddsAtMostOne DEF TypeOK

(* A loop index that moves past a used slot counts one more of them.       *)
LEMMA PassedSlots ==
  ASSUME TypeOK, i < oldcap, old[i] # Null
  PROVE  /\ Cardinality({j \in Used(old) : j < i + 1}) =
              Cardinality({j \in Used(old) : j < i}) + 1
         /\ Cardinality({j \in Used(old) : j < i}) \in Nat
         /\ Cardinality({j \in Used(old) : j < i + 1}) <= Cardinality(Used(old))
  <1> DEFINE P == {j \in Used(old) : j < i}
             Q == {j \in Used(old) : j < i + 1}
  <1>1. IsFiniteSet(Used(old))
    BY UsedFinite DEF TypeOK
  <1>2. IsFiniteSet(P) /\ IsFiniteSet(Q) /\ Cardinality(Q) <= Cardinality(Used(old))
    BY <1>1, FS_Subset
  <1>3. Q = P \cup {i} /\ i \notin P
    BY DEF Used, TypeOK
  <1>4. QED
    BY <1>2, <1>3, FS_AddElement, FS_CardinalityType

(* The load invariant is inductive, given type correctness.                *)
THEOREM LoadBounded == Spec => []LoadInv
  <1>1. Init => LoadInv
    <2> SUFFICES ASSUME Init PROVE LoadInv
      OBVIOUS
    <2>1. Cardinality(Used(slots)) = 0
      BY EmptyUsesNone DEF Init
    <2>2. QED
      BY <2>1 DEF Init, LoadInv
  <1>2. TypeOK /\ LoadInv /\ [Next]_vars => LoadInv'
    <2> SUFFICES ASSUME TypeOK, LoadInv, [Next]_vars
                 PROVE  LoadInv'
      OBVIOUS
    <2>0. Cardinality(Used(slots)) \in Nat /\ Cardinality(Used(old)) \in Nat
      BY UsedFinite DEF TypeOK
    <2>1. ASSUME NEW n \in Names, DeclareInPlace(n)
          PROVE  LoadInv'
      <3>1. NewEntry(n) \in Entry /\ Store(NewEntry(n))
        BY <2>1 DEF DeclareInPlace, NewEntry, Entry, TypeOK
      <3>2. Cardinality(Used(slots')) <= Cardinality(Used(slots)) + 1
        BY <3>1, StoreUses
      <3>3. Used(slots') \subseteq 0 .. cap - 1 /\ Cardinality(Used(slots')) \in Nat
        BY <3>1, StoreType, UsedFinite DEF Store, TypeOK
      <3>4. /\ count' = count + 1 /\ cap' = cap /\ ~ MustGrow
            /\ pc' = "ready"
        BY <2>1 DEF DeclareInPlace, Declaring, Store
      <3>5. QED
        BY <2>0, <3>2, <3>3, <3>4 DEF LoadInv, MustGrow, TypeOK
    <2>2. ASSUME NEW n \in Names, DeclareAndGrow(n)
          PROVE  LoadInv'
      <3>1. Cardinality(Used(slots')) = 0
        BY <2>2, EmptyUsesNone DEF DeclareAndGrow, TypeOK
      <3>2. 2 * Cardinality(Used(old')) < oldcap' /\ oldcap' = cap /\ cap' = 2 * cap
        BY <2>0, <2>2 DEF DeclareAndGrow, LoadInv, TypeOK
      <3>3. count' = 0 /\ i' = 0
        BY <2>2 DEF DeclareAndGrow
      <3>4. old' \in [0 .. oldcap' - 1 -> Slot] /\ oldcap' \in Nat
        BY <2>2 DEF DeclareAndGrow, TypeOK
      <3>5. Cardinality({j \in Used(old') : j < i'}) \in Nat
        <4>1. IsFiniteSet(Used(old'))
          BY <3>4, UsedFinite
        <4>2. QED
          BY <4>1, FS_Subset, FS_CardinalityType
      <3>6. QED
        BY <3>1, <3>2, <3>3, <3>5 DEF LoadInv, TypeOK
    <2>3. CASE Recopy
      <3>1. old[i] \in Entry /\ Reinsert(old[i]) /\ i < oldcap /\ old[i] # Null
        BY <2>3 DEF Recopy, TypeOK, Slot
      <3>2. Cardinality(Used(slots')) <= Cardinality(Used(slots)) + 1
        BY <3>1, ReinsertUses
      <3>3. Cardinality(Used(slots')) \in Nat
        BY <3>1, ReinsertType, UsedFinite DEF TypeOK
      <3>4. /\ Cardinality({j \in Used(old) : j < i + 1}) =
                 Cardinality({j \in Used(old) : j < i}) + 1
            /\ Cardinality({j \in Used(old) : j < i}) \in Nat
            /\ Cardinality({j \in Used(old) : j < i + 1}) <= Cardinality(Used(old))
        BY <3>1, PassedSlots
      <3>5. /\ pc = "rehash" /\ count' = count + 1 /\ i' = i + 1
            /\ UNCHANGED <<cap, pc, old, oldcap>> /\ ~ MustGrow
        BY <2>3 DEF Recopy
      <3>6. count' <= Cardinality({j \in Used(old') : j < i'})
        BY <3>4, <3>5 DEF LoadInv, TypeOK
      <3>7. 2 * count' < cap'
        BY <3>5 DEF MustGrow, TypeOK
      <3>8. Cardinality(Used(slots')) <= count'
        BY <2>0, <3>2, <3>3, <3>5 DEF LoadInv, TypeOK
      <3>9. QED
        BY <3>5, <3>6, <3>7, <3>8 DEF LoadInv
    <2>4. CASE SkipSlot
      <3>1. /\ pc = "rehash" /\ i < oldcap /\ i' = i + 1
            /\ UNCHANGED <<slots, cap, count, pc, old, oldcap>>
        BY <2>4 DEF SkipSlot, table
      <3>2. Cardinality({j \in Used(old) : j < i}) <= Cardinality({j \in Used(old) : j < i + 1})
        <4>1. IsFiniteSet({j \in Used(old) : j < i + 1})
          BY UsedFinite, FS_Subset DEF TypeOK
        <4>2. {j \in Used(old) : j < i} \subseteq {j \in Used(old) : j < i + 1}
          BY DEF Used, TypeOK
        <4>3. QED
          BY <4>1, <4>2, FS_Subset
      <3>3. /\ Cardinality({j \in Used(old) : j < i}) \in Nat
            /\ Cardinality({j \in Used(old) : j < i + 1}) \in Nat
        BY UsedFinite, FS_Subset, FS_CardinalityType DEF TypeOK
      <3>4. QED
        BY <3>1, <3>2, <3>3 DEF LoadInv, TypeOK
    <2>5. CASE FinishGrowth
      <3>1. pending \in Entry /\ Store(pending) /\ pc = "rehash" /\ i = oldcap /\ pc' = "ready"
        BY <2>5 DEF FinishGrowth, TypeOK
      <3>2. Cardinality(Used(slots')) <= Cardinality(Used(slots)) + 1
        BY <3>1, StoreUses
      <3>3. Cardinality(Used(slots')) \in Nat
        BY <3>1, StoreType, UsedFinite DEF Store, TypeOK
      <3>4. count <= Cardinality(Used(old))
        <4>1. {j \in Used(old) : j < i} = Used(old)
          BY <3>1 DEF Used, TypeOK
        <4>2. QED
          BY <3>1, <4>1 DEF LoadInv
      <3>5. count' = count + 1 /\ cap' = cap
        BY <3>1 DEF Store
      <3>6. 2 * count' < cap'
        BY <2>0, <3>1, <3>4, <3>5 DEF LoadInv, TypeOK
      <3>7. QED
        BY <2>0, <3>1, <3>2, <3>3, <3>5, <3>6 DEF LoadInv, TypeOK
    <2>6. CASE ScopePush
      BY <2>6 DEF ScopePush, table, copying, LoadInv
    <2>7. CASE ScopePop
      <3>1. Used(slots') = Used(slots)
        BY <2>7 DEF ScopePop, AfterPop, Retired, Used, TypeOK
      <3>2. QED
        BY <2>7, <3>1 DEF ScopePop, copying, LoadInv
    <2>8. CASE NextFunction
      <3>1. Cardinality(Used(slots')) = 0
        BY <2>8, EmptyUsesNone DEF NextFunction
      <3>2. cap' = InitCap /\ count' = 0 /\ pc' = "ready"
        BY <2>8 DEF NextFunction
      <3>3. QED
        BY <3>1, <3>2 DEF LoadInv
    <2>9. CASE UNCHANGED vars
      BY <2>9 DEF vars, LoadInv
    <2>10. QED
      BY <2>1, <2>2, <2>3, <2>4, <2>5, <2>6, <2>7, <2>8, <2>9 DEF Next
  <1>3. QED
    BY <1>1, <1>2, TypeCorrect, PTL DEF Spec

(* Every probe loop ends: some slot was never used, in every state.        *)
THEOREM ProbingAlwaysEnds == Spec => []ProbingEnds
  <1>1. TypeOK /\ LoadInv => ProbingEnds
    <2> SUFFICES ASSUME TypeOK, LoadInv, ~ ProbingEnds
                 PROVE  FALSE
      OBVIOUS
    <2>1. Used(slots) = 0 .. cap - 1
      BY DEF Used, ProbingEnds, TypeOK
    <2>2. Cardinality(Used(slots)) = cap
      BY <2>1, FS_Interval DEF TypeOK
    <2>3. QED
      BY <2>2 DEF LoadInv, TypeOK
  <1>2. QED
    BY <1>1, TypeCorrect, LoadBounded, PTL

(* The symtab_insert calls of a rehash always find room: the recursion     *)
(* rehash -> symtab_insert -> rehash is never entered.                     *)
THEOREM NoNestedRehash == Spec => [](TypeOK /\ RehashNeverNests)
  <1>1. TypeOK /\ LoadInv => RehashNeverNests
    <2> SUFFICES ASSUME TypeOK, LoadInv, pc = "rehash", i < oldcap
                 PROVE  ~ MustGrow
      BY DEF RehashNeverNests
    <2>1. IsFiniteSet(Used(old)) /\ Cardinality(Used(old)) \in Nat
      BY UsedFinite DEF TypeOK
    <2>2. Cardinality({j \in Used(old) : j < i}) <= Cardinality(Used(old))
      BY <2>1, FS_Subset
    <2>3. Cardinality({j \in Used(old) : j < i}) \in Nat
      BY <2>1, FS_Subset, FS_CardinalityType
    <2>4. count <= Cardinality(Used(old)) /\ 2 * Cardinality(Used(old)) < oldcap
      BY <2>1, <2>2, <2>3 DEF LoadInv, TypeOK
    <2>5. 2 * count < oldcap /\ cap = 2 * oldcap /\ oldcap >= 2
      BY <2>1, <2>4 DEF LoadInv, TypeOK
    <2>6. QED
      BY <2>5 DEF MustGrow, TypeOK
  <1>2. QED
    BY <1>1, TypeCorrect, LoadBounded, PTL

-----------------------------------------------------------------------------
(* Probe chains.                                                           *)

(* An entry stays reachable in an array where no slot became unused and    *)
(* its own slot still holds its name.                                      *)
LEMMA ChainSurvives ==
  ASSUME NEW c \in Nat \ {0},
         NEW tab \in [0 .. c - 1 -> Slot], NEW tab2 \in [0 .. c - 1 -> Slot],
         \A k \in 0 .. c - 1 : tab[k] # Null => tab2[k] # Null,
         NEW j \in 0 .. c - 1,
         tab[j] \in Entry, tab2[j] \in Entry, tab2[j].name = tab[j].name,
         Chained(tab, c, j)
  PROVE  Chained(tab2, c, j)
  <1> DEFINE n == tab[j].name
  <1>1. PICK p \in 0 .. c - 1 :
          /\ Probe(n, p, c) = j
          /\ \A q \in 0 .. p : tab[Probe(n, q, c)] # Null
    BY DEF Chained
  <1>2. ASSUME NEW q \in 0 .. p PROVE Probe(n, q, c) \in 0 .. c - 1
    <2>1. n \in Names /\ q \in Nat
      BY DEF Entry
    <2>2. QED
      BY <2>1, ProbeInRange
  <1>3. \A q \in 0 .. p : tab2[Probe(n, q, c)] # Null
    BY <1>1, <1>2
  <1>4. QED
    BY <1>1, <1>3 DEF Chained

(* A slot that the first free probe of a name reaches, once it holds an    *)
(* entry of that name, is reachable.                                       *)
LEMMA FirstFreeChained ==
  ASSUME NEW c \in Nat \ {0},
         NEW tab \in [0 .. c - 1 -> Slot], NEW tab2 \in [0 .. c - 1 -> Slot],
         \A k \in 0 .. c - 1 : tab[k] # Null => tab2[k] # Null,
         NEW n \in Names, NEW p \in 0 .. c - 1, FirstFree(tab, c, n, p),
         NEW j, j = Probe(n, p, c),
         tab2[j] \in Entry, tab2[j].name = n
  PROVE  Chained(tab2, c, j)
  <1>1. ASSUME NEW q \in 0 .. p - 1
        PROVE  Probe(n, q, c) \in 0 .. c - 1 /\ tab[Probe(n, q, c)] # Null
    <2>1. q \in Nat /\ tab[Probe(n, q, c)] # Null
      BY DEF FirstFree
    <2>2. QED
      BY <2>1, ProbeInRange
  <1>2. \A q \in 0 .. p - 1 : tab2[Probe(n, q, c)] # Null
    BY <1>1
  <1>3. tab2[Probe(n, p, c)] # Null
    OBVIOUS
  <1>4. \A q \in 0 .. p : tab2[Probe(n, q, c)] # Null
    BY <1>2, <1>3
  <1>5. QED
    BY <1>4 DEF Chained

LEMMA StoreChains ==
  ASSUME TypeOK, ChainsUnbroken, NEW e \in Entry, Store(e)
  PROVE  ChainsUnbroken'
  <1>1. PICK p \in 0 .. cap - 1 :
          /\ FirstFree(slots, cap, e.name, p)
          /\ slots' = [slots EXCEPT ![Probe(e.name, p, cap)] = e]
    BY DEF Store
  <1> DEFINE k == Probe(e.name, p, cap)
  <1>2. /\ cap \in Nat \ {0} /\ slots \in [0 .. cap - 1 -> Slot]
        /\ slots' \in [0 .. cap - 1 -> Slot] /\ cap' = cap
    BY StoreType DEF Store, TypeOK
  <1>3. k \in 0 .. cap - 1
    BY <1>2, ProbeInRange DEF Entry
  <1>4. slots'[k] = e /\ \A m \in 0 .. cap - 1 : m # k => slots'[m] = slots[m]
    BY <1>1, <1>2, <1>3
  <1>5. \A m \in 0 .. cap - 1 : slots[m] # Null => slots'[m] # Null
    BY <1>4
  <1>6. ASSUME NEW j \in 0 .. cap - 1, slots'[j] \in Entry
        PROVE  Chained(slots', cap, j)
    <2>1. CASE j = k
      BY <2>1, <1>1, <1>2, <1>4, <1>5, FirstFreeChained DEF Entry
    <2>2. CASE j # k
      <3>1. slots'[j] = slots[j] /\ Chained(slots, cap, j)
        BY <2>2, <1>4, <1>6 DEF ChainsUnbroken
      <3>2. QED
        BY <3>1, <1>2, <1>5, <1>6, ChainSurvives
    <2>3. QED
      BY <2>1, <2>2
  <1>7. QED
    BY <1>2, <1>6 DEF ChainsUnbroken

-----------------------------------------------------------------------------
(* What a rehash copies.                                                   *)

(* Storing an entry in a free slot adds it to the live entries and takes   *)
(* none away; a new slot number stays unique.                              *)
LEMMA StoreLive ==
  ASSUME TypeOK, NEW e \in Entry, Store(e)
  PROVE  /\ Live(slots') = Live(slots) \cup {e}
         /\ (OneEach(slots) /\ \A f \in Live(slots) : f.slot # e.slot) => OneEach(slots')
  <1>1. PICK p \in 0 .. cap - 1 :
          /\ FirstFree(slots, cap, e.name, p)
          /\ slots' = [slots EXCEPT ![Probe(e.name, p, cap)] = e]
    BY DEF Store
  <1> DEFINE k == Probe(e.name, p, cap)
  <1>2. cap \in Nat \ {0} /\ slots \in [0 .. cap - 1 -> Slot] /\ e.name \in Names
    BY DEF TypeOK, Entry
  <1>3. k \in 0 .. cap - 1
    BY <1>2, ProbeInRange
  <1>4. slots[k] \in {Null, Tomb}
    BY <1>1 DEF FirstFree
  <1>5. /\ DOMAIN slots' = 0 .. cap - 1
        /\ slots'[k] = e
        /\ \A m \in 0 .. cap - 1 : m # k => slots'[m] = slots[m]
    BY <1>1, <1>2, <1>3
  <1>6. e \notin {Null, Tomb}
    OBVIOUS
  <1>7. Live(slots') = Live(slots) \cup {e}
    BY <1>2, <1>3, <1>4, <1>5, <1>6 DEF Live
  <1>8. ASSUME OneEach(slots), \A f \in Live(slots) : f.slot # e.slot
        PROVE  OneEach(slots')
    <2> SUFFICES ASSUME NEW j \in 0 .. cap - 1, NEW m \in 0 .. cap - 1,
                        slots'[j] \in Entry, slots'[m] \in Entry,
                        slots'[j].slot = slots'[m].slot
                 PROVE  j = m
      BY <1>5 DEF OneEach
    <2>1. \A x \in 0 .. cap - 1 : x # k /\ slots'[x] \in Entry => slots'[x].slot # e.slot
      BY <1>2, <1>5, <1>8 DEF Live
    <2>2. CASE j = k \/ m = k
      BY <2>1, <2>2, <1>5
    <2>3. CASE j # k /\ m # k
      BY <2>3, <1>2, <1>5, <1>8 DEF OneEach
    <2>4. QED
      BY <2>2, <2>3
  <1>9. QED
    BY <1>7, <1>8

(* When the slot number is new to the table, the search that follows       *)
(* symtab_insert finds the entry just inserted: reinserting an entry is    *)
(* storing it with its own depth.                                          *)
LEMMA ReinsertStores ==
  ASSUME TypeOK, NEW e \in Entry, Reinsert(e),
         \A f \in Live(slots) : f.slot # e.slot
  PROVE  \E p \in 0 .. cap - 1 :
           /\ FirstFree(slots, cap, e.name, p)
           /\ slots' = [slots EXCEPT ![Probe(e.name, p, cap)] = e]
  <1>1. PICK p, q \in 0 .. cap - 1 :
          LET stamped == [slots EXCEPT ![Probe(e.name, p, cap)] =
                                         [e EXCEPT !.depth = depth]]
          IN /\ FirstFree(slots, cap, e.name, p)
             /\ FirstMatch(stamped, cap, e, q)
             /\ slots' = [stamped EXCEPT ![Probe(e.name, q, cap)].depth = e.depth]
    BY DEF Reinsert
  <1> DEFINE k == Probe(e.name, p, cap)
             j == Probe(e.name, q, cap)
             d == [e EXCEPT !.depth = depth]
             stamped == [slots EXCEPT ![k] = d]
  <1>2. /\ cap \in Nat \ {0} /\ slots \in [0 .. cap - 1 -> Slot]
        /\ e.name \in Names /\ p \in Nat /\ q \in Nat
    BY DEF TypeOK, Entry
  <1>3. k \in 0 .. cap - 1
    BY <1>2, ProbeInRange
  <1>4. j \in 0 .. cap - 1
    BY <1>2, ProbeInRange
  <1>5. d \in Entry /\ d.name = e.name /\ d.slot = e.slot /\ [d EXCEPT !.depth = e.depth] = e
    BY DEF Entry, TypeOK
  <1>6. \A m \in 0 .. cap - 1 : m # k => ~ Matches(stamped[m], e)
    BY <1>2, <1>3 DEF Matches, Live
  <1>7. j = k
    BY <1>1, <1>4, <1>6 DEF FirstMatch
  <1>8. slots' = [stamped EXCEPT ![k] = [stamped[k] EXCEPT !.depth = e.depth]]
    BY <1>1, <1>7
  <1>9. stamped[k] = d
    BY <1>2, <1>3
  <1>10. slots' = [slots EXCEPT ![k] = e]
    BY <1>5, <1>8, <1>9, <1>2, <1>3
  <1>11. QED
    BY <1>1, <1>10

(* An iteration of the copying loop stores the old entry as it was.        *)
LEMMA RecopyStores ==
  ASSUME TypeOK, CopyInv, Recopy
  PROVE  /\ old[i] \in Entry
         /\ old[i] \in Live(old)
         /\ \A f \in Live(slots) : f.slot # old[i].slot
         /\ Store(old[i])
  <1>1. old[i] \in Entry /\ i \in 0 .. oldcap - 1
    BY DEF Recopy, TypeOK, Slot
  <1>2. \A f \in Live(slots) : f.slot # old[i].slot
    <2> SUFFICES ASSUME NEW f \in Live(slots), f.slot = old[i].slot
                 PROVE  FALSE
      OBVIOUS
    <2>1. PICK j \in 0 .. i - 1 : f = old[j] /\ f \notin {Null, Tomb}
      BY DEF CopyInv, Recopy
    <2>2. j \in 0 .. oldcap - 1 /\ j # i
      BY <1>1 DEF TypeOK
    <2>3. old[j] \in Entry
      BY <2>1, <2>2 DEF TypeOK, Slot
    <2>4. QED
      BY <1>1, <2>1, <2>2, <2>3 DEF CopyInv, OneEach, TypeOK
  <1>3. Reinsert(old[i]) /\ count' = count + 1 /\ UNCHANGED cap
    BY DEF Recopy
  <1>4. Store(old[i])
    BY <1>1, <1>2, <1>3, ReinsertStores DEF Store
  <1>5. old[i] \in Live(old)
    BY <1>1 DEF Live, TypeOK
  <1>6. QED
    BY <1>1, <1>2, <1>4, <1>5

LEMMA EmptyIsEmpty ==
  ASSUME NEW c \in Nat
  PROVE  Live(EmptyTable(c)) = {} /\ OneEach(EmptyTable(c))
  <1>1. \A j \in DOMAIN EmptyTable(c) : EmptyTable(c)[j] = Null
    BY DEF EmptyTable
  <1>2. QED
    BY <1>1 DEF Live, OneEach

(* At the end of the loop the new array holds the old array's entries.     *)
LEMMA CopiedAll ==
  ASSUME TypeOK, CopyInv, pc = "rehash", i = oldcap
  PROVE  Live(slots) = Live(old)
  BY DEF CopyInv, Live, TypeOK

(* Retiring entries adds none and leaves the others where they were.       *)
LEMMA PopLive ==
  ASSUME TypeOK, ScopePop
  PROVE  /\ Live(slots') = {e \in Live(slots) : ~ (e.depth > depth)}
         /\ OneEach(slots) => OneEach(slots')
  <1>1. /\ DOMAIN slots' = 0 .. cap - 1 /\ DOMAIN slots = 0 .. cap - 1
        /\ \A j \in 0 .. cap - 1 : slots'[j] = IF Retired(slots[j]) THEN Tomb ELSE slots[j]
    BY DEF ScopePop, AfterPop, TypeOK
  <1>2. Live(slots') = {e \in Live(slots) : ~ (e.depth > depth)}
    BY <1>1 DEF Live, Retired
  <1>3. OneEach(slots) => OneEach(slots')
    BY <1>1 DEF OneEach
  <1>4. QED
    BY <1>2, <1>3

(* What a rehash relies on always holds.                                   *)
THEOREM CopyingIsExact == Spec => []CopyInv
  <1>1. Init => CopyInv
    BY EmptyIsEmpty DEF Init, CopyInv
  <1>2. TypeOK /\ CopyInv /\ [Next]_vars => CopyInv'
    <2> SUFFICES ASSUME TypeOK, CopyInv, [Next]_vars
                 PROVE  CopyInv'
      OBVIOUS
    <2>0. \A e \in Live(slots) \cup Live(old) : e \in Entry /\ e.slot \in Nat
      BY DEF Live, TypeOK, Slot, Entry
    <2>1. ASSUME NEW n \in Names, DeclareInPlace(n)
          PROVE  CopyInv'
      <3>1. NewEntry(n) \in Entry /\ Store(NewEntry(n)) /\ NewEntry(n).slot = nlocals
        BY <2>1 DEF DeclareInPlace, NewEntry, Entry, TypeOK
      <3>2. /\ pc = "ready" /\ nlocals' = nlocals + 1
            /\ UNCHANGED <<pc, old>>
        BY <2>1 DEF DeclareInPlace, Declaring, copying
      <3>3. \A f \in Live(slots) : f.slot < nlocals
        BY <3>2 DEF CopyInv
      <3>4. Live(slots') = Live(slots) \cup {NewEntry(n)} /\ OneEach(slots')
        BY <2>0, <3>1, <3>3, StoreLive DEF CopyInv, TypeOK
      <3>5. \A f \in Live(slots') : f.slot < nlocals'
        BY <2>0, <3>1, <3>2, <3>3, <3>4 DEF TypeOK
      <3>6. QED
        BY <3>2, <3>4, <3>5 DEF CopyInv
    <2>2. ASSUME NEW n \in Names, DeclareAndGrow(n)
          PROVE  CopyInv'
      <3>1. /\ old' = slots /\ pc' = "rehash" /\ i' = 0 /\ nlocals' = nlocals + 1
            /\ slots' = EmptyTable(2 * cap) /\ pending' = NewEntry(n) /\ depth' = depth
        BY <2>2 DEF DeclareAndGrow, Declaring
      <3>2. Live(slots') = {} /\ OneEach(slots')
        BY <3>1, EmptyIsEmpty DEF TypeOK
      <3>3. OneEach(old') /\ \A e \in Live(old') : e.slot + 1 < nlocals'
        BY <2>0, <2>2, <3>1 DEF CopyInv, DeclareAndGrow, Declaring, TypeOK
      <3>4. pending'.slot + 1 = nlocals' /\ pending'.depth = depth'
        BY <3>1 DEF NewEntry
      <3>5. {old'[j] : j \in 0 .. i' - 1} = {}
        BY <3>1
      <3>6. stage' # "ended" /\ nlocals' <= MaxLocals
        BY <2>2 DEF DeclareAndGrow, Declaring, TypeOK
      <3>7. QED
        BY <3>1, <3>2, <3>3, <3>4, <3>5, <3>6 DEF CopyInv
    <2>3. CASE Recopy
      <3>1. /\ old[i] \in Entry /\ Store(old[i])
            /\ \A f \in Live(slots) : f.slot # old[i].slot
        BY <2>3, RecopyStores
      <3>2. Live(slots') = Live(slots) \cup {old[i]} /\ OneEach(slots')
        BY <3>1, StoreLive DEF CopyInv
      <3>3. /\ pc = "rehash" /\ i' = i + 1 /\ i < oldcap
            /\ UNCHANGED <<old, pc, nlocals, pending, depth, stage>>
        BY <2>3 DEF Recopy
      <3>4. {old[j] : j \in 0 .. i} = {old[j] : j \in 0 .. i - 1} \cup {old[i]}
        BY DEF TypeOK
      <3>5. Live(slots') = {old'[j] : j \in 0 .. i' - 1} \ {Null, Tomb}
        <4>1. i' - 1 = i
          BY <3>3 DEF TypeOK
        <4>2. QED
          BY <4>1, <3>1, <3>2, <3>3, <3>4 DEF CopyInv
      <3>6. QED
        BY <3>2, <3>3, <3>5 DEF CopyInv
    <2>4. CASE SkipSlot
      <3>1. /\ pc = "rehash" /\ i' = i + 1 /\ old[i] \in {Null, Tomb}
            /\ UNCHANGED <<slots, old, pc, nlocals, pending, depth, stage>>
        BY <2>4 DEF SkipSlot, table
      <3>2. {old[j] : j \in 0 .. i} = {old[j] : j \in 0 .. i - 1} \cup {old[i]}
        BY DEF TypeOK
      <3>3. Live(slots') = {old'[j] : j \in 0 .. i' - 1} \ {Null, Tomb}
        <4>1. i' - 1 = i
          BY <3>1 DEF TypeOK
        <4>2. QED
          BY <4>1, <3>1, <3>2 DEF CopyInv
      <3>4. QED
        BY <3>1, <3>3 DEF CopyInv
    <2>5. CASE FinishGrowth
      <3>1. /\ pending \in Entry /\ Store(pending) /\ pc = "rehash" /\ i = oldcap
            /\ pc' = "ready" /\ old' = EmptyTable(0) /\ nlocals' = nlocals
        BY <2>5 DEF FinishGrowth, TypeOK
      <3>2. Live(slots) = Live(old)
        BY <3>1, CopiedAll
      <3>3. \A f \in Live(slots) : f.slot + 1 < nlocals
        BY <3>1, <3>2 DEF CopyInv
      <3>4. pending.slot + 1 = nlocals /\ pending.slot \in Nat
        BY <3>1 DEF CopyInv, Entry
      <3>5. Live(slots') = Live(slots) \cup {pending} /\ OneEach(slots')
        BY <2>0, <3>1, <3>3, <3>4, StoreLive DEF CopyInv, TypeOK
      <3>6. \A f \in Live(slots') : f.slot < nlocals'
        BY <2>0, <3>1, <3>3, <3>4, <3>5 DEF TypeOK
      <3>7. QED
        BY <3>1, <3>5, <3>6, EmptyIsEmpty DEF CopyInv
    <2>6. CASE ScopePush
      BY <2>6 DEF ScopePush, table, copying, CopyInv
    <2>7. CASE ScopePop
      <3>1. /\ Live(slots') \subseteq Live(slots)
            /\ OneEach(slots')
        BY <2>7, PopLive DEF CopyInv
      <3>2. pc = "ready" /\ UNCHANGED <<pc, old, nlocals>>
        BY <2>7 DEF ScopePop, copying
      <3>3. QED
        BY <3>1, <3>2 DEF CopyInv
    <2>8. CASE NextFunction
      <3>1. Live(slots') = {} /\ OneEach(slots')
        BY <2>8, EmptyIsEmpty DEF NextFunction
      <3>2. pc = "ready" /\ UNCHANGED <<pc, old>>
        BY <2>8 DEF NextFunction, copying
      <3>3. QED
        BY <3>1, <3>2 DEF CopyInv
    <2>9. CASE UNCHANGED vars
      BY <2>9 DEF vars, CopyInv
    <2>10. QED
      BY <2>1, <2>2, <2>3, <2>4, <2>5, <2>6, <2>7, <2>8, <2>9 DEF Next
  <1>3. QED
    BY <1>1, <1>2, TypeCorrect, PTL DEF Spec

-----------------------------------------------------------------------------
(* Every live entry stays reachable: retiring leaves a tombstone, and      *)
(* storing only fills slots.                                               *)
THEOREM ChainsStayWhole == Spec => []ChainsUnbroken
  <1>1. Init => ChainsUnbroken
    BY DEF Init, ChainsUnbroken, EmptyTable
  <1>2. TypeOK /\ TypeOK' /\ CopyInv /\ ChainsUnbroken /\ [Next]_vars => ChainsUnbroken'
    <2> SUFFICES ASSUME TypeOK, TypeOK', CopyInv, ChainsUnbroken, [Next]_vars
                 PROVE  ChainsUnbroken'
      OBVIOUS
    <2>0. ASSUME NEW c \in Nat, slots' = EmptyTable(c), cap' = c
          PROVE  ChainsUnbroken'
      BY <2>0 DEF ChainsUnbroken, EmptyTable
    <2>1. ASSUME NEW n \in Names, DeclareInPlace(n)
          PROVE  ChainsUnbroken'
      <3>1. NewEntry(n) \in Entry /\ Store(NewEntry(n))
        BY <2>1 DEF DeclareInPlace, NewEntry, Entry, TypeOK
      <3>2. QED
        BY <3>1, StoreChains
    <2>2. ASSUME NEW n \in Names, DeclareAndGrow(n)
          PROVE  ChainsUnbroken'
      BY <2>0, <2>2 DEF DeclareAndGrow, TypeOK
    <2>3. CASE Recopy
      BY <2>3, RecopyStores, StoreChains
    <2>4. CASE SkipSlot
      BY <2>4 DEF SkipSlot, table, ChainsUnbroken
    <2>5. CASE FinishGrowth
      <3>1. pending \in Entry /\ Store(pending)
        BY <2>5 DEF FinishGrowth, TypeOK
      <3>2. QED
        BY <3>1, StoreChains
    <2>6. CASE ScopePush
      BY <2>6 DEF ScopePush, table, ChainsUnbroken
    <2>7. CASE ScopePop
      <3>1. /\ cap' = cap /\ cap \in Nat \ {0}
            /\ slots \in [0 .. cap - 1 -> Slot] /\ slots' \in [0 .. cap - 1 -> Slot]
        BY <2>7 DEF ScopePop, TypeOK
      <3>2. \A j \in 0 .. cap - 1 :
              /\ slots[j] # Null => slots'[j] # Null
              /\ slots'[j] \in Entry => slots'[j] = slots[j]
        BY <2>7 DEF ScopePop, AfterPop, TypeOK
      <3>3. ASSUME NEW j \in 0 .. cap - 1, slots'[j] \in Entry
            PROVE  Chained(slots', cap, j)
        <4>1. slots[j] = slots'[j] /\ Chained(slots, cap, j)
          BY <3>2, <3>3 DEF ChainsUnbroken
        <4>2. QED
          BY <3>1, <3>2, <3>3, <4>1, ChainSurvives
      <3>4. QED
        BY <3>1, <3>3 DEF ChainsUnbroken
    <2>8. CASE NextFunction
      BY <2>0, <2>8 DEF NextFunction
    <2>9. CASE UNCHANGED vars
      BY <2>9 DEF vars, ChainsUnbroken
    <2>10. QED
      BY <2>1, <2>2, <2>3, <2>4, <2>5, <2>6, <2>7, <2>8, <2>9 DEF Next
  <1>3. QED
    BY <1>1, <1>2, TypeCorrect, CopyingIsExact, PTL DEF Spec

-----------------------------------------------------------------------------
(* The table implements the set of entries with the late retirement.       *)
THEOREM TableImplementsScopeSet == Spec => ImplementsScopeSet
  <1> USE DEF Findable, Declared
  <1>1. Init => Abstract!Init
    <2> SUFFICES ASSUME Init PROVE Abstract!Init
      OBVIOUS
    <2>1. Live(slots) = {}
      BY EmptyIsEmpty DEF Init
    <2>2. QED
      BY <2>1 DEF Init, Abstract!Init
  <1>2. TypeOK /\ CopyInv /\ [Next]_vars => [Abstract!Next]_(Abstract!vars)
    <2> SUFFICES ASSUME TypeOK, CopyInv, [Next]_vars
                 PROVE  Abstract!Next \/ UNCHANGED Abstract!vars
      OBVIOUS
    <2>1. ASSUME NEW n \in Names, DeclareInPlace(n)
          PROVE  Abstract!Declare(n)
      <3>1. NewEntry(n) \in Entry /\ Store(NewEntry(n))
        BY <2>1 DEF DeclareInPlace, NewEntry, Entry, TypeOK
      <3>2. Live(slots') = Live(slots) \cup {NewEntry(n)}
        BY <3>1, StoreLive
      <3>3. QED
        BY <2>1, <3>2 DEF DeclareInPlace, Declaring, NewEntry, Abstract!Declare
    <2>2. ASSUME NEW n \in Names, DeclareAndGrow(n)
          PROVE  UNCHANGED Abstract!vars
      BY <2>2 DEF DeclareAndGrow, Declaring, Abstract!vars, TypeOK
    <2>3. CASE Recopy
      BY <2>3 DEF Recopy, Abstract!vars
    <2>4. CASE SkipSlot
      BY <2>4 DEF SkipSlot, Abstract!vars
    <2>5. CASE FinishGrowth
      <3>1. /\ pending \in Entry /\ Store(pending) /\ pc = "rehash" /\ i = oldcap
            /\ pc' = "ready" /\ UNCHANGED <<depth, nlocals, stage>>
        BY <2>5 DEF FinishGrowth, TypeOK
      <3>2. Live(slots') = Live(old) \cup {pending}
        BY <3>1, CopiedAll, StoreLive
      <3>3. pending = [name |-> pending.name, slot |-> nlocals - 1, depth |-> depth]
        BY <3>1 DEF CopyInv, Entry, TypeOK
      <3>4. pending.name \in Names
        BY <3>1 DEF Entry
      <3>5. stage # "ended" /\ nlocals - 1 < MaxLocals
        BY <3>1 DEF CopyInv, TypeOK
      <3>6. Abstract!Declare(pending.name)
        BY <3>1, <3>2, <3>3, <3>5 DEF Abstract!Declare, TypeOK
      <3>7. QED
        BY <3>4, <3>6 DEF Abstract!Next
    <2>6. CASE ScopePush
      BY <2>6 DEF ScopePush, table, Abstract!EnterBlock, Abstract!Next
    <2>7. CASE ScopePop
      <3>1. Live(slots') = {e \in Live(slots) : e.depth < depth + 1}
        <4>1. \A e \in Live(slots) : e.depth \in Nat
          BY DEF Live, TypeOK, Slot, Entry
        <4>2. QED
          BY <2>7, <4>1, PopLive DEF TypeOK
      <3>2. Abstract!LeaveBlock
        BY <2>7, <3>1 DEF ScopePop, StageAfterPop, Abstract!LeaveBlock
      <3>3. QED
        BY <3>2 DEF Abstract!Next
    <2>8. CASE NextFunction
      <3>1. Live(slots') = {}
        BY <2>8, EmptyIsEmpty DEF NextFunction
      <3>2. QED
        BY <2>8, <3>1 DEF NextFunction, Abstract!NextFunction, Abstract!Next
    <2>9. CASE UNCHANGED vars
      BY <2>9 DEF vars, Abstract!vars
    <2>10. QED
      BY <2>1, <2>2, <2>3, <2>4, <2>5, <2>6, <2>7, <2>8, <2>9 DEF Next, Abstract!Next
  <1>3. QED
    BY <1>1, <1>2, TypeCorrect, CopyingIsExact, PTL DEF Spec, Abstract!Spec, ImplementsScopeSet

-----------------------------------------------------------------------------
(* An entry outlives its block by one block at most, and the declarations  *)
(* in scope are never lost.                                                *)
THEOREM ScopesKept == Spec => []ScopeInv
  <1>1. Init => ScopeInv
    BY EmptyIsEmpty DEF Init, ScopeInv, StaleOneLevel, VisibleKept
  <1>2. TypeOK /\ CopyInv /\ ScopeInv /\ [Next]_vars => ScopeInv'
    <2> SUFFICES ASSUME TypeOK, CopyInv, ScopeInv, [Next]_vars
                 PROVE  ScopeInv'
      OBVIOUS
    <2> USE DEF ScopeInv, StaleOneLevel, VisibleKept
    <2>0. /\ \A e \in Live(slots) \cup Live(old) \cup visible : e.depth \in Nat
          /\ depth \in Nat
      BY DEF Live, TypeOK, Slot, Entry
    <2>1. ASSUME NEW n \in Names, DeclareInPlace(n)
          PROVE  ScopeInv'
      <3>1. NewEntry(n) \in Entry /\ Store(NewEntry(n)) /\ NewEntry(n).depth = depth
        BY <2>1 DEF DeclareInPlace, NewEntry, Entry, TypeOK
      <3>2. Live(slots') = Live(slots) \cup {NewEntry(n)}
        BY <3>1, StoreLive
      <3>3. /\ pc = "ready" /\ visible' = visible \cup {NewEntry(n)}
            /\ UNCHANGED <<pc, old, depth>>
        BY <2>1 DEF DeclareInPlace, Declaring, copying
      <3>4. QED
        BY <2>0, <3>1, <3>2, <3>3
    <2>2. ASSUME NEW n \in Names, DeclareAndGrow(n)
          PROVE  ScopeInv'
      <3>1. /\ pc = "ready" /\ pc' = "rehash" /\ old' = slots /\ depth' = depth
            /\ visible' = visible \cup {NewEntry(n)} /\ pending' = NewEntry(n)
        BY <2>2 DEF DeclareAndGrow, Declaring
      <3>2. Live(slots') = {}
        BY <2>2, EmptyIsEmpty DEF DeclareAndGrow, TypeOK
      <3>3. NewEntry(n).depth = depth
        BY DEF NewEntry
      <3>4. QED
        BY <2>0, <3>1, <3>2, <3>3
    <2>3. CASE Recopy
      <3>1. Live(slots') = Live(slots) \cup {old[i]} /\ old[i] \in Live(old)
        BY <2>3, RecopyStores, StoreLive
      <3>2. pc = "rehash" /\ UNCHANGED <<pc, old, depth, visible, pending>>
        BY <2>3 DEF Recopy
      <3>3. QED
        BY <3>1, <3>2
    <2>4. CASE SkipSlot
      BY <2>4 DEF SkipSlot, table
    <2>5. CASE FinishGrowth
      <3>1. /\ pending \in Entry /\ Store(pending) /\ pc = "rehash" /\ i = oldcap
            /\ pc' = "ready" /\ old' = EmptyTable(0) /\ UNCHANGED <<depth, visible>>
        BY <2>5 DEF FinishGrowth, TypeOK
      <3>2. Live(slots') = Live(old) \cup {pending} /\ Live(old') = {}
        BY <3>1, CopiedAll, StoreLive, EmptyIsEmpty
      <3>3. pending.depth = depth
        BY <3>1 DEF CopyInv
      <3>4. QED
        BY <2>0, <3>1, <3>2, <3>3
    <2>6. CASE ScopePush
      <3>1. /\ pc = "ready" /\ depth' = depth + 1
            /\ UNCHANGED <<pc, slots, old, visible, pending>>
        BY <2>6 DEF ScopePush, table, copying
      <3>2. QED
        BY <2>0, <3>1
    <2>7. CASE ScopePop
      <3>1. Live(slots') = {e \in Live(slots) : ~ (e.depth > depth)}
        BY <2>7, PopLive
      <3>2. /\ pc = "ready" /\ depth' = depth - 1
            /\ visible' = {e \in visible : e.depth < depth}
            /\ UNCHANGED <<pc, old, pending>>
        BY <2>7 DEF ScopePop, copying
      <3>3. Live(old) = {}
        BY <3>2 DEF CopyInv
      <3>4. QED
        BY <2>0, <3>1, <3>2, <3>3
    <2>8. CASE NextFunction
      <3>1. Live(slots') = {} /\ Live(old') = {}
        BY <2>8, EmptyIsEmpty DEF NextFunction, copying, CopyInv
      <3>2. pc' = "ready" /\ visible' = {}
        BY <2>8 DEF NextFunction
      <3>3. QED
        BY <3>1, <3>2
    <2>9. CASE UNCHANGED vars
      BY <2>9 DEF vars
    <2>10. QED
      BY <2>1, <2>2, <2>3, <2>4, <2>5, <2>6, <2>7, <2>8, <2>9 DEF Next
  <1>3. QED
    BY <1>1, <1>2, TypeCorrect, CopyingIsExact, PTL DEF Spec

(* The two parts of it a reader asks for.                                  *)
COROLLARY StaleAtMostOneLevel == Spec => [](StaleOneLevel /\ VisibleKept)
  <1>1. ScopeInv => StaleOneLevel /\ VisibleKept
    BY DEF ScopeInv
  <1>2. QED
    BY <1>1, ScopesKept, PTL

-----------------------------------------------------------------------------
(* Lookups.                                                                *)

(* Every set of naturals that is not empty has a least element, and a      *)
(* greatest one if it is bounded.                                          *)
LEMMA LeastNatural ==
  ASSUME NEW S, S \subseteq Nat, S # {}
  PROVE  \E m \in S : \A k \in S : m <= k
  <1>1. PICK m \in S : \A k \in S : ~ (<<k, m>> \in OpToRel(<, Nat))
    BY WFMin, NatLessThanWellFounded
  <1>2. \A k \in S : ~ (k < m)
    BY <1>1 DEF OpToRel
  <1>3. QED
    BY <1>2

LEMMA GreatestNatural ==
  ASSUME NEW S, S \subseteq Nat, S # {}, NEW b \in Nat, \A k \in S : k <= b
  PROVE  \E m \in S : \A k \in S : k <= m
  <1> DEFINE T == {b - k : k \in S}
  <1>1. T \subseteq Nat /\ T # {}
    <2>1. \A k \in S : b - k \in Nat
      OBVIOUS
    <2>2. QED
      BY <2>1
  <1>2. PICK t \in T : \A k \in T : t <= k
    BY <1>1, LeastNatural
  <1>3. PICK m \in S : t = b - m
    OBVIOUS
  <1>4. \A k \in S : b - m <= b - k
    BY <1>2, <1>3
  <1>5. QED
    BY <1>4

(* A hit of the chain of a name is a live entry of that name.              *)
LEMMA HitIsEntry ==
  ASSUME NEW c \in Nat \ {0}, NEW tab \in [0 .. c - 1 -> Slot], NEW n \in Names,
         NEW p \in Hits(tab, c, n)
  PROVE  /\ p \in 0 .. c - 1
         /\ tab[Probe(n, p, c)] \in Entry /\ tab[Probe(n, p, c)].name = n
         /\ tab[Probe(n, p, c)] \in Live(tab)
  <1>1. p \in 0 .. c - 1 /\ p \in 0 .. p
    BY DEF Hits
  <1>2. Probe(n, p, c) \in 0 .. c - 1
    BY <1>1, ProbeInRange
  <1>3. /\ tab[Probe(n, p, c)] # Null /\ tab[Probe(n, p, c)] # Tomb
        /\ tab[Probe(n, p, c)].name = n
    BY <1>1 DEF Hits
  <1>4. QED
    BY <1>1, <1>2, <1>3 DEF Slot, Live

(* In a table without cut chains each live entry is a hit of its name.     *)
LEMMA EntryIsHit ==
  ASSUME TypeOK, ChainsUnbroken, NEW e \in Live(slots)
  PROVE  \E p \in Hits(slots, cap, e.name) : slots[Probe(e.name, p, cap)] = e
  <1>1. PICK j \in 0 .. cap - 1 : slots[j] = e
    BY DEF Live, TypeOK
  <1>2. e \in Entry
    BY <1>1 DEF Live, TypeOK, Slot
  <1>3. PICK p \in 0 .. cap - 1 :
          /\ Probe(e.name, p, cap) = j
          /\ \A q \in 0 .. p : slots[Probe(e.name, q, cap)] # Null
    BY <1>1, <1>2 DEF ChainsUnbroken, Chained
  <1>4. p \in Hits(slots, cap, e.name)
    BY <1>1, <1>2, <1>3, SymTabAssumption DEF Hits
  <1>5. QED
    BY <1>1, <1>3, <1>4

(* Among the hits there is one that symtab_lookup keeps: the first of the  *)
(* deepest.                                                                *)
LEMMA BestHit ==
  ASSUME NEW c \in Nat \ {0}, NEW tab \in [0 .. c - 1 -> Slot], NEW n \in Names,
         Hits(tab, c, n) # {},
         NEW b \in Nat, \A e \in Live(tab) : e.depth <= b
  PROVE  \E p \in Hits(tab, c, n) : \A q \in Hits(tab, c, n) : Beats(tab, c, n, p, q)
  <1> DEFINE H     == Hits(tab, c, n)
             At(p) == tab[Probe(n, p, c)].depth
             D     == {At(p) : p \in H}
  <1>1. \A p \in H : p \in Nat /\ At(p) \in Nat /\ At(p) <= b
    <2> TAKE p \in H
    <2>1. /\ p \in 0 .. c - 1 /\ tab[Probe(n, p, c)] \in Entry
          /\ tab[Probe(n, p, c)] \in Live(tab)
      BY HitIsEntry
    <2>2. QED
      BY <2>1 DEF Entry
  <1> HIDE DEF H, At
  <1>2. D \subseteq Nat /\ D # {} /\ \A d \in D : d <= b
    BY <1>1 DEF H
  <1>3. PICK m \in D : \A d \in D : d <= m
    BY <1>2, GreatestNatural
  <1> DEFINE F == {p \in H : At(p) = m}
  <1>4. F \subseteq Nat /\ F # {}
    BY <1>1, <1>3
  <1>5. PICK p \in F : \A q \in F : p <= q
    BY <1>4, LeastNatural
  <1>6. ASSUME NEW q \in H
        PROVE  At(p) > At(q) \/ (At(p) = At(q) /\ p <= q)
    <2>1. At(q) \in Nat /\ m \in Nat /\ At(q) <= m /\ At(p) = m
      BY <1>1, <1>3, <1>5
    <2>2. CASE At(q) = m
      BY <1>5, <2>1, <2>2
    <2>3. CASE At(q) # m
      BY <2>1, <2>3
    <2>4. QED
      BY <2>2, <2>3
  <1>7. QED
    BY <1>5, <1>6 DEF Beats, H, At

(* symtab_lookup answers with a live entry of the greatest depth there is, *)
(* and with NULL only if there is none.                                    *)
LEMMA LookupFindsDeepest ==
  ASSUME TypeOK, ChainsUnbroken, StaleOneLevel, NEW n \in Names
  PROVE  LET named == {e \in Live(slots) : e.name = n}
         IN  IF named = {} THEN Lookup(n) = Null
             ELSE /\ Lookup(n) \in named
                  /\ \A e \in named : e.depth <= Lookup(n).depth
  <1> DEFINE named == {e \in Live(slots) : e.name = n}
             H     == Hits(slots, cap, n)
             e(p)  == slots[Probe(n, p, cap)]
  <1>1. cap \in Nat \ {0} /\ slots \in [0 .. cap - 1 -> Slot] /\ depth + 1 \in Nat
    BY DEF TypeOK
  <1>2. \A p \in H : e(p) \in named /\ e(p) \in Entry
    BY <1>1, HitIsEntry
  <1>3. \A x \in named : \E p \in H : e(p) = x
    BY EntryIsHit
  <1>4. CASE named = {}
    <2>1. H = {}
      BY <1>2, <1>4
    <2>2. QED
      BY <1>4, <2>1 DEF Lookup, LookupIn
  <1>5. CASE named # {}
    <2>1. H # {}
      BY <1>3, <1>5
    <2>2. \A x \in Live(slots) : x.depth <= depth + 1
      BY DEF StaleOneLevel
    <2>3. \E p \in H : \A q \in H : Beats(slots, cap, n, p, q)
      BY <1>1, <2>1, <2>2, BestHit
    <2> DEFINE best == CHOOSE p \in H : \A q \in H : Beats(slots, cap, n, p, q)
    <2>4. best \in H /\ \A q \in H : Beats(slots, cap, n, best, q)
      BY <2>3
    <2>5. Lookup(n) = e(best)
      BY <2>1 DEF Lookup, LookupIn
    <2> HIDE DEF best
    <2>6. ASSUME NEW x \in named PROVE x.depth <= e(best).depth
      <3>1. PICK q \in H : e(q) = x
        BY <1>3
      <3>2. e(best).depth > e(q).depth \/ e(best).depth = e(q).depth
        BY <2>4 DEF Beats
      <3>3. e(best).depth \in Nat /\ e(q).depth \in Nat
        BY <1>2, <2>4 DEF Entry
      <3>4. QED
        BY <3>1, <3>2, <3>3
    <2>7. Lookup(n) \in named
      BY <1>2, <2>4, <2>5
    <2>8. QED
      BY <1>5, <2>5, <2>6, <2>7
  <1>6. QED
    BY <1>4, <1>5

(* A lookup misses nothing, at any time between two operations.            *)
THEOREM LookupsFindTheDeepest == Spec => []LookupIsDeepest
  <1>1. TypeOK /\ ChainsUnbroken /\ StaleOneLevel => LookupIsDeepest
    BY LookupFindsDeepest DEF LookupIsDeepest
  <1>2. QED
    BY <1>1, TypeCorrect, ChainsStayWhole, StaleAtMostOneLevel, PTL

=============================================================================
