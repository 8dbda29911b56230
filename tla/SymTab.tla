------------------------------- MODULE SymTab -------------------------------
(***************************************************************************)
(* The parser's symbol table (COMPILER_HW/src/symtab.c): an open-addressed *)
(* hash table with linear probing, tombstones, growth by rehashing and a   *)
(* scope depth stamped on every entry, driven the way parse_func,          *)
(* parse_block and parse_decl drive it (src/parser.c).                     *)
(*                                                                         *)
(* One rehash is a loop over the old array; each iteration is a step, so   *)
(* that what holds between two iterations is checked as well.  A SymSlot's *)
(* type is left out: it travels with the slot number, which identifies the *)
(* declaration.                                                            *)
(***************************************************************************)
EXTENDS Integers, FiniteSets

CONSTANTS
  Names,     (* interned identifiers                                       *)
  Hash,      (* hash_ptr of each name                                      *)
  InitCap,   (* capacity of a fresh table (16 in the source)               *)
  Null,      (* a slot never used                                          *)
  Tomb,      (* TOMBSTONE: a slot whose entry was retired                  *)
  MaxDepth,  (* bound: deepest block nesting                               *)
  MaxLocals  (* bound: declarations in one function, parameters included   *)

Entry == [name : Names, slot : Nat, depth : Nat]

ASSUME SymTabAssumption ==
  /\ Hash \in [Names -> Nat]
  /\ InitCap \in Nat /\ InitCap >= 2
  /\ MaxDepth \in Nat
  /\ MaxLocals \in Nat
  /\ Null \notin Entry /\ Tomb \notin Entry /\ Null # Tomb

VARIABLES
  slots,     (* st->slots                                                  *)
  cap,       (* st->cap                                                    *)
  count,     (* st->count: insertions since the last rehash                *)
  depth,     (* st->depth                                                  *)
  nlocals,   (* P->nlocals: the next slot number                           *)
  stage,     (* where parse_func is: "params", "body", "ended"             *)
  pc,        (* "ready", or "rehash" while rehash copies the old array     *)
  old,       (* the array being copied                                     *)
  oldcap,    (* its capacity                                               *)
  i,         (* the copying loop's index                                   *)
  pending,   (* the entry whose insertion started the rehash               *)
  visible    (* history: the declarations of the blocks still open         *)

table   == <<slots, cap, count>>
copying == <<old, oldcap, i, pending>>
vars    == <<slots, cap, count, depth, nlocals, stage, pc, old, oldcap, i,
             pending, visible>>

-----------------------------------------------------------------------------
(* The table as a data structure.                                          *)

EmptyTable(c) == [j \in 0 .. c - 1 |-> Null]

(* The slot a name's p-th probe looks at.                                  *)
Probe(n, p, c) == (Hash[n] + p) % c

Live(tab) == {tab[j] : j \in DOMAIN tab} \ {Null, Tomb}

(* The p-th probe is where symtab_insert stores a new entry.               *)
FirstFree(tab, c, n, p) ==
  /\ tab[Probe(n, p, c)] \in {Null, Tomb}
  /\ \A q \in 0 .. p - 1 : tab[Probe(n, q, c)] \notin {Null, Tomb}

(* The p-th probe is where rehash finds the entry to restamp: the first    *)
(* with this name and slot number.                                         *)
\* Mutant: the slot number is not compared.
MatchesByName(x, e) == x \notin {Null, Tomb} /\ x.name = e.name

Matches(x, e) == x \notin {Null, Tomb} /\ x.name = e.name /\ x.slot = e.slot

FirstMatch(tab, c, e, p) ==
  /\ Matches(tab[Probe(e.name, p, c)], e)
  /\ \A q \in 0 .. p - 1 : ~ Matches(tab[Probe(e.name, q, c)], e)

(* symtab_lookup walks the chain until a never-used slot ...               *)
\* Mutant: a tombstone ends the chain.
HitsBeforeTomb(tab, c, n) ==
  {p \in 0 .. c - 1 :
     /\ \A q \in 0 .. p : tab[Probe(n, q, c)] \notin {Null, Tomb}
     /\ tab[Probe(n, p, c)].name = n}

Hits(tab, c, n) ==
  {p \in 0 .. c - 1 :
     /\ \A q \in 0 .. p : tab[Probe(n, q, c)] # Null
     /\ tab[Probe(n, p, c)] # Tomb
     /\ tab[Probe(n, p, c)].name = n}

(* ... and keeps the first of the deepest entries.                         *)
\* Mutant: the first entry of the chain is kept, whatever its depth.
BeatsByOrder(tab, c, n, p, q) == p <= q

Beats(tab, c, n, p, q) ==
  LET dp == tab[Probe(n, p, c)].depth
      dq == tab[Probe(n, q, c)].depth
  IN dp > dq \/ (dp = dq /\ p <= q)

LookupIn(tab, c, n) ==
  LET H == Hits(tab, c, n)
  IN IF H = {} THEN Null
     ELSE tab[Probe(n, CHOOSE p \in H : \A q \in H : Beats(tab, c, n, p, q), c)]

Lookup(n) == LookupIn(slots, cap, n)

\* Mutant: the table grows only when every slot is taken.
MustGrowWhenFull == count >= cap

MustGrow == (count + 1) * 2 >= cap

-----------------------------------------------------------------------------
(* The operations.                                                         *)

Init ==
  /\ slots = EmptyTable(InitCap) /\ cap = InitCap /\ count = 0
  /\ depth = 0 /\ nlocals = 0
  /\ stage = "params" /\ pc = "ready"
  /\ old = EmptyTable(0) /\ oldcap = 0 /\ i = 0 /\ pending = Null
  /\ visible = {}

(* symtab_insert, once there is room: the entry goes to the first slot of  *)
(* its chain that is free, a tombstone's included, and count grows in      *)
(* either case.                                                            *)
Store(e) ==
  /\ \E p \in 0 .. cap - 1 :
       /\ FirstFree(slots, cap, e.name, p)
       /\ slots' = [slots EXCEPT ![Probe(e.name, p, cap)] = e]
  /\ count' = count + 1
  /\ UNCHANGED cap

(* A parameter or a local is declared: it takes the next slot number.      *)
NewEntry(n) == [name |-> n, slot |-> nlocals, depth |-> depth]

Declaring(n) ==
  /\ pc = "ready"
  /\ stage # "ended"
  /\ nlocals < MaxLocals
  /\ nlocals' = nlocals + 1
  /\ visible' = visible \cup {NewEntry(n)}

DeclareInPlace(n) ==
  /\ Declaring(n)
  /\ ~ MustGrow
  /\ Store(NewEntry(n))
  /\ UNCHANGED <<depth, stage, pc, copying>>

DeclareAndGrow(n) ==
  /\ Declaring(n)
  /\ MustGrow
  /\ pc' = "rehash"
  /\ old' = slots /\ oldcap' = cap /\ i' = 0
  /\ pending' = NewEntry(n)
  /\ slots' = EmptyTable(2 * cap) /\ cap' = 2 * cap /\ count' = 0
  /\ UNCHANGED <<depth, stage>>

\* Mutant: the entry keeps the depth symtab_insert stamped.
ReinsertUnstamped(e) ==
  \E p \in 0 .. cap - 1 :
    /\ FirstFree(slots, cap, e.name, p)
    /\ slots' = [slots EXCEPT ![Probe(e.name, p, cap)] = [e EXCEPT !.depth = depth]]

(* rehash puts an entry in the new array: symtab_insert stamps the current *)
(* depth, then the entry is looked up again and gets its own depth back.   *)
Reinsert(e) ==
  \E p, q \in 0 .. cap - 1 :
    LET stamped == [slots EXCEPT ![Probe(e.name, p, cap)] =
                                    [e EXCEPT !.depth = depth]]
    IN /\ FirstFree(slots, cap, e.name, p)
       /\ FirstMatch(stamped, cap, e, q)
       /\ slots' = [stamped EXCEPT ![Probe(e.name, q, cap)].depth = e.depth]

(* One iteration of rehash over a live slot.  The conjunct ~ MustGrow is   *)
(* the branch of symtab_insert that does not call rehash again: a step     *)
(* that needed the other one would have no successor, and the deadlock     *)
(* check would report it (RehashNeverNests proves it for every table).     *)
Recopy ==
  /\ pc = "rehash"
  /\ i < oldcap
  /\ old[i] \notin {Null, Tomb}
  /\ ~ MustGrow
  /\ Reinsert(old[i])
  /\ count' = count + 1
  /\ i' = i + 1
  /\ UNCHANGED <<cap, depth, nlocals, stage, pc, old, oldcap, pending, visible>>

(* An iteration over a slot with nothing to copy: tombstones are dropped.  *)
SkipSlot ==
  /\ pc = "rehash"
  /\ i < oldcap
  /\ old[i] \in {Null, Tomb}
  /\ i' = i + 1
  /\ UNCHANGED <<table, depth, nlocals, stage, pc, old, oldcap, pending, visible>>

(* rehash returns, and the insertion that started it goes through.  The    *)
(* load is not looked at again.                                            *)
FinishGrowth ==
  /\ pc = "rehash"
  /\ i = oldcap
  /\ Store(pending)
  /\ pc' = "ready"
  /\ old' = EmptyTable(0) /\ oldcap' = 0 /\ i' = 0 /\ pending' = Null
  /\ UNCHANGED <<depth, nlocals, stage, visible>>

(* parse_block enters a block.                                             *)
ScopePush ==
  /\ pc = "ready"
  /\ stage # "ended"
  /\ depth < MaxDepth
  /\ depth' = depth + 1
  /\ stage' = "body"
  /\ UNCHANGED <<table, nlocals, pc, copying, visible>>

(* The entries scope_pop retires; it compares before it decrements.        *)
\* Mutant: entries are retired one block too late.
RetiredLate(x) == x \notin {Null, Tomb} /\ x.depth > depth + 1

Retired(x) == x \notin {Null, Tomb} /\ x.depth > depth

\* Mutant: a retired slot is marked unused.
AfterPopCleared(x) == IF Retired(x) THEN Null ELSE x

AfterPop(x) == IF Retired(x) THEN Tomb ELSE x

StageAfterPop == IF depth = 1 THEN "ended" ELSE "body"

(* parse_block leaves a block; the one at depth 1 is the function body.    *)
ScopePop ==
  /\ pc = "ready"
  /\ stage = "body"
  /\ slots' = [j \in 0 .. cap - 1 |-> AfterPop(slots[j])]
  /\ depth' = depth - 1
  /\ stage' = StageAfterPop
  /\ visible' = {e \in visible : e.depth < depth}
  /\ UNCHANGED <<cap, count, nlocals, pc, copying>>

(* symtab_free, and symtab_init for the next function.                     *)
NextFunction ==
  /\ pc = "ready"
  /\ stage = "ended"
  /\ slots' = EmptyTable(InitCap) /\ cap' = InitCap /\ count' = 0
  /\ depth' = 0 /\ nlocals' = 0 /\ stage' = "params" /\ visible' = {}
  /\ UNCHANGED <<pc, copying>>

Next ==
  \/ \E n \in Names : DeclareInPlace(n) \/ DeclareAndGrow(n)
  \/ Recopy \/ SkipSlot \/ FinishGrowth
  \/ ScopePush \/ ScopePop
  \/ NextFunction

Spec == Init /\ [][Next]_vars

-----------------------------------------------------------------------------
(* Properties.                                                             *)

Slot == Entry \cup {Null, Tomb}

TypeOK ==
  /\ cap \in Nat \ {0} /\ slots \in [0 .. cap - 1 -> Slot]
  /\ oldcap \in Nat /\ old \in [0 .. oldcap - 1 -> Slot]
  /\ count \in Nat /\ depth \in Nat /\ nlocals \in Nat
  /\ i \in 0 .. oldcap
  /\ stage \in {"params", "body", "ended"} /\ (stage = "body" => depth > 0)
  /\ pc \in {"ready", "rehash"}
  /\ pending \in Entry \cup {Null}
  /\ pc = "rehash" => pending \in Entry
  /\ visible \subseteq Entry

(* The load of the table, as the code keeps it: count bounds the slots in  *)
(* use (it is never too small, because reusing a tombstone raises it too), *)
(* it stays under half the capacity, and a rehash has copied no more       *)
(* entries than it has passed used slots.  Inductive.                      *)
Used(tab) == {j \in DOMAIN tab : tab[j] # Null}

LoadInv ==
  /\ cap >= 2
  /\ 2 * count < cap
  /\ Cardinality(Used(slots)) <= count
  /\ pc = "rehash" =>
       /\ oldcap >= 2 /\ cap = 2 * oldcap
       /\ 2 * Cardinality(Used(old)) < oldcap
       /\ count <= Cardinality({j \in Used(old) : j < i})

(* A rehash never has to rehash again, although it inserts with the same   *)
(* symtab_insert that started it.                                          *)
RehashNeverNests == (pc = "rehash" /\ i < oldcap) => ~ MustGrow

(* Probing always ends: at every point of every operation, half-way        *)
(* through a rehash included, some slot of the array was never used, so    *)
(* the unbounded loops of symtab_insert and symtab_lookup reach one.       *)
ProbingEnds == \E j \in 0 .. cap - 1 : slots[j] = Null

(* No live entry is cut off: between a name's home slot and each of its    *)
(* entries there is no never-used slot, whatever has been retired, reused  *)
(* and recopied in between.                                                *)
Chained(tab, c, j) ==
  \E p \in 0 .. c - 1 :
    /\ Probe(tab[j].name, p, c) = j
    /\ \A q \in 0 .. p : tab[Probe(tab[j].name, q, c)] # Null

ChainsUnbroken ==
  \A j \in 0 .. cap - 1 : slots[j] \in Entry => Chained(slots, cap, j)

(* What a rehash relies on: a slot number names one entry only, so the     *)
(* search by name and slot number finds the entry just inserted; and what  *)
(* has been copied so far is what the loop has passed.  Inductive.         *)
OneEach(tab) ==
  \A j, k \in DOMAIN tab :
    tab[j] \in Entry /\ tab[k] \in Entry /\ tab[j].slot = tab[k].slot => j = k

CopyInv ==
  /\ OneEach(slots) /\ OneEach(old)
  /\ pc = "ready" => Live(old) = {} /\ \A e \in Live(slots) : e.slot < nlocals
  /\ pc = "rehash" =>
       /\ \A e \in Live(old) : e.slot + 1 < nlocals
       /\ pending.slot + 1 = nlocals /\ pending.depth = depth
       /\ stage # "ended" /\ nlocals <= MaxLocals
       /\ Live(slots) = {old[j] : j \in 0 .. i - 1} \ {Null, Tomb}

(* A lookup misses nothing: it answers with an entry of the greatest depth *)
(* among all the live entries of that name, wherever in the array they     *)
(* are, and with NULL only when there is none.                             *)
LookupIsDeepest ==
  pc = "ready" => \A n \in Names :
    LET named == {e \in Live(slots) : e.name = n}
    IN IF named = {} THEN Lookup(n) = Null
       ELSE /\ Lookup(n) \in named
            /\ \A e \in named : e.depth <= Lookup(n).depth

(* How far an entry can outlive its block: a closed block's entries are    *)
(* retired by the next scope_pop, so none is deeper than one level below   *)
(* the current one.                                                        *)
StaleOneLevel == \A e \in Live(slots) \cup Live(old) : e.depth <= depth + 1

(* No declaration of a block that is still open is ever lost: scope_pop    *)
(* retires none of them and a rehash copies all of them.                   *)
VisibleKept == pc = "ready" => visible \subseteq Live(slots)

(* Inductive form of the two: while the array is being copied, the visible *)
(* declarations are in the old one, all but the one waiting to go in.      *)
ScopeInv ==
  /\ StaleOneLevel /\ VisibleKept
  /\ \A e \in visible : e.depth <= depth
  /\ pc = "rehash" => visible \subseteq Live(old) \cup {pending}

(* The inductive invariant of the proofs.                                  *)
IndInv == LoadInv /\ CopyInv /\ ScopeInv

(* The innermost open declarations of a name.  One block may declare a     *)
(* name twice (nothing forbids it); either is innermost.                   *)
Innermost(n) ==
  {e \in visible : e.name = n /\ \A f \in visible : f.name = n => f.depth <= e.depth}

(* A name that is declared in an open block is meant to resolve to the     *)
(* innermost of those declarations (include/svc.h:98,                      *)
(* test/scope_shadow.sl:8), wherever a name can be looked up: in the       *)
(* function's body, while its block or one inside it is open               *)
(* (parse_primary and parse_lvalue_stmt, from parse_block).                       *)
InnermostWins ==
  (pc = "ready" /\ stage = "body") =>
    \A n \in Names : Innermost(n) # {} => Lookup(n) \in Innermost(n)

(* The table implements the set of entries of ScopeSet with the later      *)
(* retirement: hashing, probing, tombstones and the steps of a rehash are  *)
(* invisible, and a declaration that starts a rehash takes effect when the *)
(* rehash ends.                                                            *)
Findable == IF pc = "ready" THEN Live(slots) ELSE Live(old)
Declared == IF pc = "ready" THEN nlocals ELSE nlocals - 1

Abstract == INSTANCE ScopeSet WITH
  Lag <- 1, entries <- Findable, nlocals <- Declared

ImplementsScopeSet == Abstract!Spec

=============================================================================
