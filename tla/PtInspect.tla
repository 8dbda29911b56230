----------------------------- MODULE PtInspect -----------------------------
(***************************************************************************)
(* The pager's page-table inspector (PAGE_HW/src/pt_inspect.c): the walk   *)
(* over all entries of a page table that somebody else has written, with   *)
(* what it counts and lists, and the walk down to one page that the check  *)
(* of the TLB makes.                                                       *)
(*                                                                         *)
(* visit_table calls itself; here the calls that are open are the levels   *)
(* from `level' up, each with its table and the entry it has come to.  The *)
(* words of a table are fixed when they are first read.  Addresses and     *)
(* spans are counted in pages.  Printing is left out.                      *)
(***************************************************************************)
EXTENDS Integers, Sequences, FiniteSets, Functions

CONSTANTS PT_LEVELS,        \* levels of the page table
          PT_ENTRIES,       \* entries of one table
          NUM_FRAME,        \* physical frames
          USER_VA_BASE,     \* first page a program may use
          TLB_ENTRIES,      \* slots of the TLB
          Allocated,        \* the frames that are allocated
          Roots,            \* what root_frame may be
          Words,            \* what a word of a table may hold: [frame, flags]
          MappingCapacity,  \* room for mappings that the caller gives
          TableCapacity,    \* room for tables that the caller gives
          Unread            \* a word that nobody has looked at

ASSUME PtInspectAssumption ==
  /\ PT_LEVELS \in Nat \ {0}
  /\ PT_ENTRIES \in Nat \ {0}
  /\ NUM_FRAME \in Nat
  /\ USER_VA_BASE \in Nat
  /\ Allocated \subseteq 0 .. NUM_FRAME - 1
  /\ Words \subseteq [frame : Nat, flags : SUBSET {"V", "R", "W", "X", "other"}]
  /\ MappingCapacity \in Nat /\ TableCapacity \in Nat
  /\ Roots \subseteq Nat
  /\ TLB_ENTRIES \in Nat \ {0}
  /\ Unread \notin Words

VARIABLES root_frame,       \* the root table's frame, or INVALID_FRAME
          data,             \* the words: frame, index -> word
          level,            \* the level of the call that runs; PT_LEVELS: none
          path,             \* level -> the table of the open call there
          index,            \* level -> the entry that call has come to
          prefix,           \* level -> the first page that call's table covers
          summary,          \* table_frames, mappings, malformed
          mappings,         \* the caller's array of mappings
          tables            \* the caller's array of tables

walk == <<level, path, index, prefix>>
vars == <<root_frame, data, walk, summary, mappings, tables>>

LevelsOf == 0 .. PT_LEVELS - 1
Indices  == 0 .. PT_ENTRIES - 1
Frames   == 0 .. NUM_FRAME - 1

INVALID_FRAME == NUM_FRAME + 1

-----------------------------------------------------------------------------
(* What pte.h says of a word.                                              *)

sf_va_level_span[l \in 0 .. PT_LEVELS] ==
  IF l = 0 THEN 1 ELSE PT_ENTRIES * sf_va_level_span[l - 1]

VA_LIMIT == sf_va_level_span[PT_LEVELS]
sf_va_vpn(va, l) == (va \div sf_va_level_span[l]) % PT_ENTRIES

sf_pte_is_present(pte) == "V" \in pte.flags
Permissions(pte) == pte.flags \ {"V"}
sf_permissions_valid(p) == /\ p # {}
                           /\ p \subseteq {"R", "W", "X"}
                           /\ "W" \in p => "R" \in p

-----------------------------------------------------------------------------
(* The visitor.                                                            *)

\* Mutant: only the allocator is asked.
ForgetsPath(frame, onPath) == frame < NUM_FRAME /\ frame \in Allocated

\* A reference must name an allocated frame that is no table of this path.
valid_frame_reference(frame, onPath) ==
  frame < NUM_FRAME /\ frame \in Allocated /\ frame \notin onPath

\* An entry that refers to a table below those of its path.
Refers(pte, onPath) ==
  pte.flags = {"V"} /\ valid_frame_reference(pte.frame, onPath)

\* visit_table's first lines: the table is entered, counted, and listed if there is room.
Enter(table, l, first) ==
  /\ level' = l
  /\ path' = [path EXCEPT ![l] = table]
  /\ index' = [index EXCEPT ![l] = 0]
  /\ prefix' = [prefix EXCEPT ![l] = first]
  /\ tables' = IF summary.table_frames < TableCapacity
               THEN Append(tables, table) ELSE tables

Counted(what) == summary' = [summary EXCEPT ![what] = @ + 1]

\* visit_all
Init ==
  /\ root_frame \in Roots
  /\ data = [f \in Frames |-> [i \in Indices |-> Unread]]
  /\ path = [l \in LevelsOf |-> root_frame]
  /\ index = [l \in LevelsOf |-> 0]
  /\ prefix = [l \in LevelsOf |-> 0]
  /\ mappings = << >>
  /\ IF root_frame \in Allocated
     THEN /\ level = PT_LEVELS - 1
          /\ summary = [table_frames |-> 1, mappings |-> 0, malformed |-> 0]
          /\ tables = IF TableCapacity > 0 THEN <<root_frame>> ELSE << >>
     ELSE /\ level = PT_LEVELS
          /\ summary = [table_frames |-> 0, mappings |-> 0,
                        malformed |-> IF root_frame = INVALID_FRAME THEN 0 ELSE 1]
          /\ tables = << >>

Visiting == level < PT_LEVELS
OnPath   == {path[m] : m \in level .. PT_LEVELS - 1}
Page     == prefix[level] + index[level] * sf_va_level_span[level]

Valid(pte) ==
  IF level > 0
  THEN Refers(pte, OnPath)
  ELSE /\ sf_permissions_valid(Permissions(pte))
       /\ valid_frame_reference(pte.frame, OnPath)
       /\ Page >= USER_VA_BASE

\* The entry the running call has come to, read.
Reads(pte) ==
  /\ Visiting /\ index[level] < PT_ENTRIES
  /\ LET old == data[path[level]][index[level]]
     IN  IF old = Unread THEN pte \in Words ELSE pte = old
  /\ data' = [data EXCEPT ![path[level]][index[level]] = pte]
  /\ UNCHANGED root_frame

Advance == index' = [index EXCEPT ![level] = @ + 1]

Absent(pte) ==
  /\ Reads(pte) /\ ~sf_pte_is_present(pte)
  /\ Advance
  /\ UNCHANGED <<level, path, prefix, summary, mappings, tables>>

malformed(pte) ==
  /\ Reads(pte) /\ sf_pte_is_present(pte) /\ ~Valid(pte)
  /\ Counted("malformed")
  /\ Advance
  /\ UNCHANGED <<level, path, prefix, mappings, tables>>

\* Mutant: the address of the table below leaves out what the tables above cover.
DescendsFromZero(pte) ==
  /\ Reads(pte) /\ level > 0 /\ sf_pte_is_present(pte) /\ Valid(pte)
  /\ Enter(pte.frame, level - 1, index[level] * sf_va_level_span[level])
  /\ Counted("table_frames")
  /\ UNCHANGED mappings

\* The table below is visited; this call goes on with its entry when it returns.
Descend(pte) ==
  /\ Reads(pte) /\ level > 0 /\ sf_pte_is_present(pte) /\ Valid(pte)
  /\ Enter(pte.frame, level - 1, Page)
  /\ Counted("table_frames")
  /\ UNCHANGED mappings

Leaf(pte) ==
  /\ Reads(pte) /\ level = 0 /\ sf_pte_is_present(pte) /\ Valid(pte)
  /\ mappings' = IF summary.mappings < MappingCapacity
                 THEN Append(mappings, [va |-> Page, frame |-> pte.frame,
                                        permissions |-> Permissions(pte)])
                 ELSE mappings
  /\ Counted("mappings")
  /\ Advance
  /\ UNCHANGED <<level, path, prefix, tables>>

\* The loop is over: the caller goes on with its next entry.
Return ==
  /\ Visiting /\ index[level] = PT_ENTRIES
  /\ level' = level + 1
  /\ index' = IF level + 1 < PT_LEVELS THEN [index EXCEPT ![level + 1] = @ + 1]
              ELSE index
  /\ UNCHANGED <<root_frame, data, path, prefix, summary, mappings, tables>>

Next ==
  \/ Return
  \/ \E pte \in Words : Absent(pte) \/ malformed(pte) \/ Descend(pte) \/ Leaf(pte)

Spec == Init /\ [][Next]_vars

Done == level = PT_LEVELS

TypeOK ==
  /\ root_frame \in Roots
  /\ data \in [Frames -> [Indices -> Words \cup {Unread}]]
  /\ level \in 0 .. PT_LEVELS
  /\ path \in [LevelsOf -> Nat]
  /\ index \in [LevelsOf -> 0 .. PT_ENTRIES]
  /\ prefix \in [LevelsOf -> Nat]
  /\ summary \in [{"table_frames", "mappings", "malformed"} -> Nat]
  /\ mappings \in Seq([va : Nat, frame : Nat,
                        permissions : SUBSET {"V", "R", "W", "X", "other"}])
  /\ tables \in Seq(Nat)

-----------------------------------------------------------------------------
(* The walk to one page, and the check of the TLB that rests on it.        *)

NoLeaf == [found |-> FALSE]

\* Mutant: the frame is compared with the bottom table only.
LeafUnderBottom(tbls, va) ==
  LET pte == data[Head(tbls)][sf_va_vpn(va, 0)]
  IN  IF /\ sf_pte_is_present(pte)
         /\ sf_permissions_valid(Permissions(pte))
         /\ valid_frame_reference(pte.frame, {Head(tbls)})
      THEN [found |-> TRUE, frame |-> pte.frame, permissions |-> Permissions(pte)]
      ELSE NoLeaf

\* The entry of the bottom table, Head(tbls), for page va.
LeafOf(tbls, va) ==
  LET pte == data[Head(tbls)][sf_va_vpn(va, 0)]
  IN  IF /\ sf_pte_is_present(pte)
         /\ sf_permissions_valid(Permissions(pte))
         /\ valid_frame_reference(pte.frame, Range(tbls))
      THEN [found |-> TRUE, frame |-> pte.frame, permissions |-> Permissions(pte)]
      ELSE NoLeaf

\* down[l]: the tables from level l to the root, << >> when the loop has given up.
decode_leaf(va) ==
  LET down[l \in LevelsOf] ==
        IF l = PT_LEVELS - 1
        THEN IF va < USER_VA_BASE \/ va >= VA_LIMIT \/ root_frame \notin Allocated
             THEN << >> ELSE <<root_frame>>
        ELSE LET above == down[l + 1]
                 pte   == data[Head(above)][sf_va_vpn(va, l + 1)]
             IN  IF above # << >> /\ Refers(pte, Range(above))
                 THEN <<pte.frame>> \o above ELSE << >>
  IN  IF down[0] = << >> THEN NoLeaf ELSE LeafOf(down[0], va)

sf_tlb_index(vpn) == vpn % TLB_ENTRIES

\* tlb: the slots that are valid, each with its vpn, frame and permissions.
sf_pt_incoherent_tlb_entries(tlb) ==
  Cardinality({i \in DOMAIN tlb :
    \/ tlb[i].vpn >= VA_LIMIT
    \/ sf_tlb_index(tlb[i].vpn) # i
    \/ decode_leaf(tlb[i].vpn) # [found |-> TRUE, frame |-> tlb[i].frame,
                                  permissions |-> tlb[i].permissions]})

sf_pt_allocated_frames == Cardinality({f \in Frames : f \in Allocated})

-----------------------------------------------------------------------------
(* What a page table says, from the layout alone: the tables over a page   *)
(* are a chain of distinct allocated frames, each named by the one above.  *)
(* mem: the words, frame by frame.                                         *)

Chain(mem, tbl, l, va) ==
  /\ tbl[PT_LEVELS - 1] = root_frame
  /\ IsInjective(tbl)
  /\ \A m \in l .. PT_LEVELS - 2 :
       mem[tbl[m + 1]][sf_va_vpn(va, m + 1)] = [frame |-> tbl[m], flags |-> {"V"}]

Chains(mem, l, va) == {tbl \in [l .. PT_LEVELS - 1 -> Allocated] : Chain(mem, tbl, l, va)}

Pages == 0 .. VA_LIMIT - 1

\* The first pages of what one entry of a table at level l covers.
Firsts(l) == {va \in Pages : va % sf_va_level_span[l] = 0}

\* The entry at level l for page va, with the frames of the tables over it.
Entries(mem, l, va) ==
  {[pte |-> mem[tbl[l]][sf_va_vpn(va, l)], over |-> Range(tbl)] : tbl \in Chains(mem, l, va)}

IsLeaf(e, va) ==
  /\ "V" \in e.pte.flags
  /\ sf_permissions_valid(Permissions(e.pte))
  /\ e.pte.frame \in Allocated \ e.over
  /\ va >= USER_VA_BASE

MappingsOf(mem, va) ==
  {[va |-> va, frame |-> e.pte.frame, permissions |-> Permissions(e.pte)] :
     e \in {x \in Entries(mem, 0, va) : IsLeaf(x, va)}}

AllMappings(mem) == UNION {MappingsOf(mem, va) : va \in Pages}

AllTables(mem) == UNION {{<<l, va>> : va \in {x \in Firsts(l + 1) : Chains(mem, l, x) # {}}} :
                    l \in LevelsOf}

AllMalformed(mem) ==
  UNION {{<<l, va>> : va \in {x \in Firsts(l) : \E e \in Entries(mem, l, x) :
            /\ "V" \in e.pte.flags
            /\ IF l = 0 THEN ~IsLeaf(e, x)
               ELSE ~(e.pte.flags = {"V"} /\ e.pte.frame \in Allocated \ e.over)}} :
         l \in LevelsOf}

AtMost(n, capacity) == IF n < capacity THEN n ELSE capacity

-----------------------------------------------------------------------------
(* Whatever has been written into the tables - cycles, stray frames,       *)
(* flags that mean nothing - visit_table counts each well-formed table and *)
(* mapping of each page once, and every present entry it skips; and it     *)
(* hands the lowest mappings that there is room for to the caller          *)
(* (pt_inspect.c:59-145, pt_inspect.h:23-41).                              *)
InspectionIsTrue ==
  Done => /\ summary.malformed = Cardinality(AllMalformed(data))
                                   + (IF root_frame \in Allocated \cup {INVALID_FRAME}
                                      THEN 0 ELSE 1)
          /\ summary.table_frames = Cardinality(AllTables(data))
          /\ summary.mappings = Cardinality(AllMappings(data))
          /\ Len(tables) = AtMost(summary.table_frames, TableCapacity)
          /\ Len(mappings) = AtMost(summary.mappings, MappingCapacity)
          /\ Range(mappings) \subseteq AllMappings(data)
          /\ \A m \in Range(mappings), x \in AllMappings(data) :
               x.va < m.va => x \in Range(mappings)

\* The caller's array is in ascending order of addresses at every moment, and
\* the entry the visitor stands at, at whatever level, is above all of it: nothing it
\* has still to visit comes before what it has listed (pt_inspect.h:31).
MappingsAscend ==
  /\ \A i, j \in 1 .. Len(mappings) : i < j => mappings[i].va < mappings[j].va
  /\ Visiting => \A i \in 1 .. Len(mappings) : mappings[i].va < Page

\* A cached translation is counted as incoherent exactly when it is in the wrong
\* slot or the visitor does not find that mapping: the two walks over the same
\* tables agree about every page (pt_inspect.c:185-236, "using the same
\* well-formedness rules as the visitor").
TlbCountIsTrue ==
  Done => \A vpn \in 0 .. VA_LIMIT, i \in 0 .. TLB_ENTRIES - 1, w \in Words :
            LET entry == [vpn |-> vpn, frame |-> w.frame, permissions |-> Permissions(w)]
            IN  sf_pt_incoherent_tlb_entries([s \in {i} |-> entry]) = 0 <=>
                  /\ vpn % TLB_ENTRIES = i
                  /\ vpn \in Pages
                  /\ [va |-> vpn, frame |-> w.frame, permissions |-> Permissions(w)]
                       \in MappingsOf(data, vpn)
=============================================================================
