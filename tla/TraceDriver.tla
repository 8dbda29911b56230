----------------------------- MODULE TraceDriver -----------------------------
(***************************************************************************)
(* The trace driver of the pager (PAGE_HW/src/main.c): it replays a file   *)
(* of guest operations on one VM.  The trace is any sequence of lines; the *)
(* VM (stubs in this repository) is what main.c and include/vm.h make of   *)
(* it: regions with ids that are not used again, at the lowest address     *)
(* that fits, and frames that it takes and gives back.  The words in       *)
(* memory, the TLB and the page table are left open.                       *)
(***************************************************************************)
EXTENDS TraceLine, FiniteSetsExt

CONSTANTS
  Names,      (* names a trace can use                                     *)
  MaxNames,   (* MAX_NAMES                                                 *)
  NumFrame,   (* SF_NUM_FRAME                                              *)
  NumPage,    (* pages of the user's address space                         *)
  MaxLines,   (* bound: lines of the trace                                 *)
  None        (* no exit status, nothing printed                           *)

ASSUME TraceDriverAssumption ==
  /\ None \notin {0, 1, 2}
  /\ {MaxNames, NumFrame, NumPage} \subseteq Nat \ {0} /\ MaxLines \in Nat

VARIABLES
  (* driver_t                                                              *)
  names,        (* name and region, in the order of the first alloc        *)
  held,         (* frames taken by hold                                    *)
  accesses, line_number, mismatch, show_frames,
  summary_is_last,
  (* the VM                                                                *)
  regions,      (* the live reservations                                   *)
  next_id,      (* next_allocation_id                                      *)
  frames,       (* the allocated frames                                    *)
  vm_frames,    (* those that hold the VM's pages and tables               *)
  (* the process                                                           *)
  exit,         (* None, or its exit status                                *)
  summary,      (* what the last summary showed                            *)
  map,          (* what the last frame map showed                          *)
  (* history                                                               *)
  latest,       (* the region of the last successful alloc of each name    *)
  owner,        (* the name each region was allocated under                *)
  wrong         (* a read found another value than expected                *)

driver == <<names, held, accesses, line_number, mismatch, show_frames, summary_is_last>>
vm     == <<regions, next_id, frames, vm_frames>>
out    == <<exit, summary, map>>
hist   == <<latest, owner, wrong>>
vars   == <<driver, vm, out, hist>>

Frames == 0 .. NumFrame - 1

(* sf_vm_region_t; a name whose first alloc failed has the zero region,    *)
(* whose address is below the user's pages 1 .. NumPage.                   *)
Region     == [id : Nat, start : 0 .. NumPage, pages : 0 .. NumPage]
ZeroRegion == [id |-> 0, start |-> 0, pages |-> 0]

Init ==
  /\ names = <<>> /\ held = <<>> /\ accesses = 0 /\ line_number = 0
  /\ mismatch = FALSE /\ show_frames = FALSE /\ summary_is_last = FALSE
  /\ regions = {} /\ next_id = 1 /\ frames = {} /\ vm_frames = {}
  /\ exit = None /\ summary = None /\ map = None
  /\ latest = [n \in Names |-> ZeroRegion] /\ owner = <<>> /\ wrong = FALSE

-----------------------------------------------------------------------------
(* The VM.                                                                 *)

Free == Frames \ frames

Covers(r) == r.start .. r.start + r.pages - 1
Taken     == UNION {Covers(r) : r \in regions}
Fits(s, pages) == s .. s + pages - 1 \subseteq (1 .. NumPage) \ Taken

(* An access that succeeds may fault pages and tables in; one that fails   *)
(* changes nothing.                                                        *)
Access(page, ok) ==
  /\ \/ ok /\ page \in Taken /\ \E new \in SUBSET Free :
                 frames' = frames \cup new /\ vm_frames' = vm_frames \cup new
     \/ ~ ok /\ UNCHANGED <<frames, vm_frames>>
  /\ UNCHANGED <<regions, next_id>>

(* A freed region gives its pages back, and the tables left without pages. *)
Release(gone) ==
  /\ regions' = regions \ gone
  /\ \E back \in SUBSET vm_frames :
       /\ gone = {} => back = {}
       /\ regions' = {} => back = vm_frames
       /\ frames' = frames \ back /\ vm_frames' = vm_frames \ back
  /\ UNCHANGED next_id

-----------------------------------------------------------------------------
(* The table of names.                                                     *)

Known == {names[i].name : i \in DOMAIN names}
EntryOf(n) == Min({i \in DOMAIN names : names[i].name = n})
Of(n)  == names[EntryOf(n)].region

(* An entry for the name, a new one if it has none.                        *)
WithEntry(n) ==
  IF n \in Known THEN names ELSE Append(names, [name |-> n, region |-> ZeroRegion])

SetRegion(table, n, r) ==
  [i \in DOMAIN table |->
     IF table[i].name = n /\ \A j \in 1 .. i - 1 : table[j].name # n
     THEN [table[i] EXCEPT !.region = r] ELSE table[i]]

-----------------------------------------------------------------------------
(* What the driver prints: counters, and the allocator's frames.           *)
Counters == [accesses |-> accesses, used |-> Cardinality(frames)]

(* The frame map: from frame 0 on, the longest range of frames that are    *)
(* alike, then the next, up to the last frame.                             *)
\* Mutant: a range never reaches the last frame.
RangeEndShort(used, first) ==
  Min({e \in first + 1 .. NumFrame : e >= NumFrame - 1 \/ (e \in used) # (first \in used)})

RangeEnd(used, first) ==
  Min({e \in first + 1 .. NumFrame : e = NumFrame \/ (e \in used) # (first \in used)})

print_frames(used) ==
  LET from[first \in 0 .. NumFrame] ==
        IF first = NumFrame THEN <<>>
        ELSE LET end == RangeEnd(used, first)
             IN <<[allocated |-> first \in used, first |-> first, last |-> end - 1]>> \o from[end]
  IN from[0]

Reading == exit = None /\ line_number < MaxLines

(* A command is done: the frame map follows if it is on, and the driver    *)
(* remembers whether the trace so far ends in a summary.                   *)
\* Mutant: summary_is_last is only ever set.
Sticky(command) == summary_is_last \/ command = "stats"

IsSummary(command) == command = "stats"

MapAfter == IF show_frames THEN print_frames(frames') ELSE map

Ran(command) ==
  /\ line_number' = line_number + 1
  /\ summary_is_last' = IsSummary(command)
  /\ map' = MapAfter
  /\ UNCHANGED <<exit, show_frames>>

-----------------------------------------------------------------------------
(* alloc NAME PAGES PERMS: the name gets an entry before the call and its  *)
(* region only after a call that succeeded.                                *)
\* Mutant: the entry is cleared before the call.
ClearedByFailure(n, table) == SetRegion(table, n, ZeroRegion)

AfterFailure(n, table) == table

HasRoom(n) == n \in Known \/ Len(names) < MaxNames

AllocOK(n) ==
  /\ Reading /\ HasRoom(n)
  /\ \E pages \in 1 .. NumPage, s \in 1 .. NumPage :
       LET r == [id |-> next_id, start |-> s, pages |-> pages]
       IN /\ Fits(s, pages) /\ \A below \in 1 .. s - 1 : ~ Fits(below, pages)
          /\ regions' = regions \cup {r}
          /\ names' = SetRegion(WithEntry(n), n, r)
          /\ latest' = [latest EXCEPT ![n] = r]
  /\ next_id' = next_id + 1
  /\ owner' = Append(owner, n)
  /\ UNCHANGED <<held, accesses, mismatch, frames, vm_frames, summary, wrong>>
  /\ Ran("alloc")

AllocFails(n) ==
  /\ Reading /\ HasRoom(n)
  /\ names' = AfterFailure(n, WithEntry(n))
  /\ UNCHANGED <<held, accesses, mismatch, vm, summary, hist>>
  /\ Ran("alloc")

(* free NAME: by the id the name had last, live or not.                    *)
\* Mutant: by address.
RegionsAt(r) == {x \in regions : x.start = r.start}

RegionsWith(r) == {x \in regions : x.id = r.id}

FreeName(n) ==
  /\ Reading /\ n \in Known
  /\ Release(RegionsWith(Of(n)))
  /\ UNCHANGED <<names, held, accesses, mismatch, summary, hist>>
  /\ Ran("free")

(* protect NAME PERMS; permissions are left out.                           *)
Protect(n) ==
  /\ Reading /\ n \in Known
  /\ UNCHANGED <<names, held, accesses, mismatch, vm, summary, hist>>
  /\ Ran("protect")

(* dump and tlb print; flush empties the TLB, which is left out.           *)
Inspect ==
  /\ Reading
  /\ UNCHANGED <<names, held, accesses, mismatch, vm, summary, hist>>
  /\ Ran("dump")

(* TARGET: a page of a name's region, or beyond it, or an absolute one.    *)
Targets == (0 .. NumPage) \cup {Of(n).start + k : n \in Known, k \in 0 .. NumPage}

Write(page) ==
  /\ Reading
  /\ \E ok \in BOOLEAN : Access(page, ok)
  /\ accesses' = accesses + 1
  /\ UNCHANGED <<names, held, mismatch, summary, hist>>
  /\ Ran("write")

(* read TARGET [EXPECTED]: anything but the expected value is a mismatch,  *)
(* an access that fails included.                                          *)
Remembered(differs) == mismatch \/ differs

Differs(ok, expects, v) == expects /\ (~ ok \/ v = "other")

Read(page) ==
  /\ Reading
  /\ \E ok \in BOOLEAN, expects \in BOOLEAN, v \in {"expected", "other"} :
       /\ Access(page, ok)
       /\ mismatch' = Remembered(Differs(ok, expects, v))
       /\ wrong' = (wrong \/ Differs(ok, expects, v))
  /\ accesses' = accesses + 1
  /\ UNCHANGED <<names, held, summary, latest, owner>>
  /\ Ran("read")

(* translate TARGET r|w|x: no TLB, no demand paging, and not an access.    *)
Translate(page) ==
  /\ Reading
  /\ UNCHANGED <<names, held, accesses, mismatch, vm, summary, hist>>
  /\ Ran("translate")

(* hold N: the lowest free frames, as many as there are, in their order.   *)
Below(f, S) == {g \in S : g < f}
Lowest(k)   == {f \in Free : Cardinality(Below(f, Free)) < k}

Ascending(S) ==
  [j \in 1 .. Cardinality(S) |-> CHOOSE f \in S : Cardinality(Below(f, S)) = j - 1]

Hold(wanted) ==
  /\ Reading
  /\ held' = held \o Ascending(Lowest(wanted))
  /\ frames' = frames \cup Lowest(wanted)
  /\ UNCHANGED <<names, accesses, mismatch, regions, next_id, vm_frames, summary, hist>>
  /\ Ran("hold")

(* release: all of them.                                                   *)
\* Mutant: the loop stops at the first frame.
AllButFirst == {held[i] : i \in 2 .. Len(held)}

HeldFrames == {held[i] : i \in DOMAIN held}

ReleaseHeld ==
  /\ Reading
  /\ held' = <<>>
  /\ frames' = frames \ HeldFrames
  /\ UNCHANGED <<names, accesses, mismatch, regions, next_id, vm_frames, summary, hist>>
  /\ Ran("release")

(* frames [on|off]: the map is printed, except by off.                     *)
FramesCommand(mode) ==
  /\ Reading
  /\ show_frames' = IF mode = "once" THEN show_frames ELSE mode = "on"
  /\ map' = IF mode = "off" THEN map ELSE print_frames(frames)
  /\ line_number' = line_number + 1
  /\ summary_is_last' = IsSummary("frames")
  /\ UNCHANGED <<names, held, accesses, mismatch, vm, exit, summary, hist>>

Stats ==
  /\ Reading
  /\ summary' = Counters
  /\ UNCHANGED <<names, held, accesses, mismatch, vm, hist>>
  /\ Ran("stats")

(* An empty line or a comment.                                             *)
Blank ==
  /\ Reading
  /\ line_number' = line_number + 1
  /\ UNCHANGED <<names, held, accesses, mismatch, show_frames, summary_is_last,
                 vm, out, hist>>

(* main: no trace is named, or it cannot be opened.                        *)
NoTrace ==
  /\ exit = None /\ line_number = 0
  /\ exit' = 2
  /\ UNCHANGED <<driver, vm, summary, map, hist>>

(* A line that is too long or no command, an unknown name, a full table.   *)
Fail ==
  /\ Reading
  /\ exit' = 2
  /\ line_number' = line_number + 1
  /\ UNCHANGED <<names, held, accesses, mismatch, show_frames, summary_is_last,
                 vm, summary, map, hist>>

EndOfTrace ==
  /\ exit = None
  /\ summary' = IF summary_is_last THEN summary ELSE Counters
  /\ exit' = IF mismatch THEN 1 ELSE 0
  /\ UNCHANGED <<driver, vm, map, hist>>

Next ==
  \/ \E n \in Names : AllocOK(n) \/ AllocFails(n) \/ FreeName(n) \/ Protect(n)
  \/ \E page \in Targets : Write(page) \/ Read(page) \/ Translate(page)
  \/ \E k \in 0 .. NumFrame + 1 : Hold(k)
  \/ \E mode \in {"on", "off", "once"} : FramesCommand(mode)
  \/ ReleaseHeld \/ Inspect \/ Stats \/ Blank \/ NoTrace \/ Fail \/ EndOfTrace

Spec == Init /\ [][Next]_vars

-----------------------------------------------------------------------------
(* Properties.                                                             *)

TypeOK ==
  /\ names \in Seq([name : Names, region : Region]) /\ Len(names) <= MaxNames
  /\ held \in Seq(Frames) /\ Len(held) <= NumFrame
  /\ accesses \in Nat /\ line_number \in 0 .. MaxLines
  /\ {mismatch, show_frames, summary_is_last, wrong} \subseteq BOOLEAN
  /\ regions \subseteq Region /\ next_id \in Nat
  /\ frames \subseteq Frames /\ vm_frames \subseteq frames
  /\ exit \in {None, 0, 1, 2}
  /\ summary = None \/ summary \in [accesses : Nat, used : 0 .. NumFrame]
  /\ map = None \/ map \in Seq([allocated : BOOLEAN, first : Frames, last : Frames])
  /\ latest \in [Names -> Region] /\ owner \in Seq(Names)

(* A name stands for the region of its last alloc that succeeded: neither  *)
(* a failed alloc in between, nor other names, nor free disturb it         *)
(* (run_command, alloc).                                                   *)
NameIsLatestRegion ==
  \A n \in Names : IF n \in Known THEN Of(n) = latest[n] ELSE latest[n] = ZeroRegion

(* A stale name does no harm through its id: a reservation ends only by    *)
(* `free` of the name it was allocated under, also when its addresses were *)
(* another name's before (run_command, free).                              *)
FreeEndsItsOwn ==
  [][\A n \in Names : FreeName(n) =>
        \A r \in regions \ regions' : owner[r.id] = n]_vars

(* Every allocated frame is the VM's or held by hold, and no frame is both:*)
(* release and free give back what was taken, and only that.               *)
NoFrameLost ==
  /\ frames = vm_frames \cup ToSet(held) /\ vm_frames \cap ToSet(held) = {}
  /\ \A i, j \in DOMAIN held : held[i] = held[j] => i = j

(* The ranges of a frame map show every frame once, as what it is, in      *)
(* order, and no two that could be one.                                    *)
Shows(ranges, used) ==
  /\ \A k \in DOMAIN ranges : \A f \in ranges[k].first .. ranges[k].last :
        ranges[k].allocated = (f \in used)
  /\ ranges[1].first = 0 /\ Last(ranges).last = NumFrame - 1
  /\ \A k \in 1 .. Len(ranges) - 1 :
        /\ ranges[k].first <= ranges[k].last /\ ranges[k + 1].first = ranges[k].last + 1
        /\ ranges[k].allocated # ranges[k + 1].allocated

(* What the reader of the output sees last is the state there is: the      *)
(* frame map, between two lines while it is switched on, and after a trace *)
(* that ran to its end the summary, printed by the trace or by the driver; *)
(* and a mismatch anywhere in it is the exit status (main.c:19, 187, run). *)
OutputIsCurrent ==
  /\ (show_frames /\ exit = None) => Shows(map, frames)
  /\ exit \in {0, 1} => summary = Counters /\ exit = (IF wrong THEN 1 ELSE 0)

(* The line that is read first means what was typed; so do all the others  *)
(* (parse_u64, parse_word, parse_target, run).                             *)
LinesAreReadAsTyped == line_number = 1 => ReadsAsTyped
=============================================================================
