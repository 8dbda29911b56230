# CSE 320 homework collection: models, checks and proofs

This directory holds TLA+ models of the programs of the repository, the TLC
configurations that check them on small instances, and theorems about them
checked by TLAPS. Every definition is translated from the code; where a document
and the code disagree, the model follows the code and the disagreement is
recorded (see *Disagreements*).

Run from this directory: `tlc -config X.cfg M` for a check, `tlapm M.tla` for the
proofs. `PROJECT.json` maps every definition to source lines and lists the runs,
the mutants that show that each property can fail, the hazards and the theorems.

## 1. Inventory

The repository is seven programming assignments. Much of what they ask for is
left to the student: those functions are stubs, and there is nothing to model
in them. What follows is the code that exists.

| Component | State | Operations | What is hard | What makes it correct |
| --- | --- | --- | --- | --- |
| **Compiler: symbol table** (`COMPILER_HW/src/symtab.c`) | slot array, capacity, insertion count, scope depth | insert (with rehash), lookup, scope push and pop | tombstones, reuse, growth in the middle of a function, shadowing | probing ends, no entry is lost, a name resolves to the innermost declaration |
| **Compiler: lexer and token cursor** (`lexer.c`, `parser.c`) | token array that moves when it grows, interned strings, the parser's `cur`/`peek` pointers, names copied or borrowed | lexer_next, advance, prescan, lexer_free | pointers into a reallocated array; strings that die with their lexer | a pointer is read only while it points into live memory |
| **Compiler: parser, AST** (`parser.c`) | AST, signatures, slot numbers | recursive descent, coercions | error paths, forward calls | every name has a slot, every value its type |
| **Compiler: code generator, emitter, SVM** (`codegen.c`, `emit.c`, `vm/svm.c`) | instruction lists, constant pool, bytes; VM stack and frames | gen_*, encode_func, emit_module, load_prog, run_func | jump offsets patched twice, operand widths, stack balance | decoding what was encoded gives the same program; a run computes the source's meaning |
| **Compiler: driver** (`main.c`) | source buffer, output file | load_source, compile | short reads, a source that changes, a phase that fails | the buffer is large enough, a failing run keeps the old output |
| **Compiler: bytecode file** (`emit.c:12-143`, `vm/svm.c:31-112`) | the bytes of the `.bvm` file | emit_module's writers, load_prog's readers | widths and signs on both sides, a file cut off anywhere | the machine gets the program that was written, or says that it did not |
| **Tank client library** (`GAME_HW/clients/tankclient.py`) | socket, reply queue, reply and line counters, latest frame, game-over data, closed flag; one reader thread | send, request, sync, wait_frame, quit, close; the reader's dispatch and shutdown | reader and caller race; time-outs; close from either side; lost wake-ups | a request gets its own reply, sync means answered, waiters wake, data before flag |
| **Bot client** (`bot_client.py`) | stop, joined and idle events, thread per bot | run, _play, _spam, shutdown, main | stopping while a server answers, hangs or closes | every bot ends after stop; joined and idle are always set |
| **GUI client** (`gui_client.py`) | held keys, last move, closing flag | key handlers, poll, quit | polling queues filled by another thread | chat and replies are shown once; one quit |
| **Game server** (`GAME_HW/src/*.c`) | - | stubs (`TODO`) | - | external: modelled as its clients see it |
| **Shell: job table** (`SHELL_HW/src/tsh.c:313-450`) | `jobs[16]`, `nextjid` | addjob, deletejob, clearjob, lookups, pid2jid | ids are handed out by a counter that wraps and is reset by deletions | an id finds its job, a pid is listed once |
| **Shell: main loop** (`tsh.c:86-160`, `452-506`) | prompt, `cmdline`, exit status | options, signal set-up, fgets, eval, SIGQUIT | signals during a read, the end of the input | each line that ends in a newline is evaluated once, one foreground job |
| **Shell: parseline** (`tsh.c:191-246`) | - | splits a command line | quotes, spaces, `&` at the end | the arguments that were typed come back |
| **Shell: eval, handlers** (`tsh.c`) | - | stubs | - | external: `Shell` acts in their place |
| **Cache lab** (`CACHE_HW`) | registry of transpose functions, trace window, result file | registerTransFunction, trace generation, evaluation | stale result files, marker windows | a score belongs to the function it names |
| **Cache simulator** (`csim.c`) | option values | the command line; the simulation is a stub | `atoi`, refusals, defaults | what is simulated is the cache that was asked for |
| **Pager: page-table inspector** (`PAGE_HW/src/pt_inspect.c`, `include/vm.h`) | counters, lists of mappings and tables with fixed room | visit_table, the walk to one page, the check of the TLB | tables that refer to themselves, lists that fill up, stale translations | counts and lists are those of the table |
| **Pager: trace driver** (`PAGE_HW/src/main.c`) | names, held frames, mismatch flag, summary | the commands of a trace, parsing of a line | names that outlive regions, commands that fail half-way, base-0 numbers | the output and the status tell the truth |
| **Pager: the VM core** (`PAGE_HW/src`) | - | stubs | - | not modelled |
| **MP3: codec layer** (`MP3_HW/src/mp3_codec.c`) | buffers, the LAME encoder, the output stream | decode, free_pcm, encode | each of six calls can fail with something open; short last chunk | nothing is leaked or freed twice, a stream that comes out is whole |
| **MP3: tools and effects** (`MP3_HW/src`) | - | stubs | - | not modelled |
| **Heap allocator** (`HEAP_HW/src/sfmm.c`) | - | stubs | - | not modelled |

Vendored (`minimp3`), generated (`test/bugs/*.sl`) and prebuilt (`.o`, `bin/`)
files are left aside.

How they interact: the compiler is one process of phases that hand over an AST,
instruction lists and a file, and `svm` reads that file. In the tank game each bot
thread calls into a `TankClient` whose reader thread fills its queues and flags
over a socket from the server; `main` tells bots to stop through an event. The
cache lab's harness, `tracegen` and `csim` are processes that talk through files.
The pager's trace driver calls the VM. Otherwise the assignments share nothing.

## 2. Modules

An `MC*` module instantiates a component for TLC; its `.cfg` names the bounds. A
`*Proofs` module holds a component's theorems (section 5).

### Compiler

* **`SymTab`** (`symtab.c`, as `parser.c` calls it). `slots`, `capacity`, `count`
  and `depth` are the C structure. `DeclareInPlace` is `symtab_insert` without
  growth; with growth, `DeclareAndGrow` allocates the new array, `Reinsert` copies
  one slot at a time (`rehash` calls `symtab_insert`, then patches the depth), and
  `FinishGrowth` stores the entry that caused it. `ScopePush` and `ScopePop` follow
  `parse_block`. The hash function is a constant: the proofs hold for each.
* **`ScopeSet`** is what the table promises: a set of scoped entries, each leaving
  one block late (which is what `scope_pop` does). `SymTab` implements it.
* **`TokenCursor`** (`lexer.c`, `parser.c`). The token array has an identity that
  changes when `realloc` moves it; a pointer is an array and an index, a name is
  owned by a lexer or copied. Each step of `prescan`, `advance`, `accept`, `expect`
  and the look-ahead says which pointer it reads; `codegen` reads the names after
  the lexers are freed. What the characters spell is left open.
* **`Compile`** is the semantic half of the parser (types and conversions), the
  code generator with its back-patched jumps, the constant pool, and the two passes
  of `encode_func`: pure operators from a program to an image.
* **`Meaning`** says what a program prints, from the language description
  (`COMPILER_HW/README.md`, section 2), without code or stack.
* **`Machine`** runs an image, one instruction a step (`run_func`), whatever made the
  image. `Checks` says when code checks out: what can be told of each instruction and
  of where control goes from it without running it, with the depth of the stack that
  `Depths` assigns to each address.
* **`Svm`** is `Machine` on what `Compile` makes of a program, compared with `Meaning`.
  `Compile` and `Meaning` are recursive and stay with TLC.
* **`Driver`** (`main.c`): the source arrives through a pipe that another process
  fills, or is a file that may be rewritten between `fstat` and `read`; every phase
  may fail; the output file is opened only after all others.
* **`Bytecode`** is the file format from both sides: what each writer of `emit.c`
  puts out, and what each reader of `svm.c` makes of bytes that may end anywhere.
* **`Toolchain`** composes the two: `Driver`'s output has bytes, and the machine may
  load them before, while and after `svc` writes.

### Tank game

* **`TankClient`** (`tankclient.py`): one calling thread, the reader thread, the
  connection. Each step does one thing that the other side can see: a reply is
  queued (`PutReply`) and counted (`CountReply`) separately, a line is sent and
  counted separately, the flag `closed` is set before the conditions are notified.
  A call is a record (method, how far, what it wants); a wait may end at any time.
  Server actions are external and follow the protocol.
* **`Bot`** (`bot_client.py`) composes with it: `Bot.run` and what it calls, as
  steps that start a call of `TankClient` and steps that look at its outcome.
  Bots that keep replies are players, the others spammers.

### Shell

* **`JobList`** (`tsh.c:313-450`): the slots and the counter, each helper an operator
  or an action. `numbering` remembers whether the counter has wrapped.
* **`JobMap`** is what the list promises: a bounded map from pids to states.
  `JobList` implements it.
* **`Shell`** composes the list with the main loop: reading a line (which a signal
  may interrupt), evaluating it, waiting for the foreground job. `eval`, the
  builtins and the SIGCHLD, SIGINT and SIGTSTP handlers are stubs in the code; external
  actions do what their comments ask for.
* **`ParseLine`** (`parseline`): a line of arguments as one would type them, and what
  comes back. `Bufs` is the pointer that runs over the line, as a function of the
  number of arguments cut off; `Arguments` what is cut off. `Shell` extends it, for the
  line that `eval` is given.

### Cache lab

* **`TransScore`** (`test-trans.c`, `tracegen.c`, `cachelab.c`): the harness'
  loop, the trace and result files, the alarm, and the outcomes of the two programs
  it starts.
* **`Csim`**: the command line of `csim`, hence which cache it simulates and when it
  leaves without a word; `TransScore` starts it.
* **`Tracegen`**: what the validation in `tracegen` computes, on matrices that are
  memory with a row length.

### Pager

* **`TraceDriver`** (`PAGE_HW/src/main.c`): one action per command of a trace. The
  VM is external: regions with fresh ids at the lowest fitting address, frames that
  it takes and gives back, as `include/vm.h` says.
* **`TraceLine`**: what the text of a line means: tokens (`strtok`, call by call), numbers
  (`strtoull` with base 0, digit by digit), names and targets with offsets. It says how
  many numbers a word has by their half, `HALF`. `TraceDriver` extends it, and
  `LinesAreReadAsTyped` is about the line that a trace is read from.
* **`PtInspect`**: the visitor of all entries, one entry a step, over a table whose
  words are chosen when they are first read; the walk to one page; the TLB's check.

### MP3

* **`Mp3Codec`** (`mp3_codec.c`): one action per library call with its failure, in
  the order of the code; what is allocated is a set, a stream a sequence of frames.
  minimp3 and LAME are external.

## 3. Runs

| Run | Shows | States |
| --- | --- | --- |
| `symtab` | growth from 4 to 16 slots with colliding names, under every order of declarations and blocks: probing ends, chains stay whole, a lookup finds the deepest live entry, entries outlive their block by one level; implements `ScopeSet` | 162,706 |
| `symtab_shadow` | the disagreement of section 6 | to the violation |
| `client` | clients that keep replies and clients that count them: replies in order, in step until a time-out, sync means answered, no wake-up is lost | 2,294,047 |
| `bot` | players (in step with the server) and spammers: they end after stop and after a hang-up, with both events set and the connection closed at one end unless the reader stopped at a malformed line | 502,205 |
| `shell` | six lines with children that end or stop at any moment: an id finds its job until the counter has wrapped, one foreground job, every line evaluated once except a last one without a newline, arguments come back; implements `JobMap` | 81,955 |
| `token_cursor` | every pointer but `cur` is live whenever it is read; `cur` dangles for one token at most | 238,101 |
| `inspect` | counts and lists are those of the page table, also of one that refers to itself; mappings ascend; the TLB's check agrees | 74,820 |
| `svm` | 1,046 programs: their code checks out, runs as `Meaning` says, finds what it pops, leaves stacks balanced, ends | 40,034 |
| `toolchain` | buffer large enough, failures keep the old output, the machine loads a whole program or says so, wherever the file is cut | 22,603 |
| `trace_driver` | names, frames, summary, frame map and exit status of any trace of five lines; each text of a line means what was typed | 65,722 (names symmetric) |
| `trans_score` | the result line is that of the last submission that was not skipped, whatever the other processes and older files do; validation accepts transposes only; each run ends and says so | 266,656 |
| `codec` | any calls with any failures: nothing lost or freed twice, a stream that comes out is whole | 970 |

Every property of a passing run has a mutant in `PROJECT.json`: a plausible bug in
one mapped definition under which TLC finds that property violated.

Bounds, and why they are enough:

* `symtab`: two names that collide or not, four slots at first. Growth needs three
  entries in four slots; 16 slots leave room for a second set of collisions. The
  proofs of section 5 remove the bounds.
* `client`: two commands (one can be late while the next is asked), a queue of two
  on the wire, one tick, one GAMEOVER, one malformed line. All interleavings of the
  two threads with every call that can follow are there; a proof removes the bounds.
* `bot`: JOIN, one action and QUIT; the connection holds two commands, so a player
  that gives up can still send QUIT (as with a real socket buffer) and a spammer
  can fill it.
* `shell`: four slots, five pids and six ids: the list fills, the counter wraps, and
  an id is handed out again while others are in use. `parseline` sees all lines of up to two
  of seven arguments: empty, quoted, with a quote or an `&` in them.
* `token_cursor`: an array of two tokens and up to nine: it grows twice within one pass.
* `inspect`: three levels of two entries; four allocated frames and one that is not;
  words that are absent, leaves, pointers up, down and to themselves. The lists hold
  two mappings and three tables, so both overflow.
* `svm`: every operator of the language over five atoms in every position of a value (stored,
  tested, passed, indexed, returned, printed), plus loops, recursion, forward calls,
  shadowing signatures and functions without return.
* `toolchain`: a source of four bytes, a pipe of three, a buffer of two: each of "more
  than the pipe", "more than the buffer" and "less than both" occurs. The old file
  holds one function, the new one two functions and two constants, so each field of
  the format has a neighbour that it could be mistaken for.
* `trans_score`: three functions, each of which may have the submission's description:
  none, one with others before and after it, or several, of which any are skipped; matrices of up to six cells, so that rows and columns differ; ints of four bits,
  so that `atoi` overflows.
* `trace_driver`: two names, three pages, three frames, five lines: `alloc a`,
  `free a`, `alloc b` at the same address, `free a` fits, with one line to spare.
  Numbers of six bits (`HALF` is 32), names of up to two characters, three tokens a
  line.
* `codec`: chunks of two samples per channel and six samples: a full chunk, a short
  one and an odd sample of a stereo buffer occur; one failed decode may leave a buffer
  behind.

Deadlock is checked in `symtab`, `symtab_shadow`, `client`, `shell`, `svm` (whose stopped
machine stutters) and `codec`; the programs of the other runs end.

## 4. Fairness

* `bot`: the reader and the caller run on and time passes: every wait the bot makes
  has a time-out in the code. Only `sendall` has none, so a spammer ends only if the
  server goes on reading (`ServesSpammer`); a player does not need that.
* `svm`: the machine runs.
* `trans_score`: the harness runs and the alarm it has set goes off; `tracegen` and
  `csim` may hang.

The other runs check safety and assume no fairness. That no wake-up is lost is
`NoLostWakeup`, an invariant: nobody sleeps on a condition that already holds unless the
reader is about to notify it.

## 5. Proofs

Eight modules are checked by TLAPS for all values of the constants that satisfy the
`...Assumption` of the module they are about: bounds are positive, constants have their
types, and (in `Mp3Codec`) `NULL` is no stream. `PROJECT.json` lists the theorems.

* **`SymTabProofs`**: `ProbingAlwaysEnds`, `ChainsStayWhole`, `StaleAtMostOneLevel`,
  `NoNestedRehash`, the refinement `TableImplementsScopeSet` and
  `LookupsFindTheDeepest`. Chains alone are not
  inductive: that an insertion finds a slot needs a never-used slot, which needs
  `count` to bound the used slots, and during a rehash needs the copied entries to
  be at most half of the new array, counted over the part of the old one that is
  done. The refinement maps a half-copied pair of arrays to the entries of the copied
  part and of the part still to copy. The lookup passes every live entry of its name
  because chains are whole; it keeps the deepest by comparison, not by position.
* **`ClientProofs`**, first about `TankClient` alone: `RepliesComeInOrder`,
  `RequestsStayInStep`, `SyncIsHonest`,
  `WakeupsAreNotLost`. The invariant `TankInv` adds to them `Shape` (which call can be
  at which point, and what the reader then holds), `Counted` (each command sent is
  served, on its way back, queued or taken, and the counters say so within the one step
  in which they lag) and `Settled` (what `sync` reported stays true until the next
  call). It is proved for `AnyNext`, any program of calls, of which `Next` is one.
  Then about `Bot`: a bot's steps are among `AnyNext`'s, so `TankInv`
  holds; `Where` says at which line of `run` the bot is and with which call, `Patient`
  that a player goes on only if no request has expired, `Leaving` which events are
  set on the way out, `Stopped` why the reader has stopped: an end of the connection is
  closed, or it met a malformed line. They give `PlaysInStep` and `AlwaysLeavesCleanly`.
* **`ShellProofs`**: `SlotsStayWhole`, `IdsNameTheirJobs`, `ListImplementsMap`, by
  `JobInv`: ids are below the counter until it wraps, which is why deleting the job
  with the largest id may lower it. `OneForegroundJob` adds that the foreground job is
  the one awaited, `LinesAreEvaluatedOnce` that reads are restarted and that only a last line without a
  newline is left out.
  `LinesAreParsedBack` is about `parseline` and needs no invariant: for every set of
  arguments over the five kinds of characters and any number of them on a line. `Lays`
  says where in the line each spelling stands (`Flattens` gives the places, from the
  definition of `FlattenSeq`), and `BufsArePlaces` that the pointer, with so many
  arguments cut off, is at the next of these places, by stepping along `Bufs`. The
  number of spaces between arguments is one or two, as in the run; `TypedComesBack`
  is for any.
* **`CompilerProofs`**, first about `TokenCursor`: `OneDanglingPointer`, `PeekStaysLive`,
  `DanglingIsBrief`, from
  an `IndInv` that says where the parser is, which lexers are alive, that `peek`
  is the last token of the array and that `cur` is stale only right after a move.
  Then about `Bytecode` and `Toolchain`: `WhatIsEmittedIsLoaded` and
  `ProgramsLoadWhole`, in three stages. A number's bytes add up to the number again
  (`ReadsBack`, and `SignedReadsBack` for the eight bytes of a constant): the quotients
  of a value are the partial sums of its bytes. `Lays` says at which position of the
  file every field of a module is. Then the reader stands, after each function, at the
  position where the next one was put, and what it has is what was put there
  (`AfterReadsRight`), as long as the file goes on: `Loads` is about every file that
  begins as the module's does. The invariants `FileInv` (what the output file
  holds at each stage of `svc`) and `LoadedInv` carry it over to every interleaving.
  Assumed of a module (`IsModule`, `ToolchainAssumption`): counts and lengths are C
  ints, as `svc.h:177-192` declares them; names and the numbers of parameters and locals
  fit the 16 bits of `put_u16`, which for names is no restriction (`char name[64]`)
  and for the numbers is one (a function with 65,536 locals is not covered); the
  compiled source has a function (of an empty one the machine says "no main function",
  `svm.c:242`), and `entry` is the index of `main` or -1, with which the machine starts
  the first function.
  `DriverTypeCorrect` and `FailuresKeepOutput` follow from `DriverInv` (nothing is opened
  before everything is compiled) and `ToolchainRunsTheDriver`.
  Last about `Machine`: `CheckedCodeGoesOn` and `MachineTypeCorrect`, for every set of
  programs whose code checks out and every size of stack. Depth is not a property of
  the running function alone: `Framed` says that the running activation's stack is as
  deep as its code has it at its address, and every other one's a value short, the one
  that the activation above it will return; and `Vals` that a reference, wherever it
  is kept, is to an array that exists, which later arrays leave true. The hypothesis
  that the code checks out is the first conjunct of `Runnable`, which the run `svm`
  evaluates on each of the 1,046 programs, so compiler and theorem meet there. A call in
  checked code has at most 64 arguments, the room of `cargs` (`svm.c:189`); the parser
  counts none, so a program with a longer call is not covered.
* **`PtInspectProofs`**: `InspectionIsRight`, `TlbIsJudgedRight` and
  `MappingsAlwaysAscend`, for every number of levels and entries and every memory.
  `WalkInv` says what the open calls are: distinct allocated tables, each in the entry
  the call above waits at, their pages one within the other. `Inspected(D)` compares the
  counts and lists with the layout below `Cursor`, the page the visitor stands at. It
  is stated for every memory `D` that agrees with the words read so far: a table can be
  shared, so an unread word of it may matter again above the cursor, and with `D` fixed
  only the cursor moves. `PathIs` is the heart: over a page that the visitor stands at,
  the layout has no chain of tables but that of the open calls. When the visitor is
  done, the memory itself is such a `D`, every entry over a page has been read
  (`Settled`), and the walk to one page retraces its chain (`FoundAtBottom`).
  Of the list of tables the comparison is with its length; what is in it is not compared.
* **`TraceDriverProofs`**: `NamesStandForRegions`, `StaleNamesAreHarmless` (the table
  of names holds one entry per name, with the region of its last alloc, and region
  ids are never used twice), `NoFrameIsLost`, and `OutputStaysCurrent`, by
  `OutputInv`: the harness' count of mismatches is that of the wrong reads, and the
  last summary holds the counters as long as nothing was printed after it. And
  `LinesMeanWhatWasTyped`, for every `HALF`, every length of a name, and any tokens in
  any number. A number's digits are followed in both directions: `Reads` says which
  texts have a number as their value, and `PrintedReads` that the printed form of each
  number is one of them, one digit more at a time; what is above the limit is refused,
  never reduced to fit. A line is a layout (`Lays`): each token has its place, behind the
  gap. `BeginsArePlaces` follows `strtok` from call to call along these places, and
  `StopsAt` says that it stops behind the last of them.
* **`TransScoreProofs`**: `CorrectWasValidated`, `TracesAreWhole`, `ScoresAreTheirOwn`
  and `ValidationIsRight`. The invariant says
  where the harness is, that whoever was marked correct was accepted by
  `tracegen` in this run, and (`SoFar`) that the result file is of the function being
  evaluated once the simulator has spoken, and the score that of the last submission
  (`Known`) that was accepted (`TakenSoFar`). `ValidationIsRight` assumes that a cache's
  numbers are C ints, as `atoi` gives them.
* **`CodecProofs`**: `EveryBlockAccountedFor` and `StreamHoldsEveryFrame`, by an
  invariant with one ledger per point of the code (what is allocated there, and by
  whom) and the frames that LAME has been given, has written and holds back.

Only model-checked:

* that compiled programs do what they mean (`EndsAsMeant`), because `Compile` and
  `Meaning` are recursive operators, which TLAPS does not support.
* all liveness (`BotEnds` and the two `Ends`), which is out of its reach.

Some modules keep a `TypeOK` that no run lists: in `TankClient` it is part of the
proof, elsewhere it says what the variables hold.

## 6. Disagreements

Shown by a run that ends in a violation:

* `symtab_shadow`: `scope_pop` compares depths before it decrements, so a block's
  entries outlive it by one level (`symtab.c:105` against `svc.h:98` and
  `test/scope_shadow.sl:8`). The run's trace is that test: a name declared outside and
  again in an inner block, the inner block closed, and the name looked up in the block
  around it, still open. `StaleOneLevel` says what is true.

Seen while modelling; the models follow the code, no run is kept for them.

Tank game:

* After a request times out, the next request returns the late reply
  (`tankclient.py:231` against `:14-15` and `:237`); `InStep` says what is true. A bot
  whose request timed out calls `quit`, which takes it for `BYE` (`:259`).
* `wait_frame` returns the frame already seen when the connection closes
  (`tankclient.py:277`; line 270 promises a newer one).
* After a malformed line the reader sets `closed` with both ends open, and `shutdown`,
  which takes `closed` for a closed connection, neither quits nor closes
  (`bot_client.py:149`): the socket lasts until the process ends. `LeavesCleanly` says so;
  it also counts a connection that the server closed as closed, although `shutdown` leaves
  the bot's own end of that one open, too.
* A GUI key press moves at once, inside the cooldown (`gui_client.py:131`, `:141`).

Compiler:

* `cur` points into an array that the same `advance` may move (`parser.c:29`,
  `lexer.c:64`; `parser.c:5-6` says both point into it): it dangles from the 257th
  token for one token. `DanglesForOneToken` says what is true.
* A new array, a local and a fall-through return are ints whatever their type
  (`svm.c:202`, `codegen.c:172`; `codegen.c:7-9` says the parser decides all types).
* Without `main`, function 0 runs (`emit.c:122`; `svm.c:242` means to refuse).
* One `read` of a pipe is taken for the whole source (`main.c:20`;
  `COMPILER_HW/README.md:169-170`), and failed writes go unreported (`emit.c:139`).
* `default_output` cuts at a dot in a directory's name (`main.c:41`).
* `load_prog` compares neither a name nor code with the end of the file (`svm.c:105-109`).

Shell:

* The last line of an input without a newline is read and never evaluated (`tsh.c:145`);
  `EveryLineOnce` excepts it.
* A last argument that begins with `&` is dropped and means "background" (`tsh.c:237`).
* Job ids repeat once the counter has wrapped (`tsh.c:352`, `:376`), and `MAXJID` is not
  enforced. `IdNamesItsJob` says until when an id is unique.

Cache lab:

* A function killed by a signal passes for valid when the shell replaces itself by
  the command (`test-trans.c:92`), and the misses of a silent `csim` (one that refuses its
  options, `csim.c:58`, `:131`) are those of the last one that spoke (`test-trans.c:155`).
* If several functions have the submission's description, `results.correct` stays set by
  one of them (`test-trans.c:112`), and the summary names the last (`:83`, `:270`) although
  it may have been skipped: the correctness and the misses it prints are then an earlier
  one's. `CorrectMeansValidated` and `ScoreIsItsOwn` say what is true.
* `tracegen` may die after the end marker, in `validate` (an array with a negative
  length, `tracegen.c:35`); its trace is whole, and `csim` counts it if the death passes
  for status 0.
* `func_counter` is not bounded by `MAX_TRANS_FUNCS`; negative `M` and `N` pass the checks
  of `test-trans`.
* `tracegen` without `-F` shares its matrices between functions; a function that writes
  `A` is compared with what it left there.

Pager:

* A page table that is reached twice is counted and listed twice (`pt_inspect.c:72-82`).
* `010` is octal and `08` refused (`main.c:71`; `:20-21` says "decimal or 0x-prefixed
  hexadecimal"); `NAME+OFFSET` wraps modulo 2^64.
* `sf_pt_format_permissions` prints dashes that `parse_permissions` refuses.

MP3:

* `mp3_codec_decode` clears the caller's buffer without freeing what is in it
  (`mp3_codec.c:24`), so a second decode needs a `mp3_codec_free_pcm` before it; the
  model's caller does that. A load that fails midway leaves minimp3's buffer allocated (`:30`);
  encoding a single stereo sample succeeds with an empty stream.

## 7. Not modelled

* Stubs: the game server, the shell's evaluator and handlers, csim's simulation, the
  VM, the heap allocator, the MP3 file and effect functions. There is no behaviour to
  model; where another component relies on one, its model says what the headers promise.
* The GUI client: it polls the queues that `TankClient` models, and draws. CHAT lines,
  which only it reads, are left out of `TankClient` with it.
* The grammar itself, except the order in which it pulls tokens, and the parser's
  error paths; lexing and number formats; the text of messages and frames.
* 64-bit wrap-around and IEEE rounding in `svm`, `RETV` and `HALT` (never emitted);
  memory that runs out.
* The pretty format, the echo, access markers and permissions of the trace driver;
  what the inspector's dumps print; the cache profiles of `test-trans`.
* `check-trans.py`, `run_traces.py`, `sdriver.pl` and `gen_corpus.c`, which are scripts or
  test generators, and minimp3, which is vendored.

## 8. Plan

Done: every module of section 2 with its run, and the proofs of section 5. Left, in
this order:

1. `Gui` (`gui_client.py`), composed with `TankClient`: held keys and the cooldown,
   `poll` against the reader thread, one QUIT.
2. The parser's error paths (`parser.c:262`: a declaration without a name).
