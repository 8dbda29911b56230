------------------------------ MODULE Bytecode ------------------------------
(***************************************************************************)
(* The bytecode file byte for byte: emit_module writes it                  *)
(* (COMPILER_HW/src/emit.c) and load_prog reads it (COMPILER_HW/vm/svm.c). *)
(* A module is [consts, entry, funcs]; a constant its tag and its value, a *)
(* function [name, nparams, nlocals, code], name and code in bytes.        *)
(***************************************************************************)
EXTENDS Integers, Sequences, SequencesExt

CONSTANT NameRoom     \* bytes for a function's name in the machine, the 0 included

ASSUME BytecodeAssumption == NameRoom \in Nat \ {0}

Magic == <<66, 86, 77, 49>>

\* The n low bytes of v, the lowest first; of a negative v its two's complement.
Put(v, n) ==
  LET rest[i \in 1 .. n] == IF i = 1 THEN v ELSE rest[i - 1] \div 256
  IN  [i \in 1 .. n |-> rest[i] % 256]

\* One constant: a tag, seven bytes of padding, the value.
PutConst(c) == Put(c.tag, 1) \o Put(0, 7) \o Put(c.value, 8)

\* Mutant: a function has no more than 255 locals.
PutFuncShort(f) ==
  Put(Len(f.name), 2) \o f.name \o Put(f.nparams, 2) \o Put(f.nlocals, 1)
  \o Put(Len(f.code), 4) \o f.code

PutFunc(f) ==
  Put(Len(f.name), 2) \o f.name \o Put(f.nparams, 2) \o Put(f.nlocals, 2)
  \o Put(Len(f.code), 4) \o f.code

emit_module(m) ==
  Magic
  \o Put(Len(m.consts), 4)
  \o FlattenSeq([i \in DOMAIN m.consts |-> PutConst(m.consts[i])])
  \o Put(Len(m.funcs), 4)
  \o Put(IF m.entry < 0 THEN 0 ELSE m.entry, 4)
  \o FlattenSeq([i \in DOMAIN m.funcs |-> PutFunc(m.funcs[i])])

-----------------------------------------------------------------------------
(* load_prog.  A position is the number of bytes before it.  Only the      *)
(* number readers look for the end of the file.                            *)

Died == [loaded |-> FALSE]

Unsigned(file, at, n) ==
  LET upper[i \in 1 .. n + 1] ==
        IF i = n + 1 THEN 0 ELSE 256 * upper[i + 1] + file[at + i]
  IN  upper[1]

\* The top byte carries the sign.
Signed(file, at, n) ==
  LET top == file[at + n]
      upper[i \in 1 .. n] ==
        IF i = n THEN IF top < 128 THEN top ELSE top - 256
        ELSE 256 * upper[i + 1] + file[at + i]
  IN  upper[1]

\* rd_u16, rd_i32, rd_u32, rd_i64: whether the n bytes are there, or the machine dies.
InFile(file, at, n) == at + n <= Len(file)

ConstAt(file, i) == 8 + 16 * (i - 1)

ReadConst(file, i) ==
  [tag   |-> Unsigned(file, ConstAt(file, i), 1),
   value |-> Signed(file, ConstAt(file, i) + 8, 8)]

\* What memcpy and f->code find at the n bytes from at: those past the file are lost.
Taken(file, at, n) ==
  SubSeq(file, at + 1, IF at + n < Len(file) THEN at + n ELSE Len(file))

ReadName(file, at, n) == Taken(file, at, IF n < NameRoom - 1 THEN n ELSE NameRoom - 1)

\* The functions before the i-th have been read, and the cursor stands at `at'.
ReadFunc(file, at) ==
  LET nlen == Unsigned(file, at, 2)
      rest == at + 2 + nlen
      clen == Unsigned(file, rest + 4, 4)
  IN  IF ~InFile(file, at, 2) \/ ~InFile(file, rest, 8) THEN Died
      ELSE [loaded |-> TRUE, next |-> rest + 8 + clen,
            func |-> [name    |-> ReadName(file, at + 2, nlen),
                      nparams |-> Unsigned(file, rest, 2),
                      nlocals |-> Unsigned(file, rest + 2, 2),
                      code    |-> Taken(file, rest + 8, clen)],
            whole |-> rest + 8 + clen <= Len(file)]

\* Mutant: the loop ends where the file does.
ReadFuncsThere(file, at, nfuncs) ==
  LET read[i \in 0 .. nfuncs] ==
        IF i = 0
        THEN [loaded |-> TRUE, next |-> at, funcs |-> << >>, whole |-> TRUE]
        ELSE LET before == read[i - 1]
                 f      == ReadFunc(file, before.next)
             IN  IF ~f.loaded THEN before
                 ELSE [loaded |-> TRUE, next |-> f.next, whole |-> f.whole,
                       funcs |-> Append(before.funcs, f.func)]
  IN  read[nfuncs]

ReadFuncs(file, at, nfuncs) ==
  LET read[i \in 0 .. nfuncs] ==
        IF i = 0
        THEN [loaded |-> TRUE, next |-> at, funcs |-> << >>, whole |-> TRUE]
        ELSE LET before == read[i - 1]
                 f      == ReadFunc(file, before.next)
             IN  IF ~before.loaded THEN Died
                 ELSE IF ~f.loaded THEN Died
                 ELSE [loaded |-> TRUE, next |-> f.next, whole |-> f.whole,
                       funcs |-> Append(before.funcs, f.func)]
  IN  read[nfuncs]

load_prog(file) ==
  LET nconsts == Unsigned(file, 4, 4)
      at      == 8 + 16 * nconsts
      nfuncs  == Unsigned(file, at, 4)
  IN  IF Taken(file, 0, 4) # Magic \/ ~InFile(file, 4, 4) THEN Died
      ELSE IF ~InFile(file, 8, 16 * nconsts) \/ ~InFile(file, at, 8) THEN Died
      ELSE LET f == ReadFuncs(file, at + 8, nfuncs)
           IN  IF ~f.loaded THEN Died
               ELSE [loaded |-> TRUE, whole |-> f.whole,
                     prog |-> [consts |-> [i \in 1 .. nconsts |-> ReadConst(file, i)],
                               entry  |-> Unsigned(file, at + 4, 4),
                               funcs  |-> f.funcs]]

\* main, before anything runs.
Starts(r) == r.loaded /\ r.prog.entry < Len(r.prog.funcs)
=============================================================================
