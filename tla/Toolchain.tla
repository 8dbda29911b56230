----------------------------- MODULE Toolchain -----------------------------
(***************************************************************************)
(* The compiler and the machine with the bytecode file between them: svc   *)
(* writes the file, svm may load it before, meanwhile and afterwards.      *)
(* Driver is one run of svc; here its output has bytes.                    *)
(***************************************************************************)
EXTENDS Driver, Bytecode

CONSTANTS OldModule,    \* what the file held before
          NewModule     \* what svc makes of the source

Byte == 0 .. 255

WordSize == 65536
IntMax   == 2147483647

Word == 0 .. WordSize - 1

IsLong(v) == v \in Int /\ (v \div WordSize) \div WordSize \in -IntMax - 1 .. IntMax

(* The modules the format has room for: parameters, locals and the length  *)
(* of a name (no more than 63 bytes) in 16 bits, put_u16; counts and       *)
(* lengths are C ints.                                                     *)
IsModule(m) ==
  /\ m.consts \in Seq([tag : Byte, value : Int]) /\ Len(m.consts) <= IntMax
  /\ \A i \in DOMAIN m.consts : IsLong(m.consts[i].value)
  /\ m.entry \in Int /\ m.entry <= IntMax
  /\ m.funcs \in Seq([name : Seq(Byte), nparams : Word, nlocals : Word, code : Seq(Byte)])
  /\ Len(m.funcs) <= IntMax
  /\ \A i \in DOMAIN m.funcs : Len(m.funcs[i].name) \in Word /\ Len(m.funcs[i].code) <= IntMax

\* The source has a function (of an empty one nothing starts); entry is main's, or -1.
ASSUME ToolchainAssumption ==
  /\ IsModule(OldModule) /\ IsModule(NewModule)
  /\ NewModule.funcs # << >> /\ NewModule.entry < Len(NewModule.funcs)

VARIABLES file,         \* the bytes of the output file
          loaded        \* what svm has made of them

toolchain == <<driverVars, file, loaded>>

New == emit_module(NewModule)

\* svm has not been run.
NotYet == [loaded |-> FALSE, tried |-> FALSE]

ToolchainInit == DriverInit /\ file = emit_module(OldModule) /\ loaded = NotYet

\* fopen truncates the file; what fputc and fwrite leave in it, in full or cut off.
Emitting ==
  CASE output' = output    -> file' = file
    [] output' = "opened"  -> file' = << >>
    [] output' = "new"     -> file' = New
    [] output' = "partial" -> \E n \in 0 .. Len(New) - 1 : file' = SubSeq(New, 1, n)

Svc == Main /\ Emitting /\ UNCHANGED loaded

World == (Produce \/ EndOfSource \/ Resize) /\ UNCHANGED <<file, loaded>>

Svm ==
  /\ loaded = NotYet /\ loaded' = load_prog(file)
  /\ UNCHANGED <<driverVars, file>>

ToolchainNext == Svc \/ World \/ Svm

ToolchainSpec == ToolchainInit /\ [][ToolchainNext]_toolchain

-----------------------------------------------------------------------------
\* The module as the machine sees it: names are cut to their room.
AsLoaded(m) ==
  [consts |-> m.consts,
   entry  |-> IF m.entry < 0 THEN 0 ELSE m.entry,
   funcs  |-> [i \in DOMAIN m.funcs |->
                 [m.funcs[i] EXCEPT !.name =
                    SubSeq(@, 1, IF Len(@) < NameRoom - 1 THEN Len(@) ELSE NameRoom - 1)]]]

\* The same but for the code of the last function.
EqualButLastCode(p, q) ==
  LET n == Len(q.funcs)
  IN  /\ p.consts = q.consts /\ p.entry = q.entry /\ Len(p.funcs) = n
      /\ \A i \in 1 .. n - 1 : p.funcs[i] = q.funcs[i]
      /\ [p.funcs[n] EXCEPT !.code = << >>] = [q.funcs[n] EXCEPT !.code = << >>]
      /\ IsPrefix(p.funcs[n].code, q.funcs[n].code)

(* Whenever svm looks at the file - the compiler may be writing it, or may *)
(* have stopped anywhere in it - it has the old program, the new one, or   *)
(* nothing, except where the file ends within the code of the last         *)
(* function: that part no reader checks, and the rest is as written        *)
(* (svm.c:50-112, "truncated bytecode"; emit.c:106-141).  And what has     *)
(* been compiled runs: the file of a run that succeeded and was written in *)
(* full is loaded as the module it was made from.                          *)
LoadsWholePrograms ==
  /\ loaded.loaded =>
       IF loaded.whole
       THEN loaded.prog \in {AsLoaded(OldModule), AsLoaded(NewModule)}
       ELSE EqualButLastCode(loaded.prog, AsLoaded(NewModule))
  /\ output = "new" =>
       /\ Starts(load_prog(file))
       /\ load_prog(file).prog = AsLoaded(NewModule)
=============================================================================
