------------------------------- MODULE Driver -------------------------------
(***************************************************************************)
(* One run of the compiler (COMPILER_HW/src/main.c): the source is read    *)
(* from a file or from a pipe that another process fills, compiled, and    *)
(* written to the output file (emit_module).  A source is its length, and  *)
(* what has been read of it is a number of bytes from its beginning.       *)
(***************************************************************************)
EXTENDS Integers

CONSTANTS
  SrcLen,     (* bytes of the source                                       *)
  StdinCap,   (* room for a source from a pipe (STDIN_CAP)                 *)
  PipeCap     (* what the pipe holds                                       *)

ASSUME DriverAssumption ==
  /\ SrcLen \in Nat \ {0} /\ StdinCap \in Nat \ {0} /\ PipeCap \in Nat \ {0}

VARIABLES
  input,      (* "file", "pipe", "directory", "missing"                    *)
  size,       (* bytes in the file; another process may be writing it      *)
  stat,       (* st_size                                                   *)
  sent, pipe, (* bytes the producer has sent, and those still in the pipe  *)
  eof,        (* the producer has closed its end                           *)
  pc,         (* where main is                                             *)
  len,        (* bytes read, -1 when read failed                           *)
  output,     (* the output file: "old", "opened", "partial" or "new"      *)
  exit        (* the exit status, or Running                               *)

driverVars == <<input, size, stat, sent, pipe, eof, pc, len, output, exit>>
world == <<input, size, sent, pipe, eof>>

Running == -1

Least(a, b) == IF a < b THEN a ELSE b

DriverInit ==
  /\ input \in {"file", "pipe", "directory", "missing"}
  /\ size = SrcLen
  /\ stat = 0 /\ sent = 0 /\ pipe = 0 /\ eof = FALSE
  /\ pc = "load" /\ len = 0
  /\ output = "old" /\ exit = Running

-----------------------------------------------------------------------------
(* The process at the other end of the pipe.                               *)
Produce ==
  /\ input = "pipe" /\ ~ eof
  /\ \E n \in 1 .. SrcLen - sent :
       /\ pipe + n <= PipeCap
       /\ sent' = sent + n /\ pipe' = pipe + n
  /\ UNCHANGED <<input, size, stat, eof, pc, len, output, exit>>

EndOfSource ==
  /\ input = "pipe" /\ sent = SrcLen /\ eof' = TRUE
  /\ UNCHANGED <<input, size, stat, sent, pipe, pc, len, output, exit>>

-----------------------------------------------------------------------------
(* load_source from standard input: one read, which waits until there is   *)
(* something and returns what there is.                                    *)
\* Mutant: the buffer's end is not minded.
Unbounded == pipe

Readable == Least(pipe, StdinCap)

SomeOrClosed == pipe > 0 \/ eof

ReadPipe ==
  /\ pc = "load" /\ input = "pipe"
  /\ SomeOrClosed
  /\ len' = Readable
  /\ pipe' = pipe - Readable
  /\ pc' = "compile"
  /\ UNCHANGED <<input, size, stat, sent, eof, output, exit>>

(* load_source from a file: open, fstat, one read.                         *)
OpenFile ==
  /\ pc = "load" /\ input \in {"file", "directory"}
  /\ stat' = size /\ pc' = "read"
  /\ UNCHANGED <<world, len, output, exit>>

OpenFails ==
  /\ pc = "load" /\ input = "missing"
  /\ exit' = 1 /\ pc' = "exit"
  /\ UNCHANGED <<world, stat, len, output>>

ReadFile ==
  /\ pc = "read" /\ input = "file"
  /\ len' = Least(size, stat) /\ pc' = "compile"
  /\ UNCHANGED <<world, stat, output, exit>>

(* A directory opens, but cannot be read: the length is (size_t) -1.       *)
ReadFails ==
  /\ pc = "read" /\ input = "directory"
  /\ len' = -1 /\ pc' = "compile"
  /\ UNCHANGED <<world, stat, output, exit>>

(* parse_program and codegen; part of a source may compile as well.        *)
Compiles ==
  /\ pc = "compile" /\ pc' = "emit"
  /\ UNCHANGED <<world, stat, len, output, exit>>

CompileFails ==
  /\ pc = "compile" /\ pc' = "exit" /\ exit' = 1
  /\ UNCHANGED <<world, stat, len, output>>

(* With a length of -1 the lexer reads whatever lies behind the buffer:    *)
(* that may compile, or not, or end the process.                           *)
Crash ==
  /\ pc = "compile" /\ len < 0 /\ pc' = "exit" /\ exit' = 139
  /\ UNCHANGED <<world, stat, len, output>>

(* emit_module: only a failing fopen is noticed.                           *)
\* Mutant: the output is opened before the source is compiled.
CompileStage == "compile"

OpenStage == "emit"

OpenOutput ==
  /\ pc = OpenStage /\ output = "old" /\ output' = "opened"
  /\ UNCHANGED <<world, stat, pc, len, exit>>

OpenOutputFails ==
  /\ pc = "emit" /\ output = "old" /\ pc' = "exit" /\ exit' = 1
  /\ UNCHANGED <<world, stat, len, output>>

Write ==
  /\ pc = "emit" /\ output = "opened" /\ output' \in {"new", "partial"}
  /\ pc' = "exit" /\ exit' = 0
  /\ UNCHANGED <<world, stat, len>>

Main == ReadPipe \/ OpenFile \/ OpenFails \/ ReadFile \/ ReadFails \/ Compiles \/ CompileFails
        \/ Crash \/ OpenOutput \/ OpenOutputFails \/ Write

(* Meanwhile the named file may be rewritten.                              *)
Resize ==
  /\ input = "file" /\ size' \in 0 .. SrcLen
  /\ UNCHANGED <<input, stat, sent, pipe, eof, pc, len, output, exit>>

DriverNext == Produce \/ EndOfSource \/ Main \/ Resize

DriverSpec == DriverInit /\ [][DriverNext]_driverVars
-----------------------------------------------------------------------------
(* Properties.                                                             *)

(* The ranges; what was read fits the buffer that was allocated for it,    *)
(* however much the producer sent or the file has grown since fstat        *)
(* (main.c:19, 31).                                                        *)
DriverTypeOK ==
  /\ input \in {"file", "pipe", "directory", "missing"}
  /\ size \in 0 .. SrcLen /\ stat \in 0 .. SrcLen
  /\ sent \in 0 .. SrcLen /\ pipe \in 0 .. Least(sent, PipeCap) /\ eof \in BOOLEAN
  /\ pc \in {"load", "read", "compile", "emit", "exit"}
  /\ len \in -1 .. SrcLen
  /\ output \in {"old", "opened", "partial", "new"}
  /\ exit \in {Running, 0, 1, 139}
  /\ len <= (IF input = "pipe" THEN StdinCap ELSE stat)

(* A run that fails leaves the last output as it was (main.c:72-83).       *)
FailureKeepsOutput == exit \notin {Running, 0} => output = "old"
=============================================================================
