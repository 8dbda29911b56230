------------------------------ MODULE Machine -------------------------------
(***************************************************************************)
(* The stack machine (COMPILER_HW/vm/svm.c): run_func, one instruction a   *)
(* step, on a program that has been loaded.  Values carry the tag int,     *)
(* double or ref; a double is counted in halves.  An instruction is kept   *)
(* whole at its address.  RETV and HALT are left out: nothing emits them.  *)
(***************************************************************************)
EXTENDS Integers, Sequences

CONSTANTS
  Sources,    (* the programs that are run                                 *)
  Loaded(_),  (* the image of a program, as it is loaded                   *)
  StackMax    (* room on a function's stack (STACK_MAX)                    *)

ASSUME MachineAssumption == StackMax \in Nat \ {0}

VARIABLES
  src,     (* the source of the program: history                           *)
  image,   (* the program, as loaded: P                                    *)
  frames,  (* activations of run_func, the running one last                *)
  heap,    (* the arrays, by number                                        *)
  out,     (* what has been printed                                        *)
  status   (* "running", "done", "died", "overflow"                        *)

machine == <<src, image, frames, heap, out, status>>

VInt(v) == [t |-> "int", v |-> v]
VDbl(v) == [t |-> "double", v |-> v]
VRef(v) == [t |-> "ref", v |-> v]

(* C arithmetic: division truncates; doubles in halves.                    *)
Abs(a)     == IF a < 0 THEN - a ELSE a
Quot(a, b) == IF (a < 0) = (b < 0) THEN Abs(a) \div Abs(b) ELSE - (Abs(a) \div Abs(b))
Trunc(v)   == Quot(v, 2)
AsD(v)     == IF v.t = "int" THEN 2 * v.v ELSE v.v

Comparisons == {"LT", "GT", "LE", "GE", "EQ", "NE"}

Relates(op, a, b) ==
  CASE op = "LT" -> a < b
    [] op = "GT" -> a > b
    [] op = "LE" -> a <= b
    [] op = "GE" -> a >= b
    [] op = "EQ" -> a = b
    [] op = "NE" -> a # b

Compared(op, a, b) == VInt(IF Relates(op, a, b) THEN 1 ELSE 0)

IntOp(op, a, b) ==
  CASE op = "ADD" -> VInt(a + b)
    [] op = "SUB" -> VInt(a - b)
    [] op = "MUL" -> VInt(a * b)
    [] op = "DIV" -> VInt(Quot(a, b))
    [] OTHER      -> Compared(op, a, b)

(* The inexact quotient and the quotient by 0 stand for IEEE's.            *)
DblOp(op, a, b) ==
  CASE op = "ADD" -> VDbl(a + b)
    [] op = "SUB" -> VDbl(a - b)
    [] op = "MUL" -> VDbl(Quot(a * b, 2))
    [] op = "DIV" -> VDbl(IF b = 0 THEN 0 ELSE Quot(2 * a, b))
    [] OTHER      -> Compared(op, a, b)

(* An activation of run_func: locals start as the int 0, arguments that    *)
(* have a local go there.                                                  *)
Frame(f, args) ==
  [f |-> f, pc |-> 0, st |-> <<>>,
   loc |-> [x \in 1 .. image.funcs[f].nlocals |-> IF x <= Len(args) THEN args[x] ELSE VInt(0)]]

MachineInit ==
  /\ src \in Sources
  /\ image = Loaded(src)
  /\ frames = <<Frame(image.entry, <<>>)>>
  /\ heap = <<>>
  /\ out = <<>>
  /\ status = "running"

-----------------------------------------------------------------------------
Binaries == {"ADD", "SUB", "MUL", "DIV"} \cup Comparisons
Unaries  == {"NEG", "I2D", "D2I"}

(* The bytes an instruction takes, as its operands are read.               *)
Width(op) ==
  CASE op \in {"PUSHC", "PUSHI", "JMP", "JZ"} -> 5
    [] op \in {"LOADL", "STOREL"} -> 3
    [] op = "CALL" -> 4
    [] OTHER -> 1

(* How many values it pops, and how many it pushes.                        *)
Pops(in) ==
  CASE in.op \in {"PUSHC", "PUSHI", "LOADL", "JMP"} -> 0
    [] in.op \in Binaries \cup {"ALOAD"} -> 2
    [] in.op = "ASTORE" -> 3
    [] in.op = "CALL" -> in.argc
    [] OTHER -> 1

Pushes(in) ==
  IF in.op \in {"PUSHC", "PUSHI", "LOADL", "CALL", "NEWARR", "ALOAD"} \cup Binaries \cup Unaries
  THEN 1 ELSE 0

Top     == frames[Len(frames)]
CodeOf(f) == image.funcs[f].code
In      == CodeOf(Top.f)[Top.pc]
NextPc  == Top.pc + Width(In.op)
Depth   == Len(Top.st)

(* The i-th value from the top of the stack, and what is below those that  *)
(* the instruction pops.                                                   *)
Arg(i) == Top.st[Depth + 1 - i]
Below  == SubSeq(Top.st, 1, Depth - Pops(In))

(* The function that runs goes on at pc, with the stack st.                *)
Continue(pc, st) == frames' = [frames EXCEPT ![Len(frames)].pc = pc, ![Len(frames)].st = st]

(* One instruction of the set ops finds what it pops.                      *)
Executes(ops) ==
  /\ status = "running"
  /\ Top.pc \in DOMAIN CodeOf(Top.f) /\ In.op \in ops
  /\ Depth >= Pops(In)
  /\ UNCHANGED <<src, image>>

(* v is pushed, if there is room.                                          *)
Result(v) ==
  IF Len(Below) < StackMax
  THEN Continue(NextPc, Append(Below, v)) /\ UNCHANGED <<heap, out, status>>
  ELSE status' = "overflow" /\ UNCHANGED <<frames, heap, out>>

Die == status' = "died" /\ UNCHANGED <<frames, heap, out>>

Load ==
  /\ Executes({"PUSHC", "PUSHI", "LOADL"})
  /\ Result(CASE In.op = "PUSHC" -> image.consts[In.arg + 1]
              [] In.op = "PUSHI" -> VInt(In.arg)
              [] In.op = "LOADL" -> Top.loc[In.arg])

Store ==
  /\ Executes({"STOREL"})
  /\ frames' = [frames EXCEPT ![Len(frames)] =
                  [f |-> Top.f, pc |-> NextPc, st |-> Below,
                   loc |-> [Top.loc EXCEPT ![In.arg] = Arg(1)]]]
  /\ UNCHANGED <<heap, out, status>>

(* do_binop: on ints if both are, and otherwise on doubles.                *)
BothInt(a, b) == a.t = "int" /\ b.t = "int"

Binary ==
  /\ Executes(Binaries)
  /\ LET a == Arg(2)
         b == Arg(1)
     IN  IF BothInt(a, b)
         THEN IF In.op = "DIV" /\ b.v = 0 THEN Die ELSE Result(IntOp(In.op, a.v, b.v))
         ELSE Result(DblOp(In.op, AsD(a), AsD(b)))

(* NEG makes a double of what is no int.  I2D and D2I read the value by    *)
(* the type it should have.  The bits of a small int are a double that     *)
(* truncates to 0; a double never gets to I2D unless an array is passed as *)
(* one of another type.                                                    *)
Unary ==
  /\ Executes(Unaries)
  /\ LET a == Arg(1)
     IN  Result(CASE In.op = "NEG" -> IF a.t = "int" THEN VInt(- a.v) ELSE VDbl(- a.v)
                  [] In.op = "I2D" -> VDbl(2 * a.v)
                  [] In.op = "D2I" -> VInt(IF a.t = "int" THEN 0 ELSE Trunc(a.v)))

Truth(v) == IF v.t = "int" THEN v.v # 0 ELSE Trunc(v.v) # 0

Jump ==
  /\ \/ Executes({"JMP"}) /\ Continue(NextPc + In.arg, Below)
     \/ Executes({"JZ"}) /\ Continue(IF Truth(Arg(1)) THEN NextPc ELSE NextPc + In.arg, Below)
  /\ UNCHANGED <<heap, out, status>>

(* Arguments are popped last to first.                                     *)
\* Mutant: first to last.
PoppedFirst(n) == [i \in 1 .. n |-> Arg(i)]

Popped(n) == [i \in 1 .. n |-> Arg(n + 1 - i)]

Call ==
  /\ Executes({"CALL"})
  /\ frames' = Append([frames EXCEPT ![Len(frames)].pc = NextPc, ![Len(frames)].st = Below],
                      Frame(In.arg, Popped(In.argc)))
  /\ UNCHANGED <<heap, out, status>>

(* The caller pushes what its callee returned.                             *)
Return ==
  /\ Executes({"RET"})
  /\ LET n == Len(frames) - 1
     IN  IF n = 0
         THEN frames' = <<>> /\ status' = "done"
         ELSE IF Len(frames[n].st) < StackMax
         THEN /\ frames' = [SubSeq(frames, 1, n) EXCEPT ![n].st = Append(@, Arg(1))]
              /\ UNCHANGED status
         ELSE status' = "overflow" /\ UNCHANGED frames
  /\ UNCHANGED <<heap, out>>

Whole(v) == IF v.t = "int" THEN v.v ELSE Trunc(v.v)

(* A new array is full of the int 0.                                       *)
NewArray ==
  /\ Executes({"NEWARR"})
  /\ LET n == Whole(Arg(1))
     IN  IF n < 0 THEN Die
         ELSE /\ heap' = Append(heap, [i \in 1 .. n |-> VInt(0)])
              /\ Continue(NextPc, Append(Below, VRef(Len(heap) + 1)))
              /\ UNCHANGED <<out, status>>

(* Element i of the array r, if it has one.                                *)
Has(r, i) == r.t = "ref" /\ Whole(i) >= 0 /\ Whole(i) < Len(heap[r.v])

LoadElement ==
  /\ Executes({"ALOAD"})
  /\ IF Has(Arg(2), Arg(1)) THEN Result(heap[Arg(2).v][Whole(Arg(1)) + 1]) ELSE Die

StoreElement ==
  /\ Executes({"ASTORE"})
  /\ IF Has(Arg(3), Arg(2))
     THEN /\ heap' = [heap EXCEPT ![Arg(3).v][Whole(Arg(2)) + 1] = Arg(1)]
          /\ Continue(NextPc, Below)
          /\ UNCHANGED <<out, status>>
     ELSE Die

(* Ints are printed by %ld and doubles by %g: by their number.             *)
PrintTop ==
  /\ Executes({"PRINT"})
  /\ out' = Append(out, AsD(Arg(1)))
  /\ Continue(NextPc, Below)
  /\ UNCHANGED <<heap, status>>

Pop ==
  /\ Executes({"POP"}) /\ Continue(NextPc, Below)
  /\ UNCHANGED <<heap, out, status>>

Instruction ==
  \/ Load \/ Store \/ Binary \/ Unary \/ Jump \/ Call \/ Return
  \/ NewArray \/ LoadElement \/ StoreElement \/ PrintTop \/ Pop

Stopped == status # "running" /\ UNCHANGED machine

MachineNext == Instruction \/ Stopped

(* run_func runs on until it returns or dies.                              *)
MachineSpec == MachineInit /\ [][MachineNext]_machine /\ WF_machine(Instruction)

-----------------------------------------------------------------------------
(* Code that checks out: what can be told without running it.              *)

Opcodes == {"PUSHC", "PUSHI", "LOADL", "STOREL", "JMP", "JZ", "CALL", "RET", "NEWARR",
            "ALOAD", "ASTORE", "PRINT", "POP"} \cup Binaries \cup Unaries

(* Room for arguments in a call (cargs).                                   *)
ArgsMax == 64

(* An instruction names only what there is.                                *)
NamesWhatIs(im, fn, in) ==
  /\ in.op \in Opcodes /\ in.argc \in 0 .. ArgsMax /\ in.arg \in Int
  /\ in.op = "PUSHC" => in.arg + 1 \in DOMAIN im.consts
  /\ in.op \in {"LOADL", "STOREL"} => in.arg \in 1 .. fn.nlocals
  /\ in.op = "CALL" => in.arg \in DOMAIN im.funcs

(* What is on the stack when a statement ends: the value it takes.         *)
Left == [STOREL |-> 1, PRINT |-> 1, POP |-> 1, RET |-> 1, JZ |-> 1, ASTORE |-> 3, JMP |-> 0]

(* The depth of the stack at each address: at the start of a statement it  *)
(* is empty, and in one it is what the instruction before leaves.          *)
Depths(fn) ==
  LET before(a) == {b \in DOMAIN fn.code : b + Width(fn.code[b].op) = a}
      depth[a \in 0 .. fn.len] ==
        IF \A b \in before(a) : fn.code[b].op \in DOMAIN Left THEN 0
        ELSE LET b == CHOOSE b \in before(a) : TRUE
             IN  depth[b] - Pops(fn.code[b]) + Pushes(fn.code[b])
  IN  depth

(* With these depths, every instruction finds what it pops, a statement    *)
(* leaves nothing behind, and wherever control goes from here there is an  *)
(* instruction, at the depth that has been left.                           *)
Flows(fn, depth) ==
  /\ 0 \in DOMAIN fn.code /\ depth[0] = 0
  /\ \A a \in DOMAIN fn.code :
       LET in    == fn.code[a]
           next  == a + Width(in.op)
           after == depth[a] - Pops(in) + Pushes(in)
           Goes(b) == b \in DOMAIN fn.code /\ depth[b] = after
       IN  /\ depth[a] \in Nat /\ depth[a] >= Pops(in)
           /\ in.op \in DOMAIN Left => depth[a] = Left[in.op]
           /\ in.op \notin {"JMP", "RET"} => Goes(next)
           /\ in.op \in {"JMP", "JZ"} => Goes(next + in.arg)

Checks(im) ==
  /\ im.consts \in Seq([t : {"int", "double"}, v : Int])
  /\ im.entry \in DOMAIN im.funcs
  /\ \A f \in DOMAIN im.funcs :
       LET fn == im.funcs[f]
       IN  /\ fn.nlocals \in Nat /\ DOMAIN fn.code \subseteq Nat
           /\ \A a \in DOMAIN fn.code : NamesWhatIs(im, fn, fn.code[a])
           /\ Flows(fn, Depths(fn))

-----------------------------------------------------------------------------
(* Properties.                                                             *)

(* A reference is the number of an array that exists.                      *)
Values3 == {v \in [t : {"int", "double", "ref"}, v : Int] : v.t = "ref" => v.v \in DOMAIN heap}

MachineTypeOK ==
  /\ status \in {"running", "done", "died", "overflow"}
  /\ out \in Seq(Int)
  /\ heap \in Seq(Seq(Values3))
  /\ \A i \in DOMAIN frames :
       /\ frames[i].f \in DOMAIN image.funcs
       /\ frames[i].pc \in DOMAIN CodeOf(frames[i].f)
       /\ frames[i].st \in Seq(Values3) /\ Len(frames[i].st) <= StackMax
       /\ frames[i].loc \in [1 .. image.funcs[frames[i].f].nlocals -> Values3]

(* The code that is loaded checks out, and code that does can always go on *)
(* (svm.c:157-229): there is an instruction where the function is, it pops *)
(* no more than there is, what it names exists, and an array it is given   *)
(* is there.  And it leaves nothing behind: a statement finds the stack of *)
(* its function empty and leaves it empty, whichever way control came and  *)
(* went (gen_stmt).                                                        *)
CanGoOn ==
  /\ frames # <<>>
  /\ Top.pc \in DOMAIN CodeOf(Top.f)
  /\ NamesWhatIs(image, image.funcs[Top.f], In)
  /\ Depth >= Pops(In) /\ Depth <= StackMax
  /\ In.op \in {"ALOAD", "ASTORE"} =>
       LET r == Arg(Pops(In)) IN r.t = "ref" => r.v \in DOMAIN heap

Balanced == In.op \in DOMAIN Left => Depth = Left[In.op]

JustLoaded == heap = <<>> /\ out = <<>> /\ frames = <<Frame(image.entry, <<>>)>>

Runnable ==
  /\ JustLoaded => Checks(image)
  /\ status = "running" => CanGoOn /\ Balanced
=============================================================================
