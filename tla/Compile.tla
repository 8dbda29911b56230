------------------------------ MODULE Compile -------------------------------
(***************************************************************************)
(* From a parsed program to its bytecode (COMPILER_HW/src/parser.c,        *)
(* codegen.c, emit.c): the conversions the parser puts into the tree, the  *)
(* instruction list of each function with its jumps, the constant pool and *)
(* the addresses of the encoded instructions.                              *)
(*                                                                         *)
(* A program is a sequence of functions                                    *)
(*   [name, ret, nparams, types, body]                                     *)
(* where types gives each local slot its declared type, parameters first.  *)
(* A name has been resolved to its slot (see SymTab).  A node is a record  *)
(* with its kind in k; a double is counted in halves.                      *)
(***************************************************************************)
EXTENDS Integers, Sequences, SequencesExt

CONSTANT IntMax   (* the largest immediate of a PUSHI (INT_MAX)            *)

ASSUME CompileAssumption == IntMax \in Nat

ElemType(t) == CASE t = "int[]" -> "int" [] t = "double[]" -> "double" [] OTHER -> t

-----------------------------------------------------------------------------
(* The parser: every expression gets its type, and conversions.            *)

Typed(e, type) == e @@ [type |-> type]

Convert(k, e, type) == [k |-> k, a |-> e, type |-> type]

(* coerce: arrays are left alone.                                          *)
Coerce(e, type) ==
  CASE e.type = "int" /\ type = "double" -> Convert("i2d", e, type)
    [] e.type = "double" /\ type = "int" -> Convert("d2i", e, type)
    [] OTHER -> e

\* Mutant: the others have the type of their sides.
ComparesFew == {"lt", "eq"}

Compares == {"lt", "gt", "le", "ge", "eq", "ne"}

(* make_binop: both sides get the common type.                             *)
\* Mutant: a comparison has the type of its sides.
BinopUntyped(op, a, b) ==
  LET common == IF "double" \in {a.type, b.type} THEN "double" ELSE "int"
  IN  [k |-> op, a |-> Coerce(a, common), b |-> Coerce(b, common), type |-> common]

Binop(op, a, b) ==
  LET common == IF "double" \in {a.type, b.type} THEN "double" ELSE "int"
  IN  [k |-> op, a |-> Coerce(a, common), b |-> Coerce(b, common),
       type |-> IF op \in Compares THEN "int" ELSE common]

Arithmetic == {"add", "sub", "mul", "div"} \cup Compares

(* find_sig: the first function of that name.                              *)
FindSig(P, name) ==
  CHOOSE i \in DOMAIN P : P[i].name = name /\ \A j \in 1 .. i - 1 : P[j].name # name

(* parse_expr, with the signatures P that prescan has collected and the    *)
(* types T of the local slots.  Arguments are converted as far as the      *)
(* signature goes.                                                         *)
RECURSIVE Expr(_, _, _)
Expr(e, P, T) ==
  CASE e.k = "int" -> Typed(e, "int")
    [] e.k = "dbl" -> Typed(e, "double")
    [] e.k = "var" -> Typed(e, T[e.x])
    [] e.k = "index" -> [k |-> "index", a |-> Expr(e.a, P, T),
                         b |-> Coerce(Expr(e.b, P, T), "int"),
                         type |-> ElemType(T[e.a.x])]
    [] e.k = "neg" -> LET a == Expr(e.a, P, T)
                      IN  [k |-> "neg", a |-> a, type |-> a.type]
    [] e.k \in Arithmetic -> Binop(e.k, Expr(e.a, P, T), Expr(e.b, P, T))
    [] e.k = "call" ->
         LET f   == FindSig(P, e.f)
             arg == [i \in DOMAIN e.list |-> Expr(e.list[i], P, T)]
         IN  [k |-> "call", f |-> f, type |-> P[f].ret,
              list |-> [i \in DOMAIN arg |-> IF i <= P[f].nparams
                                            THEN Coerce(arg[i], P[f].types[i])
                                            ELSE arg[i]]]

(* The statements; a condition is an int, an initial value, an assigned    *)
(* and a returned value (coerce_returns) what it goes to.                  *)
None == [k |-> "none"]

RECURSIVE Stmt(_, _, _)
Stmt(s, P, f) ==
  LET E(e) == Expr(e, P, f.types)
      S(t) == Stmt(t, P, f)
  IN  CASE s.k = "block" -> [s EXCEPT !.list = [i \in DOMAIN s.list |-> S(s.list[i])]]
        [] s.k = "newarr" -> [s EXCEPT !.b = Coerce(E(s.b), "int")]
        [] s.k = "decl" -> [s EXCEPT !.a = IF s.a = None THEN None
                                           ELSE Coerce(E(s.a), f.types[s.x])]
        [] s.k = "assign" -> [s EXCEPT !.a = E(s.a), !.b = Coerce(E(s.b), E(s.a).type)]
        [] s.k = "if" -> [s EXCEPT !.a = Coerce(E(s.a), "int"), !.b = S(s.b),
                                   !.c = IF s.c = None THEN None ELSE S(s.c)]
        [] s.k = "while" -> [s EXCEPT !.a = Coerce(E(s.a), "int"), !.b = S(s.b)]
        [] s.k = "return" -> [s EXCEPT !.a = IF s.a = None THEN None
                                             ELSE Coerce(E(s.a), f.ret)]
        [] OTHER -> [s EXCEPT !.a = E(s.a)]      \* print, a call as a statement

-----------------------------------------------------------------------------
(* The code generator: a sequence of instructions [op, arg, argc].  The    *)
(* target of a jump is an index in this sequence.  The argument of PUSHC   *)
(* is the constant itself; Pool gives it its place.                        *)

Op(op)       == <<[op |-> op, arg |-> 0, argc |-> 0]>>
Op1(op, arg) == <<[op |-> op, arg |-> arg, argc |-> 0]>>

(* push_int, and a double literal.                                         *)
PushInt(v) == IF v <= IntMax THEN Op1("PUSHI", v)
              ELSE Op1("PUSHC", [t |-> "int", v |-> v])
PushDbl(v) == Op1("PUSHC", [t |-> "double", v |-> v])

Opcode ==
  [add |-> "ADD", sub |-> "SUB", mul |-> "MUL", div |-> "DIV",
   lt |-> "LT", gt |-> "GT", le |-> "LE", ge |-> "GE", eq |-> "EQ", ne |-> "NE",
   neg |-> "NEG", i2d |-> "I2D", d2i |-> "D2I", index |-> "ALOAD"]

RECURSIVE GenExpr(_)
GenExpr(e) ==
  CASE e.k = "int" -> PushInt(e.v)
    [] e.k = "dbl" -> PushDbl(e.v)
    [] e.k = "var" -> Op1("LOADL", e.x)
    [] e.k \in {"neg", "i2d", "d2i"} -> GenExpr(e.a) \o Op(Opcode[e.k])
    [] e.k = "call" -> FlattenSeq([i \in DOMAIN e.list |-> GenExpr(e.list[i])])
                       \o <<[op |-> "CALL", arg |-> e.f, argc |-> Len(e.list)]>>
    [] OTHER -> GenExpr(e.a) \o GenExpr(e.b) \o Op(Opcode[e.k])

(* The value a declared variable starts with.                              *)
GenInit(s, T) ==
  IF s.a # None THEN GenExpr(s.a)
  ELSE IF T[s.x] = "double" THEN PushDbl(0) ELSE Op1("PUSHI", 0)

(* A call as a statement: its result is dropped.                           *)
\* Mutant: it stays on the stack.
GenCallStmtKept(s) == GenExpr(s.a)

GenCallStmt(s) == GenExpr(s.a) \o Op("POP")

(* Where an else branch and a loop's end are: after the jump before them.  *)
\* Mutant: at that jump.
AtJump(n)   == n
PastJump(n) == n + 1

(* gen_stmt: the code of s, which begins at instruction n (from 0).  A     *)
(* forward jump is emitted first and gets its target when it is known.     *)
RECURSIVE Gen(_, _, _)
Gen(s, n, T) ==
  LET cond   == GenExpr(s.a)
      thenAt == n + Len(cond) + 1
  IN
  CASE s.k = "block" ->
         FoldLeft(LAMBDA code, t : code \o Gen(t, n + Len(code), T), <<>>, s.list)
    [] s.k = "newarr" -> GenExpr(s.b) \o Op("NEWARR") \o Op1("STOREL", s.x)
    [] s.k = "decl" -> GenInit(s, T) \o Op1("STOREL", s.x)
    [] s.k = "assign" ->
         IF s.a.k = "index"
         THEN GenExpr(s.a.a) \o GenExpr(s.a.b) \o GenExpr(s.b) \o Op("ASTORE")
         ELSE GenExpr(s.b) \o Op1("STOREL", s.a.x)
    [] s.k = "if" ->
         LET then    == Gen(s.b, thenAt, T)
             afterB  == thenAt + Len(then)
             else    == Gen(s.c, afterB + 1, T)
         IN  IF s.c = None
             THEN cond \o Op1("JZ", afterB) \o then
             ELSE cond \o Op1("JZ", PastJump(afterB)) \o then
                  \o Op1("JMP", afterB + 1 + Len(else)) \o else
    [] s.k = "while" ->
         LET body == Gen(s.b, thenAt, T)
         IN  cond \o Op1("JZ", PastJump(thenAt + Len(body))) \o body \o Op1("JMP", n)
    [] s.k = "return" ->
         (IF s.a = None THEN Op1("PUSHI", 0) ELSE GenExpr(s.a)) \o Op("RET")
    [] s.k = "print" -> GenExpr(s.a) \o Op("PRINT")
    [] s.k = "call" -> GenCallStmt(s)

(* A function: its body, and a return for a body that falls off its end.   *)
\* Mutant: nothing after the body.
NoTail == <<>>

Tail0 == Op1("PUSHI", 0) \o Op("RET")

Code(P, f) == Gen(Stmt(f.body, P, f), 0, f.types) \o Tail0

-----------------------------------------------------------------------------
(* The emitter.                                                            *)

(* const_intern_int, const_intern_double: one entry per tag and value.     *)
\* Mutant: the tag is not compared.
SameValue(c, d) == c.v = d.v

SameConst(c, d) == c.t = d.t /\ c.v = d.v

Intern(pool, c) == IF \E i \in DOMAIN pool : SameConst(pool[i], c) THEN pool ELSE Append(pool, c)

Constants(codes) ==
  LET pushes == SelectSeq(FlattenSeq(codes), LAMBDA i : i.op = "PUSHC")
  IN  [i \in DOMAIN pushes |-> pushes[i].arg]

Pool(codes) == FoldLeft(Intern, <<>>, Constants(codes))

(* The index of a constant, from 0.                                        *)
ConstIndex(pool, c) == (CHOOSE i \in DOMAIN pool : SameConst(pool[i], c)) - 1

Bytes(op) ==
  CASE op \in {"PUSHC", "PUSHI", "JMP", "JZ"} -> 5
    [] op \in {"LOADL", "STOREL"} -> 3
    [] op = "CALL" -> 4
    [] OTHER -> 1

(* Pass 1: off[i], the address of each instruction, and of the end.        *)
Offsets(code) == FoldLeft(LAMBDA off, in : Append(off, Last(off) + Bytes(in.op)), <<0>>, code)

(* Pass 2: the target of the jump at i (an index from 0) becomes a         *)
(* distance from the instruction after the jump.                           *)
\* Mutant: from the jump itself.
FromJump(off, i, target) == off[target + 1] - off[i]

Distance(off, i, target) == off[target + 1] - off[i + 1]

(* encode_func: the instructions by address.                               *)
Encode(code, pool) ==
  LET off == Offsets(code)
      At(i) == LET in == code[i]
               IN  CASE in.op \in {"JMP", "JZ"} -> [in EXCEPT !.arg = Distance(off, i, @)]
                     [] in.op = "PUSHC" -> [in EXCEPT !.arg = ConstIndex(pool, @)]
                     [] OTHER -> in
  IN  [a \in {off[i] : i \in DOMAIN code} |-> At(CHOOSE i \in DOMAIN code : off[i] = a)]

(* The entry is the last function named main; without one it is the first. *)
Entry(P) ==
  LET mains == {i \in DOMAIN P : P[i].name = "main"}
  IN  IF mains = {} THEN 1 ELSE CHOOSE i \in mains : \A j \in mains : j <= i

(* codegen and emit_module.                                                *)
Image(P) ==
  LET codes == [i \in DOMAIN P |-> Code(P, P[i])]
      pool  == Pool(codes)
  IN  [consts |-> pool,
       entry  |-> Entry(P),
       funcs  |-> [i \in DOMAIN P |->
                     [nlocals |-> Len(P[i].types),
                      len     |-> Last(Offsets(codes[i])),
                      code    |-> Encode(codes[i], pool)]]]
=============================================================================
