------------------------------ MODULE Meaning -------------------------------
(***************************************************************************)
(* What a program of the language means, as COMPILER_HW/README.md (section *)
(* 2) and the samples under test/ have it: the reference the compiled code *)
(* is compared with.  Here types belong to values; a value is converted    *)
(* where it is stored, passed, returned, or meets a double.                *)
(***************************************************************************)
EXTENDS Integers, Sequences, SequencesExt

Nothing == [k |-> "none"]

Num(v)      == [t |-> "int", v |-> v]
Real2(v)    == [t |-> "double", v |-> v]      \* v halves
Array(n)    == [t |-> "array", v |-> n]

Towards0(a, b) == LET q == (IF a < 0 THEN - a ELSE a) \div (IF b < 0 THEN - b ELSE b)
                  IN  IF (a < 0) = (b < 0) THEN q ELSE - q

Halves(v) == IF v.t = "int" THEN 2 * v.v ELSE v.v

(* v as a value of a variable of that type.                                *)
As(v, type) ==
  CASE type = "int" /\ v.t = "double" -> Num(Towards0(v.v, 2))
    [] type = "double" /\ v.t = "int" -> Real2(2 * v.v)
    [] OTHER -> v

Zero(type) == IF type \in {"double", "double[]"} THEN Real2(0) ELSE Num(0)

Bool(b) == Num(IF b THEN 1 ELSE 0)

Applied(op, a, b) ==
  LET whole == a.t = "int" /\ b.t = "int"
      x == Halves(a)
      y == Halves(b)
  IN  CASE op = "lt" -> Bool(x < y)
        [] op = "gt" -> Bool(x > y)
        [] op = "le" -> Bool(x <= y)
        [] op = "ge" -> Bool(x >= y)
        [] op = "eq" -> Bool(x = y)
        [] op = "ne" -> Bool(x # y)
        [] op = "add" -> IF whole THEN Num(a.v + b.v) ELSE Real2(x + y)
        [] op = "sub" -> IF whole THEN Num(a.v - b.v) ELSE Real2(x - y)
        [] op = "mul" -> IF whole THEN Num(a.v * b.v) ELSE Real2(Towards0(x * y, 2))
        [] op = "div" -> IF whole THEN Num(Towards0(a.v, b.v))
                         ELSE Real2(IF y = 0 THEN 0 ELSE Towards0(2 * x, y))

(* The state of an activation: its variables, the arrays, the output, and  *)
(* how it stands: "on", "returned" (val) or "dead".  val is also the value *)
(* of the expression last evaluated, vals the values of a list of them.    *)
Dead(S) == [S EXCEPT !.end = "dead"]

Function(P, name) ==
  P[CHOOSE i \in DOMAIN P : P[i].name = name /\ \A j \in 1 .. i - 1 : P[j].name # name]

RECURSIVE Value(_, _, _), Values(_, _, _), Run(_, _, _, _), RunAll(_, _, _, _)

(* A function called with values for its parameters.                       *)
Called(P, f, args, S) ==
  LET vars == [x \in DOMAIN f.types |->
                 IF x <= Len(args) /\ x <= f.nparams THEN As(args[x], f.types[x])
                 ELSE Zero(f.types[x])]
      R    == Run(P, f, f.body, [S EXCEPT !.loc = vars, !.val = Num(0)])
  IN  IF R.end = "dead" THEN R
      ELSE [R EXCEPT !.loc = S.loc, !.end = "on",
                     !.val = As(IF R.end = "returned" THEN R.val ELSE Num(0), f.ret)]

Value(P, e, S) ==
  CASE S.end # "on" -> S
    [] e.k = "int" -> [S EXCEPT !.val = Num(e.v)]
    [] e.k = "dbl" -> [S EXCEPT !.val = Real2(e.v)]
    [] e.k = "var" -> [S EXCEPT !.val = S.loc[e.x]]
    [] e.k = "neg" -> LET R == Value(P, e.a, S) IN [R EXCEPT !.val.v = - @]
    [] e.k = "call" -> LET R == Values(P, e.list, [S EXCEPT !.vals = <<>>])
                       IN  IF R.end # "on" THEN R
                           ELSE [Called(P, Function(P, e.f), R.vals, R) EXCEPT !.vals = S.vals]
    [] e.k = "index" ->
         LET R == Value(P, e.b, S)
             i == As(R.val, "int").v
         IN  CASE R.end # "on" -> R
               [] i \in 0 .. Len(R.heap[R.loc[e.a.x].v]) - 1 ->
                    [R EXCEPT !.val = R.heap[R.loc[e.a.x].v][i + 1]]
               [] OTHER -> Dead(R)
    [] OTHER ->
         LET A == Value(P, e.a, S)
             B == Value(P, e.b, A)
         IN  CASE B.end # "on" -> B
               [] e.k = "div" /\ A.val.t = "int" /\ B.val = Num(0) -> Dead(B)
               [] OTHER -> [B EXCEPT !.val = Applied(e.k, A.val, B.val)]

Values(P, es, S) ==
  IF es = <<>> \/ S.end # "on" THEN S
  ELSE LET R == Value(P, Head(es), S)
       IN  Values(P, Tail(es), [R EXCEPT !.vals = Append(S.vals, R.val)])

RunAll(P, f, ss, S) ==
  IF ss = <<>> THEN S ELSE RunAll(P, f, Tail(ss), Run(P, f, Head(ss), S))

ElementType(t) == IF t = "double[]" THEN "double" ELSE "int"

Run(P, f, s, S) ==
  LET A == Value(P, s.a, S)                          \* of the first operand
      Yes(R) == As(R.val, "int") # Num(0)
  IN
  CASE S.end # "on" -> S
    [] s.k = "block" -> RunAll(P, f, s.list, S)
    [] s.k = "decl" ->
         IF s.a = Nothing THEN [S EXCEPT !.loc[s.x] = Zero(f.types[s.x])]
         ELSE [A EXCEPT !.loc[s.x] = As(A.val, f.types[s.x])]
    [] s.k = "newarr" ->
         LET R == Value(P, s.b, S)
             n == As(R.val, "int").v
         IN  IF R.end # "on" \/ n < 0 THEN Dead(R)
             ELSE [R EXCEPT !.heap = Append(@, [i \in 1 .. n |-> Zero(f.types[s.x])]),
                            !.loc[s.x] = Array(Len(R.heap) + 1)]
    [] s.k = "assign" /\ s.a.k = "var" ->
         LET R == Value(P, s.b, S)
         IN  IF R.end # "on" THEN R ELSE [R EXCEPT !.loc[s.a.x] = As(R.val, f.types[s.a.x])]
    [] s.k = "assign" ->
         LET I == Value(P, s.a.b, S)
             R == Value(P, s.b, I)
             i == As(I.val, "int").v
             r == R.loc[s.a.a.x].v
         IN  IF R.end # "on" THEN R
             ELSE IF i \notin 0 .. Len(R.heap[r]) - 1 THEN Dead(R)
             ELSE [R EXCEPT !.heap[r][i + 1] = As(R.val, ElementType(f.types[s.a.a.x]))]
    [] s.k = "if" ->
         IF A.end # "on" THEN A
         ELSE IF Yes(A) THEN Run(P, f, s.b, A)
         ELSE IF s.c = Nothing THEN A ELSE Run(P, f, s.c, A)
    [] s.k = "while" ->
         IF A.end # "on" \/ ~ Yes(A) THEN A ELSE Run(P, f, s, Run(P, f, s.b, A))
    [] s.k = "return" ->
         IF s.a = Nothing THEN [S EXCEPT !.val = Num(0), !.end = "returned"]
         ELSE IF A.end # "on" THEN A ELSE [A EXCEPT !.end = "returned"]
    [] s.k = "print" ->
         IF A.end # "on" THEN A ELSE [A EXCEPT !.out = Append(@, Halves(A.val))]
    [] s.k = "call" -> A

(* What a program prints, and whether it dies: main is run.                *)
Outcome(P) ==
  LET S == Called(P, Function(P, "main"), <<>>,
                  [loc |-> <<>>, heap |-> <<>>, out |-> <<>>, end |-> "on",
                   val |-> Num(0), vals |-> <<>>])
  IN  [out |-> S.out, dead |-> S.end = "dead"]
=============================================================================
