------------------------------- MODULE MCSvm --------------------------------
(***************************************************************************)
(* Programs for Svm: every expression of one operator over five atoms, put *)
(* to each use a value has, and programs with loops, calls and arrays.     *)
(***************************************************************************)
EXTENDS Svm

(* Nodes.                                                                  *)
I(v) == [k |-> "int", v |-> v]
D(v) == [k |-> "dbl", v |-> v]
V(x) == [k |-> "var", x |-> x]
At(x, e) == [k |-> "index", a |-> V(x), b |-> e]
Neg(e) == [k |-> "neg", a |-> e]
Bin(op, a, b) == [k |-> op, a |-> a, b |-> b]
CallOf(f, es) == [k |-> "call", f |-> f, list |-> es]

Block(ss) == [k |-> "block", list |-> ss]
Decl(x, e) == [k |-> "decl", x |-> x, a |-> e]
NewArr(x, e) == [k |-> "newarr", x |-> x, b |-> e]
Set(x, e) == [k |-> "assign", a |-> V(x), b |-> e]
SetAt(x, i, e) == [k |-> "assign", a |-> At(x, i), b |-> e]
IfElse(e, s, t) == [k |-> "if", a |-> e, b |-> s, c |-> t]
If(e, s) == IfElse(e, s, None)
While(e, s) == [k |-> "while", a |-> e, b |-> s]
Ret(e) == [k |-> "return", a |-> e]
Show(e) == [k |-> "print", a |-> e]
Do(call) == [k |-> "call", a |-> call]

Func(name, ret, nparams, types, ss) ==
  [name |-> name, ret |-> ret, nparams |-> nparams, types |-> types, body |-> Block(ss)]

(* In main: x is slot 1, an int; y slot 2, a double; z slot 3, an int      *)
(* array; w slot 4, a double array.                                        *)
Main(ss) ==
  Func("main", "int", 0, <<"int", "double", "int[]", "double[]">>,
       <<Decl(1, I(2)), Decl(2, None)>> \o ss)

Atoms == {I(1), I(3), D(3), V(1), V(2)}

Exprs == Atoms \cup {Neg(a) : a \in Atoms}
         \cup {Bin(op, a, b) : op \in Arithmetic, a \in Atoms, b \in Atoms}

(* A value that is stored, printed, tested, ...                            *)
Stores(e) == <<Main(<<Set(1, e), Show(V(1)), Decl(2, e), Show(V(2)), Show(e)>>)>>

Tests(e) ==
  <<Main(<<IfElse(e, Show(I(1)), Show(e)), If(e, Show(V(2))),
           While(Bin("lt", V(1), I(3)),
                 Block(<<If(e, Set(2, Bin("add", V(2), D(1)))), Set(1, Bin("add", V(1), I(1)))>>)),
           Show(V(2)), Ret(None)>>)>>

(* ... passed and returned, by calls forward and backward, ...             *)
Half(e) == Func("half", "double", 1, <<"int">>, <<Ret(Bin("div", V(1), D(4)))>>)

Calls(e) ==
  <<Main(<<Show(CallOf("pick", <<e, e>>)), Do(CallOf("half", <<e>>)), Set(1, CallOf("half", <<e>>)),
           Show(V(1))>>),
    Half(e),
    Func("pick", "int", 2, <<"double", "int">>,
         <<If(Bin("lt", V(2), I(2)), Ret(CallOf("half", <<V(1)>>))), Ret(V(1))>>)>>

(* ... an element, an index, a length.                                     *)
Arrays(e) ==
  <<Main(<<NewArr(3, e), NewArr(4, I(3)), SetAt(4, e, V(1)), Show(At(4, V(1))),
           SetAt(3, I(1), e), Show(At(3, I(1)))>>)>>

Minus1(e) == Bin("add", e, Neg(I(1)))

(* test/sample.sl and test/recursion.sl in small.                          *)
Fib ==
  <<Func("fib", "int", 1, <<"int">>,
         <<If(Bin("lt", V(1), I(2)), Ret(V(1))),
           Ret(Bin("add", CallOf("fib", <<Minus1(V(1))>>),
                          CallOf("fib", <<Minus1(Minus1(V(1)))>>)))>>),
    Main(<<Set(1, I(0)),
           While(Bin("lt", V(1), I(5)),
                 Block(<<Show(CallOf("fib", <<V(1)>>)), Set(1, Bin("add", V(1), I(1)))>>))>>)>>

Sum ==
  <<Func("sum", "double", 2, <<"double[]", "int", "int", "double">>,
         <<Decl(3, None), Decl(4, None),
           While(Bin("lt", V(3), V(2)),
                 Block(<<Set(4, Bin("add", V(4), At(1, V(3)))), Set(3, Bin("add", V(3), I(1)))>>)),
           Ret(V(4))>>),
    Main(<<NewArr(4, I(2)), SetAt(4, I(0), D(3)), SetAt(4, I(1), I(1)),
           Show(CallOf("sum", <<V(4), I(2)>>))>>)>>

(* A function that falls off its end, two of one name, a return in a loop, *)
(* and an expression that needs five places.                               *)
Odd ==
  {<<Func("f", "double", 0, <<>>, <<If(I(0), Ret(D(1)))>>),
     Main(<<Show(CallOf("f", <<>>)), Do(CallOf("f", <<>>))>>)>>,
   <<Main(<<While(I(1), Block(<<Set(1, Bin("add", V(1), I(1))),
                               IfElse(Bin("lt", V(1), I(4)), Block(<<>>), Ret(V(1)))>>))>>)>>,
   <<Func("f", "int", 0, <<>>, <<Ret(I(1))>>), Func("f", "int", 0, <<>>, <<Ret(I(2))>>),
     Main(<<Show(CallOf("f", <<>>))>>)>>,
   <<Main(<<Show(I(1)),
            Show(Bin("add", I(1), Bin("add", I(1), Bin("add", I(1), Bin("add", I(1), I(1))))))>>)>>}

Usual == {Stores(e) : e \in Exprs} \cup {Tests(e) : e \in Exprs} \cup {Calls(e) : e \in Exprs}
         \cup {Arrays(e) : e \in Exprs} \cup {Fib, Sum} \cup Odd
=============================================================================
