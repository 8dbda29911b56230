--------------------------- MODULE CompilerProofs ---------------------------
(***************************************************************************)
(* Proofs about the compiler: TokenCursor, for every capacity and every    *)
(* number of tokens; the bytecode file and Toolchain, for every module     *)
(* there is a file for, every room for names and every cut; Driver, for    *)
(* every length of the source, the buffer and the pipe; Machine, for every *)
(* set of programs whose code checks out and every size of stack.          *)
(***************************************************************************)
EXTENDS TokenCursor, Toolchain, Machine, SequenceTheorems, WellFoundedInduction, TLAPS

-----------------------------------------------------------------------------
(* The token array and the pointers into it.                               *)

(* Fetching a token leaves the variable it is held in live.                *)
LEMMA LexesType ==
  ASSUME TypeOK, NEW end \in BOOLEAN, Lexes(end)
  PROVE  array' \in Nat /\ cap' \in Nat \ {0} /\ ntok' \in 0 .. cap' /\ ended' \in BOOLEAN
  <1>1. array' \in Nat /\ cap' \in Nat \ {0} /\ ntok' \in 0 .. cap'
    BY TokenCursorAssumption DEF Lexes, Push, TypeOK
  <1>2. ended' \in BOOLEAN
    BY Zenon DEF Lexes
  <1>3. QED
    BY <1>1, <1>2

LEMMA FetchIsLive ==
  ASSUME TypeOK, NEW x \in Vars, Fetch(x)
  PROVE  /\ Live(x)'
         /\ ptr' \in [Vars -> Address]
         /\ array' \in Nat /\ cap' \in Nat \ {0} /\ ntok' \in 0 .. cap' /\ ended' \in BOOLEAN
  <1>1. PICK end \in BOOLEAN :
          /\ Lexes(end)
          /\ ptr' = [ptr EXCEPT ![x] = [array |-> array', eof |-> end]]
    BY DEF Fetch
  <1>2. /\ array' \in Nat /\ cap' \in Nat \ {0} /\ ntok' \in 0 .. cap' /\ ended' \in BOOLEAN
    BY <1>1, LexesType
  <1>3. [array |-> array', eof |-> end] \in Address
    BY <1>2 DEF Address
  <1>4. QED
    BY <1>1, <1>2, <1>3 DEF TypeOK, Live

(* What a step may add to gone.                                            *)
LEMMA ReadAdds ==
  ASSUME NEW X, NEW S, Read(X, S), OnlyCurDangles,
         \A x \in X \ {"cur"} : Live(x),
         \A s \in S : Alive(s)
  PROVE  OnlyCurDangles'
  BY DEF Read, OnlyCurDangles

LEMMA ReadType ==
  ASSUME NEW X \in SUBSET Vars, NEW S \in SUBSET Owners, Read(X, S),
         gone \subseteq Vars \cup Owners
  PROVE  gone' \subseteq Vars \cup Owners
  BY DEF Read

-----------------------------------------------------------------------------
(* The invariant is inductive: one step per action.                        *)
LEMMA IndInvStep ==
  ASSUME IndInv, [Next]_vars
  PROVE  IndInv'
  <1>1. CASE ScanStart
    <2>1. Fetch("t")
      BY <1>1 DEF ScanStart
    <2>2. /\ Live("t")'
           /\ ptr' \in [Vars -> Address]
           /\ array' \in Nat /\ cap' \in Nat \ {0} /\ ntok' \in 0 .. cap' /\ ended' \in BOOLEAN
      BY <2>1, FetchIsLive DEF Vars, IndInv
    <2>3. QED
      BY <1>1, <2>2
      DEF ScanStart, Scan, IndInv, TypeOK, HeldLive, PeekIsLive, Parsing, OnlyCurDangles, Owners
  <1>2. CASE ScanSkip
    <2>1. Fetch("t")
      BY <1>2 DEF ScanSkip
    <2>2. /\ Live("t")'
           /\ ptr' \in [Vars -> Address]
           /\ array' \in Nat /\ cap' \in Nat \ {0} /\ ntok' \in 0 .. cap' /\ ended' \in BOOLEAN
      BY <2>1, FetchIsLive DEF Vars, IndInv
    <2>3. Read({"t"}, {})
      BY <1>2 DEF ScanSkip
    <2>4. gone' \subseteq Vars \cup Owners /\ OnlyCurDangles'
      BY <1>2, <2>3, ReadAdds, ReadType
      DEF ScanSkip, Scan, Alive, Vars, IndInv, TypeOK, HeldLive, PeekIsLive, Parsing, OnlyCurDangles, Owners
    <2>5. QED
      BY <1>2, <2>2, <2>4
      DEF ScanSkip, Scan, IndInv, TypeOK, HeldLive, PeekIsLive, Parsing, OnlyCurDangles, Owners
  <1>3. CASE ScanType
    <2>1. Fetch("nm")
      BY <1>3 DEF ScanType
    <2>2. /\ Live("nm")'
           /\ ptr' \in [Vars -> Address]
           /\ array' \in Nat /\ cap' \in Nat \ {0} /\ ntok' \in 0 .. cap' /\ ended' \in BOOLEAN
      BY <2>1, FetchIsLive DEF Vars, IndInv
    <2>3. Read({"t"}, {})
      BY <1>3 DEF ScanType
    <2>4. gone' \subseteq Vars \cup Owners /\ OnlyCurDangles'
      BY <1>3, <2>3, ReadAdds, ReadType
      DEF ScanType, Scan, Alive, Vars, IndInv, TypeOK, HeldLive, PeekIsLive, Parsing, OnlyCurDangles, Owners
    <2>5. QED
      BY <1>3, <2>2, <2>4
      DEF ScanType, Scan, IndInv, TypeOK, HeldLive, PeekIsLive, Parsing, OnlyCurDangles, Owners
  <1>4. CASE ScanName
    <2>1. Fetch("lp")
      BY <1>4 DEF ScanName
    <2>2. /\ Live("lp")'
           /\ ptr' \in [Vars -> Address]
           /\ array' \in Nat /\ cap' \in Nat \ {0} /\ ntok' \in 0 .. cap' /\ ended' \in BOOLEAN
      BY <2>1, FetchIsLive DEF Vars, IndInv
    <2>3. Read({"nm"}, {})
      BY <1>4 DEF ScanName
    <2>4. gone' \subseteq Vars \cup Owners /\ OnlyCurDangles'
      BY <1>4, <2>3, ReadAdds, ReadType
      DEF ScanName, Scan, Alive, Vars, IndInv, TypeOK, HeldLive, PeekIsLive, Parsing, OnlyCurDangles, Owners
    <2>5. QED
      BY <1>4, <2>2, <2>4
      DEF ScanName, Scan, IndInv, TypeOK, HeldLive, PeekIsLive, Parsing, OnlyCurDangles, Owners
  <1>5. CASE NotAFunction
    <2>1. Fetch("t")
      BY <1>5 DEF NotAFunction
    <2>2. /\ Live("t")'
           /\ ptr' \in [Vars -> Address]
           /\ array' \in Nat /\ cap' \in Nat \ {0} /\ ntok' \in 0 .. cap' /\ ended' \in BOOLEAN
      BY <2>1, FetchIsLive DEF Vars, IndInv
    <2>3. Read({"lp"}, {})
      BY <1>5 DEF NotAFunction
    <2>4. gone' \subseteq Vars \cup Owners /\ OnlyCurDangles'
      BY <1>5, <2>3, ReadAdds, ReadType
      DEF NotAFunction, Scan, Alive, Vars, IndInv, TypeOK, HeldLive, PeekIsLive, Parsing, OnlyCurDangles, Owners
    <2>5. QED
      BY <1>5, <2>2, <2>4
      DEF NotAFunction, Scan, IndInv, TypeOK, HeldLive, PeekIsLive, Parsing, OnlyCurDangles, Owners
  <1>6. CASE ScanParams
    <2>1. Fetch("p")
      BY <1>6 DEF ScanParams
    <2>2. /\ Live("p")'
           /\ ptr' \in [Vars -> Address]
           /\ array' \in Nat /\ cap' \in Nat \ {0} /\ ntok' \in 0 .. cap' /\ ended' \in BOOLEAN
      BY <2>1, FetchIsLive DEF Vars, IndInv
    <2>3. Read({"lp"}, {})
      BY <1>6 DEF ScanParams
    <2>4. gone' \subseteq Vars \cup Owners /\ OnlyCurDangles'
      BY <1>6, <2>3, ReadAdds, ReadType
      DEF ScanParams, Scan, Alive, Vars, IndInv, TypeOK, HeldLive, PeekIsLive, Parsing, OnlyCurDangles, Owners
    <2>5. QED
      BY <1>6, <2>2, <2>4
      DEF ScanParams, Scan, IndInv, TypeOK, HeldLive, PeekIsLive, Parsing, OnlyCurDangles, Owners
  <1>7. CASE ScanParam
    <2>1. Fetch("pn")
      BY <1>7 DEF ScanParam
    <2>2. /\ Live("pn")'
           /\ ptr' \in [Vars -> Address]
           /\ array' \in Nat /\ cap' \in Nat \ {0} /\ ntok' \in 0 .. cap' /\ ended' \in BOOLEAN
      BY <2>1, FetchIsLive DEF Vars, IndInv
    <2>3. Read({"p"}, {})
      BY <1>7 DEF ScanParam
    <2>4. gone' \subseteq Vars \cup Owners /\ OnlyCurDangles'
      BY <1>7, <2>3, ReadAdds, ReadType
      DEF ScanParam, Scan, Alive, Vars, IndInv, TypeOK, HeldLive, PeekIsLive, Parsing, OnlyCurDangles, Owners
    <2>5. QED
      BY <1>7, <2>2, <2>4
      DEF ScanParam, Scan, IndInv, TypeOK, HeldLive, PeekIsLive, Parsing, OnlyCurDangles, Owners
  <1>8. CASE ScanBracket
    <2>1. PICK end \in BOOLEAN : Lexes(end)
      BY <1>8 DEF ScanBracket
    <2>2. array' \in Nat /\ cap' \in Nat \ {0} /\ ntok' \in 0 .. cap' /\ ended' \in BOOLEAN
      BY <2>1, LexesType DEF IndInv
    <2>3. Read({"pn"}, {})
      BY <1>8 DEF ScanBracket
    <2>4. gone' \subseteq Vars \cup Owners /\ OnlyCurDangles'
      BY <1>8, <2>3, ReadAdds, ReadType
      DEF ScanBracket, Scan, Vars, IndInv, TypeOK, HeldLive, PeekIsLive, Parsing, OnlyCurDangles, Owners
    <2>5. QED
      BY <1>8, <2>2, <2>4
      DEF ScanBracket, Scan, IndInv, TypeOK, HeldLive, PeekIsLive, Parsing, OnlyCurDangles, Owners
  <1>9. CASE AfterParam
    <2>1. Fetch("p")
      BY <1>9 DEF AfterParam
    <2>2. /\ Live("p")'
           /\ ptr' \in [Vars -> Address]
           /\ array' \in Nat /\ cap' \in Nat \ {0} /\ ntok' \in 0 .. cap' /\ ended' \in BOOLEAN
      BY <2>1, FetchIsLive DEF Vars, IndInv
    <2>3. /\ phase = "prescan" /\ phase' = phase /\ at' = "comma" /\ funcs' = funcs
           /\ \/ at = "param_name" /\ Read({"pn"}, {})
              \/ gone' = gone
              \/ at = "param" /\ Read({"p"}, {})
      BY <1>9 DEF AfterParam, Scan
    <2>4. gone' \subseteq Vars \cup Owners /\ OnlyCurDangles'
      <3>1. CASE at = "param_name" /\ Read({"pn"}, {})
        BY <2>3, <3>1, ReadAdds, ReadType DEF Vars, IndInv, TypeOK, HeldLive, PeekIsLive, Parsing, OnlyCurDangles, Owners
      <3>2. CASE at = "param" /\ Read({"p"}, {})
        BY <2>3, <3>2, ReadAdds, ReadType DEF Vars, IndInv, TypeOK, HeldLive, PeekIsLive, Parsing, OnlyCurDangles, Owners
      <3>3. CASE gone' = gone
        BY <3>3 DEF IndInv, TypeOK, OnlyCurDangles
      <3>4. QED
        BY <2>3, <3>1, <3>2, <3>3
    <2>5. QED
      BY <1>9, <2>2, <2>3, <2>4 DEF AfterParam, IndInv, TypeOK, HeldLive, PeekIsLive, Parsing, OnlyCurDangles, Owners
  <1>10. CASE ScanComma
    <2>1. Fetch("p")
      BY <1>10 DEF ScanComma
    <2>2. /\ Live("p")'
           /\ ptr' \in [Vars -> Address]
           /\ array' \in Nat /\ cap' \in Nat \ {0} /\ ntok' \in 0 .. cap' /\ ended' \in BOOLEAN
      BY <2>1, FetchIsLive DEF Vars, IndInv
    <2>3. Read({"p"}, {})
      BY <1>10 DEF ScanComma
    <2>4. gone' \subseteq Vars \cup Owners /\ OnlyCurDangles'
      BY <1>10, <2>3, ReadAdds, ReadType
      DEF ScanComma, Scan, Alive, Vars, IndInv, TypeOK, HeldLive, PeekIsLive, Parsing, OnlyCurDangles, Owners
    <2>5. QED
      BY <1>10, <2>2, <2>4
      DEF ScanComma, Scan, IndInv, TypeOK, HeldLive, PeekIsLive, Parsing, OnlyCurDangles, Owners
  <1>11. CASE NoComma
    <2>1. Read({"p"}, {})
      BY <1>11 DEF NoComma
    <2>2. gone' \subseteq Vars \cup Owners /\ OnlyCurDangles'
      BY <1>11, <2>1, ReadAdds, ReadType
      DEF NoComma, Scan, Alive, Vars, IndInv, TypeOK, HeldLive, PeekIsLive, Parsing, OnlyCurDangles, Owners
    <2>3. QED
      BY <1>11, <2>2
      DEF NoComma, Scan, lexer, Live, IndInv, TypeOK, HeldLive, PeekIsLive, Parsing, OnlyCurDangles, Owners
  <1>12. CASE ScanSig
    <2>1. Fetch("t")
      BY <1>12 DEF ScanSig
    <2>2. /\ Live("t")'
           /\ ptr' \in [Vars -> Address]
           /\ array' \in Nat /\ cap' \in Nat \ {0} /\ ntok' \in 0 .. cap' /\ ended' \in BOOLEAN
      BY <2>1, FetchIsLive DEF Vars, IndInv
    <2>3. Read({"p"}, {fname})
      BY <1>12 DEF ScanSig
    <2>4. gone' \subseteq Vars \cup Owners /\ OnlyCurDangles'
      BY <1>12, <2>3, ReadAdds, ReadType
      DEF ScanSig, Scan, Alive, Vars, IndInv, TypeOK, HeldLive, PeekIsLive, Parsing, OnlyCurDangles, Owners
    <2>5. QED
      BY <1>12, <2>2, <2>4
      DEF ScanSig, Scan, SigOwner, IndInv, TypeOK, HeldLive, PeekIsLive, Parsing, OnlyCurDangles, Owners
  <1>13. CASE ScanEnd
    <2>1. Read({"t"}, {})
      BY <1>13 DEF ScanEnd
    <2>2. gone' \subseteq Vars \cup Owners /\ OnlyCurDangles'
      BY <1>13, <2>1, ReadAdds, ReadType
      DEF ScanEnd, Vars, IndInv, TypeOK, HeldLive, PeekIsLive, Parsing, OnlyCurDangles, Owners
    <2>3. array' \in Nat /\ cap' \in Nat \ {0} /\ ntok' \in 0 .. cap'
      BY <1>13, TokenCursorAssumption DEF ScanEnd, FreshLexer, IndInv, TypeOK
    <2>4. ended' \in BOOLEAN
      BY <1>13 DEF ScanEnd, FreshLexer
    <2>5. TypeOK'
      BY <1>13, <2>2, <2>3, <2>4 DEF ScanEnd, names, IndInv, TypeOK
    <2>6. HeldLive'
      BY <1>13 DEF ScanEnd, names, IndInv, HeldLive, PeekIsLive, Parsing
    <2>7. QED
      BY <2>2, <2>5, <2>6 DEF IndInv
  <1>14. CASE PrimeCur
    <2>1. Fetch("cur")
      BY <1>14 DEF PrimeCur
    <2>2. /\ Live("cur")'
           /\ ptr' \in [Vars -> Address]
           /\ array' \in Nat /\ cap' \in Nat \ {0} /\ ntok' \in 0 .. cap' /\ ended' \in BOOLEAN
      BY <2>1, FetchIsLive DEF Vars, IndInv
    <2>3. QED
      BY <1>14, <2>2
      DEF PrimeCur, Scan, names, IndInv, TypeOK, HeldLive, PeekIsLive, Parsing, OnlyCurDangles, Owners
  <1>15. CASE PrimePeek
    <2>1. Fetch("peek")
      BY <1>15 DEF PrimePeek
    <2>2. /\ Live("peek")'
           /\ ptr' \in [Vars -> Address]
           /\ array' \in Nat /\ cap' \in Nat \ {0} /\ ntok' \in 0 .. cap' /\ ended' \in BOOLEAN
      BY <2>1, FetchIsLive DEF Vars, IndInv
    <2>3. QED
      BY <1>15, <2>2
      DEF PrimePeek, Scan, names, IndInv, TypeOK, HeldLive, PeekIsLive, Parsing, OnlyCurDangles, Owners
  <1>16. CASE Advance
    <2>1. PICK end \in BOOLEAN :
            /\ Lexes(end)
            /\ ptr' = [ptr EXCEPT !["cur"] = ptr["peek"],
                                  !["peek"] = [array |-> array', eof |-> end]]
      BY <1>16 DEF Advance
    <2>2. array' \in Nat /\ cap' \in Nat \ {0} /\ ntok' \in 0 .. cap' /\ ended' \in BOOLEAN
      BY <2>1, LexesType DEF IndInv
    <2>3. Live("peek")' /\ ptr' \in [Vars -> Address]
      BY <2>1, <2>2 DEF Live, Address, Vars, IndInv, TypeOK
    <2>4. Read({"cur"}, {})
      BY <1>16 DEF Advance
    <2>5. gone' \subseteq Vars \cup Owners /\ OnlyCurDangles'
      BY <2>4, ReadAdds, ReadType DEF Vars, IndInv, TypeOK
    <2>6. QED
      BY <1>16, <2>2, <2>3, <2>5
      DEF Advance, names, IndInv, TypeOK, HeldLive, PeekIsLive, Parsing, OnlyCurDangles, Owners
  <1>17. CASE Check
    <2>1. Read({"cur"}, {})
      BY <1>17 DEF Check
    <2>2. gone' \subseteq Vars \cup Owners /\ OnlyCurDangles'
      BY <1>17, <2>1, ReadAdds, ReadType
      DEF Check, Scan, Alive, Vars, IndInv, TypeOK, HeldLive, PeekIsLive, Parsing, OnlyCurDangles, Owners
    <2>3. QED
      BY <1>17, <2>2
      DEF Check, Scan, lexer, Live, names, IndInv, TypeOK, HeldLive, PeekIsLive, Parsing, OnlyCurDangles, Owners
  <1>18. CASE LookAhead
    <2>1. Read({"cur", "peek"}, {})
      BY <1>18 DEF LookAhead
    <2>2. gone' \subseteq Vars \cup Owners /\ OnlyCurDangles'
      BY <1>18, <2>1, ReadAdds, ReadType
      DEF LookAhead, Scan, Alive, Vars, IndInv, TypeOK, HeldLive, PeekIsLive, Parsing, OnlyCurDangles, Owners
    <2>3. QED
      BY <1>18, <2>2
      DEF LookAhead, Scan, lexer, Live, names, IndInv, TypeOK, HeldLive, PeekIsLive, Parsing, OnlyCurDangles, Owners
  <1>19. CASE NameFunction
    <2>1. Read({"cur"}, {"parser"})
      BY <1>19 DEF NameFunction
    <2>2. gone' \subseteq Vars \cup Owners /\ OnlyCurDangles'
      BY <1>19, <2>1, ReadAdds, ReadType
      DEF NameFunction, Scan, Alive, Vars, IndInv, TypeOK, HeldLive, PeekIsLive, Parsing, OnlyCurDangles, Owners
    <2>3. QED
      BY <1>19, <2>2
      DEF NameFunction, Scan, FuncOwner, lexer, Live, IndInv, TypeOK, HeldLive, PeekIsLive, Parsing, OnlyCurDangles, Owners
  <1>20. CASE FindSig
    <2>1. Read({}, sigs \cup {"parser"})
      BY <1>20 DEF FindSig
    <2>2. gone' \subseteq Vars \cup Owners /\ OnlyCurDangles'
      <3>1. \A s \in sigs \cup {"parser"} : Alive(s)
        BY <1>20 DEF FindSig, Parsing, Alive, IndInv, HeldLive
      <3>2. sigs \cup {"parser"} \in SUBSET Owners
        BY DEF IndInv, TypeOK, Owners
      <3>3. gone' \subseteq Vars \cup Owners
        BY <2>1, <3>2, ReadType DEF IndInv, TypeOK
      <3>4. OnlyCurDangles'
        BY <2>1, <3>1, ReadAdds DEF IndInv
      <3>5. QED
        BY <3>3, <3>4
    <2>3. QED
      BY <1>20, <2>2
      DEF FindSig, Scan, lexer, Live, names, IndInv, TypeOK, HeldLive, PeekIsLive, Parsing, OnlyCurDangles, Owners
  <1>21. CASE EndParse
    <2>1. Read({"cur"}, {})
      BY <1>21 DEF EndParse
    <2>2. gone' \subseteq Vars \cup Owners /\ OnlyCurDangles'
      BY <1>21, <2>1, ReadAdds, ReadType
      DEF EndParse, Scan, Alive, Vars, IndInv, TypeOK, HeldLive, PeekIsLive, Parsing, OnlyCurDangles, Owners
    <2>3. QED
      BY <1>21, <2>2
      DEF EndParse, Scan, None, lexer, Live, IndInv, TypeOK, HeldLive, PeekIsLive, Parsing, OnlyCurDangles, Owners
  <1>22. CASE Codegen
    <2>1. Read({}, funcs)
      BY <1>22 DEF Codegen
    <2>2. gone' \subseteq Vars \cup Owners /\ OnlyCurDangles'
      BY <1>22, <2>1, ReadAdds, ReadType
      DEF Codegen, Scan, Alive, Vars, IndInv, TypeOK, HeldLive, PeekIsLive, Parsing, OnlyCurDangles, Owners
    <2>3. QED
      BY <1>22, <2>2
      DEF Codegen, Scan, lexer, Live, names, IndInv, TypeOK, HeldLive, PeekIsLive, Parsing, OnlyCurDangles, Owners
  <1>23. CASE UNCHANGED vars
    BY <1>23 DEF vars, lexer, names, Live, IndInv, TypeOK, HeldLive, PeekIsLive, Parsing, OnlyCurDangles, Owners
  <1>24. QED
    BY <1>1, <1>2, <1>3, <1>4, <1>5, <1>6, <1>7, <1>8, <1>9, <1>10, <1>11, <1>12, <1>13, <1>14, <1>15, <1>16, <1>17, <1>18, <1>19, <1>20, <1>21, <1>22, <1>23
    DEF Next, Prescan, Parse

(* The state is well typed - the array never holds more tokens than it has *)
(* room for -, every pointer but cur is read only while it is live, and no *)
(* name is read after its lexer was freed.                                 *)
THEOREM OneDanglingPointer == Spec => [](TypeOK /\ HeldLive /\ OnlyCurDangles)
  <1>1. Init => IndInv
    <2> SUFFICES ASSUME Init PROVE IndInv
      OBVIOUS
    <2>1. ptr \in [Vars -> Address]
      <3>1. [array |-> None, eof |-> FALSE] \in Address
        BY DEF Address, None
      <3>2. ptr = [x \in Vars |-> [array |-> None, eof |-> FALSE]]
        BY DEF Init
      <3>3. QED
        BY <3>1, <3>2, Zenon
    <2>2. TypeOK
      <3>1. cap \in Nat \ {0} /\ ntok \in 0 .. cap /\ array \in Nat
        BY TokenCursorAssumption DEF Init
      <3>2. ended \in BOOLEAN
        BY Zenon DEF Init
      <3>3. /\ phase \in {"prescan", "parse", "codegen", "failed"}
            /\ at \in {"start", "type", "name", "paren", "param", "param_name", "bracket",
                       "comma", "prime_cur", "prime_peek", "parsing", "done"}
            /\ fname \in Owners /\ sigs \subseteq Owners /\ funcs \subseteq Owners
            /\ gone \subseteq Vars \cup Owners
        BY DEF Init, Owners
      <3>4. QED
        BY <2>1, <3>1, <3>2, <3>3 DEF TypeOK
    <2>3. HeldLive /\ OnlyCurDangles
      BY DEF Init, HeldLive, PeekIsLive, Parsing, OnlyCurDangles
    <2>4. QED
      BY <2>2, <2>3 DEF IndInv
  <1>2. IndInv => TypeOK /\ HeldLive /\ OnlyCurDangles
    BY DEF IndInv
  <1>3. QED
    BY <1>1, <1>2, IndInvStep, PTL DEF Spec

(* The look-ahead token is always there.                                   *)
COROLLARY PeekStaysLive == Spec => []PeekIsLive
  <1>1. HeldLive => PeekIsLive
    BY DEF HeldLive
  <1>2. QED
    BY <1>1, OneDanglingPointer, PTL

(* A cur that dangles is replaced by the next advance.                     *)
THEOREM DanglingIsBrief == Spec => DanglesForOneToken
  <1>1. ASSUME IndInv, [Next]_vars, Parsing, Parsing', ptr' # ptr, array' = array
        PROVE  Live("cur")'
    <2>1. Next
      BY <1>1 DEF vars
    <2>2. Advance
      BY <1>1, <2>1 DEF Next, Prescan, Parse, Parsing, Scan, ScanStart, ScanSkip,
         ScanType, ScanName, NotAFunction, ScanParams, ScanParam, ScanBracket,
         AfterParam, ScanComma, NoComma, ScanSig, ScanEnd, PrimeCur, PrimePeek,
         Check, LookAhead, NameFunction, FindSig, EndParse, Codegen
    <2>3. ptr'["cur"] = ptr["peek"]
      <3>1. PICK end \in BOOLEAN :
              ptr' = [ptr EXCEPT !["cur"] = ptr["peek"],
                                 !["peek"] = [array |-> array', eof |-> end]]
        BY <2>2 DEF Advance
      <3>2. QED
        BY <3>1, <1>1 DEF IndInv, TypeOK, Vars
    <2>4. QED
      BY <1>1, <2>3 DEF Live, IndInv, HeldLive, PeekIsLive
  <1>2. IndInv /\ [Next]_vars =>
          [(Parsing /\ Parsing' /\ ~ Live("cur")') => ptr' = ptr \/ array' # array]_vars
    BY <1>1
  <1>3. TypeOK /\ HeldLive /\ OnlyCurDangles => IndInv
    BY DEF IndInv
  <1>4. QED
    BY <1>2, <1>3, OneDanglingPointer, PTL DEF Spec, DanglesForOneToken

-----------------------------------------------------------------------------
(* Induction, stated for sets.                                             *)
LEMMA LeastNatural ==
  ASSUME NEW S, S \subseteq Nat, S # {}
  PROVE  \E m \in S : \A k \in S : m <= k
<1>1. PICK m \in S : \A k \in S : ~ (<<k, m>> \in OpToRel(<, Nat))
  BY WFMin, NatLessThanWellFounded
<1>2. \A k \in S : ~ (k < m)
  BY <1>1 DEF OpToRel
<1>3. m \in Nat /\ \A k \in S : k \in Nat
  BY <1>1
<1> QED
  BY <1>2, <1>3

LEMMA StepByStep ==
  ASSUME NEW n \in Nat, NEW T, 0 \in T, \A i \in 0 .. n - 1 : i \in T => i + 1 \in T
  PROVE  \A i \in 0 .. n : i \in T
<1> DEFINE S == {i \in Nat : i <= n /\ i \notin T}
<1> SUFFICES ASSUME S # {} PROVE FALSE
  OBVIOUS
<1>1. PICK m \in S : \A k \in S : m <= k
  BY LeastNatural
<1>2. m # 0 /\ m - 1 \in 0 .. n - 1
  BY <1>1
<1>3. m - 1 \in T
  BY <1>1, <1>2
<1>4. (m - 1) + 1 \in T
  BY <1>2, <1>3
<1> QED
  BY <1>1, <1>4

-----------------------------------------------------------------------------
(* Numbers in bytes.                                                       *)

\* What is left of v to write before its i-th byte.
Shifted(v, n, f) == f = [i \in 1 .. n |-> IF i = 1 THEN v ELSE f[i - 1] \div 256]

LEMMA ShiftedExists ==
  ASSUME NEW v \in Int, NEW n \in Nat
  PROVE  \E f : Shifted(v, n, f)
<1> DEFINE T == {k \in 0 .. n : \E f : Shifted(v, k, f)}
<1>1. 0 \in T
  <2>1. Shifted(v, 0, [i \in 1 .. 0 |-> v])
    BY DEF Shifted
  <2> QED
    BY <2>1
<1>2. ASSUME NEW k \in 0 .. n - 1, k \in T PROVE k + 1 \in T
  <2>1. PICK f : Shifted(v, k, f)
    BY <1>2
  <2> DEFINE g == [i \in 1 .. k + 1 |-> IF i = 1 THEN v ELSE IF i = k + 1 THEN f[k] \div 256 ELSE f[i]]
  <2>2. \A i \in 1 .. k + 1 : g[i] = IF i = 1 THEN v ELSE g[i - 1] \div 256
    <3> TAKE i \in 1 .. k + 1
    <3>1. CASE i = 1
      BY <3>1
    <3>2. CASE i # 1
      <4>1. i - 1 \in 1 .. k /\ g[i - 1] = f[i - 1]
        BY <2>1, <3>2 DEF Shifted
      <4>2. i # k + 1 => f[i] = f[i - 1] \div 256
        BY <2>1, <3>2 DEF Shifted
      <4> QED
        BY <3>2, <4>1, <4>2
    <3> QED
      BY <3>1, <3>2
  <2>3. Shifted(v, k + 1, g)
    BY <2>2 DEF Shifted
  <2> QED
    BY <2>3
<1>3. \A k \in 0 .. n : k \in T
  <2> HIDE DEF T
  <2> QED
    BY <1>1, <1>2, StepByStep
<1> QED
  BY <1>3

LEMMA ShiftedInts ==
  ASSUME NEW v \in Int, NEW n \in Nat, NEW f, Shifted(v, n, f)
  PROVE  /\ \A i \in 1 .. n : f[i] \in Int
         /\ n > 0 => f[1] = v
         /\ \A i \in 1 .. n - 1 : f[i + 1] = f[i] \div 256
<1>1. \A i \in 1 .. n : f[i] = IF i = 1 THEN v ELSE f[i - 1] \div 256
  BY DEF Shifted
<1> DEFINE T == {k \in 0 .. n : k = 0 \/ f[k] \in Int}
<1>2. 0 \in T
  OBVIOUS
<1>3. ASSUME NEW k \in 0 .. n - 1, k \in T PROVE k + 1 \in T
  BY <1>1, <1>3
<1>4. \A k \in 0 .. n : k \in T
  <2> HIDE DEF T
  <2> QED
    BY <1>2, <1>3, StepByStep
<1>5. \A i \in 1 .. n : f[i] \in Int
  BY <1>4
<1> QED
  BY <1>1, <1>5

(* The bytes that are written, and the rest that has none.                 *)
Quotients(v, n, r) ==
  /\ \A i \in 1 .. n + 1 : r[i] \in Int
  /\ r[1] = v
  /\ \A i \in 1 .. n : Put(v, n)[i] = r[i] % 256 /\ r[i + 1] = r[i] \div 256

LEMMA PutBytes ==
  ASSUME NEW v \in Int, NEW n \in Nat
  PROVE  /\ Put(v, n) \in Seq(Byte) /\ Len(Put(v, n)) = n
         /\ \E r : Quotients(v, n, r)
<1> DEFINE f == CHOOSE f : Shifted(v, n, f)
           r == [i \in 1 .. n + 1 |-> IF i = 1 THEN v ELSE f[i - 1] \div 256]
<1>1. Shifted(v, n, f)
  BY ShiftedExists
<1>2. Put(v, n) = [i \in 1 .. n |-> f[i] % 256]
  BY DEF Put, Shifted
<1>3. \A i \in 1 .. n : f[i] \in Int
  BY <1>1, ShiftedInts
<1>4. \A i \in 1 .. n : f[i] = IF i = 1 THEN v ELSE f[i - 1] \div 256
  BY <1>1 DEF Shifted
<1> HIDE DEF f
<1>5. \A i \in 1 .. n + 1 : r[i] \in Int
  BY <1>3
<1>6. \A i \in 1 .. n : r[i] = f[i] /\ r[i + 1] = f[i] \div 256
  BY <1>4
<1>7. \A i \in 1 .. n : f[i] % 256 \in Byte
  BY <1>3 DEF Byte
<1>8. Put(v, n) \in Seq(Byte) /\ Len(Put(v, n)) = n
  BY <1>2, <1>7
<1>9. \A i \in 1 .. n : Put(v, n)[i] = r[i] % 256 /\ r[i + 1] = r[i] \div 256
  <2> TAKE i \in 1 .. n
  <2>1. Put(v, n)[i] = f[i] % 256
    BY <1>2
  <2>2. r[i] = f[i] /\ r[i + 1] = f[i] \div 256
    BY <1>6
  <2> HIDE DEF r
  <2> QED
    BY <2>1, <2>2
<1>10. r[1] = v
  OBVIOUS
<1> HIDE DEF r
<1>11. Quotients(v, n, r)
  BY <1>5, <1>9, <1>10 DEF Quotients
<1> QED
  BY <1>8, <1>11

\* What Unsigned sums up, from the i-th byte on.
Summed(bytes, pos, n, f) ==
  f = [i \in 1 .. n + 1 |-> IF i = n + 1 THEN 0 ELSE 256 * f[i + 1] + bytes[pos + i]]

PartialSums(bytes, pos, n, r) ==
  /\ \A i \in 1 .. n + 1 : r[i] \in Int
  /\ \A i \in 1 .. n : r[i] = 256 * r[i + 1] + bytes[pos + i]
  /\ r[n + 1] = 0

LEMMA UnsignedSum ==
  ASSUME NEW bytes, NEW pos \in Nat, NEW n \in Nat \ {0}, NEW r, PartialSums(bytes, pos, n, r)
  PROVE  Unsigned(bytes, pos, n) = r[1]
<1>0. /\ \A i \in 1 .. n + 1 : r[i] \in Int
      /\ \A i \in 1 .. n : r[i] = 256 * r[i + 1] + bytes[pos + i]
      /\ r[n + 1] = 0
  BY DEF PartialSums
<1> DEFINE f == CHOOSE f : Summed(bytes, pos, n, f)
<1> DEFINE s == [i \in 1 .. n + 1 |-> r[i]]
<1>1. Summed(bytes, pos, n, s)
  <2>1. \A i \in 1 .. n + 1 : s[i] = IF i = n + 1 THEN 0 ELSE 256 * s[i + 1] + bytes[pos + i]
    BY <1>0
  <2> QED
    BY <2>1 DEF Summed
<1>2. Summed(bytes, pos, n, f)
  BY <1>1
<1>3. Unsigned(bytes, pos, n) = f[1]
  BY DEF Unsigned, Summed
<1> DEFINE T == {k \in 0 .. n : f[n + 1 - k] = r[n + 1 - k]}
<1> HIDE DEF f
<1>4. 0 \in T
  BY <1>0, <1>2 DEF Summed
<1>5. ASSUME NEW k \in 0 .. n - 1, k \in T PROVE k + 1 \in T
  <2> DEFINE i == n - k
  <2>1. i \in 1 .. n /\ n + 1 - k = i + 1 /\ n + 1 - (k + 1) = i
    OBVIOUS
  <2>2. f[i] = 256 * f[i + 1] + bytes[pos + i]
    BY <1>2, <2>1 DEF Summed
  <2>3. f[i + 1] = r[i + 1]
    BY <1>5, <2>1
  <2>4. f[i] = r[i]
    BY <1>0, <2>1, <2>2, <2>3
  <2> QED
    BY <2>1, <2>4
<1>6. n \in T
  <2> HIDE DEF T
  <2>1. \A k \in 0 .. n : k \in T
    BY <1>4, <1>5, StepByStep
  <2> QED
    BY <2>1
<1> QED
  BY <1>3, <1>6

\* What Signed sums up.
SummedSigned(bytes, pos, n, f) ==
  f = [i \in 1 .. n |->
         IF i = n THEN IF bytes[pos + n] < 128 THEN bytes[pos + n] ELSE bytes[pos + n] - 256
         ELSE 256 * f[i + 1] + bytes[pos + i]]

SignedSums(bytes, pos, n, r) ==
  /\ r \in [1 .. n -> Int]
  /\ r[n] = IF bytes[pos + n] < 128 THEN bytes[pos + n] ELSE bytes[pos + n] - 256
  /\ \A i \in 1 .. n - 1 : r[i] = 256 * r[i + 1] + bytes[pos + i]

LEMMA SignedSum ==
  ASSUME NEW bytes, NEW pos \in Nat, NEW n \in Nat \ {0}, NEW r, SignedSums(bytes, pos, n, r)
  PROVE  Signed(bytes, pos, n) = r[1]
<1>0. /\ r \in [1 .. n -> Int]
      /\ r[n] = IF bytes[pos + n] < 128 THEN bytes[pos + n] ELSE bytes[pos + n] - 256
      /\ \A i \in 1 .. n - 1 : r[i] = 256 * r[i + 1] + bytes[pos + i]
  BY DEF SignedSums
<1> DEFINE f == CHOOSE f : SummedSigned(bytes, pos, n, f)
<1> DEFINE s == [i \in 1 .. n |-> r[i]]
<1>1. SummedSigned(bytes, pos, n, s)
  <2>1. \A i \in 1 .. n :
          s[i] = IF i = n THEN IF bytes[pos + n] < 128 THEN bytes[pos + n] ELSE bytes[pos + n] - 256
                 ELSE 256 * s[i + 1] + bytes[pos + i]
    BY <1>0
  <2> QED
    BY <2>1 DEF SummedSigned
<1>2. SummedSigned(bytes, pos, n, f)
  BY <1>1
<1>3. Signed(bytes, pos, n) = f[1]
  BY DEF Signed, SummedSigned
<1> DEFINE T == {k \in 0 .. n - 1 : f[n - k] = r[n - k]}
<1> HIDE DEF f
<1>4. 0 \in T
  BY <1>0, <1>2 DEF SummedSigned
<1>5. ASSUME NEW k \in 0 .. (n - 1) - 1, k \in T PROVE k + 1 \in T
  <2> DEFINE i == n - k - 1
  <2>1. i \in 1 .. n - 1 /\ n - k = i + 1 /\ n - (k + 1) = i
    OBVIOUS
  <2>2. f[i] = 256 * f[i + 1] + bytes[pos + i]
    BY <1>2, <2>1 DEF SummedSigned
  <2>3. f[i + 1] = r[i + 1]
    BY <1>5, <2>1
  <2>4. f[i] = r[i]
    BY <1>0, <2>1, <2>2, <2>3
  <2> QED
    BY <2>1, <2>4
<1>6. n - 1 \in T
  <2> HIDE DEF T
  <2>1. n - 1 \in Nat
    OBVIOUS
  <2>2. \A k \in 0 .. n - 1 : k \in T
    BY <1>4, <1>5, <2>1, StepByStep
  <2> QED
    BY <2>1, <2>2
<1> QED
  BY <1>3, <1>6

\* The bytes from pos on are those of s, as far as the file goes.
Holds(bytes, pos, s) == \A k \in 1 .. Len(s) : pos + k <= Len(bytes) => bytes[pos + k] = s[k]

(* Division by 256.                                                        *)
LEMMA DivMod ==
  ASSUME NEW x \in Int
  PROVE  /\ x \div 256 \in Int /\ x % 256 \in Byte
         /\ x = 256 * (x \div 256) + (x % 256)
BY DEF Byte

LEMMA DivTwice ==
  ASSUME NEW x \in Int
  PROVE  (x \div 256) \div 256 = x \div WordSize
BY SMT DEF WordSize

LEMMA Maxima == WordSize \in Nat /\ IntMax \in Nat
BY DEF WordSize, IntMax

Int8  == -128 .. 127
Int16 == -(WordSize \div 2) .. WordSize \div 2 - 1

LEMMA IsInt16 ==
  ASSUME NEW x \in Int
  PROVE  x \in Int16 <=> -32768 <= x /\ x <= 32767
<1>1. WordSize \div 2 = 32768
  BY SMT DEF WordSize
<1> QED
  BY <1>1 DEF Int16

LEMMA DivByWord ==
  ASSUME NEW x \in Int, -IntMax - 1 <= x, x <= IntMax
  PROVE  x \div WordSize \in Int16
<1>1. -32768 <= x \div WordSize /\ x \div WordSize <= 32767
  BY SMT DEF IntMax, WordSize
<1>2. x \div WordSize \in Int
  BY SMT DEF WordSize
<1> QED
  BY SMT, <1>1, <1>2, IsInt16

LEMMA DivByByte ==
  ASSUME NEW x \in Int
  PROVE  /\ x \in Byte => x \div 256 = 0
         /\ x \in Word => x \div 256 \in Byte
         /\ x \in Int16 => x \div 256 \in Int8
         /\ x >= 0 => x \div 256 >= 0
<1>1. x \in Byte => x \div 256 = 0
  BY SMT DEF Byte
<1>2. x \in Word => x \div 256 \in Byte
  <2>1. x \in Word => 0 <= x /\ x <= WordSize - 1
    BY Maxima DEF Word
  <2>2. 0 <= x /\ x <= 65535 => x \div 256 \in Byte
    BY SMT DEF Byte
  <2> QED
    BY SMT, <2>1, <2>2 DEF WordSize
<1>3. x \in Int16 => x \div 256 \in Int8
  BY SMT, IsInt16 DEF Int8
<1>4. x >= 0 => x \div 256 >= 0
  BY SMT
<1> QED
  BY SMT, <1>1, <1>2, <1>3, <1>4

(* The bytes of a number, added up as they are read.                       *)
LEMMA BytesAddUp ==
  ASSUME NEW bytes, NEW pos \in Nat, NEW n \in Nat, NEW v \in Int, NEW r, Quotients(v, n, r),
         pos + n <= Len(bytes), Len(bytes) \in Nat, Holds(bytes, pos, Put(v, n))
  PROVE  \A i \in 1 .. n : /\ r[i] = 256 * r[i + 1] + bytes[pos + i]
                           /\ bytes[pos + i] = r[i] % 256
                           /\ r[i + 1] = r[i] \div 256
<1> TAKE i \in 1 .. n
<1>1. r[i] \in Int
  BY DEF Quotients
<1>2. r[i + 1] = r[i] \div 256 /\ Put(v, n)[i] = r[i] % 256
  BY DEF Quotients
<1>3. pos + i <= Len(bytes) /\ i \in 1 .. Len(Put(v, n))
  <2>1. Len(Put(v, n)) = n
    BY PutBytes
  <2> QED
    BY <2>1
<1>4. bytes[pos + i] = Put(v, n)[i]
  BY <1>3 DEF Holds
<1>5. r[i] = 256 * (r[i] \div 256) + (r[i] % 256)
  BY <1>1, DivMod
<1> QED
  BY <1>2, <1>4, <1>5

(* A number that fits is read back as it was written.                      *)
LEMMA ReadsBack ==
  ASSUME NEW bytes \in Seq(Byte), NEW pos \in Nat, NEW n \in {1, 2, 4}, NEW v \in Nat, v <= IntMax,
         n = 1 => v \in Byte, n = 2 => v \in Word,
         InFile(bytes, pos, n), Holds(bytes, pos, Put(v, n))
  PROVE  Unsigned(bytes, pos, n) = v
<1> n \in Nat \ {0} /\ v \in Int /\ Len(bytes) \in Nat
  OBVIOUS
<1>0. PICK r : Quotients(v, n, r)
  BY PutBytes
<1>1. /\ \A i \in 1 .. n + 1 : r[i] \in Int
      /\ r[1] = v
  BY <1>0 DEF Quotients
<1>2. \A i \in 1 .. n : r[i] = 256 * r[i + 1] + bytes[pos + i] /\ r[i + 1] = r[i] \div 256
  BY <1>0, BytesAddUp DEF InFile
<1>4. r[n + 1] = 0
  <2>1. CASE n = 1
    <3>1. r[2] = v \div 256
      BY <1>1, <1>2, <2>1
    <3> QED
      BY SMT, <2>1, <3>1, DivByByte
  <2>2. CASE n = 2
    <3>1. r[2] = v \div 256 /\ r[3] = r[2] \div 256 /\ r[2] \in Int
      BY <1>1, <1>2, <2>2
    <3>2. r[2] \in Byte
      BY SMT, <2>2, <3>1, DivByByte
    <3>3. r[3] = 0
      BY SMT, <3>1, <3>2, DivByByte
    <3> QED
      BY <2>2, <3>3
  <2>3. CASE n = 4
    <3>1. /\ r[2] = v \div 256 /\ r[3] = r[2] \div 256 /\ r[4] = r[3] \div 256 /\ r[5] = r[4] \div 256
          /\ r[2] \in Int /\ r[3] \in Int /\ r[4] \in Int
      <4>1. 1 \in 1 .. n /\ 2 \in 1 .. n /\ 3 \in 1 .. n /\ 4 \in 1 .. n
        BY <2>3
      <4>2. \A i \in 1 .. n : r[i] \in Int
        BY <1>1
      <4>3. 1 + 1 = 2 /\ 2 + 1 = 3 /\ 3 + 1 = 4 /\ 4 + 1 = 5
        BY SMT
      <4>4. \A i \in 1 .. n : r[i + 1] = r[i] \div 256
        BY Zenon, <1>2
      <4>5. r[2] = v \div 256
        BY Zenon, <1>1, <4>1, <4>3, <4>4
      <4>6. r[3] = r[2] \div 256
        BY Zenon, <4>1, <4>3, <4>4
      <4>7. r[4] = r[3] \div 256
        BY Zenon, <4>1, <4>3, <4>4
      <4>8. r[5] = r[4] \div 256
        BY Zenon, <4>1, <4>3, <4>4
      <4> QED
        BY Zenon, <4>1, <4>2, <4>5, <4>6, <4>7, <4>8
    <3>2. -IntMax - 1 <= v /\ v >= 0
      BY Maxima
    <3>3. r[3] \in Int16
      <4>1. r[3] = v \div WordSize
        BY <3>1, DivTwice
      <4> QED
        BY <3>2, <4>1, DivByWord
    <3>4. r[2] >= 0
      BY <3>1, <3>2, DivByByte
    <3>5. r[3] >= 0
      BY <3>1, <3>4, DivByByte
    <3>6. r[4] >= 0 /\ r[4] \in Int8
      BY <3>1, <3>3, <3>5, DivByByte
    <3>7. r[4] \in Byte
      BY <3>1, <3>6 DEF Int8, Byte
    <3>8. r[5] = 0
      BY <3>1, <3>7, DivByByte
    <3> QED
      BY <2>3, <3>8
  <2> QED
    BY <2>1, <2>2, <2>3
<1>5. Unsigned(bytes, pos, n) = r[1]
  <2>1. \A i \in 1 .. n + 1 : r[i] \in Int
    BY <1>1
  <2>2. \A i \in 1 .. n : r[i] = 256 * r[i + 1] + bytes[pos + i]
    BY <1>2
  <2>3. PartialSums(bytes, pos, n, r)
    BY <2>1, <2>2, <1>4 DEF PartialSums
  <2> QED
    BY <2>3, UnsignedSum
<1> QED
  BY <1>1, <1>5

LEMMA SignedReadsBack ==
  ASSUME NEW bytes \in Seq(Byte), NEW pos \in Nat, NEW v, IsLong(v),
         InFile(bytes, pos, 8), Holds(bytes, pos, Put(v, 8))
  PROVE  Signed(bytes, pos, 8) = v
<1> v \in Int /\ 8 \in Nat \ {0} /\ Len(bytes) \in Nat
  BY DEF IsLong
<1>0. PICK r : Quotients(v, 8, r)
  BY PutBytes
<1>1. \A i \in 1 .. 9 : r[i] \in Int
  <2>1. \A i \in 1 .. 8 + 1 : r[i] \in Int
    BY <1>0 DEF Quotients
  <2>2. 8 + 1 = 9
    BY SMT
  <2> QED
    BY Zenon, <2>1, <2>2
<1>2. r[1] = v
  BY <1>0 DEF Quotients
<1>3. \A i \in 1 .. 8 : /\ r[i] = 256 * r[i + 1] + bytes[pos + i]
                        /\ bytes[pos + i] = r[i] % 256
                        /\ r[i + 1] = r[i] \div 256
  BY <1>0, BytesAddUp DEF InFile
<1>4. r[8] \in Int8
  <2>1. /\ r[2] = v \div 256 /\ r[3] = r[2] \div 256 /\ r[4] = r[3] \div 256
        /\ r[5] = r[4] \div 256 /\ r[6] = r[5] \div 256 /\ r[7] = r[6] \div 256 /\ r[8] = r[7] \div 256
    <3>1. \A i \in 1 .. 8 : r[i + 1] = r[i] \div 256
      BY Zenon, <1>3
    <3>2. /\ r[1 + 1] = r[1] \div 256 /\ r[2 + 1] = r[2] \div 256 /\ r[3 + 1] = r[3] \div 256
          /\ r[4 + 1] = r[4] \div 256
      BY <3>1
    <3>3. r[5 + 1] = r[5] \div 256 /\ r[6 + 1] = r[6] \div 256 /\ r[7 + 1] = r[7] \div 256
      BY <3>1
    <3>4. r[2] = v \div 256 /\ r[3] = r[2] \div 256 /\ r[4] = r[3] \div 256 /\ r[5] = r[4] \div 256
      BY <1>2, <3>2
    <3>5. r[6] = r[5] \div 256 /\ r[7] = r[6] \div 256 /\ r[8] = r[7] \div 256
      BY <3>3
    <3> QED
      BY Zenon, <3>4, <3>5
  <2>2. r[3] \in Int /\ r[5] \in Int /\ r[6] \in Int /\ r[7] \in Int
    BY <1>1
  <2>3. r[3] = v \div WordSize
    <3>1. (v \div 256) \div 256 = v \div WordSize
      BY DivTwice
    <3> QED
      BY Zenon, <2>1, <3>1
  <2>4. r[5] = r[3] \div WordSize
    <3>1. (r[3] \div 256) \div 256 = r[3] \div WordSize
      BY Zenon, <2>2, DivTwice
    <3> QED
      BY Zenon, <2>1, <3>1
  <2>5. -IntMax - 1 <= r[5] /\ r[5] <= IntMax
    <3>1. r[5] \in -IntMax - 1 .. IntMax
      BY Zenon, <2>3, <2>4 DEF IsLong
    <3> QED
      BY <3>1, Maxima
  <2>6. r[7] \in Int16
    <3>1. (r[5] \div 256) \div 256 = r[5] \div WordSize
      BY Zenon, <2>2, DivTwice
    <3>2. r[5] \div WordSize \in Int16
      BY <2>2, <2>5, DivByWord
    <3>3. r[7] = (r[5] \div 256) \div 256
      BY Zenon, <2>1
    <3> QED
      BY Zenon, <3>1, <3>2, <3>3
  <2>7. r[7] \div 256 \in Int8
    BY <2>2, <2>6, DivByByte
  <2> QED
    BY <2>1, <2>7
<1>5. r[8] = IF bytes[pos + 8] < 128 THEN bytes[pos + 8] ELSE bytes[pos + 8] - 256
  <2>1. \A x \in Int8 : x = IF x % 256 < 128 THEN x % 256 ELSE (x % 256) - 256
    BY DEF Int8
  <2>2. bytes[pos + 8] = r[8] % 256
    BY <1>3
  <2> QED
    BY <1>4, <2>1, <2>2
<1> DEFINE s == [i \in 1 .. 8 |-> r[i]]
<1>6. s \in [1 .. 8 -> Int] /\ s[1] = v
  BY <1>1, <1>2
<1>7. s[8] = IF bytes[pos + 8] < 128 THEN bytes[pos + 8] ELSE bytes[pos + 8] - 256
  BY <1>5
<1>8. \A i \in 1 .. 8 - 1 : s[i] = 256 * s[i + 1] + bytes[pos + i]
  <2> TAKE i \in 1 .. 8 - 1
  <2>1. s[i] = r[i] /\ s[i + 1] = r[i + 1] /\ i \in 1 .. 8
    OBVIOUS
  <2> HIDE DEF s
  <2> QED
    BY <1>3, <2>1
<1> HIDE DEF s
<1>9. Signed(bytes, pos, 8) = s[1]
  <2>1. SignedSums(bytes, pos, 8, s)
    BY <1>6, <1>7, <1>8 DEF SignedSums
  <2> QED
    BY <2>1, SignedSum
<1> QED
  BY <1>6, <1>9

-----------------------------------------------------------------------------
(* Where things are in a file.                                             *)

Files == Seq(Byte)

\* The bytes of w from pos on begin with those of s.
PartOf(w, pos, s) == pos + Len(s) <= Len(w) /\ \A k \in 1 .. Len(s) : w[pos + k] = s[k]

LEMMA Joins ==
  ASSUME NEW s \in Files, NEW t \in Files
  PROVE  /\ s \o t \in Files /\ Len(s \o t) = Len(s) + Len(t)
         /\ PartOf(s \o t, 0, s) /\ PartOf(s \o t, Len(s), t)
<1>1. s \o t \in Files /\ Len(s \o t) = Len(s) + Len(t)
  BY ConcatProperties DEF Files
<1>2. \A i \in 1 .. Len(s) + Len(t) : (s \o t)[i] = IF i <= Len(s) THEN s[i] ELSE t[i - Len(s)]
  BY ConcatProperties DEF Files
<1>3. Len(s) \in Nat /\ Len(t) \in Nat
  BY DEF Files
<1>4. PartOf(s \o t, 0, s)
  BY <1>1, <1>2, <1>3 DEF PartOf
<1>5. PartOf(s \o t, Len(s), t)
  <2>1. \A k \in 1 .. Len(t) : (s \o t)[Len(s) + k] = t[k]
    <3> TAKE k \in 1 .. Len(t)
    <3>1. Len(s) + k \in 1 .. Len(s) + Len(t) /\ ~ (Len(s) + k <= Len(s)) /\ (Len(s) + k) - Len(s) = k
      BY <1>3
    <3> QED
      BY <1>2, <3>1
  <2> QED
    BY <1>1, <1>3, <2>1 DEF PartOf
<1> QED
  BY <1>1, <1>4, <1>5

LEMMA PartOfPart ==
  ASSUME NEW w \in Files, NEW s \in Files, NEW t \in Files, NEW pos \in Nat, NEW b \in Nat,
         PartOf(w, pos, s), PartOf(s, b, t)
  PROVE  PartOf(w, pos + b, t)
<1>1. Len(w) \in Nat /\ Len(s) \in Nat /\ Len(t) \in Nat
  BY DEF Files
<1>2. (pos + b) + Len(t) <= Len(w)
  BY <1>1 DEF PartOf
<1>3. \A k \in 1 .. Len(t) : w[(pos + b) + k] = t[k]
  <2> TAKE k \in 1 .. Len(t)
  <2>1. b + k \in 1 .. Len(s) /\ (pos + b) + k = pos + (b + k)
    BY <1>1 DEF PartOf
  <2>2. w[pos + (b + k)] = s[b + k]
    BY <2>1 DEF PartOf
  <2>3. s[b + k] = t[k]
    BY DEF PartOf
  <2> QED
    BY <2>1, <2>2, <2>3
<1> QED
  BY <1>2, <1>3 DEF PartOf

LEMMA StaysPart ==
  ASSUME NEW s \in Files, NEW t \in Files, NEW u \in Files, NEW pos \in Nat, PartOf(s, pos, u)
  PROVE  PartOf(s \o t, pos, u)
<1>1. PartOf(s \o t, 0, s) /\ s \o t \in Files
  BY Joins
<1>2. PartOf(s \o t, 0 + pos, u)
  BY <1>1, PartOfPart
<1>3. 0 + pos = pos
  OBVIOUS
<1> QED
  BY <1>2, <1>3

\* What FlattenSeq has put together of the first n sequences.
Joined(seqs, n, f) == f = [i \in 1 .. n |-> IF i = 1 THEN seqs[i] ELSE f[i - 1] \o seqs[i]]

LEMMA JoinedExists ==
  ASSUME NEW seqs, NEW n \in Nat
  PROVE  \E f : Joined(seqs, n, f)
<1> DEFINE T == {k \in 0 .. n : \E f : Joined(seqs, k, f)}
<1>1. 0 \in T
  <2>1. Joined(seqs, 0, [i \in 1 .. 0 |-> 0])
    BY DEF Joined
  <2> QED
    BY <2>1
<1>2. ASSUME NEW k \in 0 .. n - 1, k \in T PROVE k + 1 \in T
  <2>1. PICK f : Joined(seqs, k, f)
    BY <1>2
  <2>0. \A j \in 1 .. k : f[j] = IF j = 1 THEN seqs[j] ELSE f[j - 1] \o seqs[j]
    BY <2>1 DEF Joined
  <2> DEFINE g == [i \in 1 .. k + 1 |-> IF i = 1 THEN seqs[i] ELSE IF i = k + 1 THEN f[k] \o seqs[i] ELSE f[i]]
  <2>2. \A i \in 1 .. k + 1 : g[i] = IF i = 1 THEN seqs[i] ELSE g[i - 1] \o seqs[i]
    <3> TAKE i \in 1 .. k + 1
    <3>1. CASE i = 1
      BY <3>1
    <3>2. CASE i # 1
      <4>1. i - 1 \in 1 .. k /\ g[i - 1] = f[i - 1]
        BY <2>0, <3>2
      <4>2. CASE i = k + 1
        <5>1. g[i] = f[k] \o seqs[i]
          BY Zenon, <3>2, <4>2
        <5>2. i - 1 = k /\ i - 1 # k + 1
          BY <4>2
        <5>3. g[i - 1] = f[k]
          BY Zenon, <4>1, <5>2
        <5> HIDE DEF g
        <5> QED
          BY Zenon, <3>2, <5>1, <5>3
      <4>3. CASE i # k + 1
        <5>1. i \in 1 .. k /\ g[i] = f[i]
          BY <3>2, <4>3
        <5> HIDE DEF g
        <5>2. f[i] = f[i - 1] \o seqs[i]
          BY Zenon, <2>0, <3>2, <5>1
        <5> QED
          BY Zenon, <3>2, <4>1, <5>1, <5>2
      <4> QED
        BY <4>2, <4>3
    <3> QED
      BY <3>1, <3>2
  <2>3. Joined(seqs, k + 1, g)
    BY <2>2 DEF Joined
  <2> QED
    BY <2>3
<1>3. \A k \in 0 .. n : k \in T
  <2> HIDE DEF T
  <2> QED
    BY <1>1, <1>2, StepByStep
<1> QED
  BY <1>3

\* off[i] bytes of w come before the i-th of the sequences it consists of.
Consists(w, seqs, off) ==
  /\ \A i \in 1 .. Len(seqs) + 1 : off[i] \in Nat
  /\ off[1] = 0
  /\ off[Len(seqs) + 1] = Len(w)
  /\ \A i \in 1 .. Len(seqs) : off[i + 1] = off[i] + Len(seqs[i]) /\ PartOf(w, off[i], seqs[i])

LEMMA Flattens ==
  ASSUME NEW seqs \in Seq(Files)
  PROVE  FlattenSeq(seqs) \in Files /\ \E off : Consists(FlattenSeq(seqs), seqs, off)
<1> DEFINE n == Len(seqs)
           f == CHOOSE f : Joined(seqs, n, f)
           off == [i \in 1 .. n + 1 |-> IF i = 1 THEN 0 ELSE Len(f[i - 1])]
<1>1. n \in Nat /\ \A i \in 1 .. n : seqs[i] \in Files
  OBVIOUS
<1>2. CASE n = 0
  <2>1. seqs = << >> /\ FlattenSeq(seqs) = seqs
    BY <1>2 DEF FlattenSeq
  <2>2. << >> \in Files /\ Len(<< >>) = 0
    BY DEF Files
  <2>3. Consists(<< >>, seqs, [i \in 1 .. 1 |-> 0])
    BY <1>2, <2>2 DEF Consists
  <2> QED
    BY <2>1, <2>2, <2>3
<1>3. CASE n # 0
  <2>1. Joined(seqs, n, f)
    BY <1>1, JoinedExists
  <2>2. FlattenSeq(seqs) = f[n]
    BY <1>3 DEF FlattenSeq, Joined
  <2>3. \A i \in 1 .. n : f[i] = IF i = 1 THEN seqs[i] ELSE f[i - 1] \o seqs[i]
    BY <2>1 DEF Joined
  <2> HIDE DEF f
  <2> DEFINE T == {k \in 0 .. n : k = 0 \/ f[k] \in Files}
  <2>4. 0 \in T
    BY <1>1
  <2>5. ASSUME NEW k \in 0 .. n - 1, k \in T PROVE k + 1 \in T
    <3>1. k + 1 \in 1 .. n /\ (k + 1) - 1 = k
      BY <1>1
    <3>2. CASE k = 0
      BY <1>1, <2>3, <3>1, <3>2
    <3>3. CASE k # 0
      <4>1. f[k + 1] = f[k] \o seqs[k + 1]
        <5>1. k + 1 # 1
          BY <3>3
        <5>2. f[k + 1] = f[(k + 1) - 1] \o seqs[k + 1]
          BY Zenon, <2>3, <3>1, <5>1
        <5> QED
          BY Zenon, <3>1, <5>2
      <4>2. f[k] \in Files /\ seqs[k + 1] \in Files
        BY <1>1, <2>5, <3>1, <3>3
      <4>3. f[k] \o seqs[k + 1] \in Files
        BY <4>2, Joins
      <4>4. f[k + 1] \in Files
        BY Zenon, <4>1, <4>3
      <4>5. k + 1 \in 0 .. n
        BY <3>1
      <4> QED
        BY <4>4, <4>5
    <3> QED
      BY <3>2, <3>3
  <2>6. \A k \in 0 .. n : k \in T
    <3> HIDE DEF T, n
    <3> QED
      BY <1>1, <2>4, <2>5, StepByStep
  <2>7. \A k \in 1 .. n : f[k] \in Files /\ Len(f[k]) \in Nat /\ Len(seqs[k]) \in Nat
    BY <1>1, <2>6 DEF Files
  <2>8. off[1] = 0 /\ \A i \in 1 .. n : off[i + 1] = Len(f[i])
    OBVIOUS
  <2>9. \A i \in 1 .. n + 1 : off[i] \in Nat
    BY <2>7
  <2> HIDE DEF off
  <2>10. \A i \in 1 .. n : off[i + 1] = off[i] + Len(seqs[i]) /\ PartOf(f[i], off[i], seqs[i])
    <3> TAKE i \in 1 .. n
    <3>1. CASE i = 1
      <4>1. f[i] = seqs[i] /\ off[i] = 0 /\ off[i + 1] = Len(f[i])
        BY <2>3, <2>8, <3>1
      <4>2. PartOf(seqs[i], 0, seqs[i])
        BY <2>7 DEF PartOf
      <4> QED
        BY <2>7, <4>1, <4>2
    <3>2. CASE i # 1
      <4>1. i - 1 \in 1 .. n /\ (i - 1) + 1 = i
        BY <3>2
      <4>2. f[i] = f[i - 1] \o seqs[i] /\ off[i] = Len(f[i - 1]) /\ off[i + 1] = Len(f[i])
        BY <2>3, <2>8, <3>2, <4>1
      <4>3. f[i - 1] \in Files /\ seqs[i] \in Files
        BY <1>1, <2>7, <4>1
      <4> QED
        BY <4>2, <4>3, Joins
    <3> QED
      BY <3>1, <3>2
  <2> DEFINE P == {k \in 0 .. n : \A i \in 1 .. k : PartOf(f[k], off[i], seqs[i])}
  <2>11. 0 \in P
    BY <1>1
  <2>12. ASSUME NEW k \in 0 .. n - 1, k \in P PROVE k + 1 \in P
    <3>1. k + 1 \in 1 .. n /\ (k + 1) - 1 = k
      BY <1>1
    <3>2. ASSUME NEW i \in 1 .. k + 1 PROVE PartOf(f[k + 1], off[i], seqs[i])
      <4>1. CASE i = k + 1
        BY <2>10, <3>1, <4>1
      <4>2. CASE i # k + 1
        <5>1. i \in 1 .. k /\ k \in 1 .. n /\ k + 1 # 1 /\ i \in 1 .. n /\ i \in 1 .. n + 1
          BY <1>1, <3>1, <4>2
        <5>2. f[k + 1] = f[k] \o seqs[k + 1]
          BY <2>3, <3>1, <5>1
        <5>3. PartOf(f[k], off[i], seqs[i])
          BY <2>12, <5>1
        <5>4. f[k] \in Files /\ seqs[k + 1] \in Files /\ seqs[i] \in Files /\ off[i] \in Nat
          BY <1>1, <2>7, <2>9, <3>1, <5>1
        <5>5. PartOf(f[k] \o seqs[k + 1], off[i], seqs[i])
          BY <5>3, <5>4, StaysPart
        <5> QED
          BY <5>2, <5>5
      <4> QED
        BY <4>1, <4>2
    <3>3. k + 1 \in 0 .. n
      BY <3>1
    <3> QED
      BY <3>2, <3>3
  <2>13. \A k \in 0 .. n : k \in P
    <3> HIDE DEF P, n
    <3> QED
      BY <1>1, <2>11, <2>12, StepByStep
  <2>14. n \in 1 .. n /\ n \in 0 .. n
    BY <1>1, <1>3
  <2>15. \A i \in 1 .. n : PartOf(f[n], off[i], seqs[i])
    BY <2>13, <2>14
  <2>16. off[n + 1] = Len(f[n])
    BY <2>8, <2>14
  <2>17. Consists(f[n], seqs, off)
    BY <2>8, <2>9, <2>10, <2>15, <2>16 DEF Consists
  <2> QED
    BY <2>2, <2>7, <2>14, <2>17
<1> QED
  BY <1>2, <1>3

-----------------------------------------------------------------------------
(* The layout of a module's file.                                          *)

\* A file of n bytes.
Sized(s, n) == s \in Files /\ Len(s) = n

LEMMA PutFiles ==
  ASSUME NEW v \in Int, NEW n \in Nat
  PROVE  Sized(Put(v, n), n)
BY PutBytes DEF Files, Sized

LEMMA JoinsSized ==
  ASSUME NEW s, NEW t, NEW n \in Nat, NEW k \in Nat, Sized(s, n), Sized(t, k)
  PROVE  /\ Sized(s \o t, n + k)
         /\ PartOf(s \o t, 0, s) /\ PartOf(s \o t, n, t)
<1>1. s \in Files /\ t \in Files /\ Len(s) = n /\ Len(t) = k
  BY DEF Sized
<1>2. s \o t \in Files /\ Len(s \o t) = Len(s) + Len(t)
  BY <1>1, Joins
<1>3. PartOf(s \o t, 0, s) /\ PartOf(s \o t, Len(s), t)
  BY <1>1, Joins
<1> QED
  BY <1>1, <1>2, <1>3, Zenon DEF Sized

LEMMA StaysPartSized ==
  ASSUME NEW s, NEW t, NEW u, NEW n, NEW k, NEW l, Sized(s, n), Sized(t, k), Sized(u, l),
         NEW pos \in Nat, PartOf(s, pos, u)
  PROVE  PartOf(s \o t, pos, u)
BY StaysPart DEF Sized

IsConst(c) == c \in [tag : Byte, value : Int] /\ IsLong(c.value)

LEMMA ConstBytes ==
  ASSUME NEW c, IsConst(c)
  PROVE  /\ Sized(PutConst(c), 16)
         /\ PartOf(PutConst(c), 0, Put(c.tag, 1)) /\ PartOf(PutConst(c), 8, Put(c.value, 8))
<1> DEFINE a == Put(c.tag, 1)
           b == Put(0, 7)
           d == Put(c.value, 8)
<1>1. Sized(a, 1)
  <2>1. c.tag \in Int
    BY DEF IsConst, Byte
  <2> QED
    BY <2>1, PutFiles
<1>2. Sized(b, 7)
  BY PutFiles, 0 \in Int, 7 \in Nat, Zenon
<1>3. Sized(d, 8)
  <2>1. c.value \in Int
    BY DEF IsConst
  <2> QED
    BY <2>1, PutFiles
<1>4. PutConst(c) = (a \o b) \o d
  BY DEF PutConst
<1> HIDE DEF a, b, d
<1>5. 1 \in Nat /\ 7 \in Nat /\ 8 \in Nat /\ 0 \in Nat
  OBVIOUS
<1>6. 1 + 7 = 8 /\ 8 + 8 = 16
  OBVIOUS
<1>7. Sized(a \o b, 1 + 7) /\ PartOf(a \o b, 0, a)
  BY Zenon, <1>1, <1>2, <1>5, JoinsSized
<1>8. Sized(a \o b, 8)
  BY Zenon, <1>6, <1>7
<1>9. Sized((a \o b) \o d, 8 + 8) /\ PartOf((a \o b) \o d, 8, d)
  BY Zenon, <1>3, <1>5, <1>8, JoinsSized
<1>10. Sized((a \o b) \o d, 16)
  BY Zenon, <1>6, <1>9
<1>11. PartOf((a \o b) \o d, 0, a)
  BY Zenon, <1>1, <1>3, <1>5, <1>7, <1>8, StaysPartSized
<1> QED
  BY <1>4, <1>9, <1>10, <1>11, Zenon DEF a, d

IsFunc(f) ==
  /\ f \in [name : Seq(Byte), nparams : Word, nlocals : Word, code : Seq(Byte)]
  /\ Len(f.name) \in Word /\ Len(f.code) <= IntMax

\* f's fields are in w, from pos on.
HoldsFunc(w, pos, f) ==
  /\ PartOf(w, pos, Put(Len(f.name), 2))
  /\ PartOf(w, pos + 2, f.name)
  /\ PartOf(w, pos + 2 + Len(f.name), Put(f.nparams, 2))
  /\ PartOf(w, pos + 2 + Len(f.name) + 2, Put(f.nlocals, 2))
  /\ PartOf(w, pos + 2 + Len(f.name) + 4, Put(Len(f.code), 4))
  /\ PartOf(w, pos + 2 + Len(f.name) + 8, f.code)

LEMMA FuncFields ==
  ASSUME NEW f, IsFunc(f)
  PROVE  /\ f.name \in Files /\ f.code \in Files
         /\ Len(f.name) \in Nat /\ Len(f.code) \in Nat
         /\ f.nparams \in Nat /\ f.nlocals \in Nat
<1>1. f.name \in Files /\ f.code \in Files /\ f.nparams \in Word /\ f.nlocals \in Word
  BY DEF IsFunc, Files
<1>2. \A x \in Word : x \in Nat
  BY Maxima DEF Word
<1> QED
  BY <1>1, <1>2 DEF Files

LEMMA FuncBytes ==
  ASSUME NEW f, IsFunc(f)
  PROVE  /\ Sized(PutFunc(f), 10 + Len(f.name) + Len(f.code))
         /\ HoldsFunc(PutFunc(f), 0, f)
<1> DEFINE a1 == Put(Len(f.name), 2)
           a2 == f.name
           a3 == Put(f.nparams, 2)
           a4 == Put(f.nlocals, 2)
           a5 == Put(Len(f.code), 4)
           a6 == f.code
           n == Len(f.name)
           k == Len(f.code)
<1>0. n \in Nat /\ k \in Nat /\ 2 \in Nat /\ 4 \in Nat /\ 0 \in Nat
  BY FuncFields
<1>1. Sized(a2, n) /\ Sized(a6, k)
  BY FuncFields DEF Sized
<1>2. Sized(a1, 2) /\ Sized(a3, 2) /\ Sized(a4, 2) /\ Sized(a5, 4)
  <2>1. Len(f.name) \in Int /\ f.nparams \in Int /\ f.nlocals \in Int /\ Len(f.code) \in Int
    BY FuncFields
  <2> QED
    BY Zenon, <1>0, <2>1, PutFiles
<1> DEFINE w2 == a1 \o a2
           w3 == w2 \o a3
           w4 == w3 \o a4
           w5 == w4 \o a5
           w6 == w5 \o a6
<1>3. PutFunc(f) = w6
  BY DEF PutFunc
<1> HIDE DEF a1, a2, a3, a4, a5, a6, n, k
<1>a. /\ 2 + n \in Nat /\ 2 + n + 2 \in Nat /\ 2 + n + 4 \in Nat /\ 2 + n + 8 \in Nat
      /\ (2 + n) + 2 = 2 + n + 2 /\ (2 + n + 2) + 2 = 2 + n + 4 /\ (2 + n + 4) + 4 = 2 + n + 8
      /\ (2 + n + 8) + k = 10 + n + k
  BY <1>0
<1>4. Sized(w2, 2 + n) /\ PartOf(w2, 0, a1) /\ PartOf(w2, 2, a2)
  BY Zenon, <1>0, <1>1, <1>2, JoinsSized
<1> HIDE DEF w2
<1>5. Sized(w3, 2 + n + 2) /\ PartOf(w3, 2 + n, a3)
  BY Zenon, <1>0, <1>a, <1>2, <1>4, JoinsSized
<1>6. PartOf(w3, 0, a1) /\ PartOf(w3, 2, a2)
  BY Zenon, <1>0, <1>1, <1>2, <1>4, StaysPartSized
<1> HIDE DEF w3
<1>7. Sized(w4, 2 + n + 4) /\ PartOf(w4, 2 + n + 2, a4)
  <2>1. Sized(w4, (2 + n + 2) + 2) /\ PartOf(w4, 2 + n + 2, a4)
    BY Zenon, <1>0, <1>a, <1>2, <1>5, JoinsSized
  <2> QED
    BY Zenon, <1>a, <2>1
<1>8. PartOf(w4, 0, a1) /\ PartOf(w4, 2, a2) /\ PartOf(w4, 2 + n, a3)
  BY Zenon, <1>0, <1>a, <1>1, <1>2, <1>5, <1>6, StaysPartSized
<1> HIDE DEF w4
<1>9. Sized(w5, 2 + n + 8) /\ PartOf(w5, 2 + n + 4, a5)
  <2>1. Sized(w5, (2 + n + 4) + 4) /\ PartOf(w5, 2 + n + 4, a5)
    BY Zenon, <1>0, <1>a, <1>2, <1>7, JoinsSized
  <2> QED
    BY Zenon, <1>a, <2>1
<1>10. PartOf(w5, 0, a1) /\ PartOf(w5, 2, a2) /\ PartOf(w5, 2 + n, a3) /\ PartOf(w5, 2 + n + 2, a4)
  BY Zenon, <1>0, <1>a, <1>1, <1>2, <1>7, <1>8, StaysPartSized
<1> HIDE DEF w5
<1>11. Sized(w6, 10 + n + k) /\ PartOf(w6, 2 + n + 8, a6)
  <2>1. Sized(w6, (2 + n + 8) + k) /\ PartOf(w6, 2 + n + 8, a6)
    BY Zenon, <1>0, <1>a, <1>1, <1>9, JoinsSized
  <2> QED
    BY Zenon, <1>a, <2>1
<1>12. /\ PartOf(w6, 0, a1) /\ PartOf(w6, 2, a2) /\ PartOf(w6, 2 + n, a3) /\ PartOf(w6, 2 + n + 2, a4)
       /\ PartOf(w6, 2 + n + 4, a5)
  BY Zenon, <1>0, <1>a, <1>1, <1>2, <1>9, <1>10, StaysPartSized
<1> HIDE DEF w6
<1>13. 0 + 2 = 2
  OBVIOUS
<1>14. HoldsFunc(w6, 0, f)
  BY Zenon, <1>11, <1>12, <1>13 DEF HoldsFunc, a1, a2, a3, a4, a5, a6, n
<1> QED
  BY Zenon, <1>3, <1>11, <1>14 DEF n, k

Entry(m)   == IF m.entry < 0 THEN 0 ELSE m.entry
Consts(m)  == [i \in DOMAIN m.consts |-> PutConst(m.consts[i])]
Funcs(m)   == [i \in DOMAIN m.funcs |-> PutFunc(m.funcs[i])]
FuncsAt(m) == 8 + 16 * Len(m.consts)

\* off[i]: the bytes of the functions before the i-th.
Offsets(m, off) ==
  /\ off[1] = 0
  /\ \A i \in 1 .. Len(m.funcs) + 1 : off[i] \in Nat
  /\ \A i \in 1 .. Len(m.funcs) :
       off[i + 1] = off[i] + (10 + Len(m.funcs[i].name) + Len(m.funcs[i].code))

Layout(w, m, off) ==
  /\ w \in Files
  /\ Len(w) = FuncsAt(m) + 8 + off[Len(m.funcs) + 1]
  /\ PartOf(w, 0, Magic)
  /\ PartOf(w, 4, Put(Len(m.consts), 4))
  /\ \A i \in 1 .. Len(m.consts) : PartOf(w, ConstAt(w, i), PutConst(m.consts[i]))
  /\ PartOf(w, FuncsAt(m), Put(Len(m.funcs), 4))
  /\ PartOf(w, FuncsAt(m) + 4, Put(Entry(m), 4))
  /\ \A i \in 1 .. Len(m.funcs) : PartOf(w, FuncsAt(m) + 8 + off[i], PutFunc(m.funcs[i]))

LEMMA ModuleFields ==
  ASSUME NEW m, IsModule(m)
  PROVE  /\ Len(m.consts) \in Nat /\ Len(m.consts) <= IntMax
         /\ Len(m.funcs) \in Nat /\ Len(m.funcs) <= IntMax
         /\ Entry(m) \in Nat /\ Entry(m) <= IntMax
         /\ DOMAIN m.consts = 1 .. Len(m.consts) /\ \A i \in 1 .. Len(m.consts) : IsConst(m.consts[i])
         /\ DOMAIN m.funcs = 1 .. Len(m.funcs) /\ \A i \in 1 .. Len(m.funcs) : IsFunc(m.funcs[i])
<1>1. m.consts \in Seq([tag : Byte, value : Int])
  BY DEF IsModule
<1>2. DOMAIN m.consts = 1 .. Len(m.consts) /\ Len(m.consts) \in Nat
  BY <1>1
<1>3. \A i \in 1 .. Len(m.consts) : IsConst(m.consts[i])
  <2> TAKE i \in 1 .. Len(m.consts)
  <2>1. m.consts[i] \in [tag : Byte, value : Int]
    BY <1>1, ElementOfSeq
  <2>2. IsLong(m.consts[i].value)
    BY <1>2 DEF IsModule
  <2> QED
    BY <2>1, <2>2 DEF IsConst
<1> DEFINE F == [name : Seq(Byte), nparams : Word, nlocals : Word, code : Seq(Byte)]
<1>4. m.funcs \in Seq(F)
  BY DEF IsModule
<1> HIDE DEF F
<1>5. DOMAIN m.funcs = 1 .. Len(m.funcs) /\ Len(m.funcs) \in Nat
  BY <1>4
<1>6. \A i \in 1 .. Len(m.funcs) : IsFunc(m.funcs[i])
  <2> TAKE i \in 1 .. Len(m.funcs)
  <2>1. m.funcs[i] \in F
    BY <1>4, ElementOfSeq
  <2>2. Len(m.funcs[i].name) \in Word /\ Len(m.funcs[i].code) <= IntMax
    BY <1>5 DEF IsModule
  <2> QED
    BY <2>1, <2>2 DEF IsFunc, F
<1>7. Entry(m) \in Nat /\ Entry(m) <= IntMax
  BY Maxima DEF Entry, IsModule
<1>8. Len(m.consts) <= IntMax /\ Len(m.funcs) <= IntMax
  BY DEF IsModule
<1> QED
  BY <1>2, <1>3, <1>5, <1>6, <1>7, <1>8

LEMMA ConstsLayout ==
  ASSUME NEW m, IsModule(m)
  PROVE  /\ Sized(FlattenSeq(Consts(m)), 16 * Len(m.consts))
         /\ \A i \in 1 .. Len(m.consts) :
              PartOf(FlattenSeq(Consts(m)), 16 * (i - 1), PutConst(m.consts[i]))
<1> DEFINE n == Len(m.consts)
           c == FlattenSeq(Consts(m))
<1>1. n \in Nat /\ DOMAIN m.consts = 1 .. n /\ \A i \in 1 .. n : IsConst(m.consts[i])
  BY ModuleFields
<1>2. \A i \in 1 .. n : Sized(PutConst(m.consts[i]), 16)
  BY <1>1, ConstBytes
<1>3. Consts(m) \in Seq(Files) /\ Len(Consts(m)) = n /\ \A i \in 1 .. n : Consts(m)[i] = PutConst(m.consts[i])
  <2>1. \A i \in 1 .. n : PutConst(m.consts[i]) \in Files
    BY <1>2 DEF Sized
  <2>2. Consts(m) = [i \in 1 .. n |-> PutConst(m.consts[i])]
    BY <1>1 DEF Consts
  <2> HIDE DEF n
  <2> QED
    BY <1>1, <2>1, <2>2
<1>4. c \in Files /\ \E off : Consists(c, Consts(m), off)
  BY <1>3, Flattens
<1>5. PICK off : Consists(c, Consts(m), off)
  BY <1>4
<1> HIDE DEF c, n
<1>6. /\ off[1] = 0 /\ off[n + 1] = Len(c)
      /\ \A i \in 1 .. n : off[i + 1] = off[i] + 16 /\ PartOf(c, off[i], PutConst(m.consts[i]))
  <2>1. off[1] = 0 /\ off[n + 1] = Len(c)
    BY <1>3, <1>5 DEF Consists
  <2>2. \A i \in 1 .. n : off[i + 1] = off[i] + Len(Consts(m)[i]) /\ PartOf(c, off[i], Consts(m)[i])
    BY <1>3, <1>5 DEF Consists
  <2>3. \A i \in 1 .. n : Len(Consts(m)[i]) = 16
    BY <1>2, <1>3 DEF Sized
  <2> QED
    BY <1>3, <2>1, <2>2, <2>3
<1> DEFINE T == {k \in 0 .. n : off[k + 1] = 16 * k}
<1>7. 0 \in T
  BY <1>1, <1>6
<1>8. ASSUME NEW k \in 0 .. n - 1, k \in T PROVE k + 1 \in T
  BY <1>1, <1>6, <1>8
<1>9. \A k \in 0 .. n : k \in T
  <2> HIDE DEF T
  <2> QED
    BY <1>1, <1>7, <1>8, StepByStep
<1>10. \A i \in 1 .. n : off[i] = 16 * (i - 1)
  <2> TAKE i \in 1 .. n
  <2>1. i - 1 \in 0 .. n /\ (i - 1) + 1 = i
    BY <1>1
  <2>2. off[(i - 1) + 1] = 16 * (i - 1)
    BY <1>9, <2>1
  <2> QED
    BY <2>1, <2>2
<1>11. Len(c) = 16 * n
  BY <1>1, <1>6, <1>9
<1>12. \A i \in 1 .. n : PartOf(c, 16 * (i - 1), PutConst(m.consts[i]))
  BY Zenon, <1>6, <1>10
<1> QED
  BY Zenon, <1>4, <1>11, <1>12 DEF Sized, c, n

LEMMA FuncsLayout ==
  ASSUME NEW m, IsModule(m)
  PROVE  \E off : /\ Offsets(m, off)
                  /\ Sized(FlattenSeq(Funcs(m)), off[Len(m.funcs) + 1])
                  /\ \A i \in 1 .. Len(m.funcs) :
                       PartOf(FlattenSeq(Funcs(m)), off[i], PutFunc(m.funcs[i]))
<1> DEFINE n == Len(m.funcs)
           c == FlattenSeq(Funcs(m))
<1>1. n \in Nat /\ DOMAIN m.funcs = 1 .. n /\ \A i \in 1 .. n : IsFunc(m.funcs[i])
  BY ModuleFields
<1>2. \A i \in 1 .. n : Sized(PutFunc(m.funcs[i]), 10 + Len(m.funcs[i].name) + Len(m.funcs[i].code))
  BY <1>1, FuncBytes
<1>3. Funcs(m) \in Seq(Files) /\ Len(Funcs(m)) = n /\ \A i \in 1 .. n : Funcs(m)[i] = PutFunc(m.funcs[i])
  <2>1. \A i \in 1 .. n : PutFunc(m.funcs[i]) \in Files
    BY <1>2 DEF Sized
  <2>2. Funcs(m) = [i \in 1 .. n |-> PutFunc(m.funcs[i])]
    BY <1>1 DEF Funcs
  <2> HIDE DEF n
  <2> QED
    BY <1>1, <2>1, <2>2
<1>4. c \in Files /\ \E off : Consists(c, Funcs(m), off)
  BY <1>3, Flattens
<1>5. PICK off : Consists(c, Funcs(m), off)
  BY <1>4
<1> HIDE DEF c, n
<1>6. off[1] = 0 /\ off[n + 1] = Len(c) /\ \A i \in 1 .. n + 1 : off[i] \in Nat
  BY <1>3, <1>5 DEF Consists
<1>7. \A i \in 1 .. n : off[i + 1] = off[i] + Len(Funcs(m)[i]) /\ PartOf(c, off[i], Funcs(m)[i])
  BY <1>3, <1>5 DEF Consists
<1>8. \A i \in 1 .. n : Len(Funcs(m)[i]) = 10 + Len(m.funcs[i].name) + Len(m.funcs[i].code)
  BY Zenon, <1>2, <1>3 DEF Sized
<1>9. Offsets(m, off)
  BY Zenon, <1>6, <1>7, <1>8 DEF Offsets, n
<1>10. Sized(c, off[n + 1])
  BY Zenon, <1>4, <1>6 DEF Sized
<1>11. \A i \in 1 .. n : PartOf(c, off[i], PutFunc(m.funcs[i]))
  BY Zenon, <1>3, <1>7
<1> QED
  BY Zenon, <1>9, <1>10, <1>11 DEF c, n

(* Where emit_module puts what.                                            *)
LEMMA Lays ==
  ASSUME NEW m, IsModule(m)
  PROVE  \E off : Offsets(m, off) /\ Layout(emit_module(m), m, off)
<1> DEFINE nc == Len(m.consts)
           nf == Len(m.funcs)
           C == FlattenSeq(Consts(m))
           F == FlattenSeq(Funcs(m))
           a == Put(nc, 4)
           b == Put(nf, 4)
           d == Put(Entry(m), 4)
<1>1. PICK off : /\ Offsets(m, off)
                 /\ Sized(F, off[nf + 1])
                 /\ \A i \in 1 .. nf : PartOf(F, off[i], PutFunc(m.funcs[i]))
  BY FuncsLayout
<1>2. Sized(C, 16 * nc) /\ \A i \in 1 .. nc : PartOf(C, 16 * (i - 1), PutConst(m.consts[i]))
  BY ConstsLayout
<1>3. nc \in Nat /\ nf \in Nat /\ Entry(m) \in Nat
  BY ModuleFields
<1>4. Sized(a, 4) /\ Sized(b, 4) /\ Sized(d, 4)
  <2>1. nc \in Int /\ nf \in Int /\ Entry(m) \in Int /\ 4 \in Nat
    BY <1>3
  <2> QED
    BY Zenon, <2>1, PutFiles
<1>5. Sized(Magic, 4)
  BY DEF Sized, Magic, Files, Byte
<1>6. /\ off[nf + 1] \in Nat /\ \A i \in 1 .. nf : off[i] \in Nat
  BY <1>1, <1>3 DEF Offsets
<1> DEFINE w1 == Magic \o a
           w2 == w1 \o C
           w3 == w2 \o b
           w4 == w3 \o d
           w5 == w4 \o F
<1>7. emit_module(m) = w5
  BY DEF emit_module, Consts, Funcs, Entry
<1>8. \A i \in 1 .. nc : IsConst(m.consts[i])
  BY ModuleFields
<1>9. \A i \in 1 .. nf : IsFunc(m.funcs[i])
  BY ModuleFields
<1>10. \A i \in 1 .. nc : Sized(PutConst(m.consts[i]), 16)
  BY Zenon, <1>8, ConstBytes
<1>11. \A i \in 1 .. nf : Sized(PutFunc(m.funcs[i]), 10 + Len(m.funcs[i].name) + Len(m.funcs[i].code))
  BY Zenon, <1>9, FuncBytes
<1> HIDE DEF a, b, d, C, F, nc, nf
<1>12. /\ 0 \in Nat /\ 4 \in Nat /\ 8 \in Nat /\ 4 + 4 = 8 /\ 16 * nc \in Nat /\ 8 + 16 * nc \in Nat
       /\ 8 + 16 * nc + 4 \in Nat /\ (8 + 16 * nc + 4) + 4 = 8 + 16 * nc + 8 /\ 8 + 16 * nc + 8 \in Nat
       /\ \A i \in 1 .. nc : 16 * (i - 1) \in Nat /\ 8 + 16 * (i - 1) \in Nat
  BY <1>3
<1>13. Sized(w1, 8) /\ PartOf(w1, 0, Magic) /\ PartOf(w1, 4, a)
  <2>1. Sized(w1, 4 + 4) /\ PartOf(w1, 0, Magic) /\ PartOf(w1, 4, a)
    BY Zenon, <1>4, <1>5, <1>12, JoinsSized
  <2> QED
    BY Zenon, <1>12, <2>1
<1> HIDE DEF w1
<1>14. Sized(w2, 8 + 16 * nc) /\ PartOf(w2, 8, C)
  BY Zenon, <1>2, <1>12, <1>13, JoinsSized
<1>15. PartOf(w2, 0, Magic) /\ PartOf(w2, 4, a)
  BY Zenon, <1>2, <1>4, <1>5, <1>12, <1>13, StaysPartSized
<1>16. \A i \in 1 .. nc : PartOf(w2, 8 + 16 * (i - 1), PutConst(m.consts[i]))
  <2> TAKE i \in 1 .. nc
  <2>1. w2 \in Files /\ C \in Files /\ PutConst(m.consts[i]) \in Files
    BY Zenon, <1>2, <1>10, <1>14 DEF Sized
  <2>2. PartOf(C, 16 * (i - 1), PutConst(m.consts[i])) /\ 16 * (i - 1) \in Nat
    BY Zenon, <1>2, <1>12
  <2> QED
    BY Zenon, <1>12, <1>14, <2>1, <2>2, PartOfPart
<1> HIDE DEF w2
<1>17. Sized(w3, 8 + 16 * nc + 4) /\ PartOf(w3, 8 + 16 * nc, b)
  BY Zenon, <1>4, <1>12, <1>14, JoinsSized
<1>18. PartOf(w3, 0, Magic) /\ PartOf(w3, 4, a)
  BY Zenon, <1>4, <1>5, <1>12, <1>14, <1>15, StaysPartSized
<1>19. \A i \in 1 .. nc : PartOf(w3, 8 + 16 * (i - 1), PutConst(m.consts[i]))
  BY Zenon, <1>4, <1>10, <1>12, <1>14, <1>16, StaysPartSized
<1> HIDE DEF w3
<1>20. Sized(w4, 8 + 16 * nc + 8) /\ PartOf(w4, 8 + 16 * nc + 4, d)
  <2>1. Sized(w4, (8 + 16 * nc + 4) + 4) /\ PartOf(w4, 8 + 16 * nc + 4, d)
    BY Zenon, <1>4, <1>12, <1>17, JoinsSized
  <2> QED
    BY Zenon, <1>12, <2>1
<1>21. PartOf(w4, 0, Magic) /\ PartOf(w4, 4, a) /\ PartOf(w4, 8 + 16 * nc, b)
  BY Zenon, <1>4, <1>5, <1>12, <1>17, <1>18, StaysPartSized
<1>22. \A i \in 1 .. nc : PartOf(w4, 8 + 16 * (i - 1), PutConst(m.consts[i]))
  BY Zenon, <1>4, <1>10, <1>12, <1>17, <1>19, StaysPartSized
<1> HIDE DEF w4
<1>23. Sized(w5, 8 + 16 * nc + 8 + off[nf + 1]) /\ PartOf(w5, 8 + 16 * nc + 8, F)
  BY Zenon, <1>1, <1>6, <1>12, <1>20, JoinsSized
<1>24. /\ PartOf(w5, 0, Magic) /\ PartOf(w5, 4, a) /\ PartOf(w5, 8 + 16 * nc, b)
       /\ PartOf(w5, 8 + 16 * nc + 4, d)
  BY Zenon, <1>1, <1>4, <1>5, <1>12, <1>20, <1>21, StaysPartSized
<1>25. \A i \in 1 .. nc : PartOf(w5, 8 + 16 * (i - 1), PutConst(m.consts[i]))
  BY Zenon, <1>1, <1>10, <1>12, <1>20, <1>22, StaysPartSized
<1>26. \A i \in 1 .. nf : PartOf(w5, 8 + 16 * nc + 8 + off[i], PutFunc(m.funcs[i]))
  <2> TAKE i \in 1 .. nf
  <2>1. w5 \in Files /\ F \in Files /\ PutFunc(m.funcs[i]) \in Files
    BY Zenon, <1>1, <1>11, <1>23 DEF Sized
  <2>2. PartOf(F, off[i], PutFunc(m.funcs[i])) /\ off[i] \in Nat
    BY Zenon, <1>1, <1>6
  <2> QED
    BY Zenon, <1>12, <1>23, <2>1, <2>2, PartOfPart
<1> HIDE DEF w5
<1>27. w5 \in Files /\ Len(w5) = FuncsAt(m) + 8 + off[nf + 1]
  BY Zenon, <1>23 DEF Sized, FuncsAt, nc
<1>28. \A i \in 1 .. nc : PartOf(w5, ConstAt(w5, i), PutConst(m.consts[i]))
  BY Zenon, <1>25 DEF ConstAt
<1>29. Layout(w5, m, off)
  BY Zenon, <1>24, <1>26, <1>27, <1>28 DEF Layout, FuncsAt, nc, nf, a, b, d
<1> QED
  BY Zenon, <1>1, <1>7, <1>29

-----------------------------------------------------------------------------
(* What is read of a file that has been written as far as it goes.         *)

Begins(bytes, w) == bytes \in Files /\ Len(bytes) <= Len(w) /\ \A k \in 1 .. Len(bytes) : bytes[k] = w[k]

LEMMA HoldsPart ==
  ASSUME NEW w \in Files, NEW f, Begins(f, w), NEW pos \in Nat, NEW s \in Files, PartOf(w, pos, s)
  PROVE  Holds(f, pos, s)
<1>1. Len(f) \in Nat /\ Len(s) \in Nat
  BY DEF Begins, Files
<1> SUFFICES ASSUME NEW k \in 1 .. Len(s), pos + k <= Len(f) PROVE f[pos + k] = s[k]
  BY DEF Holds
<1>2. pos + k \in 1 .. Len(f)
  BY <1>1
<1>3. f[pos + k] = w[pos + k]
  BY <1>2 DEF Begins
<1>4. w[pos + k] = s[k]
  BY DEF PartOf
<1> QED
  BY <1>3, <1>4

LEMMA NumberAt ==
  ASSUME NEW w \in Files, NEW f, Begins(f, w), NEW pos \in Nat, NEW n \in {1, 2, 4}, NEW v \in Nat,
         v <= IntMax, n = 1 => v \in Byte, n = 2 => v \in Word,
         PartOf(w, pos, Put(v, n)), InFile(f, pos, n)
  PROVE  Unsigned(f, pos, n) = v
<1>1. v \in Int /\ n \in Nat
  OBVIOUS
<1>2. Put(v, n) \in Files
  BY <1>1, PutFiles DEF Sized
<1>3. Holds(f, pos, Put(v, n))
  BY <1>2, HoldsPart
<1>4. f \in Seq(Byte)
  BY DEF Begins, Files
<1> QED
  BY <1>3, <1>4, ReadsBack

LEMMA SignedAt ==
  ASSUME NEW w \in Files, NEW f, Begins(f, w), NEW pos \in Nat, NEW v, IsLong(v),
         PartOf(w, pos, Put(v, 8)), InFile(f, pos, 8)
  PROVE  Signed(f, pos, 8) = v
<1>1. v \in Int /\ 8 \in Nat
  BY DEF IsLong
<1>2. Put(v, 8) \in Files
  BY <1>1, PutFiles DEF Sized
<1>3. Holds(f, pos, Put(v, 8))
  BY <1>2, HoldsPart
<1>4. f \in Seq(Byte)
  BY DEF Begins, Files
<1> QED
  BY <1>3, <1>4, SignedReadsBack

\* The first n bytes of s, from pos on.
LEMMA TakenBytes ==
  ASSUME NEW w \in Files, NEW f, Begins(f, w), NEW pos \in Nat, NEW s \in Files, PartOf(w, pos, s),
         NEW n \in 0 .. Len(s), pos <= Len(f)
  PROVE  /\ Taken(f, pos, n) \in Files
         /\ pos + n <= Len(f) => Taken(f, pos, n) = SubSeq(s, 1, n)
         /\ ~ (pos + n <= Len(f)) => Taken(f, pos, n) = SubSeq(s, 1, Len(f) - pos) /\ Len(f) - pos \in 0 .. n
<1> DEFINE l == IF pos + n <= Len(f) THEN n ELSE Len(f) - pos
<1>0. Len(f) \in Nat /\ Len(s) \in Nat /\ f \in Seq(Byte) /\ s \in Seq(Byte) /\ n \in Nat
  BY DEF Begins, Files
<1>1. l \in 0 .. n /\ pos + l <= Len(f)
  BY <1>0
<1>2. Taken(f, pos, n) = SubSeq(f, pos + 1, pos + l)
  <2>1. (IF pos + n < Len(f) THEN pos + n ELSE Len(f)) = pos + l
    BY <1>0
  <2> QED
    BY <2>1 DEF Taken
<1>3. ~ (pos + n <= Len(f)) => l = Len(f) - pos
  OBVIOUS
<1>4. pos + n <= Len(f) => l = n
  OBVIOUS
<1> HIDE DEF l
<1> DEFINE p == SubSeq(f, pos + 1, pos + l)
           q == SubSeq(s, 1, l)
<1>5. \A i \in pos + 1 .. pos + l : f[i] \in Byte
  BY <1>0, <1>1
<1>6. \A i \in 1 .. l : s[i] \in Byte
  BY <1>0, <1>1
<1>7. /\ p \in Seq(Byte) /\ Len(p) = l
      /\ \A i \in 1 .. l : p[i] = f[pos + i]
  <2>1. pos + 1 \in Int /\ pos + l \in Int
    BY <1>1
  <2>2. /\ p \in Seq(Byte)
        /\ Len(p) = IF pos + 1 <= pos + l THEN (pos + l) - (pos + 1) + 1 ELSE 0
        /\ \A i \in 1 .. (pos + l) - (pos + 1) + 1 : p[i] = f[(pos + 1) + i - 1]
    BY <1>5, <2>1, SubSeqProperties
  <2>3. (pos + l) - (pos + 1) + 1 = l /\ (IF pos + 1 <= pos + l THEN (pos + l) - (pos + 1) + 1 ELSE 0) = l
    BY <1>0, <1>1
  <2>4. \A i \in 1 .. l : (pos + 1) + i - 1 = pos + i
    BY <1>0
  <2> HIDE DEF p
  <2> QED
    BY Zenon, <2>2, <2>3, <2>4
<1>8. /\ q \in Seq(Byte) /\ Len(q) = l
      /\ \A i \in 1 .. l : q[i] = s[i]
  <2>1. 1 \in Int /\ l \in Int
    BY <1>1
  <2>2. /\ q \in Seq(Byte)
        /\ Len(q) = IF 1 <= l THEN l - 1 + 1 ELSE 0
        /\ \A i \in 1 .. l - 1 + 1 : q[i] = s[1 + i - 1]
    BY <1>6, <2>1, SubSeqProperties
  <2>3. l - 1 + 1 = l /\ (IF 1 <= l THEN l - 1 + 1 ELSE 0) = l
    BY <1>0, <1>1
  <2>4. \A i \in 1 .. l : 1 + i - 1 = i
    BY <1>0
  <2> HIDE DEF q
  <2> QED
    BY Zenon, <2>2, <2>3, <2>4
<1>9. \A i \in 1 .. l : f[pos + i] = s[i]
  <2> TAKE i \in 1 .. l
  <2>1. i \in 1 .. Len(s) /\ pos + i \in 1 .. Len(f)
    BY <1>0, <1>1
  <2>2. f[pos + i] = w[pos + i]
    BY <2>1 DEF Begins
  <2> QED
    BY <2>1, <2>2 DEF PartOf
<1> HIDE DEF p, q
<1>10. p = q
  <2>1. \A i \in 1 .. l : p[i] = q[i]
    BY Zenon, <1>7, <1>8, <1>9
  <2>2. Len(p) = Len(q) /\ \A i \in 1 .. Len(p) : p[i] = q[i]
    BY Zenon, <1>7, <1>8, <2>1
  <2> QED
    BY Zenon, <1>7, <1>8, <2>2, SeqEqual
<1>11. Taken(f, pos, n) = q
  BY <1>2, <1>10 DEF p
<1> QED
  BY <1>1, <1>3, <1>4, <1>8, <1>11 DEF q, Files

LEMMA PrefixTaken ==
  ASSUME NEW s \in Files, NEW n \in 0 .. Len(s)
  PROVE  IsPrefix(SubSeq(s, 1, n), s)
<1>1. s \in Seq(Byte) /\ Len(s) \in Nat /\ n \in Nat
  BY DEF Files
<1>2. \A i \in 1 .. n : s[i] \in Byte
  BY <1>1
<1>3. Len(SubSeq(s, 1, n)) = n /\ SubSeq(s, 1, n) \in Seq(Byte)
  BY <1>1, <1>2, SubSeqProperties
<1>4. SubSeq(SubSeq(s, 1, n), 1, n) = SubSeq(s, 1, n)
  BY <1>3, SubSeqFull
<1> QED
  BY <1>1, <1>3, <1>4 DEF IsPrefix

-----------------------------------------------------------------------------
(* Reading the functions.                                                  *)

\* A function as the machine sees it.
Cut(name)   == SubSeq(name, 1, IF Len(name) < NameRoom - 1 THEN Len(name) ELSE NameRoom - 1)
LFunc       == [name : Files, nparams : Nat, nlocals : Nat, code : Files]
Coded(f, c) == [name |-> Cut(f.name), nparams |-> f.nparams, nlocals |-> f.nlocals, code |-> c]

LEMMA CodedFields ==
  ASSUME NEW f, IsFunc(f), NEW c \in Files
  PROVE  Coded(f, c) \in LFunc
<1>1. /\ f.name \in Seq(Byte) /\ Len(f.name) \in Nat
      /\ f.nparams \in Nat /\ f.nlocals \in Nat
  BY FuncFields DEF Files
<1> DEFINE l == IF Len(f.name) < NameRoom - 1 THEN Len(f.name) ELSE NameRoom - 1
<1>2. l \in 0 .. Len(f.name)
  BY <1>1, BytecodeAssumption
<1>3. Cut(f.name) = SubSeq(f.name, 1, l)
  BY DEF Cut
<1> HIDE DEF l
<1>4. \A i \in 1 .. l : f.name[i] \in Byte
  BY <1>1, <1>2
<1>5. Cut(f.name) \in Files
  BY <1>2, <1>3, <1>4, SubSeqProperties DEF Files
<1> QED
  BY <1>1, <1>5 DEF Coded, LFunc

\* The room a function takes in the file.
Size(f) == 10 + Len(f.name) + Len(f.code)

LEMMA FuncRead ==
  ASSUME NEW w \in Files, NEW bytes, Begins(bytes, w), NEW pos \in Nat, NEW f, IsFunc(f),
         HoldsFunc(w, pos, f)
  PROVE  IF pos + 10 + Len(f.name) <= Len(bytes)
         THEN /\ Taken(bytes, pos + 10 + Len(f.name), Len(f.code)) \in Files
              /\ ReadFunc(bytes, pos) =
                   [loaded |-> TRUE, next |-> pos + Size(f),
                    func   |-> Coded(f, Taken(bytes, pos + 10 + Len(f.name), Len(f.code))),
                    whole  |-> pos + Size(f) <= Len(bytes)]
         ELSE ReadFunc(bytes, pos) = Died
<1> DEFINE n == Len(f.name)
           k == Len(f.code)
           end == Len(bytes)
           nlen == Unsigned(bytes, pos, 2)
           rest == pos + 2 + nlen
           clen == Unsigned(bytes, rest + 4, 4)
<1>1. /\ f.name \in Files /\ f.code \in Files /\ n \in Nat /\ k \in Nat /\ end \in Nat
      /\ f.nparams \in Nat /\ f.nlocals \in Nat
  BY FuncFields DEF Begins, Files
<1>2. /\ PartOf(w, pos, Put(n, 2)) /\ PartOf(w, pos + 2, f.name)
      /\ PartOf(w, pos + 2 + n, Put(f.nparams, 2)) /\ PartOf(w, pos + 2 + n + 2, Put(f.nlocals, 2))
      /\ PartOf(w, pos + 2 + n + 4, Put(k, 4)) /\ PartOf(w, pos + 2 + n + 8, f.code)
  BY Zenon DEF HoldsFunc
<1>3. n \in Word /\ f.nparams \in Word /\ f.nlocals \in Word /\ k <= IntMax
  BY DEF IsFunc
<1>4. \A x \in Word : x \in Nat /\ x <= IntMax
  BY SMT DEF Word, WordSize, IntMax
<1>5. ReadFunc(bytes, pos) =
        IF ~ InFile(bytes, pos, 2) \/ ~ InFile(bytes, rest, 8) THEN Died
        ELSE [loaded |-> TRUE, next |-> rest + 8 + clen,
              func |-> [name    |-> ReadName(bytes, pos + 2, nlen),
                        nparams |-> Unsigned(bytes, rest, 2),
                        nlocals |-> Unsigned(bytes, rest + 2, 2),
                        code    |-> Taken(bytes, rest + 8, clen)],
              whole |-> rest + 8 + clen <= Len(bytes)]
  BY Zenon DEF ReadFunc
<1>6. InFile(bytes, pos, 2) => nlen = n
  <2>1. 2 = 1 => n \in Byte
    OBVIOUS
  <2>2. n <= IntMax
    BY <1>3, <1>4
  <2> HIDE DEF n
  <2> QED
    BY <1>1, <1>2, <1>3, <2>1, <2>2, NumberAt
<1> HIDE DEF n, k
<1>7. CASE ~ (pos + 10 + n <= end)
  <2>1. ~ InFile(bytes, pos, 2) \/ ~ InFile(bytes, rest, 8)
    BY <1>1, <1>6, <1>7 DEF InFile
  <2>2. ReadFunc(bytes, pos) = Died
    BY Zenon, <1>5, <2>1
  <2> QED
    BY Zenon, <1>7, <2>2 DEF n
<1>8. CASE pos + 10 + n <= end
  <2>1. InFile(bytes, pos, 2) /\ nlen = n
    BY <1>1, <1>6, <1>8 DEF InFile
  <2> DEFINE r == pos + 2 + n
  <2>2. rest = r
    BY Zenon, <2>1
  <2>3. /\ r \in Nat /\ r + 2 \in Nat /\ r + 4 \in Nat /\ r + 8 \in Nat
        /\ r + 8 = pos + 10 + n /\ r + 8 <= end
    BY <1>1, <1>8
  <2>4. InFile(bytes, r, 8) /\ InFile(bytes, r, 2) /\ InFile(bytes, r + 2, 2) /\ InFile(bytes, r + 4, 4)
    BY <1>1, <2>3 DEF InFile
  <2>5. Unsigned(bytes, r, 2) = f.nparams
    <3>1. /\ 2 \in {1, 2, 4} /\ ~ (2 = 1)
          /\ f.nparams \in Nat /\ f.nparams \in Word /\ f.nparams <= IntMax
      BY <1>3, <1>4
    <3>2. PartOf(w, r, Put(f.nparams, 2))
      BY Zenon, <1>2
    <3>3. w \in Files /\ Begins(bytes, w) /\ r \in Nat /\ InFile(bytes, r, 2)
      BY Zenon, <1>3, <2>3, <2>4
    <3> HIDE DEF r
    <3> QED
      BY Zenon, <3>1, <3>2, <3>3, NumberAt
  <2>6. Unsigned(bytes, r + 2, 2) = f.nlocals
    <3>1. /\ 2 \in {1, 2, 4} /\ ~ (2 = 1)
          /\ f.nlocals \in Nat /\ f.nlocals \in Word /\ f.nlocals <= IntMax
      BY <1>3, <1>4
    <3>2. PartOf(w, r + 2, Put(f.nlocals, 2))
      BY Zenon, <1>2
    <3>3. w \in Files /\ Begins(bytes, w) /\ r + 2 \in Nat /\ InFile(bytes, r + 2, 2)
      BY Zenon, <1>3, <2>3, <2>4
    <3> HIDE DEF r
    <3> QED
      BY Zenon, <3>1, <3>2, <3>3, NumberAt
  <2>7. Unsigned(bytes, r + 4, 4) = k
    <3>1. 4 \in {1, 2, 4} /\ ~ (4 = 1) /\ ~ (4 = 2) /\ k \in Nat /\ k <= IntMax
      BY <1>1, <1>3
    <3>2. PartOf(w, r + 4, Put(k, 4))
      BY Zenon, <1>2
    <3>3. w \in Files /\ Begins(bytes, w) /\ r + 4 \in Nat /\ InFile(bytes, r + 4, 4)
      BY Zenon, <1>3, <2>3, <2>4
    <3> HIDE DEF r
    <3> QED
      BY Zenon, <3>1, <3>2, <3>3, NumberAt
  <2>8. clen = k
    BY Zenon, <2>2, <2>7
  <2>9. ReadName(bytes, pos + 2, nlen) = Cut(f.name)
    <3> DEFINE l == IF n < NameRoom - 1 THEN n ELSE NameRoom - 1
    <3>1. l \in 0 .. n /\ pos + 2 + l <= end /\ pos + 2 \in Nat /\ pos + 2 <= end
      BY <1>1, <1>8, BytecodeAssumption
    <3>2. ReadName(bytes, pos + 2, nlen) = Taken(bytes, pos + 2, l)
      BY Zenon, <2>1 DEF ReadName
    <3>3. Cut(f.name) = SubSeq(f.name, 1, l)
      BY Zenon DEF Cut, n
    <3> HIDE DEF l
    <3>4. l \in 0 .. Len(f.name)
      BY Zenon, <3>1 DEF n
    <3>5. Taken(bytes, pos + 2, l) = SubSeq(f.name, 1, l)
      <4>1. f.name \in Files /\ PartOf(w, pos + 2, f.name) /\ pos + 2 <= Len(bytes)
        BY Zenon, <1>1, <1>2, <3>1
      <4>2. pos + 2 + l <= Len(bytes) => Taken(bytes, pos + 2, l) = SubSeq(f.name, 1, l)
        BY <3>1, <3>4, <4>1, TakenBytes
      <4> QED
        BY Zenon, <3>1, <4>2
    <3> QED
      BY Zenon, <3>2, <3>3, <3>5
  <2>10. Taken(bytes, r + 8, k) \in Files
    <3>1. k \in 0 .. Len(f.code)
      BY <1>1 DEF k
    <3> QED
      BY <1>1, <1>2, <2>3, <3>1, TakenBytes
  <2>11. r + 8 + k = pos + Size(f)
    <3>1. Size(f) = 10 + n + k
      BY Zenon DEF Size, n, k
    <3>2. r + 8 + k = pos + (10 + n + k)
      <4> HIDE DEF r
      <4> QED
        BY <1>1, <2>3
    <3> QED
      BY Zenon, <3>1, <3>2
  <2> HIDE DEF r, nlen, rest, clen
  <2>12. ReadFunc(bytes, pos) =
           [loaded |-> TRUE, next |-> r + 8 + k,
            func |-> [name    |-> Cut(f.name),
                      nparams |-> f.nparams,
                      nlocals |-> f.nlocals,
                      code    |-> Taken(bytes, r + 8, k)],
            whole |-> r + 8 + k <= Len(bytes)]
    BY Zenon, <1>5, <2>1, <2>2, <2>4, <2>5, <2>6, <2>8, <2>9
  <2> QED
    BY Zenon, <1>8, <2>3, <2>10, <2>11, <2>12 DEF Coded, n, k
<1> QED
  BY Zenon, <1>7, <1>8

\* What ReadFuncs has read after i functions.
SoFar(bytes, pos, n, g) ==
  g = [i \in 0 .. n |->
         IF i = 0
         THEN [loaded |-> TRUE, next |-> pos, funcs |-> << >>, whole |-> TRUE]
         ELSE IF ~ g[i - 1].loaded THEN Died
         ELSE IF ~ ReadFunc(bytes, g[i - 1].next).loaded THEN Died
         ELSE [loaded |-> TRUE, next |-> ReadFunc(bytes, g[i - 1].next).next,
               whole  |-> ReadFunc(bytes, g[i - 1].next).whole,
               funcs  |-> Append(g[i - 1].funcs, ReadFunc(bytes, g[i - 1].next).func)]]

\* One more function.
After(bytes, r) ==
  IF ~ r.loaded THEN Died
  ELSE IF ~ ReadFunc(bytes, r.next).loaded THEN Died
  ELSE [loaded |-> TRUE, next |-> ReadFunc(bytes, r.next).next,
        whole  |-> ReadFunc(bytes, r.next).whole,
        funcs  |-> Append(r.funcs, ReadFunc(bytes, r.next).func)]

Before(pos) == [loaded |-> TRUE, next |-> pos, funcs |-> << >>, whole |-> TRUE]

LEMMA SoFarSteps ==
  ASSUME NEW bytes, NEW pos, NEW n \in Nat, NEW g
  PROVE  SoFar(bytes, pos, n, g) <=>
           g = [i \in 0 .. n |-> IF i = 0 THEN Before(pos) ELSE After(bytes, g[i - 1])]
BY Zenon DEF SoFar, Before, After

LEMMA SoFarExists ==
  ASSUME NEW bytes, NEW pos, NEW n \in Nat
  PROVE  \E g : SoFar(bytes, pos, n, g)
<1> DEFINE T == {k \in 0 .. n : \E g : g = [i \in 0 .. k |-> IF i = 0 THEN Before(pos) ELSE After(bytes, g[i - 1])]}
<1>1. 0 \in T
  <2> DEFINE g == [i \in 0 .. 0 |-> Before(pos)]
  <2>1. g = [i \in 0 .. 0 |-> IF i = 0 THEN Before(pos) ELSE After(bytes, g[i - 1])]
    OBVIOUS
  <2> HIDE DEF g
  <2> QED
    BY <2>1
<1>2. ASSUME NEW k \in 0 .. n - 1, k \in T PROVE k + 1 \in T
  <2>1. PICK f : f = [i \in 0 .. k |-> IF i = 0 THEN Before(pos) ELSE After(bytes, f[i - 1])]
    BY <1>2
  <2>2. \A i \in 0 .. k : f[i] = IF i = 0 THEN Before(pos) ELSE After(bytes, f[i - 1])
    BY <2>1
  <2> DEFINE g == [i \in 0 .. k + 1 |-> IF i = k + 1 THEN After(bytes, f[k]) ELSE f[i]]
  <2>3. \A i \in 0 .. k : g[i] = f[i]
    OBVIOUS
  <2>4. g[k + 1] = After(bytes, f[k])
    OBVIOUS
  <2>5. \A i \in 0 .. k + 1 : g[i] = IF i = 0 THEN Before(pos) ELSE After(bytes, g[i - 1])
    <3> TAKE i \in 0 .. k + 1
    <3> HIDE DEF g
    <3>1. CASE i = k + 1
      <4>1. i # 0 /\ i - 1 = k /\ k \in 0 .. k
        BY <3>1
      <4> QED
        BY Zenon, <2>3, <2>4, <3>1, <4>1
    <3>2. CASE i # k + 1
      <4>1. i \in 0 .. k /\ (i # 0 => i - 1 \in 0 .. k)
        BY <3>2
      <4> QED
        BY Zenon, <2>2, <2>3, <4>1
    <3> QED
      BY <3>1, <3>2
  <2>6. g = [i \in 0 .. k + 1 |-> IF i = 0 THEN Before(pos) ELSE After(bytes, g[i - 1])]
    BY <2>5
  <2>7. k + 1 \in 0 .. n
    OBVIOUS
  <2> HIDE DEF g
  <2> QED
    BY <2>6, <2>7
<1>3. \A k \in 0 .. n : k \in T
  <2> HIDE DEF T
  <2> QED
    BY <1>1, <1>2, StepByStep
<1>4. PICK g : g = [i \in 0 .. n |-> IF i = 0 THEN Before(pos) ELSE After(bytes, g[i - 1])]
  BY <1>3
<1> QED
  BY <1>4, SoFarSteps

\* g[i] is what has been read after i functions, from pos on.
Reads(bytes, pos, n, g) ==
  /\ ReadFuncs(bytes, pos, n) = g[n]
  /\ g[0] = Before(pos)
  /\ \A i \in 1 .. n : g[i] = After(bytes, g[i - 1])

LEMMA ReadsFuncs ==
  ASSUME NEW bytes, NEW pos, NEW n \in Nat
  PROVE  \E g : Reads(bytes, pos, n, g)
<1> DEFINE g == CHOOSE g : SoFar(bytes, pos, n, g)
<1>1. SoFar(bytes, pos, n, g)
  BY SoFarExists
<1>2. ReadFuncs(bytes, pos, n) = g[n]
  BY DEF ReadFuncs, SoFar
<1> HIDE DEF g
<1>3. g = [i \in 0 .. n |-> IF i = 0 THEN Before(pos) ELSE After(bytes, g[i - 1])]
  BY <1>1, SoFarSteps
<1>4. \A i \in 0 .. n : g[i] = IF i = 0 THEN Before(pos) ELSE After(bytes, g[i - 1])
  BY <1>3
<1>5. 0 \in 0 .. n /\ \A i \in 1 .. n : i \in 0 .. n /\ i # 0
  OBVIOUS
<1>6. g[0] = Before(pos) /\ \A i \in 1 .. n : g[i] = After(bytes, g[i - 1])
  BY Zenon, <1>4, <1>5
<1> QED
  BY Zenon, <1>2, <1>6 DEF Reads

Func(m, i) == Coded(m.funcs[i], m.funcs[i].code)

\* What has been read is m's first i functions, the code of the last one cut off or not.
FirstFuncs(bytes, m, i, r) ==
  /\ r.funcs \in Seq(LFunc) /\ Len(r.funcs) = i
  /\ \A j \in 1 .. i : j < i \/ r.whole => r.funcs[j] = Func(m, j)
  /\ i > 0 => \E c \in Files : IsPrefix(c, m.funcs[i].code) /\ r.funcs[i] = Coded(m.funcs[i], c)

ReadRight(bytes, m, off, i, r) ==
  /\ r.loaded = TRUE
  /\ r.next = FuncsAt(m) + 8 + off[i + 1]
  /\ r.whole = (r.next <= Len(bytes))
  /\ FirstFuncs(bytes, m, i, r)

LEMMA AfterReadsRight ==
  ASSUME NEW m, IsModule(m), NEW off, Offsets(m, off), NEW w, Layout(w, m, off),
         NEW bytes, Begins(bytes, w), NEW i \in 1 .. Len(m.funcs), NEW r,
         ReadRight(bytes, m, off, i - 1, r)
  PROVE  LET s == After(bytes, r)
         IN  /\ s = Died \/ ReadRight(bytes, m, off, i, s)
             /\ Len(bytes) = Len(w) => s # Died
<1> DEFINE f == m.funcs[i]
           pos == FuncsAt(m) + 8 + off[i]
           n == Len(f.name)
           k == Len(f.code)
           end == Len(bytes)
           s == After(bytes, r)
           code == Taken(bytes, pos + 10 + n, k)
<1>1. IsFunc(f) /\ Len(m.funcs) \in Nat /\ Len(m.consts) \in Nat
  BY ModuleFields
<1>2. n \in Nat /\ k \in Nat /\ f.code \in Files
  BY <1>1, FuncFields
<1>3. w \in Files /\ end \in Nat /\ end <= Len(w) /\ Len(w) \in Nat
  BY DEF Layout, Begins, Files
<1>4. /\ off[i] \in Nat /\ off[i + 1] = off[i] + (10 + n + k) /\ off[i + 1] \in Nat
  <2>1. i \in 1 .. Len(m.funcs) + 1 /\ i + 1 \in 1 .. Len(m.funcs) + 1
    BY <1>1
  <2> QED
    BY Zenon, <2>1 DEF Offsets
<1>5. FuncsAt(m) \in Nat /\ pos \in Nat
  BY <1>1, <1>4 DEF FuncsAt
<1>6. PartOf(w, pos, PutFunc(f))
  BY Zenon DEF Layout
<1>7. r.loaded = TRUE /\ r.next = pos /\ r.whole = (pos <= end) /\ FirstFuncs(bytes, m, i - 1, r)
  <2>1. (i - 1) + 1 = i
    BY <1>1
  <2> QED
    BY Zenon, <2>1 DEF ReadRight
<1>8. Sized(PutFunc(f), 10 + n + k) /\ HoldsFunc(PutFunc(f), 0, f)
  BY Zenon, <1>1, FuncBytes
<1>9. pos + 10 + n + k <= Len(w)
  <2>1. Len(PutFunc(f)) = 10 + n + k /\ pos + Len(PutFunc(f)) <= Len(w)
    BY Zenon, <1>6, <1>8 DEF PartOf, Sized
  <2>2. pos + (10 + n + k) <= Len(w)
    BY Zenon, <2>1
  <2> HIDE DEF f, pos, n, k
  <2> QED
    BY <1>2, <1>3, <1>5, <2>2
<1> HIDE DEF f, pos, n, k, end
<1>10. HoldsFunc(w, pos, f)
  <2> DEFINE p == PutFunc(f)
             a1 == Put(Len(f.name), 2)
             a3 == Put(f.nparams, 2)
             a4 == Put(f.nlocals, 2)
             a5 == Put(Len(f.code), 4)
  <2>1. /\ PartOf(p, 0, a1) /\ PartOf(p, 2, f.name) /\ PartOf(p, 2 + n, a3)
        /\ PartOf(p, 2 + n + 2, a4) /\ PartOf(p, 2 + n + 4, a5) /\ PartOf(p, 2 + n + 8, f.code)
    <3>1. 0 + 2 = 2
      OBVIOUS
    <3> QED
      BY Zenon, <1>8, <3>1 DEF HoldsFunc, n
  <2>2. p \in Files /\ a1 \in Files /\ a3 \in Files /\ a4 \in Files /\ a5 \in Files /\ f.name \in Files
    <3>1. /\ Len(f.name) \in Int /\ f.nparams \in Int /\ f.nlocals \in Int /\ Len(f.code) \in Int
          /\ f.name \in Files
      BY <1>1, FuncFields
    <3>2. 2 \in Nat /\ 4 \in Nat
      OBVIOUS
    <3> QED
      BY Zenon, <1>8, <3>1, <3>2, PutFiles DEF Sized
  <2> HIDE DEF p, a1, a3, a4, a5
  <2>3. /\ 0 \in Nat /\ 2 \in Nat /\ 2 + n \in Nat /\ 2 + n + 2 \in Nat /\ 2 + n + 4 \in Nat /\ 2 + n + 8 \in Nat
        /\ pos + 0 = pos /\ pos + (2 + n) = pos + 2 + n /\ pos + (2 + n + 2) = pos + 2 + n + 2
        /\ pos + (2 + n + 4) = pos + 2 + n + 4 /\ pos + (2 + n + 8) = pos + 2 + n + 8
    BY <1>2, <1>5
  <2>4. PartOf(w, pos, p)
    BY Zenon, <1>6 DEF p
  <2>5. PartOf(w, pos + 0, a1)
    BY Zenon, <1>3, <1>5, <2>1, <2>2, <2>3, <2>4, PartOfPart
  <2>6. PartOf(w, pos + 2, f.name)
    BY Zenon, <1>3, <1>5, <2>1, <2>2, <2>3, <2>4, PartOfPart
  <2>7. PartOf(w, pos + (2 + n), a3)
    BY Zenon, <1>3, <1>5, <2>1, <2>2, <2>3, <2>4, PartOfPart
  <2>8. PartOf(w, pos + (2 + n + 2), a4)
    BY Zenon, <1>3, <1>5, <2>1, <2>2, <2>3, <2>4, PartOfPart
  <2>9. PartOf(w, pos + (2 + n + 4), a5)
    BY Zenon, <1>3, <1>5, <2>1, <2>2, <2>3, <2>4, PartOfPart
  <2>10. PartOf(w, pos + (2 + n + 8), f.code)
    BY Zenon, <1>2, <1>3, <1>5, <2>1, <2>2, <2>3, <2>4, PartOfPart
  <2> QED
    BY Zenon, <2>3, <2>5, <2>6, <2>7, <2>8, <2>9, <2>10 DEF HoldsFunc, a1, a3, a4, a5, n
<1>11. IF pos + 10 + n <= end
       THEN /\ code \in Files
            /\ ReadFunc(bytes, pos) =
                 [loaded |-> TRUE, next |-> pos + Size(f), func |-> Coded(f, code),
                  whole  |-> pos + Size(f) <= end]
       ELSE ReadFunc(bytes, pos) = Died
  BY Zenon, <1>1, <1>3, <1>5, <1>10, FuncRead DEF n, k, end
<1>12. s = IF ~ ReadFunc(bytes, pos).loaded THEN Died
           ELSE [loaded |-> TRUE, next |-> ReadFunc(bytes, pos).next,
                 whole  |-> ReadFunc(bytes, pos).whole,
                 funcs  |-> Append(r.funcs, ReadFunc(bytes, pos).func)]
  BY Zenon, <1>7 DEF After
<1>13. CASE ~ (pos + 10 + n <= end)
  <2>1. s = Died
    <3>1. ReadFunc(bytes, pos).loaded = FALSE
      BY <1>11, <1>13 DEF Died
    <3> HIDE DEF s
    <3> QED
      BY Zenon, <1>12, <3>1
  <2>2. Len(bytes) # Len(w)
    BY <1>2, <1>3, <1>5, <1>9, <1>13 DEF end
  <2> QED
    BY <2>1, <2>2
<1>14. CASE pos + 10 + n <= end
  <2>1. /\ code \in Files
        /\ ReadFunc(bytes, pos) =
             [loaded |-> TRUE, next |-> pos + Size(f), func |-> Coded(f, code),
              whole  |-> pos + Size(f) <= end]
    BY Zenon, <1>11, <1>14
  <2> DEFINE rf == ReadFunc(bytes, pos)
  <2>2. rf.loaded = TRUE /\ rf.next = pos + Size(f) /\ rf.func = Coded(f, code) /\ rf.whole = (pos + Size(f) <= end)
    <3> HIDE DEF code
    <3> QED
      BY <2>1
  <2> HIDE DEF rf, code
  <2>3. s = [loaded |-> TRUE, next |-> pos + Size(f), whole |-> (pos + Size(f) <= end),
             funcs |-> Append(r.funcs, Coded(f, code))]
    BY Zenon, <1>12, <2>2 DEF rf
  <2> HIDE DEF s
  <2>4. Size(f) = 10 + n + k
    BY Zenon DEF Size, n, k
  <2>5. r.whole
    <3>1. pos <= end
      BY <1>2, <1>3, <1>5, <1>14
    <3>2. r.whole = (pos <= end)
      BY Zenon, <1>7
    <3> QED
      BY Zenon, <3>1, <3>2
  <2>6. Coded(f, code) \in LFunc
    BY <1>1, <2>1, CodedFields
  <2>7. r.funcs \in Seq(LFunc) /\ Len(r.funcs) = i - 1 /\ \A j \in 1 .. i - 1 : r.funcs[j] = Func(m, j)
    BY Zenon, <1>7, <2>5 DEF FirstFuncs
  <2>8. /\ s.funcs \in Seq(LFunc) /\ Len(s.funcs) = i /\ s.funcs[i] = Coded(f, code)
        /\ \A j \in 1 .. i - 1 : s.funcs[j] = Func(m, j)
    <3>1. s.funcs = Append(r.funcs, Coded(f, code))
      BY <2>3
    <3> QED
      BY <2>6, <2>7, <3>1
  <2>9. PartOf(w, pos + 10 + n, f.code)
    <3>1. pos + 2 + n + 8 = pos + 10 + n
      BY <1>2, <1>5
    <3> QED
      BY Zenon, <1>10, <3>1 DEF HoldsFunc, n
  <2>10. /\ pos + 10 + n + k <= end => code = SubSeq(f.code, 1, k)
         /\ ~ (pos + 10 + n + k <= end) =>
              code = SubSeq(f.code, 1, end - (pos + 10 + n)) /\ end - (pos + 10 + n) \in 0 .. k
    <3> DEFINE q == pos + 10 + n
    <3>1. k \in 0 .. Len(f.code) /\ q \in Nat
      BY <1>2, <1>5 DEF k
    <3>2. q <= Len(bytes) /\ PartOf(w, q, f.code) /\ code = Taken(bytes, q, k)
      BY Zenon, <1>14, <2>9 DEF end, code
    <3> HIDE DEF q
    <3>3. /\ q + k <= Len(bytes) => code = SubSeq(f.code, 1, k)
          /\ ~ (q + k <= Len(bytes)) => code = SubSeq(f.code, 1, Len(bytes) - q) /\ Len(bytes) - q \in 0 .. k
      BY <1>2, <1>3, <3>1, <3>2, TakenBytes
    <3> QED
      BY Zenon, <3>3 DEF end, q
  <2>12. IsPrefix(code, f.code)
    <3>1. \E l \in 0 .. Len(f.code) : code = SubSeq(f.code, 1, l)
      <4>1. k \in 0 .. Len(f.code) /\ 0 .. k = 0 .. Len(f.code)
        BY <1>2 DEF k
      <4> QED
        BY Zenon, <2>10, <4>1
    <3> QED
      BY Zenon, <1>2, <3>1, PrefixTaken
  <2>13. pos + Size(f) <= end => code = f.code
    <3>1. SubSeq(f.code, 1, Len(f.code)) = f.code
      BY <1>2, SubSeqFull DEF Files
    <3>2. pos + (10 + n + k) = pos + 10 + n + k
      BY <1>2, <1>5
    <3> QED
      BY Zenon, <2>4, <2>10, <3>1, <3>2 DEF k
  <2>14. \A j \in 1 .. i : j < i \/ s.whole => s.funcs[j] = Func(m, j)
    <3> TAKE j \in 1 .. i
    <3>1. CASE j = i
      <4>1. s.whole = (pos + Size(f) <= end)
        BY <2>3
      <4>2. ~ (j < i)
        BY <3>1
      <4>3. s.whole => s.funcs[i] = Coded(f, f.code)
        BY Zenon, <2>8, <2>13, <4>1
      <4> QED
        BY Zenon, <3>1, <4>2, <4>3 DEF Func, f
    <3>2. CASE j # i
      <4>1. j \in 1 .. i - 1
        BY <3>2
      <4> QED
        BY Zenon, <2>8, <4>1
    <3> QED
      BY <3>1, <3>2
  <2>15. FirstFuncs(bytes, m, i, s)
    BY Zenon, <2>1, <2>8, <2>12, <2>14 DEF FirstFuncs, f
  <2>16. s.loaded = TRUE /\ s.next = pos + Size(f) /\ s.whole = (s.next <= end)
    BY <2>3
  <2>17. pos + Size(f) = FuncsAt(m) + 8 + off[i + 1]
    <3>1. pos + (10 + n + k) = FuncsAt(m) + 8 + (off[i] + (10 + n + k))
      BY <1>2, <1>4, <1>5 DEF pos
    <3> QED
      BY Zenon, <1>4, <2>4, <3>1
  <2>18. ReadRight(bytes, m, off, i, s)
    BY Zenon, <2>15, <2>16, <2>17 DEF ReadRight, end
  <2>19. s # Died
    <3>1. s.loaded # Died.loaded
      BY <2>16 DEF Died
    <3> QED
      BY Zenon, <3>1
  <2> QED
    BY Zenon, <2>18, <2>19 DEF s
<1> QED
  BY <1>13, <1>14
LEMMA AllFuncsRead ==
  ASSUME NEW m, IsModule(m), NEW off, Offsets(m, off), NEW w, Layout(w, m, off),
         NEW bytes, Begins(bytes, w), FuncsAt(m) + 8 <= Len(bytes)
  PROVE  LET r == ReadFuncs(bytes, FuncsAt(m) + 8, Len(m.funcs))
         IN  /\ r = Died \/ ReadRight(bytes, m, off, Len(m.funcs), r)
             /\ Len(bytes) = Len(w) => r # Died
<1> DEFINE n == Len(m.funcs)
           pos == FuncsAt(m) + 8
<1>1. n \in Nat
  BY ModuleFields
<1>a. PICK g : Reads(bytes, pos, n, g)
  BY <1>1, ReadsFuncs
<1>2. /\ ReadFuncs(bytes, pos, n) = g[n]
      /\ g[0] = Before(pos)
      /\ \A i \in 1 .. n : g[i] = After(bytes, g[i - 1])
  BY Zenon, <1>a DEF Reads
<1> DEFINE Good(i) == /\ g[i] = Died \/ ReadRight(bytes, m, off, i, g[i])
                      /\ Len(bytes) = Len(w) => g[i] # Died
           T == {i \in 0 .. n : Good(i)}
<1>3. 0 \in T
  <2>1. off[0 + 1] = 0 /\ off[1] = 0
    BY DEF Offsets
  <2>2. FuncsAt(m) \in Nat
    BY ModuleFields DEF FuncsAt
  <2> DEFINE b == Before(pos)
  <2>3. /\ b.loaded = TRUE /\ b.next = pos /\ b.whole = TRUE /\ b.funcs = << >>
    BY DEF Before
  <2> HIDE DEF b
  <2>4. b.next = FuncsAt(m) + 8 + off[0 + 1]
    <3>1. FuncsAt(m) + 8 + 0 = pos
      BY <2>2
    <3> QED
      BY Zenon, <2>1, <2>3, <3>1
  <2>5. b.whole = (b.next <= Len(bytes))
    <3>1. (b.next <= Len(bytes)) = TRUE
      BY <2>3
    <3> QED
      BY Zenon, <2>3, <3>1
  <2>6. FirstFuncs(bytes, m, 0, b)
    BY <2>3 DEF FirstFuncs
  <2>7. ReadRight(bytes, m, off, 0, b)
    BY Zenon, <2>3, <2>4, <2>5, <2>6 DEF ReadRight
  <2>8. b # Died
    <3>1. Died.loaded = FALSE
      BY DEF Died
    <3> QED
      BY Zenon, <2>3, <3>1
  <2>9. Good(0)
    BY Zenon, <1>2, <2>7, <2>8 DEF b
  <2>10. 0 \in 0 .. n
    BY <1>1
  <2> QED
    BY Zenon, <2>9, <2>10
<1>4. ASSUME NEW k \in 0 .. n - 1, k \in T PROVE k + 1 \in T
  <2> DEFINE i == k + 1
  <2>1. i \in 1 .. n /\ i \in 0 .. n /\ i - 1 = k
    BY <1>1
  <2>2. g[i] = After(bytes, g[k])
    <3> HIDE DEF i
    <3> QED
      BY Zenon, <1>2, <2>1
  <2>3. Good(k)
    BY <1>4
  <2> HIDE DEF i
  <2>4. CASE g[k] = Died
    <3>1. ~ Died.loaded
      BY DEF Died
    <3>2. g[i] = Died
      BY Zenon, <2>2, <2>4, <3>1 DEF After
    <3>3. Good(i)
      BY Zenon, <2>3, <2>4, <3>2
    <3> QED
      BY Zenon, <2>1, <3>3 DEF i
  <2>5. CASE ReadRight(bytes, m, off, k, g[k])
    <3>1. ReadRight(bytes, m, off, i - 1, g[k])
      BY Zenon, <2>1, <2>5
    <3>2. i \in 1 .. Len(m.funcs)
      BY <2>1
    <3>3. Good(i)
      BY Zenon, <2>2, <3>1, <3>2, AfterReadsRight
    <3> QED
      BY Zenon, <2>1, <3>3 DEF i
  <2> QED
    BY Zenon, <2>3, <2>4, <2>5
<1>5. \A i \in 0 .. n : i \in T
  <2> HIDE DEF T, n
  <2> QED
    BY <1>1, <1>3, <1>4, StepByStep
<1>6. n \in 0 .. n
  BY <1>1
<1>7. Good(n)
  BY Zenon, <1>5, <1>6
<1> QED
  BY Zenon, <1>2, <1>7

-----------------------------------------------------------------------------
(* Loading.                                                                *)

\* The functions are m's, the code of the last one as far as it is there.
FuncsRight(m, whole, fs) ==
  /\ fs \in Seq(LFunc) /\ Len(fs) = Len(m.funcs)
  /\ \A j \in 1 .. Len(m.funcs) : j < Len(m.funcs) \/ whole => fs[j] = Func(m, j)
  /\ Len(m.funcs) > 0 =>
       \E c \in Files : /\ IsPrefix(c, m.funcs[Len(m.funcs)].code)
                        /\ fs[Len(m.funcs)] = Coded(m.funcs[Len(m.funcs)], c)

\* What load_prog makes of a file that begins as m's does.
LoadRight(bytes, m, r) ==
  /\ r.loaded = TRUE
  /\ r.whole = (Len(emit_module(m)) <= Len(bytes))
  /\ \E fs : /\ FuncsRight(m, r.whole, fs)
                /\ r.prog = [consts |-> m.consts, entry |-> Entry(m), funcs |-> fs]
  /\ r.whole \/ m.funcs # << >>

LEMMA ConstsRead ==
  ASSUME NEW m, IsModule(m), NEW off, Offsets(m, off), NEW w, Layout(w, m, off),
         NEW bytes, Begins(bytes, w), FuncsAt(m) <= Len(bytes)
  PROVE  [i \in 1 .. Len(m.consts) |-> ReadConst(bytes, i)] = m.consts
<1> DEFINE n == Len(m.consts)
<1>1. n \in Nat /\ \A i \in 1 .. n : IsConst(m.consts[i])
  BY ModuleFields
<1>2. w \in Files /\ Len(w) \in Nat /\ Len(bytes) \in Nat
  BY DEF Layout, Begins, Files
<1>3. ASSUME NEW i \in 1 .. n PROVE ReadConst(bytes, i) = m.consts[i]
  <2> DEFINE c == m.consts[i]
             pos == ConstAt(bytes, i)
             p == PutConst(c)
             a == Put(c.tag, 1)
             b == Put(c.value, 8)
  <2>1. IsConst(c)
    BY <1>1
  <2>2. pos \in Nat /\ pos + 16 <= FuncsAt(m) /\ pos + 8 \in Nat
    BY <1>1 DEF ConstAt, FuncsAt
  <2>3. PartOf(w, pos, p)
    <3>1. PartOf(w, ConstAt(w, i), p)
      BY DEF Layout
    <3> QED
      BY Zenon, <3>1 DEF ConstAt
  <2>4. Sized(p, 16) /\ PartOf(p, 0, a) /\ PartOf(p, 8, b)
    BY Zenon, <2>1, ConstBytes
  <2>5. c.tag \in Byte /\ c.tag \in Nat /\ c.tag <= IntMax /\ c.value \in Int /\ IsLong(c.value)
    <3>1. c.tag \in Byte /\ c.value \in Int /\ IsLong(c.value)
      BY <2>1 DEF IsConst
    <3>2. \A x \in Byte : x \in Nat /\ x <= IntMax
      BY SMT DEF Byte, IntMax
    <3> QED
      BY Zenon, <3>1, <3>2
  <2>6. a \in Files /\ b \in Files /\ p \in Files
    <3>1. c.tag \in Int /\ c.value \in Int /\ 1 \in Nat /\ 8 \in Nat
      BY <2>5
    <3> QED
      BY Zenon, <2>4, <3>1, PutFiles DEF Sized
  <2> HIDE DEF c, pos, p, a, b
  <2>7. 0 \in Nat /\ 8 \in Nat /\ pos + 0 = pos
    BY <2>2
  <2>8. PartOf(w, pos, a)
    BY Zenon, <1>2, <2>2, <2>3, <2>4, <2>6, <2>7, PartOfPart
  <2>9. PartOf(w, pos + 8, b)
    <3>1. w \in Files /\ pos \in Nat /\ 8 \in Nat /\ PartOf(w, pos, p) /\ PartOf(p, 8, b)
      BY Zenon, <1>2, <2>2, <2>3, <2>4, <2>7
    <3> QED
      BY Zenon, <2>6, <3>1, PartOfPart
  <2>10. InFile(bytes, pos, 1) /\ InFile(bytes, pos + 8, 8)
    BY <1>1, <1>2, <2>2 DEF InFile, FuncsAt
  <2>11. Unsigned(bytes, pos, 1) = c.tag
    <3>1. 1 \in {1, 2, 4} /\ (1 = 1 => c.tag \in Byte) /\ (1 = 2 => c.tag \in Word)
      BY <2>5
    <3> QED
      BY <1>2, <2>2, <2>5, <2>8, <2>10, <3>1, NumberAt DEF a
  <2>12. Signed(bytes, pos + 8, 8) = c.value
    BY <1>2, <2>2, <2>5, <2>9, <2>10, SignedAt DEF b
  <2>13. c = [tag |-> c.tag, value |-> c.value]
    <3>1. c \in [tag : Byte, value : Int]
      BY Zenon, <2>1 DEF IsConst
    <3> QED
      BY <3>1
  <2> QED
    BY Zenon, <2>11, <2>12, <2>13 DEF ReadConst, c, pos
<1>4. m.consts = [i \in 1 .. n |-> m.consts[i]]
  <2>1. m.consts \in Seq([tag : Byte, value : Int])
    BY DEF IsModule
  <2> QED
    BY <2>1
<1> QED
  BY <1>3, <1>4

LEMMA FuncsAreRight ==
  ASSUME NEW m, IsModule(m), NEW off, Offsets(m, off), NEW w, Layout(w, m, off),
         NEW bytes, Begins(bytes, w), FuncsAt(m) + 8 <= Len(bytes),
         NEW r, ReadRight(bytes, m, off, Len(m.funcs), r)
  PROVE  /\ r.whole = (Len(w) <= Len(bytes))
         /\ FuncsRight(m, r.whole, r.funcs)
         /\ r.whole \/ m.funcs # << >>
<1> DEFINE n == Len(m.funcs)
<1>1. n \in Nat
  BY ModuleFields
<1>2. Len(w) = FuncsAt(m) + 8 + off[n + 1]
  BY Zenon DEF Layout
<1>3. r.whole = (Len(w) <= Len(bytes))
  BY Zenon, <1>2 DEF ReadRight
<1>4. FuncsRight(m, r.whole, r.funcs)
  BY Zenon DEF ReadRight, FirstFuncs, FuncsRight
<1>5. ASSUME m.funcs = << >> PROVE r.whole
  <2>1. n = 0
    BY <1>5
  <2>2. off[n + 1] = 0
    <3>1. n + 1 = 1
      BY <2>1
    <3> QED
      BY Zenon, <3>1 DEF Offsets
  <2>3. FuncsAt(m) \in Nat
    BY ModuleFields DEF FuncsAt
  <2> HIDE DEF n
  <2>4. Len(w) <= Len(bytes)
    BY <1>2, <2>2, <2>3
  <2> QED
    BY Zenon, <1>3, <2>4
<1> QED
  BY Zenon, <1>3, <1>4, <1>5

(* What load_prog makes of a file that emit_module has written as far as   *)
(* it goes: nothing, or the module; and of the whole file not nothing.     *)
LEMMA Loads ==
  ASSUME NEW m, IsModule(m), NEW bytes, Begins(bytes, emit_module(m))
  PROVE  /\ load_prog(bytes) = Died \/ LoadRight(bytes, m, load_prog(bytes))
         /\ Len(bytes) = Len(emit_module(m)) => load_prog(bytes) # Died
<1> DEFINE w == emit_module(m)
           end == Len(bytes)
           nc == Len(m.consts)
           nf == Len(m.funcs)
           nconsts == Unsigned(bytes, 4, 4)
           from == 8 + 16 * nconsts
           nfuncs == Unsigned(bytes, from, 4)
           f == ReadFuncs(bytes, from + 8, nfuncs)
           r == load_prog(bytes)
<1>1. PICK off : Offsets(m, off) /\ Layout(w, m, off)
  BY Lays
<1>2. /\ nc \in Nat /\ nc <= IntMax /\ nf \in Nat /\ nf <= IntMax
      /\ Entry(m) \in Nat /\ Entry(m) <= IntMax
  BY Zenon, ModuleFields
<1> HIDE DEF w
<1>3. w \in Files /\ Len(w) \in Nat /\ end \in Nat /\ Begins(bytes, w)
  BY <1>1 DEF Layout, Begins, Files, w
<1> HIDE DEF nc, nf, end
<1>4. FuncsAt(m) = 8 + 16 * nc /\ FuncsAt(m) \in Nat /\ FuncsAt(m) + 4 \in Nat
  BY <1>2 DEF FuncsAt, nc
<1>5. FuncsAt(m) + 8 <= Len(w)
  <2>1. off[nf + 1] \in Nat
    <3>1. nf + 1 \in 1 .. nf + 1
      BY <1>2
    <3> QED
      BY Zenon, <1>1, <3>1 DEF Offsets, nf
  <2>2. Len(w) = FuncsAt(m) + 8 + off[nf + 1]
    BY Zenon, <1>1 DEF Layout, nf
  <2> QED
    BY <1>4, <2>1, <2>2
<1>6. r = IF Taken(bytes, 0, 4) # Magic \/ ~ InFile(bytes, 4, 4) THEN Died
          ELSE IF ~ InFile(bytes, 8, 16 * nconsts) \/ ~ InFile(bytes, from, 8) THEN Died
          ELSE IF ~ f.loaded THEN Died
          ELSE [loaded |-> TRUE, whole |-> f.whole,
                prog |-> [consts |-> [i \in 1 .. nconsts |-> ReadConst(bytes, i)],
                          entry  |-> Unsigned(bytes, from + 4, 4),
                          funcs  |-> f.funcs]]
  BY Zenon DEF load_prog
<1>7. 4 \in {1, 2, 4} /\ 4 \in Nat /\ 0 \in Nat /\ 4 # 1 /\ 4 # 2
  OBVIOUS
<1> HIDE DEF r
<1>8. CASE ~ InFile(bytes, 4, 4)
  <2>1. r = Died
    BY Zenon, <1>6, <1>8
  <2>2. end # Len(w)
    BY <1>3, <1>4, <1>5, <1>8, <1>2 DEF InFile, end
  <2> QED
    BY Zenon, <2>1, <2>2 DEF r, w, end
<1>9. CASE InFile(bytes, 4, 4)
  <2>1. nconsts = nc
    <3>1. PartOf(w, 4, Put(nc, 4))
      BY Zenon, <1>1 DEF Layout, nc
    <3> QED
      BY Zenon, <1>2, <1>3, <1>7, <1>9, <3>1, NumberAt
  <2>2. from = FuncsAt(m)
    BY Zenon, <1>4, <2>1
  <2>3. Taken(bytes, 0, 4) = Magic
    <3>1. Magic \in Files /\ 4 \in 0 .. Len(Magic) /\ SubSeq(Magic, 1, 4) = Magic
      <4>1. Magic \in Files /\ Len(Magic) = 4
        BY DEF Magic, Files, Byte
      <4>2. SubSeq(Magic, 1, Len(Magic)) = Magic
        BY Zenon, <4>1, SubSeqFull DEF Files
      <4>3. 4 \in 0 .. 4
        OBVIOUS
      <4> QED
        BY Zenon, <4>1, <4>2, <4>3
    <3>2. PartOf(w, 0, Magic)
      BY Zenon, <1>1 DEF Layout
    <3>3. 0 <= Len(bytes) /\ 0 + 4 <= Len(bytes)
      BY <1>3, <1>9 DEF InFile, end
    <3>4. Taken(bytes, 0, 4) = SubSeq(Magic, 1, 4)
      <4>1. 0 + 4 <= Len(bytes) => Taken(bytes, 0, 4) = SubSeq(Magic, 1, 4)
        BY <1>3, <1>7, <3>1, <3>2, <3>3, TakenBytes
      <4> QED
        BY Zenon, <3>3, <4>1
    <3> QED
      BY Zenon, <3>1, <3>4
  <2> HIDE DEF nconsts, from, nfuncs, f
  <2>4. CASE ~ (FuncsAt(m) + 8 <= end)
    <3>1. ~ InFile(bytes, from, 8)
      BY <2>2, <2>4 DEF InFile, end
    <3>2. r = Died
      BY Zenon, <1>6, <3>1
    <3>3. end # Len(w)
      BY <1>3, <1>4, <1>5, <2>4
    <3> QED
      BY Zenon, <3>2, <3>3 DEF r, w, end
  <2>5. CASE FuncsAt(m) + 8 <= end
    <3>1. /\ InFile(bytes, 8, 16 * nc) /\ InFile(bytes, FuncsAt(m), 8)
          /\ InFile(bytes, FuncsAt(m), 4) /\ InFile(bytes, FuncsAt(m) + 4, 4)
          /\ FuncsAt(m) <= Len(bytes) /\ FuncsAt(m) + 8 <= Len(bytes)
      BY <1>2, <1>3, <1>4, <2>5 DEF InFile, end
    <3>2. nfuncs = nf
      <4>1. PartOf(w, FuncsAt(m), Put(nf, 4))
        BY Zenon, <1>1 DEF Layout, nf
      <4>2. Unsigned(bytes, FuncsAt(m), 4) = nf
        BY Zenon, <1>2, <1>3, <1>4, <1>7, <3>1, <4>1, NumberAt
      <4> QED
        BY Zenon, <2>2, <4>2 DEF nfuncs
    <3>3. Unsigned(bytes, from + 4, 4) = Entry(m)
      <4>1. PartOf(w, FuncsAt(m) + 4, Put(Entry(m), 4))
        BY Zenon, <1>1 DEF Layout
      <4>2. Unsigned(bytes, FuncsAt(m) + 4, 4) = Entry(m)
        BY Zenon, <1>2, <1>3, <1>4, <1>7, <3>1, <4>1, NumberAt
      <4> QED
        BY Zenon, <2>2, <4>2
    <3>4. [i \in 1 .. nconsts |-> ReadConst(bytes, i)] = m.consts
      <4>1. [i \in 1 .. Len(m.consts) |-> ReadConst(bytes, i)] = m.consts
        BY Zenon, <1>1, <1>3, <3>1, ConstsRead
      <4> QED
        BY Zenon, <2>1, <4>1 DEF nc
    <3>5. /\ f = Died \/ ReadRight(bytes, m, off, nf, f)
          /\ end = Len(w) => f # Died
      <4>1. f = ReadFuncs(bytes, FuncsAt(m) + 8, Len(m.funcs))
        BY Zenon, <2>2, <3>2 DEF f, nf
      <4> QED
        BY Zenon, <1>1, <1>3, <3>1, <4>1, AllFuncsRead DEF nf, end
    <3>6. r = IF ~ f.loaded THEN Died
              ELSE [loaded |-> TRUE, whole |-> f.whole,
                    prog |-> [consts |-> m.consts, entry |-> Entry(m), funcs |-> f.funcs]]
      BY Zenon, <1>6, <1>9, <2>1, <2>2, <2>3, <3>1, <3>3, <3>4
    <3>7. ~ Died.loaded
      BY DEF Died
    <3>8. CASE f = Died
      <4>1. r = Died
        BY Zenon, <3>6, <3>7, <3>8
      <4> QED
        BY Zenon, <3>5, <3>8, <4>1 DEF r, w, end
    <3>9. CASE ReadRight(bytes, m, off, nf, f)
      <4>1. f.loaded = TRUE
        BY Zenon, <3>9 DEF ReadRight
      <4>2. r = [loaded |-> TRUE, whole |-> f.whole,
                 prog |-> [consts |-> m.consts, entry |-> Entry(m), funcs |-> f.funcs]]
        BY Zenon, <3>6, <4>1
      <4>3. /\ f.whole = (Len(w) <= Len(bytes)) /\ FuncsRight(m, f.whole, f.funcs)
            /\ f.whole \/ m.funcs # << >>
        BY Zenon, <1>1, <1>3, <3>1, <3>9, FuncsAreRight DEF nf
      <4>4. /\ r.loaded = TRUE /\ r.whole = f.whole
            /\ r.prog = [consts |-> m.consts, entry |-> Entry(m), funcs |-> f.funcs]
        BY <4>2
      <4>5. LoadRight(bytes, m, r)
        BY Zenon, <4>3, <4>4 DEF LoadRight, w
      <4>6. r # Died
        BY Zenon, <3>7, <4>4
      <4> QED
        BY Zenon, <4>5, <4>6 DEF r
    <3> QED
      BY Zenon, <3>5, <3>8, <3>9
  <2> QED
    BY <2>4, <2>5
<1> QED
  BY <1>8, <1>9

LEMMA AsLoadedFields ==
  ASSUME NEW m, IsModule(m)
  PROVE  /\ AsLoaded(m).consts = m.consts /\ AsLoaded(m).entry = Entry(m)
         /\ AsLoaded(m) = [consts |-> m.consts, entry |-> Entry(m), funcs |-> AsLoaded(m).funcs]
         /\ AsLoaded(m).funcs = [i \in 1 .. Len(m.funcs) |-> Func(m, i)]
         /\ Len(AsLoaded(m).funcs) = Len(m.funcs)
<1> DEFINE n == Len(m.funcs)
<1>1. n \in Nat /\ DOMAIN m.funcs = 1 .. n /\ \A i \in 1 .. n : IsFunc(m.funcs[i])
  BY ModuleFields
<1>2. ASSUME NEW i \in 1 .. n
      PROVE  [m.funcs[i] EXCEPT !.name =
                SubSeq(@, 1, IF Len(@) < NameRoom - 1 THEN Len(@) ELSE NameRoom - 1)] = Func(m, i)
  <2> DEFINE f == m.funcs[i]
             c == Cut(f.name)
  <2>1. f \in [name : Seq(Byte), nparams : Word, nlocals : Word, code : Seq(Byte)]
    BY Zenon, <1>1 DEF IsFunc
  <2>2. c = SubSeq(f.name, 1, IF Len(f.name) < NameRoom - 1 THEN Len(f.name) ELSE NameRoom - 1)
    BY Zenon DEF Cut
  <2>3. Func(m, i) = [name |-> c, nparams |-> f.nparams, nlocals |-> f.nlocals, code |-> f.code]
    BY Zenon DEF Func, Coded
  <2> HIDE DEF f, c
  <2>4. [f EXCEPT !.name = c] = [name |-> c, nparams |-> f.nparams, nlocals |-> f.nlocals, code |-> f.code]
    BY <2>1
  <2> QED
    BY Zenon, <2>2, <2>3, <2>4 DEF f
<1>3. AsLoaded(m).funcs =
        [i \in 1 .. n |->
           [m.funcs[i] EXCEPT !.name =
              SubSeq(@, 1, IF Len(@) < NameRoom - 1 THEN Len(@) ELSE NameRoom - 1)]]
  BY <1>1 DEF AsLoaded
<1>4. AsLoaded(m).funcs = [i \in 1 .. n |-> Func(m, i)]
  BY <1>2, <1>3
<1>5. Len(AsLoaded(m).funcs) = n
  BY <1>1, <1>4
<1>6. AsLoaded(m).consts = m.consts /\ AsLoaded(m).entry = Entry(m)
  BY DEF AsLoaded, Entry
<1>7. AsLoaded(m) = [consts |-> m.consts, entry |-> Entry(m), funcs |-> AsLoaded(m).funcs]
  BY <1>6 DEF AsLoaded
<1> QED
  BY Zenon, <1>4, <1>5, <1>6, <1>7

LEMMA WholeIsLoaded ==
  ASSUME NEW m, IsModule(m), NEW bytes, NEW r, LoadRight(bytes, m, r), r.whole
  PROVE  r.prog = AsLoaded(m)
<1> DEFINE n == Len(m.funcs)
<1>1. PICK fs : /\ FuncsRight(m, r.whole, fs)
                   /\ r.prog = [consts |-> m.consts, entry |-> Entry(m), funcs |-> fs]
  BY Zenon DEF LoadRight
<1>2. fs \in Seq(LFunc) /\ Len(fs) = n /\ \A j \in 1 .. n : fs[j] = Func(m, j)
  BY Zenon, <1>1 DEF FuncsRight
<1>3. fs = [j \in 1 .. n |-> fs[j]]
  <2> HIDE DEF n
  <2> QED
    BY <1>2
<1>4. fs = [j \in 1 .. n |-> Func(m, j)]
  <2> HIDE DEF n
  <2> QED
    BY Zenon, <1>2, <1>3
<1>5. fs = AsLoaded(m).funcs
  BY Zenon, <1>4, AsLoadedFields
<1> QED
  BY Zenon, <1>1, <1>5, AsLoadedFields

LEMMA PartIsAlmostLoaded ==
  ASSUME NEW m, IsModule(m), NEW bytes, NEW r, LoadRight(bytes, m, r), ~ r.whole
  PROVE  EqualButLastCode(r.prog, AsLoaded(m))
<1> DEFINE n == Len(m.funcs)
           f == m.funcs[n]
           p == r.prog
           q == AsLoaded(m)
<1>1. PICK fs : /\ FuncsRight(m, r.whole, fs)
                   /\ r.prog = [consts |-> m.consts, entry |-> Entry(m), funcs |-> fs]
  BY Zenon DEF LoadRight
<1>2. n \in Nat /\ n > 0 /\ n \in 1 .. n
  <2>1. m.funcs # << >>
    BY Zenon DEF LoadRight
  <2>2. m.funcs \in Seq([name : Seq(Byte), nparams : Word, nlocals : Word, code : Seq(Byte)])
    BY DEF IsModule
  <2> QED
    BY <2>1, <2>2, EmptySeq
<1>3. /\ fs \in Seq(LFunc) /\ Len(fs) = n
      /\ \A j \in 1 .. n : j < n \/ r.whole => fs[j] = Func(m, j)
      /\ \E c \in Files : IsPrefix(c, f.code) /\ fs[n] = Coded(f, c)
  BY Zenon, <1>1, <1>2 DEF FuncsRight
<1>4. PICK c \in Files : IsPrefix(c, f.code) /\ fs[n] = Coded(f, c)
  BY <1>3
<1>5. p.consts = m.consts /\ p.entry = Entry(m) /\ p.funcs = fs
  BY <1>1
<1>6. /\ q.consts = m.consts /\ q.entry = Entry(m) /\ Len(q.funcs) = n
      /\ q.funcs = [i \in 1 .. n |-> Func(m, i)]
  BY Zenon, AsLoadedFields
<1> HIDE DEF n, p, q
<1>7. \A i \in 1 .. n : q.funcs[i] = Func(m, i)
  BY <1>6
<1>8. \A i \in 1 .. n - 1 : p.funcs[i] = q.funcs[i]
  <2>1. \A i \in 1 .. n - 1 : i \in 1 .. n /\ i < n
    BY <1>2
  <2> QED
    BY Zenon, <1>3, <1>5, <1>7, <2>1
<1>9. p.funcs[n] = Coded(f, c) /\ q.funcs[n] = Coded(f, f.code)
  BY Zenon, <1>2, <1>4, <1>5, <1>7 DEF Func, f
<1> HIDE DEF f
<1>10. [Coded(f, c) EXCEPT !.code = << >>] = [Coded(f, f.code) EXCEPT !.code = << >>]
  BY DEF Coded
<1>11. Coded(f, c).code = c /\ Coded(f, f.code).code = f.code
  BY DEF Coded
<1>12. /\ [p.funcs[n] EXCEPT !.code = << >>] = [q.funcs[n] EXCEPT !.code = << >>]
       /\ IsPrefix(p.funcs[n].code, q.funcs[n].code)
  BY Zenon, <1>4, <1>9, <1>10, <1>11
<1>13. Len(q.funcs) = n /\ Len(p.funcs) = n /\ p.consts = q.consts /\ p.entry = q.entry
  BY Zenon, <1>3, <1>5, <1>6
<1> QED
  BY Zenon, <1>8, <1>12, <1>13 DEF EqualButLastCode, p, q

(* For every module there is a file for, the bytes emit_module writes are  *)
(* loaded, to their end, as that module (emit.c:106-141, svm.c:50-112).    *)
THEOREM WhatIsEmittedIsLoaded ==
  ASSUME NEW m, IsModule(m)
  PROVE  LET r == load_prog(emit_module(m))
         IN  r.loaded = TRUE /\ r.whole = TRUE /\ r.prog = AsLoaded(m)
<1> DEFINE w == emit_module(m)
           r == load_prog(w)
<1>1. w \in Files /\ Len(w) \in Nat
  <2>1. PICK off : Layout(w, m, off)
    BY Lays
  <2>2. w \in Files
    BY Zenon, <2>1 DEF Layout
  <2> QED
    BY <2>2 DEF Files
<1> HIDE DEF w
<1>2. Begins(w, w)
  BY <1>1 DEF Begins
<1>3. LoadRight(w, m, r)
  BY Zenon, <1>2, Loads DEF w
<1>4. r.whole = (Len(w) <= Len(w)) /\ r.loaded = TRUE
  BY Zenon, <1>3 DEF LoadRight, w
<1>5. (Len(w) <= Len(w)) = TRUE
  BY <1>1
<1>6. r.whole = TRUE
  BY Zenon, <1>4, <1>5
<1>7. r.prog = AsLoaded(m)
  BY Zenon, <1>3, <1>6, WholeIsLoaded
<1> QED
  BY Zenon, <1>4, <1>6, <1>7 DEF w

(* Of a file that ends before what emit_module writes does, nothing is     *)
(* loaded that is not the module, but for the last function's code.        *)
LEMMA WhatIsCutOff ==
  ASSUME NEW m, IsModule(m), NEW n \in 0 .. Len(emit_module(m)) - 1
  PROVE  LET r == load_prog(SubSeq(emit_module(m), 1, n))
         IN  r.loaded => ~ r.whole /\ EqualButLastCode(r.prog, AsLoaded(m))
<1> DEFINE w == emit_module(m)
           bytes == SubSeq(w, 1, n)
           r == load_prog(bytes)
<1>1. w \in Files /\ Len(w) \in Nat
  <2>1. PICK off : Layout(w, m, off)
    BY Lays
  <2>2. w \in Files
    BY Zenon, <2>1 DEF Layout
  <2> QED
    BY <2>2 DEF Files
<1>a. n \in 0 .. Len(w) - 1
  OBVIOUS
<1> HIDE DEF w
<1>2. bytes \in Files /\ Len(bytes) = n /\ Begins(bytes, w)
  <2>1. w \in Seq(Byte) /\ n \in Int
    BY <1>1, <1>a DEF Files
  <2>2. \A i \in 1 .. n : w[i] \in Byte
    BY <2>1, <1>1, <1>a
  <2>3. bytes \in Seq(Byte) /\ Len(bytes) = n
    BY <1>a, <2>1, <2>2, SubSeqProperties
  <2>4. \A i \in 1 .. n : bytes[i] = w[i]
    BY <1>1, <1>a, <2>1
  <2> QED
    BY <1>1, <1>a, <2>3, <2>4 DEF Begins, Files
<1>3. r = Died \/ LoadRight(bytes, m, r)
  BY Zenon, <1>2, Loads DEF w
<1>4. ~ (Len(w) <= Len(bytes))
  BY <1>1, <1>2, <1>a
<1> HIDE DEF bytes, r
<1>5. r.loaded => LoadRight(bytes, m, r)
  <2>1. ~ Died.loaded
    BY DEF Died
  <2> QED
    BY Zenon, <1>3, <2>1
<1>6. r.loaded => ~ r.whole
  BY Zenon, <1>4, <1>5 DEF LoadRight, w
<1>7. r.loaded => EqualButLastCode(r.prog, AsLoaded(m))
  BY Zenon, <1>5, <1>6, PartIsAlmostLoaded
<1> QED
  BY Zenon, <1>6, <1>7 DEF r, bytes, w

-----------------------------------------------------------------------------
(* One run of the compiler.                                                *)

(* Nothing is opened or written before the source has been compiled, the   *)
(* exit status is set where main ends, and a status other than 0 only      *)
(* while the old output is there.                                          *)
DriverInv ==
  /\ DriverTypeOK
  /\ pc = "load" => len = 0
  /\ pc \notin {"emit", "exit"} => output = "old"
  /\ pc # "exit" => exit = Running
  /\ FailureKeepsOutput

LEMMA LeastBounds ==
  ASSUME NEW a \in Nat, NEW b \in Nat
  PROVE  Least(a, b) \in Nat /\ Least(a, b) <= a /\ Least(a, b) <= b
BY DEF Least

LEMMA DriverInvHolds == DriverSpec => []DriverInv
<1>1. DriverInit => DriverInv
  <2> SUFFICES ASSUME DriverInit PROVE DriverInv
    OBVIOUS
  <2> USE DriverAssumption DEF DriverInit
  <2>1. 0 \in 0 .. Least(0, PipeCap)
    BY DEF Least
  <2>2. /\ len <= (IF input = "pipe" THEN StdinCap ELSE stat)
        /\ size \in 0 .. SrcLen /\ stat \in 0 .. SrcLen /\ sent \in 0 .. SrcLen /\ len \in -1 .. SrcLen
    OBVIOUS
  <2>3. DriverTypeOK
    BY <2>1, <2>2 DEF DriverTypeOK
  <2> QED
    BY <2>3 DEF DriverInv, FailureKeepsOutput
<1>2. DriverInv /\ [DriverNext]_driverVars => DriverInv'
  <2> SUFFICES ASSUME DriverInv, [DriverNext]_driverVars PROVE DriverInv'
    OBVIOUS
  <2> USE DriverAssumption DEF DriverInv, DriverTypeOK, FailureKeepsOutput, Running
  <2>1. CASE Produce
    BY <2>1 DEF Produce, Least
  <2>2. CASE EndOfSource
    BY <2>2 DEF EndOfSource, Least
  <2>3. CASE ReadPipe
    <3>1. Readable \in Nat /\ Readable <= pipe /\ Readable <= StdinCap /\ pipe \in Nat /\ pipe <= sent
      <4>1. pipe \in Nat /\ StdinCap \in Nat /\ pipe <= sent
        BY DEF Least
      <4> QED
        BY <4>1, LeastBounds DEF Readable
    <3> QED
      BY <2>3, <3>1 DEF ReadPipe, Least
  <2>4. CASE OpenFile
    BY <2>4 DEF OpenFile, world
  <2>5. CASE OpenFails
    BY <2>5 DEF OpenFails, world
  <2>6. CASE ReadFile
    <3>1. Least(size, stat) \in Nat /\ Least(size, stat) <= stat /\ Least(size, stat) <= SrcLen
      <4>1. size \in Nat /\ stat \in Nat /\ stat <= SrcLen /\ SrcLen \in Nat
        OBVIOUS
      <4>2. /\ Least(size, stat) \in Nat /\ Least(size, stat) <= stat
        BY <4>1, LeastBounds
      <4> QED
        BY <4>1, <4>2
    <3> QED
      BY <2>6, <3>1 DEF ReadFile, world
  <2>7. CASE ReadFails
    BY <2>7 DEF ReadFails, world
  <2>8. CASE Compiles
    BY <2>8 DEF Compiles, world
  <2>9. CASE CompileFails
    BY <2>9 DEF CompileFails, world
  <2>10. CASE Crash
    BY <2>10 DEF Crash, world
  <2>11. CASE OpenOutput
    BY <2>11 DEF OpenOutput, OpenStage, world
  <2>12. CASE OpenOutputFails
    BY <2>12 DEF OpenOutputFails, world
  <2>13. CASE Write
    BY <2>13 DEF Write, world
  <2>14. CASE Resize
    BY <2>14 DEF Resize
  <2>15. CASE UNCHANGED driverVars
    BY <2>15 DEF driverVars
  <2> QED
    BY <2>1, <2>2, <2>3, <2>4, <2>5, <2>6, <2>7, <2>8, <2>9, <2>10, <2>11, <2>12, <2>13, <2>14, <2>15
       DEF DriverNext, Main
<1> QED
  BY <1>1, <1>2, PTL DEF DriverSpec

(* The compiler that writes bytes is the compiler: every behaviour of      *)
(* Toolchain is one of Driver.                                             *)
THEOREM ToolchainRunsTheDriver == ToolchainSpec => DriverSpec
<1>1. ToolchainInit => DriverInit
  BY DEF ToolchainInit
<1>2. [ToolchainNext]_toolchain => [DriverNext]_driverVars
  BY DEF ToolchainNext, toolchain, Svc, World, Svm, DriverNext
<1> QED
  BY <1>1, <1>2, PTL DEF ToolchainSpec, DriverSpec

(* What is read of the source fits the buffer it is read into, however     *)
(* much the producer sends and however the file grows (main.c:19, 31).     *)
THEOREM DriverTypeCorrect == ToolchainSpec => []DriverTypeOK
<1>1. DriverInv => DriverTypeOK
  BY DEF DriverInv
<1> QED
  BY <1>1, ToolchainRunsTheDriver, DriverInvHolds, PTL

(* A run that fails leaves the last output as it was (main.c:72-83).       *)
THEOREM FailuresKeepOutput == ToolchainSpec => []FailureKeepsOutput
<1>1. DriverInv => FailureKeepsOutput
  BY DEF DriverInv
<1> QED
  BY <1>1, ToolchainRunsTheDriver, DriverInvHolds, PTL

-----------------------------------------------------------------------------
(* The compiler and the machine.                                           *)

\* What the output file holds, at every stage of the compiler's writing.
FileInv ==
  /\ output \in {"old", "opened", "partial", "new"}
  /\ output = "old" => file = emit_module(OldModule)
  /\ output = "opened" => file = << >>
  /\ output = "partial" => \E n \in 0 .. Len(New) - 1 : file = SubSeq(New, 1, n)
  /\ output = "new" => file = New

\* What svm may have of it.
LoadedInv ==
  loaded.loaded =>
    IF loaded.whole
    THEN loaded.prog \in {AsLoaded(OldModule), AsLoaded(NewModule)}
    ELSE EqualButLastCode(loaded.prog, AsLoaded(NewModule))

LEMMA EmptyIsNotLoaded == load_prog(<< >>) = Died
<1>1. ~ InFile(<< >>, 4, 4)
  BY DEF InFile
<1> QED
  BY Zenon, <1>1 DEF load_prog

LEMMA FileIsLoadedRight ==
  ASSUME FileInv
  PROVE  LET r == load_prog(file)
         IN  r.loaded => IF r.whole
                         THEN r.prog \in {AsLoaded(OldModule), AsLoaded(NewModule)}
                         ELSE EqualButLastCode(r.prog, AsLoaded(NewModule))
<1>0. IsModule(OldModule) /\ IsModule(NewModule)
  BY Zenon, ToolchainAssumption
<1>1. CASE output = "old"
  <2>1. file = emit_module(OldModule)
    BY Zenon, <1>1 DEF FileInv
  <2> QED
    BY Zenon, <1>0, <2>1, WhatIsEmittedIsLoaded
<1>2. CASE output = "opened"
  <2>1. file = << >>
    BY Zenon, <1>2 DEF FileInv
  <2>2. ~ load_prog(file).loaded
    BY <2>1, EmptyIsNotLoaded DEF Died
  <2> QED
    BY Zenon, <2>2
<1>3. CASE output = "partial"
  <2>1. PICK n \in 0 .. Len(emit_module(NewModule)) - 1 : file = SubSeq(emit_module(NewModule), 1, n)
    BY Zenon, <1>3 DEF FileInv, New
  <2> QED
    BY Zenon, <1>0, <2>1, WhatIsCutOff
<1>4. CASE output = "new"
  <2>1. file = emit_module(NewModule)
    BY Zenon, <1>4 DEF FileInv, New
  <2> QED
    BY Zenon, <1>0, <2>1, WhatIsEmittedIsLoaded
<1> QED
  BY Zenon, <1>1, <1>2, <1>3, <1>4 DEF FileInv

LEMMA EmittingKeepsFile ==
  ASSUME FileInv, Emitting, output' \in {output, "opened", "partial", "new"}
  PROVE  FileInv'
<1>1. New' = New
  BY DEF New
<1>2. CASE output' = output /\ file' = file
  BY <1>2 DEF FileInv, New
<1>3. CASE output' = "opened" /\ file' = << >>
  BY <1>3 DEF FileInv
<1>4. CASE output' = "new" /\ file' = New
  BY <1>4 DEF FileInv, New
<1>5. CASE output' = "partial" /\ \E n \in 0 .. Len(New) - 1 : file' = SubSeq(New, 1, n)
  BY <1>5 DEF FileInv, New
<1> QED
  BY <1>2, <1>3, <1>4, <1>5 DEF Emitting

LEMMA ToolchainInvHolds == ToolchainSpec => [](FileInv /\ LoadedInv)
<1>1. ToolchainInit => FileInv /\ LoadedInv
  BY DEF ToolchainInit, DriverInit, FileInv, LoadedInv, NotYet
<1>2. FileInv /\ LoadedInv /\ [ToolchainNext]_toolchain => (FileInv /\ LoadedInv)'
  <2> SUFFICES ASSUME FileInv, LoadedInv, [ToolchainNext]_toolchain PROVE FileInv' /\ LoadedInv'
    OBVIOUS
  <2>1. CASE Svc
    <3>1. output' \in {output, "opened", "partial", "new"}
      BY <2>1 DEF Svc, Main, world, ReadPipe, OpenFile, OpenFails, ReadFile, ReadFails, Compiles,
                  CompileFails, Crash, OpenOutput, OpenOutputFails, Write
    <3>2. FileInv'
      BY <2>1, <3>1, EmittingKeepsFile DEF Svc
    <3>3. LoadedInv'
      BY <2>1 DEF Svc, LoadedInv
    <3> QED
      BY <3>2, <3>3
  <2>2. CASE World
    <3>1. UNCHANGED <<output, file, loaded>>
      BY <2>2 DEF World, Produce, EndOfSource, Resize
    <3> QED
      BY <3>1 DEF FileInv, LoadedInv, New
  <2>3. CASE Svm
    <3>1. UNCHANGED <<output, file>> /\ loaded' = load_prog(file)
      BY <2>3 DEF Svm, driverVars
    <3>2. FileInv'
      BY <3>1 DEF FileInv, New
    <3>3. LoadedInv'
      BY Zenon, <3>1, FileIsLoadedRight DEF LoadedInv
    <3> QED
      BY <3>2, <3>3
  <2>4. CASE UNCHANGED toolchain
    BY <2>4 DEF toolchain, driverVars, FileInv, LoadedInv, New
  <2> QED
    BY <2>1, <2>2, <2>3, <2>4 DEF ToolchainNext
<1> QED
  BY <1>1, <1>2, PTL DEF ToolchainSpec

(* Whenever svm looks at the file, it has the old program, the new one,    *)
(* all of the new one but the end of its last function's code, or nothing; *)
(* and what a run has written in full is loaded and starts                 *)
(* (svm.c:50-112, emit.c:106-141).                                         *)
THEOREM ProgramsLoadWhole == ToolchainSpec => []LoadsWholePrograms
<1>1. FileInv /\ LoadedInv => LoadsWholePrograms
  <2> SUFFICES ASSUME FileInv, LoadedInv PROVE LoadsWholePrograms
    OBVIOUS
  <2>1. ASSUME output = "new"
        PROVE  Starts(load_prog(file)) /\ load_prog(file).prog = AsLoaded(NewModule)
    <3> DEFINE r == load_prog(file)
    <3>1. file = emit_module(NewModule)
      BY Zenon, <2>1 DEF FileInv, New
    <3>2. IsModule(NewModule) /\ NewModule.funcs # << >> /\ NewModule.entry < Len(NewModule.funcs)
      BY Zenon, ToolchainAssumption
    <3>3. r.loaded = TRUE /\ r.prog = AsLoaded(NewModule)
      BY Zenon, <3>1, <3>2, WhatIsEmittedIsLoaded
    <3>4. r.prog.entry = Entry(NewModule) /\ Len(r.prog.funcs) = Len(NewModule.funcs)
      BY Zenon, <3>2, <3>3, AsLoadedFields
    <3>5. Entry(NewModule) < Len(NewModule.funcs)
      <4>1. Len(NewModule.funcs) > 0
        <5>1. NewModule.funcs \in Seq([name : Seq(Byte), nparams : Word, nlocals : Word, code : Seq(Byte)])
          BY Zenon, <3>2 DEF IsModule
        <5> QED
          BY <3>2, <5>1, EmptySeq
      <4>2. Entry(NewModule) = IF NewModule.entry < 0 THEN 0 ELSE NewModule.entry
        BY Zenon DEF Entry
      <4> QED
        BY <3>2, <4>1, <4>2
    <3> HIDE DEF r
    <3>6. Starts(r)
      BY Zenon, <3>3, <3>4, <3>5 DEF Starts
    <3> QED
      BY Zenon, <3>3, <3>6 DEF r
  <2> QED
    BY Zenon, <2>1 DEF LoadsWholePrograms, LoadedInv
<1> QED
  BY <1>1, ToolchainInvHolds, PTL

-----------------------------------------------------------------------------
(* The stack machine, on images that check out.                            *)

(* The values when h is the heap: a reference has its array.               *)
Vals(h) == {v \in [t : {"int", "double", "ref"}, v : Int] : v.t = "ref" => v.v \in DOMAIN h}

CodeIn(im, f) == im.funcs[f].code

(* An activation of f at p, and the depth that its code has there.         *)
Activation(f, p, st, loc, h, im) ==
  /\ f \in DOMAIN im.funcs /\ p \in DOMAIN CodeIn(im, f)
  /\ st \in Seq(Vals(h)) /\ Len(st) <= StackMax
  /\ loc \in [1 .. im.funcs[f].nlocals -> Vals(h)]

IsActivation(r, h, im) ==
  /\ r = [f |-> r.f, pc |-> r.pc, st |-> r.st, loc |-> r.loc]
  /\ Activation(r.f, r.pc, r.st, r.loc, h, im)

DepthAt(im, f, p) == Depths(im.funcs[f])[p]

(* What an image that checks out is made of.                               *)
LEMMA CheckedImage ==
  ASSUME NEW im, Checks(im)
  PROVE  /\ im.consts \in Seq([t : {"int", "double"}, v : Int])
         /\ im.entry \in DOMAIN im.funcs
  BY DEF Checks

LEMMA CheckedFunction ==
  ASSUME NEW im, Checks(im), NEW f \in DOMAIN im.funcs
  PROVE  /\ im.funcs[f].nlocals \in Nat /\ DOMAIN CodeIn(im, f) \subseteq Nat
         /\ \A a \in DOMAIN CodeIn(im, f) : NamesWhatIs(im, im.funcs[f], CodeIn(im, f)[a])
         /\ Flows(im.funcs[f], Depths(im.funcs[f]))
  BY Zenon DEF Checks, CodeIn

(* At an instruction in, with d values on the stack: what it finds there,  *)
(* and where control goes.                                                 *)
Leads(im, f, a, in, d) ==
  LET next  == a + Width(in.op)
      after == d - Pops(in) + Pushes(in)
      Goes(b) == b \in DOMAIN CodeIn(im, f) /\ DepthAt(im, f, b) = after
  IN  /\ NamesWhatIs(im, im.funcs[f], in)
      /\ d \in Nat /\ d >= Pops(in)
      /\ in.op \in DOMAIN Left => d = Left[in.op]
      /\ in.op \notin {"JMP", "RET"} => Goes(next)
      /\ in.op \in {"JMP", "JZ"} => Goes(next + in.arg)

LEMMA CheckedInstruction ==
  ASSUME NEW im, Checks(im), NEW f \in DOMAIN im.funcs, NEW a \in DOMAIN CodeIn(im, f)
  PROVE  Leads(im, f, a, CodeIn(im, f)[a], DepthAt(im, f, a))
  <1>1. /\ NamesWhatIs(im, im.funcs[f], CodeIn(im, f)[a])
        /\ Flows(im.funcs[f], Depths(im.funcs[f]))
    BY CheckedFunction
  <1>2. QED
    BY <1>1, Zenon DEF Flows, CodeIn, DepthAt, Leads

LEMMA CheckedStart ==
  ASSUME NEW im, Checks(im), NEW f \in DOMAIN im.funcs
  PROVE  0 \in DOMAIN CodeIn(im, f) /\ DepthAt(im, f, 0) = 0
  <1>1. Flows(im.funcs[f], Depths(im.funcs[f]))
    BY CheckedFunction
  <1>2. QED
    BY <1>1, Zenon DEF Flows, CodeIn, DepthAt

(* Values.                                                                 *)
LEMMA NumbersAreValues ==
  ASSUME NEW h, NEW n \in Int
  PROVE  VInt(n) \in Vals(h) /\ VDbl(n) \in Vals(h)
  BY DEF VInt, VDbl, Vals

LEMMA ValueFields ==
  ASSUME NEW h, NEW v \in Vals(h)
  PROVE  /\ v.t \in {"int", "double", "ref"} /\ v.v \in Int
         /\ v.t = "ref" => v.v \in DOMAIN h
         /\ AsD(v) \in Int
  BY DEF Vals, AsD

LEMMA QuotIsInt ==
  ASSUME NEW a \in Int, NEW b \in Int, b # 0
  PROVE  Quot(a, b) \in Int
  <1>1. Abs(a) \in Nat /\ Abs(b) \in Nat \ {0}
    BY DEF Abs
  <1>2. Abs(a) \div Abs(b) \in Int
    BY <1>1
  <1>3. QED
    BY <1>2 DEF Quot

LEMMA TruncIsInt ==
  ASSUME NEW a \in Int
  PROVE  Trunc(a) \in Int
  BY QuotIsInt DEF Trunc

LEMMA ComparedIsValue ==
  ASSUME NEW h, NEW op, NEW a, NEW b
  PROVE  Compared(op, a, b) \in Vals(h)
  <1>1. (IF Relates(op, a, b) THEN 1 ELSE 0) \in Int
    OBVIOUS
  <1>2. QED
    BY <1>1, NumbersAreValues DEF Compared

LEMMA IntOpIsValue ==
  ASSUME NEW h, NEW op \in Binaries, NEW a \in Int, NEW b \in Int, op = "DIV" => b # 0
  PROVE  IntOp(op, a, b) \in Vals(h)
  <1>1. CASE op \in {"ADD", "SUB"}
    BY <1>1, NumbersAreValues DEF IntOp
  <1>2. CASE op = "MUL"
    <2>1. a * b \in Int
      OBVIOUS
    <2>2. QED
      BY <1>2, <2>1, NumbersAreValues DEF IntOp
  <1>3. CASE op = "DIV"
    BY <1>3, NumbersAreValues, QuotIsInt DEF IntOp
  <1>4. CASE op \in Comparisons
    BY <1>4, ComparedIsValue DEF IntOp, Comparisons
  <1>5. QED
    BY <1>1, <1>2, <1>3, <1>4 DEF Binaries

LEMMA DblOpIsValue ==
  ASSUME NEW h, NEW op \in Binaries, NEW a \in Int, NEW b \in Int
  PROVE  DblOp(op, a, b) \in Vals(h)
  <1>1. CASE op \in {"ADD", "SUB"}
    BY <1>1, NumbersAreValues DEF DblOp
  <1>2. CASE op = "MUL"
    <2>1. a * b \in Int
      OBVIOUS
    <2>2. Quot(a * b, 2) \in Int
      BY <2>1, QuotIsInt
    <2>3. QED
      BY <1>2, <2>2, NumbersAreValues DEF DblOp
  <1>3. CASE op = "DIV"
    <2>1. (IF b = 0 THEN 0 ELSE Quot(2 * a, b)) \in Int
      BY QuotIsInt
    <2>2. QED
      BY <1>3, <2>1, NumbersAreValues DEF DblOp
  <1>4. CASE op \in Comparisons
    BY <1>4, ComparedIsValue DEF DblOp, Comparisons
  <1>5. QED
    BY <1>1, <1>2, <1>3, <1>4 DEF Binaries

(* More arrays, more values.                                               *)
LEMMA ValuesStay ==
  ASSUME NEW h, NEW g, DOMAIN h \subseteq DOMAIN g
  PROVE  Vals(h) \subseteq Vals(g)
  BY DEF Vals

LEMMA SequencesStay ==
  ASSUME NEW S, NEW T, S \subseteq T, NEW s \in Seq(S)
  PROVE  s \in Seq(T)
  OBVIOUS

LEMMA ActivationStays ==
  ASSUME NEW im, NEW h, NEW g, DOMAIN h \subseteq DOMAIN g, NEW r, IsActivation(r, h, im)
  PROVE  IsActivation(r, g, im)
  <1>1. Vals(h) \subseteq Vals(g)
    BY ValuesStay
  <1>2. r.st \in Seq(Vals(g))
    BY <1>1, SequencesStay DEF IsActivation, Activation
  <1>3. r.loc \in [1 .. im.funcs[r.f].nlocals -> Vals(g)]
    BY <1>1 DEF IsActivation, Activation
  <1>4. QED
    BY <1>2, <1>3 DEF IsActivation, Activation

(* The set of activations, so that the frames are a sequence over it.      *)
Activations(h, im) ==
  {r \in [f : DOMAIN im.funcs, pc : UNION {DOMAIN CodeIn(im, f) : f \in DOMAIN im.funcs},
          st : Seq(Vals(h)),
          loc : UNION {[1 .. im.funcs[f].nlocals -> Vals(h)] : f \in DOMAIN im.funcs}] :
     IsActivation(r, h, im)}

LEMMA ActivationsAre ==
  ASSUME NEW im, NEW h, NEW r
  PROVE  r \in Activations(h, im) <=> IsActivation(r, h, im)
  <1>1. SUFFICES ASSUME IsActivation(r, h, im)
                 PROVE  r \in [f : DOMAIN im.funcs,
                               pc : UNION {DOMAIN CodeIn(im, f) : f \in DOMAIN im.funcs},
                               st : Seq(Vals(h)),
                               loc : UNION {[1 .. im.funcs[f].nlocals -> Vals(h)] :
                                              f \in DOMAIN im.funcs}]
    BY DEF Activations
  <1>2. /\ r.f \in DOMAIN im.funcs /\ r.pc \in DOMAIN CodeIn(im, r.f) /\ r.st \in Seq(Vals(h))
        /\ r.loc \in [1 .. im.funcs[r.f].nlocals -> Vals(h)]
        /\ r = [f |-> r.f, pc |-> r.pc, st |-> r.st, loc |-> r.loc]
    BY <1>1 DEF IsActivation, Activation
  <1>3. r.pc \in UNION {DOMAIN CodeIn(im, f) : f \in DOMAIN im.funcs}
    BY <1>2
  <1>4. r.loc \in UNION {[1 .. im.funcs[f].nlocals -> Vals(h)] : f \in DOMAIN im.funcs}
    BY <1>2
  <1>5. QED
    BY <1>2, <1>3, <1>4

(* A record of the fields of an activation is one, and stays one when      *)
(* arrays are added.                                                       *)
LEMMA ActivationMade ==
  ASSUME NEW im, NEW h, NEW f, NEW p, NEW st, NEW loc, Activation(f, p, st, loc, h, im)
  PROVE  [f |-> f, pc |-> p, st |-> st, loc |-> loc] \in Activations(h, im)
  BY ActivationsAre DEF IsActivation

LEMMA ActivationsStay ==
  ASSUME NEW im, NEW h, NEW g, DOMAIN h \subseteq DOMAIN g
  PROVE  Activations(h, im) \subseteq Activations(g, im)
  BY ActivationsAre, ActivationStays

(* The activation r is where its stack is as deep as the code says, less   *)
(* the value that it is waiting for.                                       *)
Deep(r, missing, im) == Len(r.st) + missing = DepthAt(im, r.f, r.pc)

(* Of the frames, the running one misses nothing, each other one the value *)
(* that the one above it will return.                                      *)
Framed(fs, h, im) ==
  /\ fs \in Seq(Activations(h, im))
  /\ \A i \in 1 .. Len(fs) : Deep(fs[i], IF i = Len(fs) THEN 0 ELSE 1, im)

(* The running activation, and the frames when arrays are added.           *)
LEMMA FramedTop ==
  ASSUME NEW im, NEW fs, NEW h, Framed(fs, h, im), fs # <<>>
  PROVE  Len(fs) \in Nat \ {0} /\ fs[Len(fs)] \in Activations(h, im) /\ Deep(fs[Len(fs)], 0, im)
  <1>1. Len(fs) \in Nat /\ Len(fs) # 0 /\ fs \in [1 .. Len(fs) -> Activations(h, im)]
    BY DEF Framed
  <1>2. Len(fs) \in 1 .. Len(fs)
    BY <1>1
  <1>3. Deep(fs[Len(fs)], IF Len(fs) = Len(fs) THEN 0 ELSE 1, im)
    BY <1>2, Zenon DEF Framed
  <1>4. QED
    BY <1>1, <1>2, <1>3

LEMMA FramedStays ==
  ASSUME NEW im, NEW fs, NEW h, NEW g, DOMAIN h \subseteq DOMAIN g, Framed(fs, h, im)
  PROVE  Framed(fs, g, im)
  BY ActivationsStay, SequencesStay DEF Framed

(* A frame that goes on, with its fields or as a whole.                    *)
Goes(fs, n, p, st) == [fs EXCEPT ![n].pc = p, ![n].st = st]
Becomes(fs, n, r)   == [fs EXCEPT ![n] = r]

(* The running activation goes on as r.                                    *)
LEMMA FramedGoesOn ==
  ASSUME NEW im, NEW fs, NEW h, Framed(fs, h, im), fs # <<>>, NEW r \in Activations(h, im), Deep(r, 0, im)
  PROVE  Framed([fs EXCEPT ![Len(fs)] = r], h, im) /\ [fs EXCEPT ![Len(fs)] = r] # <<>>
  <1> DEFINE gs == [fs EXCEPT ![Len(fs)] = r]
  <1>1. fs \in Seq(Activations(h, im)) /\ Len(fs) \in Nat \ {0}
    BY FramedTop DEF Framed
  <1>2. gs \in Seq(Activations(h, im)) /\ Len(gs) = Len(fs)
    BY <1>1, ExceptSeq
  <1>3. gs[Len(fs)] = r /\ \A i \in 1 .. Len(fs) : i # Len(fs) => gs[i] = fs[i]
    BY <1>1
  <1>4. \A i \in 1 .. Len(gs) : Deep(gs[i], IF i = Len(gs) THEN 0 ELSE 1, im)
    BY <1>2, <1>3 DEF Framed
  <1>5. QED
    BY <1>1, <1>2, <1>4 DEF Framed

(* It calls: it will go on as r, with one value more, and q runs.          *)
LEMMA FramedCalls ==
  ASSUME NEW im, NEW fs, NEW h, Framed(fs, h, im), fs # <<>>,
         NEW r \in Activations(h, im), Deep(r, 1, im), NEW q \in Activations(h, im), Deep(q, 0, im)
  PROVE  LET gs == Append([fs EXCEPT ![Len(fs)] = r], q)
         IN  Framed(gs, h, im) /\ gs # <<>>
  <1> DEFINE es == [fs EXCEPT ![Len(fs)] = r]
             gs == Append(es, q)
  <1>1. fs \in Seq(Activations(h, im)) /\ Len(fs) \in Nat \ {0}
    BY FramedTop DEF Framed
  <1>2. es \in Seq(Activations(h, im)) /\ Len(es) = Len(fs)
    BY <1>1, ExceptSeq
  <1>3. es[Len(fs)] = r /\ \A i \in 1 .. Len(fs) : i # Len(fs) => es[i] = fs[i]
    BY <1>1
  <1> HIDE DEF es
  <1>4. /\ gs \in Seq(Activations(h, im)) /\ Len(gs) = Len(fs) + 1 /\ gs[Len(fs) + 1] = q
        /\ \A i \in 1 .. Len(fs) : gs[i] = es[i]
    BY <1>1, <1>2
  <1> HIDE DEF gs
  <1>5. ASSUME NEW i \in 1 .. Len(gs)
        PROVE  Deep(gs[i], IF i = Len(gs) THEN 0 ELSE 1, im)
    <2>1. CASE i = Len(fs) + 1
      BY <2>1, <1>4
    <2>2. CASE i = Len(fs)
      BY <2>2, <1>1, <1>3, <1>4
    <2>3. CASE i \in 1 .. Len(fs) - 1
      BY <2>3, <1>1, <1>3, <1>4 DEF Framed
    <2>4. QED
      BY <2>1, <2>2, <2>3, <1>1, <1>4
  <1>6. Framed(gs, h, im) /\ gs # <<>>
    BY <1>1, <1>4, <1>5 DEF Framed
  <1>7. QED
    BY <1>6 DEF gs, es

(* It returns: the one below goes on as r.                                 *)
LEMMA FramedReturns ==
  ASSUME NEW im, NEW fs, NEW h, Framed(fs, h, im), NEW n, n = Len(fs) - 1, n # 0, fs # <<>>,
         NEW r \in Activations(h, im), Deep(r, 0, im)
  PROVE  Framed(Becomes(SubSeq(fs, 1, n), n, r), h, im) /\ Becomes(SubSeq(fs, 1, n), n, r) # <<>>
  <1> DEFINE es == SubSeq(fs, 1, n)
             gs == [es EXCEPT ![n] = r]
  <1>1. fs \in Seq(Activations(h, im)) /\ Len(fs) \in Nat \ {0} /\ n \in 1 .. Len(fs) /\ n + 1 = Len(fs)
    BY FramedTop DEF Framed
  <1>2. es \in Seq(Activations(h, im)) /\ Len(es) = n /\ \A i \in 1 .. n : es[i] = fs[i]
    BY <1>1
  <1> HIDE DEF es
  <1>3. gs \in Seq(Activations(h, im)) /\ Len(gs) = n
    BY <1>1, <1>2, ExceptSeq
  <1>4. gs[n] = r /\ \A i \in 1 .. n : i # n => gs[i] = es[i]
    BY <1>1, <1>2
  <1> HIDE DEF gs
  <1>5. \A i \in 1 .. n : Deep(gs[i], IF i = n THEN 0 ELSE 1, im)
    BY <1>1, <1>2, <1>4 DEF Framed
  <1>6. Framed(gs, h, im) /\ gs # <<>>
    BY <1>1, <1>3, <1>5 DEF Framed
  <1>7. QED
    BY <1>6 DEF gs, es, Becomes

(* The invariant of the machine.                                           *)
MachineInv ==
  /\ Checks(image)
  /\ status \in {"running", "done", "died", "overflow"}
  /\ out \in Seq(Int)
  /\ heap \in Seq(Seq(Vals(heap)))
  /\ Framed(frames, heap, image)
  /\ status = "running" => frames # <<>>

(* An instruction pops some values and pushes at most one.                 *)
LEMMA PopsNat ==
  ASSUME NEW im, NEW fn, NEW in, NamesWhatIs(im, fn, in)
  PROVE  Pops(in) \in Nat /\ Pushes(in) \in {0, 1}
  BY DEF NamesWhatIs, Pops, Pushes

(* What the running activation is.                                         *)
LEMMA TopIs ==
  ASSUME MachineInv, status = "running"
  PROVE  /\ Len(frames) \in Nat \ {0}
         /\ Top = [f |-> Top.f, pc |-> Top.pc, st |-> Top.st, loc |-> Top.loc]
         /\ Activation(Top.f, Top.pc, Top.st, Top.loc, heap, image)
         /\ Depth \in Nat /\ Depth = DepthAt(image, Top.f, Top.pc)
  <1>1. Framed(frames, heap, image) /\ frames # <<>>
    BY DEF MachineInv
  <1>2. Len(frames) \in Nat \ {0} /\ IsActivation(Top, heap, image) /\ Deep(Top, 0, image)
    BY <1>1, FramedTop, ActivationsAre DEF Top
  <1>3. Top.st \in Seq(Vals(heap))
    BY <1>2 DEF IsActivation, Activation
  <1>4. Depth \in Nat
    BY <1>3 DEF Depth
  <1>5. Depth = DepthAt(image, Top.f, Top.pc)
    BY <1>2, <1>4 DEF Deep, Depth
  <1>6. QED
    BY <1>2, <1>4, <1>5 DEF IsActivation

(* What the next instruction is, and where it leads.                       *)
LEMMA InIs ==
  ASSUME MachineInv, status = "running"
  PROVE  /\ Top.f \in DOMAIN image.funcs /\ Top.pc \in DOMAIN CodeOf(Top.f)
         /\ Leads(image, Top.f, Top.pc, In, Depth)
         /\ NamesWhatIs(image, image.funcs[Top.f], In)
         /\ Pops(In) \in Nat /\ Pushes(In) \in {0, 1} /\ Pops(In) <= Depth
  <1>1. /\ Top.f \in DOMAIN image.funcs /\ Top.pc \in DOMAIN CodeIn(image, Top.f)
        /\ Depth \in Nat /\ Depth = DepthAt(image, Top.f, Top.pc)
    BY TopIs, Zenon DEF Activation
  <1>2. Checks(image)
    BY DEF MachineInv
  <1>3. In = CodeIn(image, Top.f)[Top.pc] /\ CodeIn(image, Top.f) = CodeOf(Top.f)
    BY DEF In, CodeOf, CodeIn
  <1>4. Leads(image, Top.f, Top.pc, In, Depth)
    <2>1. Leads(image, Top.f, Top.pc, CodeIn(image, Top.f)[Top.pc], DepthAt(image, Top.f, Top.pc))
      BY <1>1, <1>2, CheckedInstruction
    <2>2. QED
      BY <1>1, <1>3, <2>1
  <1>5. NamesWhatIs(image, image.funcs[Top.f], In) /\ Depth >= Pops(In)
    BY <1>4, Zenon DEF Leads
  <1>6. Pops(In) \in Nat /\ Pushes(In) \in {0, 1}
    BY <1>5, PopsNat
  <1>7. Pops(In) <= Depth
    BY <1>1, <1>5, <1>6
  <1>8. QED
    BY <1>1, <1>3, <1>4, <1>5, <1>6, <1>7

(* The values that it pops, and what is below them.                        *)
LEMMA ArgsAre ==
  ASSUME MachineInv, status = "running"
  PROVE  /\ \A i \in 1 .. Depth : Arg(i) \in Vals(heap)
         /\ Below \in Seq(Vals(heap)) /\ Len(Below) = Depth - Pops(In) /\ Len(Below) <= StackMax
  <1>1. Top.st \in Seq(Vals(heap)) /\ Depth <= StackMax
    BY TopIs DEF Activation, Depth
  <1>2. Pops(In) \in Nat /\ Pops(In) <= Depth /\ Depth \in Nat
    BY InIs, TopIs
  <1>3. \A i \in 1 .. Depth : Arg(i) \in Vals(heap)
    <2>1. SUFFICES ASSUME NEW i \in 1 .. Depth PROVE Arg(i) \in Vals(heap)
      OBVIOUS
    <2>2. Depth + 1 - i \in 1 .. Len(Top.st)
      BY <1>2 DEF Depth
    <2>3. QED
      BY <1>1, <2>2 DEF Arg
  <1>4. Below \in Seq(Vals(heap)) /\ Len(Below) = Depth - Pops(In)
    BY <1>1, <1>2 DEF Below, Depth
  <1>5. QED
    BY <1>1, <1>2, <1>3, <1>4, MachineAssumption

(* Two fields changed one after the other are one record changed.          *)
LEMMA TwoFields ==
  ASSUME NEW fs, NEW n \in DOMAIN fs, fs = [k \in DOMAIN fs |-> fs[k]],
         fs[n] = [f |-> fs[n].f, pc |-> fs[n].pc, st |-> fs[n].st, loc |-> fs[n].loc],
         NEW p, NEW st
  PROVE  Goes(fs, n, p, st) =
           Becomes(fs, n, [f |-> fs[n].f, pc |-> p, st |-> st, loc |-> fs[n].loc])
  <1> DEFINE D == DOMAIN fs
             f == fs[n].f
             s == fs[n].st
             l == fs[n].loc
             es == [fs EXCEPT ![n].pc = p]
             gs == [es EXCEPT ![n].st = st]
             hs == [fs EXCEPT ![n] = [f |-> f, pc |-> p, st |-> st, loc |-> l]]
  <1>1. es = [fs EXCEPT ![n] = [f |-> f, pc |-> p, st |-> s, loc |-> l]]
    <2>1. [fs[n] EXCEPT !.pc = p] = [f |-> f, pc |-> p, st |-> s, loc |-> l]
      OBVIOUS
    <2>2. es = [fs EXCEPT ![n] = [fs[n] EXCEPT !.pc = p]]
      OBVIOUS
    <2>3. QED
      BY <2>1, <2>2
  <1>2. /\ DOMAIN es = D /\ es = [k \in D |-> es[k]]
        /\ es[n] = [f |-> f, pc |-> p, st |-> s, loc |-> l]
        /\ \A k \in D : k # n => es[k] = fs[k]
    BY <1>1
  <1> HIDE DEF es
  <1>3. gs = [es EXCEPT ![n] = [f |-> f, pc |-> p, st |-> st, loc |-> l]]
    <2>1. [es[n] EXCEPT !.st = st] = [f |-> f, pc |-> p, st |-> st, loc |-> l]
      BY <1>2
    <2>2. gs = [es EXCEPT ![n] = [es[n] EXCEPT !.st = st]]
      OBVIOUS
    <2>3. QED
      BY <2>1, <2>2
  <1>4. gs = hs
    <2>1. gs = [k \in D |-> gs[k]] /\ hs = [k \in D |-> hs[k]]
      BY <1>2, <1>3
    <2>2. \A k \in D : gs[k] = hs[k]
      BY <1>2, <1>3
    <2>3. QED
      BY <2>1, <2>2, Zenon
  <1>5. QED
    BY <1>4 DEF es, Goes, Becomes

LEMMA TopGoes ==
  ASSUME MachineInv, status = "running", NEW p, NEW st
  PROVE  Goes(frames, Len(frames), p, st) =
           [frames EXCEPT ![Len(frames)] = [f |-> Top.f, pc |-> p, st |-> st, loc |-> Top.loc]]
  <1>1. /\ Len(frames) \in Nat \ {0}
        /\ Top = [f |-> Top.f, pc |-> Top.pc, st |-> Top.st, loc |-> Top.loc]
    BY TopIs
  <1>2. frames \in [1 .. Len(frames) -> Activations(heap, image)]
    BY DEF MachineInv, Framed
  <1>3. /\ Top = frames[Len(frames)]
        /\ frames[Len(frames)] = [f |-> frames[Len(frames)].f, pc |-> frames[Len(frames)].pc,
                                  st |-> frames[Len(frames)].st, loc |-> frames[Len(frames)].loc]
    BY <1>1 DEF Top
  <1>4. Len(frames) \in DOMAIN frames /\ frames = [k \in DOMAIN frames |-> frames[k]]
    BY <1>1, <1>2
  <1>5. Goes(frames, Len(frames), p, st) =
          Becomes(frames, Len(frames), [f |-> Top.f, pc |-> p, st |-> st, loc |-> Top.loc])
    BY <1>3, <1>4, TwoFields, Zenon
  <1>6. QED
    BY <1>5 DEF Becomes

(* The function that runs goes on at p with the stack st.                  *)
LEMMA GoesOn ==
  ASSUME MachineInv, status = "running", image' = image, DOMAIN heap \subseteq DOMAIN heap',
         NEW p, NEW st, Continue(p, st),
         p \in DOMAIN CodeOf(Top.f), st \in Seq(Vals(heap')), Len(st) <= StackMax,
         Len(st) = DepthAt(image, Top.f, p)
  PROVE  Framed(frames', heap', image) /\ frames' # <<>>
  <1> DEFINE r == [f |-> Top.f, pc |-> p, st |-> st, loc |-> Top.loc]
  <1>1. Activation(Top.f, Top.pc, Top.st, Top.loc, heap, image)
    BY TopIs
  <1>2. Framed(frames, heap', image) /\ frames # <<>>
    BY FramedStays DEF MachineInv
  <1>3. Top.loc \in [1 .. image.funcs[Top.f].nlocals -> Vals(heap')]
    BY <1>1, ValuesStay DEF Activation
  <1>4. Activation(Top.f, p, st, Top.loc, heap', image)
    BY <1>1, <1>3 DEF Activation, CodeOf, CodeIn
  <1>5. r \in Activations(heap', image)
    BY <1>4, ActivationMade
  <1>6. Deep(r, 0, image)
    <2>1. Len(st) \in Nat
      OBVIOUS
    <2>2. QED
      BY <2>1 DEF Deep
  <1>7. frames' = [frames EXCEPT ![Len(frames)] = r]
    <2>1. frames' = Goes(frames, Len(frames), p, st)
      BY DEF Continue, Goes
    <2>2. QED
      BY <2>1, TopGoes
  <1> HIDE DEF r
  <1>8. QED
    BY <1>2, <1>5, <1>6, <1>7, FramedGoesOn

(* The three ways most instructions end: with a result, as a fatal error,  *)
(* or going on without a result.                                           *)
LEMMA ResultKeepsInv ==
  ASSUME MachineInv, status = "running", image' = image,
         In.op \notin {"JMP", "RET"}, Pushes(In) = 1,
         NEW v \in Vals(heap), Result(v)
  PROVE  MachineInv'
  <1>1. CASE Len(Below) < StackMax
    <2>1. Continue(NextPc, Append(Below, v)) /\ heap' = heap /\ out' = out /\ status' = status
      BY <1>1 DEF Result
    <2>2. /\ Below \in Seq(Vals(heap)) /\ Len(Below) = Depth - Pops(In)
          /\ Depth \in Nat /\ Pops(In) \in Nat /\ Pops(In) <= Depth
      BY ArgsAre, InIs, TopIs
    <2>3. Append(Below, v) \in Seq(Vals(heap)) /\ Len(Append(Below, v)) = Depth - Pops(In) + 1
      BY <2>2
    <2>4. NextPc \in DOMAIN CodeOf(Top.f) /\ DepthAt(image, Top.f, NextPc) = Depth - Pops(In) + 1
      <3>1. Leads(image, Top.f, Top.pc, In, Depth)
        BY InIs
      <3>2. QED
        BY <3>1, Zenon DEF Leads, CodeIn, CodeOf, NextPc
    <2>5. Len(Append(Below, v)) <= StackMax
      BY <1>1, <2>2, <2>3, MachineAssumption
    <2>6. Framed(frames', heap', image) /\ frames' # <<>>
      BY <2>1, <2>3, <2>4, <2>5, GoesOn
    <2>7. QED
      BY <2>1, <2>6 DEF MachineInv
  <1>2. CASE ~ (Len(Below) < StackMax)
    BY <1>2 DEF Result, MachineInv
  <1>3. QED
    BY <1>1, <1>2

LEMMA DieKeepsInv ==
  ASSUME MachineInv, image' = image, Die
  PROVE  MachineInv'
  BY DEF MachineInv, Die

(* Going on without a result, with nothing else changed but the output.    *)
LEMMA DropsKeepInv ==
  ASSUME MachineInv, status = "running", image' = image, heap' = heap, status' = status,
         out' \in Seq(Int), NEW p, Continue(p, Below),
         p \in DOMAIN CodeOf(Top.f), DepthAt(image, Top.f, p) = Depth - Pops(In)
  PROVE  MachineInv'
  <1>1. Below \in Seq(Vals(heap)) /\ Len(Below) = Depth - Pops(In) /\ Len(Below) <= StackMax
    BY ArgsAre
  <1>2. Framed(frames', heap', image) /\ frames' # <<>>
    BY <1>1, GoesOn
  <1>3. QED
    BY <1>2 DEF MachineInv

(* Where an instruction that does not jump leads.                          *)
LEMMA NextIs ==
  ASSUME MachineInv, status = "running", In.op \notin {"JMP", "RET"}
  PROVE  /\ NextPc \in DOMAIN CodeOf(Top.f)
         /\ DepthAt(image, Top.f, NextPc) = Depth - Pops(In) + Pushes(In)
  <1>1. Leads(image, Top.f, Top.pc, In, Depth)
    BY InIs
  <1>2. QED
    BY <1>1, Zenon DEF Leads, CodeIn, CodeOf, NextPc

LEMMA JumpIs ==
  ASSUME MachineInv, status = "running", In.op \in {"JMP", "JZ"}
  PROVE  /\ NextPc + In.arg \in DOMAIN CodeOf(Top.f)
         /\ DepthAt(image, Top.f, NextPc + In.arg) = Depth - Pops(In) + Pushes(In)
  <1>1. Leads(image, Top.f, Top.pc, In, Depth)
    BY InIs
  <1>2. QED
    BY <1>1, Zenon DEF Leads, CodeIn, CodeOf, NextPc

(* The i-th value it pops.                                                 *)
LEMMA ArgIs ==
  ASSUME MachineInv, status = "running", NEW i \in 1 .. Pops(In)
  PROVE  /\ Arg(i) \in Vals(heap)
         /\ Arg(i).t \in {"int", "double", "ref"} /\ Arg(i).v \in Int
         /\ Arg(i).t = "ref" => Arg(i).v \in DOMAIN heap
         /\ AsD(Arg(i)) \in Int
  <1>1. i \in 1 .. Depth
    BY InIs, TopIs
  <1>2. Arg(i) \in Vals(heap)
    BY <1>1, ArgsAre
  <1>3. QED
    BY <1>2, ValueFields

(* An index or a length is an integer.                                     *)
LEMMA WholeIsInt ==
  ASSUME NEW h, NEW v \in Vals(h)
  PROVE  Whole(v) \in Int
  BY ValueFields, TruncIsInt DEF Whole

-----------------------------------------------------------------------------
(* The invariant holds at first and after each instruction.                *)
LEMMA MachineStarts ==
  ASSUME \A s \in Sources : Checks(Loaded(s)), MachineInit
  PROVE  MachineInv
  <1> DEFINE f == image.entry
             loc == [x \in 1 .. image.funcs[f].nlocals |-> IF x <= Len(<<>>) THEN <<>>[x] ELSE VInt(0)]
             r == [f |-> f, pc |-> 0, st |-> <<>>, loc |-> loc]
  <1>1. Checks(image) /\ frames = <<r>> /\ heap = <<>> /\ out = <<>> /\ status = "running"
    BY DEF MachineInit, Frame
  <1>2. f \in DOMAIN image.funcs /\ 0 \in DOMAIN CodeIn(image, f) /\ DepthAt(image, f, 0) = 0
    BY <1>1, CheckedImage, CheckedStart
  <1>3. image.funcs[f].nlocals \in Nat
    BY <1>1, <1>2, CheckedFunction
  <1>4. loc \in [1 .. image.funcs[f].nlocals -> Vals(heap)]
    <2>1. VInt(0) \in Vals(heap)
      BY NumbersAreValues
    <2>2. \A x \in 1 .. image.funcs[f].nlocals : ~ (x <= Len(<<>>))
      BY <1>3
    <2>3. QED
      BY <2>1, <2>2
  <1>5. r \in Activations(heap, image)
    <2>1. Activation(f, 0, <<>>, loc, heap, image)
      BY <1>2, <1>4, MachineAssumption DEF Activation
    <2>2. QED
      BY <2>1, ActivationMade
  <1>6. Deep(r, 0, image)
    BY <1>2 DEF Deep
  <1> HIDE DEF r
  <1>7. frames \in Seq(Activations(heap, image)) /\ Len(frames) = 1 /\ frames[1] = r
    BY <1>1, <1>5
  <1>8. Framed(frames, heap, image) /\ frames # <<>>
    BY <1>6, <1>7 DEF Framed
  <1>9. QED
    BY <1>1, <1>8 DEF MachineInv

(* Each instruction keeps the invariant.                                   *)
LEMMA LoadKeepsInv ==
  ASSUME MachineInv, Load
  PROVE  MachineInv'
  <1> DEFINE v == CASE In.op = "PUSHC" -> image.consts[In.arg + 1]
                    [] In.op = "PUSHI" -> VInt(In.arg)
                    [] In.op = "LOADL" -> Top.loc[In.arg]
  <1>1. /\ status = "running" /\ image' = image /\ In.op \in {"PUSHC", "PUSHI", "LOADL"}
        /\ Result(v)
    BY DEF Load, Executes
  <1>2. NamesWhatIs(image, image.funcs[Top.f], In)
    BY <1>1, InIs
  <1>3. v \in Vals(heap)
    <2>1. CASE In.op = "PUSHC"
      <3>1. image.consts \in Seq([t : {"int", "double"}, v : Int])
        BY CheckedImage DEF MachineInv
      <3>2. In.arg + 1 \in 1 .. Len(image.consts)
        BY <1>2, <2>1, <3>1 DEF NamesWhatIs
      <3>3. image.consts[In.arg + 1] \in [t : {"int", "double"}, v : Int]
        BY <3>1, <3>2, ElementOfSeq
      <3>4. QED
        BY <2>1, <3>3 DEF Vals
    <2>2. CASE In.op = "PUSHI"
      BY <1>2, <2>2, NumbersAreValues DEF NamesWhatIs
    <2>3. CASE In.op = "LOADL"
      <3>1. In.arg \in 1 .. image.funcs[Top.f].nlocals
        BY <1>2, <2>3 DEF NamesWhatIs
      <3>2. Top.loc \in [1 .. image.funcs[Top.f].nlocals -> Vals(heap)]
        BY <1>1, TopIs DEF Activation
      <3>3. QED
        BY <2>3, <3>1, <3>2
    <2>4. QED
      BY <1>1, <2>1, <2>2, <2>3
  <1> HIDE DEF v
  <1>4. Pushes(In) = 1 /\ In.op \notin {"JMP", "RET"}
    BY <1>1 DEF Pushes
  <1>5. QED
    BY <1>1, <1>3, <1>4, ResultKeepsInv

LEMMA BinaryKeepsInv ==
  ASSUME MachineInv, Binary
  PROVE  MachineInv'
  <1>1. status = "running" /\ image' = image /\ In.op \in Binaries
    BY DEF Binary, Executes
  <1>2. Pushes(In) = 1 /\ Pops(In) = 2 /\ In.op \notin {"JMP", "RET"}
    BY <1>1 DEF Pushes, Pops, Binaries, Comparisons
  <1>3. /\ Arg(2).v \in Int /\ Arg(1).v \in Int
        /\ AsD(Arg(2)) \in Int /\ AsD(Arg(1)) \in Int
    <2>1. 1 \in 1 .. Pops(In) /\ 2 \in 1 .. Pops(In)
      BY <1>2
    <2>2. QED
      BY <1>1, <2>1, ArgIs
  <1>4. \/ Die
        \/ ~ (In.op = "DIV" /\ Arg(1).v = 0) /\ Result(IntOp(In.op, Arg(2).v, Arg(1).v))
        \/ Result(DblOp(In.op, AsD(Arg(2)), AsD(Arg(1))))
    BY DEF Binary
  <1>5. CASE Die
    BY <1>1, <1>5, DieKeepsInv
  <1>6. CASE ~ (In.op = "DIV" /\ Arg(1).v = 0) /\ Result(IntOp(In.op, Arg(2).v, Arg(1).v))
    <2>1. IntOp(In.op, Arg(2).v, Arg(1).v) \in Vals(heap)
      BY <1>1, <1>3, <1>6, IntOpIsValue
    <2>2. QED
      BY <1>1, <1>2, <1>6, <2>1, ResultKeepsInv
  <1>7. CASE Result(DblOp(In.op, AsD(Arg(2)), AsD(Arg(1))))
    <2>1. DblOp(In.op, AsD(Arg(2)), AsD(Arg(1))) \in Vals(heap)
      BY <1>1, <1>3, DblOpIsValue
    <2>2. QED
      BY <1>1, <1>2, <1>7, <2>1, ResultKeepsInv
  <1>8. QED
    BY <1>4, <1>5, <1>6, <1>7

LEMMA UnaryKeepsInv ==
  ASSUME MachineInv, Unary
  PROVE  MachineInv'
  <1> DEFINE a == Arg(1)
             v == CASE In.op = "NEG" -> IF a.t = "int" THEN VInt(- a.v) ELSE VDbl(- a.v)
                    [] In.op = "I2D" -> VDbl(2 * a.v)
                    [] In.op = "D2I" -> VInt(IF a.t = "int" THEN 0 ELSE Trunc(a.v))
  <1>1. status = "running" /\ image' = image /\ In.op \in Unaries /\ Result(v)
    BY DEF Unary, Executes
  <1>2. Pushes(In) = 1 /\ Pops(In) = 1 /\ In.op \notin {"JMP", "RET"}
    BY <1>1 DEF Pushes, Pops, Unaries, Binaries, Comparisons
  <1>3. a.v \in Int
    <2>1. 1 \in 1 .. Pops(In)
      BY <1>2
    <2>2. QED
      BY <1>1, <2>1, ArgIs
  <1> HIDE DEF a
  <1>4. v \in Vals(heap)
    <2>1. Trunc(a.v) \in Int /\ - a.v \in Int /\ 2 * a.v \in Int
      BY <1>3, TruncIsInt
    <2>2. CASE In.op = "NEG"
      BY <2>1, <2>2, NumbersAreValues
    <2>3. CASE In.op = "I2D"
      BY <2>1, <2>3, NumbersAreValues
    <2>4. CASE In.op = "D2I"
      BY <2>1, <2>4, NumbersAreValues
    <2>5. QED
      BY <1>1, <2>2, <2>3, <2>4 DEF Unaries
  <1> HIDE DEF v
  <1>5. QED
    BY <1>1, <1>2, <1>4, ResultKeepsInv

LEMMA JumpKeepsInv ==
  ASSUME MachineInv, Jump
  PROVE  MachineInv'
  <1>1. /\ status = "running" /\ image' = image /\ In.op \in {"JMP", "JZ"}
        /\ heap' = heap /\ out' = out /\ status' = status
    BY DEF Jump, Executes
  <1>2. Pushes(In) = 0 /\ Depth - Pops(In) + Pushes(In) = Depth - Pops(In)
    <2>1. Pushes(In) = 0
      BY <1>1 DEF Pushes, Binaries, Comparisons, Unaries
    <2>2. QED
      BY <1>1, <2>1, InIs, TopIs
  <1>3. PICK p : Continue(p, Below) /\ (p = NextPc + In.arg \/ (In.op = "JZ" /\ p = NextPc))
    <2>1. CASE Continue(NextPc + In.arg, Below)
      BY <2>1, Zenon
    <2>2. CASE In.op = "JZ" /\ Continue(IF Truth(Arg(1)) THEN NextPc ELSE NextPc + In.arg, Below)
      <3>1. CASE Truth(Arg(1))
        BY <2>2, <3>1, Zenon
      <3>2. CASE ~ Truth(Arg(1))
        BY <2>2, <3>2, Zenon
      <3>3. QED
        BY <3>1, <3>2
    <2>3. QED
      BY <2>1, <2>2 DEF Jump, Executes
  <1>4. p \in DOMAIN CodeOf(Top.f) /\ DepthAt(image, Top.f, p) = Depth - Pops(In)
    BY <1>1, <1>2, <1>3, NextIs, JumpIs
  <1>5. out' \in Seq(Int)
    BY <1>1 DEF MachineInv
  <1>6. QED
    BY <1>1, <1>3, <1>4, <1>5, DropsKeepInv

LEMMA PrintKeepsInv ==
  ASSUME MachineInv, PrintTop
  PROVE  MachineInv'
  <1>1. /\ status = "running" /\ image' = image /\ In.op = "PRINT" /\ heap' = heap /\ status' = status
        /\ out' = Append(out, AsD(Arg(1))) /\ Continue(NextPc, Below)
    BY DEF PrintTop, Executes
  <1>2. Pops(In) = 1 /\ Pushes(In) = 0
    BY <1>1 DEF Pops, Pushes, Binaries, Comparisons, Unaries
  <1>3. AsD(Arg(1)) \in Int
    <2>1. 1 \in 1 .. Pops(In)
      BY <1>2
    <2>2. QED
      BY <1>1, <2>1, ArgIs
  <1>4. out' \in Seq(Int)
    BY <1>1, <1>3 DEF MachineInv
  <1>5. NextPc \in DOMAIN CodeOf(Top.f) /\ DepthAt(image, Top.f, NextPc) = Depth - Pops(In)
    BY <1>1, <1>2, NextIs, TopIs
  <1>6. QED
    BY <1>1, <1>4, <1>5, DropsKeepInv

LEMMA PopKeepsInv ==
  ASSUME MachineInv, Pop
  PROVE  MachineInv'
  <1>1. /\ status = "running" /\ image' = image /\ In.op = "POP" /\ heap' = heap /\ status' = status
        /\ out' = out /\ Continue(NextPc, Below)
    BY DEF Pop, Executes
  <1>2. Pops(In) = 1 /\ Pushes(In) = 0
    BY <1>1 DEF Pops, Pushes, Binaries, Comparisons, Unaries
  <1>3. out' \in Seq(Int)
    BY <1>1 DEF MachineInv
  <1>4. NextPc \in DOMAIN CodeOf(Top.f) /\ DepthAt(image, Top.f, NextPc) = Depth - Pops(In)
    BY <1>1, <1>2, NextIs, TopIs
  <1>5. QED
    BY <1>1, <1>3, <1>4, DropsKeepInv

LEMMA StoreKeepsInv ==
  ASSUME MachineInv, Store
  PROVE  MachineInv'
  <1> DEFINE loc == [Top.loc EXCEPT ![In.arg] = Arg(1)]
             r == [f |-> Top.f, pc |-> NextPc, st |-> Below, loc |-> loc]
  <1>1. /\ status = "running" /\ image' = image /\ In.op = "STOREL" /\ heap' = heap /\ status' = status
        /\ out' = out
        /\ frames' = [frames EXCEPT ![Len(frames)] = r]
    BY DEF Store, Executes
  <1>2. Pops(In) = 1 /\ Pushes(In) = 0
    BY <1>1 DEF Pops, Pushes, Binaries, Comparisons, Unaries
  <1>3. Arg(1) \in Vals(heap)
    <2>1. 1 \in 1 .. Pops(In)
      BY <1>2
    <2>2. QED
      BY <1>1, <2>1, ArgIs
  <1>4. /\ NextPc \in DOMAIN CodeOf(Top.f) /\ DepthAt(image, Top.f, NextPc) = Len(Below)
        /\ Below \in Seq(Vals(heap)) /\ Len(Below) <= StackMax /\ Len(Below) \in Nat
    BY <1>1, <1>2, NextIs, TopIs, ArgsAre
  <1>5. /\ Top.f \in DOMAIN image.funcs
        /\ Top.loc \in [1 .. image.funcs[Top.f].nlocals -> Vals(heap)]
    BY <1>1, TopIs DEF Activation
  <1>6. loc \in [1 .. image.funcs[Top.f].nlocals -> Vals(heap)]
    BY <1>3, <1>5
  <1>7. Activation(Top.f, NextPc, Below, loc, heap, image)
    BY <1>4, <1>5, <1>6 DEF Activation, CodeOf, CodeIn
  <1> HIDE DEF loc
  <1>8. r \in Activations(heap, image)
    BY <1>7, ActivationMade
  <1>9. Deep(r, 0, image)
    BY <1>4 DEF Deep
  <1> HIDE DEF r
  <1>10. Framed(frames', heap', image) /\ frames' # <<>>
    <2>1. Framed(frames, heap, image) /\ frames # <<>>
      BY <1>1 DEF MachineInv
    <2>2. frames' = [frames EXCEPT ![Len(frames)] = r]
      BY <1>1
    <2>3. /\ Framed([frames EXCEPT ![Len(frames)] = r], heap, image)
          /\ [frames EXCEPT ![Len(frames)] = r] # <<>>
      BY <1>8, <1>9, <2>1, FramedGoesOn
    <2>4. heap' = heap
      BY <1>1
    <2>5. QED
      BY <2>2, <2>3, <2>4, Zenon
  <1>11. QED
    BY <1>1, <1>10 DEF MachineInv

LEMMA CallKeepsInv ==
  ASSUME MachineInv, Call
  PROVE  MachineInv'
  <1> DEFINE n == In.argc
             g == In.arg
             loc == [x \in 1 .. image.funcs[g].nlocals |->
                       IF x <= Len(Popped(n)) THEN Popped(n)[x] ELSE VInt(0)]
             r == [f |-> Top.f, pc |-> NextPc, st |-> Below, loc |-> Top.loc]
             q == [f |-> g, pc |-> 0, st |-> <<>>, loc |-> loc]
  <1>1. /\ status = "running" /\ image' = image /\ In.op = "CALL" /\ heap' = heap /\ status' = status
        /\ out' = out
        /\ frames' = Append(Goes(frames, Len(frames), NextPc, Below), q)
    BY DEF Call, Executes, Goes, Frame
  <1>2. NamesWhatIs(image, image.funcs[Top.f], In) /\ Pops(In) <= Depth
    BY <1>1, InIs
  <1>3. Pops(In) = n /\ Pushes(In) = 1 /\ n \in Nat /\ g \in DOMAIN image.funcs
    BY <1>1, <1>2 DEF Pops, Pushes, Binaries, Comparisons, Unaries, NamesWhatIs
  <1>4. /\ NextPc \in DOMAIN CodeOf(Top.f) /\ DepthAt(image, Top.f, NextPc) = Len(Below) + 1
        /\ Below \in Seq(Vals(heap)) /\ Len(Below) <= StackMax /\ Len(Below) \in Nat
    BY <1>1, <1>3, NextIs, TopIs, ArgsAre
  <1>5. r \in Activations(heap, image)
    <2>1. Activation(Top.f, Top.pc, Top.st, Top.loc, heap, image)
      BY <1>1, TopIs
    <2>2. Activation(Top.f, NextPc, Below, Top.loc, heap, image)
      BY <1>4, <2>1 DEF Activation, CodeOf, CodeIn
    <2>3. QED
      BY <2>2, ActivationMade
  <1>6. Deep(r, 1, image)
    BY <1>4 DEF Deep
  <1>7. loc \in [1 .. image.funcs[g].nlocals -> Vals(heap)]
    <2>1. Popped(n) \in [1 .. n -> Vals(heap)] /\ Len(Popped(n)) = n
      <3>1. \A i \in 1 .. n : n + 1 - i \in 1 .. Pops(In)
        BY <1>3
      <3>2. \A i \in 1 .. n : Arg(n + 1 - i) \in Vals(heap)
        BY <1>1, <3>1, ArgIs
      <3>3. QED
        BY <1>3, <3>2 DEF Popped
    <2>2. VInt(0) \in Vals(heap)
      BY NumbersAreValues
    <2>3. image.funcs[g].nlocals \in Nat
      BY <1>3, CheckedFunction DEF MachineInv
    <2> HIDE DEF n, g
    <2>4. QED
      BY <2>1, <2>2, <2>3, <1>3
  <1>8. q \in Activations(heap, image) /\ Deep(q, 0, image)
    <2>1. 0 \in DOMAIN CodeIn(image, g) /\ DepthAt(image, g, 0) = 0
      BY <1>3, CheckedStart DEF MachineInv
    <2> HIDE DEF loc
    <2>2. Activation(g, 0, <<>>, loc, heap, image)
      BY <1>3, <1>7, <2>1, MachineAssumption DEF Activation
    <2>3. q \in Activations(heap, image)
      BY <2>2, ActivationMade
    <2>4. QED
      BY <2>1, <2>3 DEF Deep
  <1>9. Goes(frames, Len(frames), NextPc, Below) = [frames EXCEPT ![Len(frames)] = r]
    BY <1>1, TopGoes
  <1> HIDE DEF r, q
  <1>10. Framed(frames', heap', image) /\ frames' # <<>>
    <2>1. Framed(frames, heap, image) /\ frames # <<>>
      BY <1>1 DEF MachineInv
    <2>2. frames' = Append([frames EXCEPT ![Len(frames)] = r], q)
      BY <1>1, <1>9
    <2>3. QED
      BY <1>1, <1>5, <1>6, <1>8, <2>1, <2>2, FramedCalls
  <1>11. QED
    BY <1>1, <1>10 DEF MachineInv

LEMMA ReturnKeepsInv ==
  ASSUME MachineInv, Return
  PROVE  MachineInv'
  <1> DEFINE n == Len(frames) - 1
             b == frames[n]
             r == [f |-> b.f, pc |-> b.pc, st |-> Append(b.st, Arg(1)), loc |-> b.loc]
  <1>1. /\ status = "running" /\ image' = image /\ In.op = "RET" /\ heap' = heap /\ out' = out
        /\ \/ frames' = <<>> /\ status' = "done"
           \/ /\ n # 0 /\ Len(frames[n].st) < StackMax /\ status' = status
              /\ frames' = [SubSeq(frames, 1, n) EXCEPT ![n].st = Append(@, Arg(1))]
           \/ status' = "overflow" /\ frames' = frames
    BY DEF Return, Executes
  <1>2. Framed(frames, heap, image) /\ frames # <<>>
    BY <1>1 DEF MachineInv
  <1>3. CASE frames' = <<>> /\ status' = "done"
    <2>1. Framed(<<>>, heap, image)
      BY DEF Framed
    <2>2. QED
      BY <1>1, <1>3, <2>1 DEF MachineInv
  <1>4. CASE status' = "overflow" /\ frames' = frames
    BY <1>1, <1>4 DEF MachineInv
  <1>5. CASE /\ n # 0 /\ Len(frames[n].st) < StackMax /\ status' = status
             /\ frames' = [SubSeq(frames, 1, n) EXCEPT ![n].st = Append(@, Arg(1))]
    <2>1. Arg(1) \in Vals(heap)
      <3>1. Pops(In) = 1
        BY <1>1 DEF Pops, Binaries, Comparisons
      <3>2. 1 \in 1 .. Pops(In)
        BY <3>1
      <3>3. QED
        BY <1>1, <3>2, ArgIs
    <2>2. /\ Len(frames) \in Nat \ {0} /\ n \in 1 .. Len(frames) /\ n # Len(frames)
          /\ n = Len(frames) - 1
          /\ frames \in [1 .. Len(frames) -> Activations(heap, image)]
      <3>1. Len(frames) \in Nat \ {0}
        BY <1>2, FramedTop
      <3>2. frames \in [1 .. Len(frames) -> Activations(heap, image)]
        BY <1>2 DEF Framed
      <3>3. Len(frames) - 1 # 0
        BY <1>5, Zenon
      <3>4. n \in 1 .. Len(frames) /\ n # Len(frames)
        <4>1. ASSUME NEW N \in Nat \ {0}, N - 1 # 0
              PROVE  N - 1 \in 1 .. N /\ N - 1 # N
          BY <4>1
        <4>2. QED
          BY <3>1, <3>3, <4>1, Zenon
      <3>5. QED
        BY <3>1, <3>2, <3>4
    <2>3. b \in Activations(heap, image) /\ Deep(b, 1, image)
      <3>1. Deep(frames[n], IF n = Len(frames) THEN 0 ELSE 1, image)
        BY <1>2, <2>2, Zenon DEF Framed
      <3>2. QED
        BY <2>2, <3>1
    <2>4. /\ b = [f |-> b.f, pc |-> b.pc, st |-> b.st, loc |-> b.loc]
          /\ Activation(b.f, b.pc, b.st, b.loc, heap, image)
      BY <2>3, ActivationsAre DEF IsActivation
    <2> HIDE DEF b
    <2>5. /\ b.st \in Seq(Vals(heap)) /\ Append(b.st, Arg(1)) \in Seq(Vals(heap))
          /\ Len(b.st) \in Nat /\ Len(Append(b.st, Arg(1))) = Len(b.st) + 1
      BY <2>1, <2>4 DEF Activation
    <2>6. Len(b.st) < StackMax
      BY <1>5 DEF b
    <2>7. r \in Activations(heap, image)
      <3>1. Activation(b.f, b.pc, Append(b.st, Arg(1)), b.loc, heap, image)
        BY <2>4, <2>5, <2>6, MachineAssumption DEF Activation
      <3>2. QED
        BY <3>1, ActivationMade
    <2>8. Deep(r, 0, image)
      BY <2>3, <2>5 DEF Deep
    <2>9. frames' = Becomes(SubSeq(frames, 1, n), n, r)
      <3> DEFINE es == SubSeq(frames, 1, n)
      <3>1. es = [k \in 1 .. n |-> es[k]] /\ DOMAIN es = 1 .. n /\ es[n] = b /\ n \in 1 .. n
        <4>0. frames \in Seq(Activations(heap, image))
          BY <1>2 DEF Framed
        <4> HIDE DEF n
        <4>1. frames \in Seq(Activations(heap, image)) /\ n \in Nat /\ n <= Len(frames) /\ n \in 1 .. n
          <5>1. ASSUME NEW N \in Nat \ {0}, NEW k \in 1 .. N
                PROVE  k \in Nat /\ k <= N /\ k \in 1 .. k
            OBVIOUS
          <5>2. QED
            BY <4>0, <2>2, <5>1, Zenon
        <4>2. es = [k \in 1 .. n |-> frames[k]]
          BY <4>1
        <4>3. QED
          BY <4>1, <4>2 DEF b
      <3>2. frames' = [es EXCEPT ![n].st = Append(@, Arg(1))]
        BY <1>5
      <3> HIDE DEF es, r
      <3>3. frames' = [es EXCEPT ![n] = [es[n] EXCEPT !.st = Append(@, Arg(1))]]
        BY <3>2
      <3>4. [b EXCEPT !.st = Append(b.st, Arg(1))] = r
        BY <2>4 DEF r
      <3>5. frames' = [es EXCEPT ![n] = r]
        BY <3>1, <3>3, <3>4
      <3>6. QED
        BY <3>5 DEF es, Becomes
    <2>10. n # 0
      BY <1>5, Zenon
    <2> HIDE DEF r, n
    <2>11. /\ Framed(Becomes(SubSeq(frames, 1, n), n, r), heap, image)
           /\ Becomes(SubSeq(frames, 1, n), n, r) # <<>>
      BY <1>2, <2>2, <2>7, <2>8, <2>10, FramedReturns, Zenon
    <2>12. Framed(frames', heap', image) /\ frames' # <<>>
      BY <1>1, <2>9, <2>11
    <2>13. QED
      BY <1>1, <1>5, <2>12 DEF MachineInv
  <1>6. QED
    BY <1>1, <1>3, <1>4, <1>5

LEMMA NewArrayKeepsInv ==
  ASSUME MachineInv, NewArray
  PROVE  MachineInv'
  <1> DEFINE k == Whole(Arg(1))
             a == [i \in 1 .. k |-> VInt(0)]
             v == VRef(Len(heap) + 1)
  <1>1. /\ status = "running" /\ image' = image /\ In.op = "NEWARR"
        /\ \/ Die
           \/ /\ ~ (k < 0) /\ heap' = Append(heap, a) /\ Continue(NextPc, Append(Below, v))
              /\ out' = out /\ status' = status
    BY DEF NewArray, Executes
  <1>2. Pops(In) = 1 /\ Pushes(In) = 1
    BY <1>1 DEF Pops, Pushes, Binaries, Comparisons
  <1>3. CASE Die
    BY <1>1, <1>3, DieKeepsInv
  <1>4. CASE /\ ~ (k < 0) /\ heap' = Append(heap, a) /\ Continue(NextPc, Append(Below, v))
             /\ out' = out /\ status' = status
    <2>1. k \in Nat
      <3>1. 1 \in 1 .. Pops(In)
        BY <1>2
      <3>2. k \in Int
        BY <1>1, <3>1, ArgIs, WholeIsInt
      <3>3. QED
        BY <1>4, <3>2
    <2>2. /\ heap \in Seq(Seq(Vals(heap))) /\ Len(heap) \in Nat
          /\ DOMAIN heap = 1 .. Len(heap)
      BY DEF MachineInv
    <2>3. Len(heap') = Len(heap) + 1 /\ DOMAIN heap' = 1 .. Len(heap) + 1
      BY <1>4, <2>2
    <2>4. DOMAIN heap \subseteq DOMAIN heap' /\ v \in Vals(heap')
      BY <2>2, <2>3 DEF Vals, VRef
    <2>5. Vals(heap) \subseteq Vals(heap')
      BY <2>4, ValuesStay
    <2>6. heap' \in Seq(Seq(Vals(heap')))
      <3> HIDE DEF k
      <3>1. a \in Seq(Vals(heap'))
        BY <2>1, NumbersAreValues
      <3>2. Seq(Vals(heap)) \subseteq Seq(Vals(heap'))
        BY <2>5, SequencesStay
      <3>3. heap \in Seq(Seq(Vals(heap')))
        BY <2>2, <3>2, SequencesStay
      <3> HIDE DEF a
      <3>4. QED
        BY <1>4, <3>1, <3>3
    <2> HIDE DEF v
    <2>7. Below \in Seq(Vals(heap)) /\ Len(Below) = Depth - 1 /\ Depth \in Nat /\ Depth <= StackMax
      BY <1>1, <1>2, ArgsAre, TopIs DEF Activation, Depth
    <2>8. /\ Append(Below, v) \in Seq(Vals(heap')) /\ Len(Append(Below, v)) = Depth
      <3>1. Below \in Seq(Vals(heap'))
        BY <2>5, <2>7, SequencesStay
      <3>2. QED
        BY <2>4, <2>7, <3>1
    <2>9. NextPc \in DOMAIN CodeOf(Top.f) /\ DepthAt(image, Top.f, NextPc) = Depth
      BY <1>1, <1>2, <2>7, NextIs
    <2>10. Len(Append(Below, v)) <= StackMax /\ Len(Append(Below, v)) = DepthAt(image, Top.f, NextPc)
      BY <2>7, <2>8, <2>9
    <2>11. Framed(frames', heap', image) /\ frames' # <<>>
      BY <1>1, <1>4, <2>4, <2>8, <2>9, <2>10, GoesOn
    <2>12. QED
      BY <1>1, <1>4, <2>6, <2>11 DEF MachineInv
  <1>5. QED
    BY <1>1, <1>3, <1>4

(* Has finds the element in an array that exists.                          *)
LEMMA ElementIs ==
  ASSUME MachineInv, NEW r \in Vals(heap), NEW i \in Vals(heap), Has(r, i)
  PROVE  /\ r.v \in DOMAIN heap /\ heap[r.v] \in Seq(Vals(heap))
         /\ Whole(i) + 1 \in 1 .. Len(heap[r.v])
  <1>1. r.v \in DOMAIN heap
    BY ValueFields DEF Has
  <1>2. heap[r.v] \in Seq(Vals(heap))
    <2>1. heap \in Seq(Seq(Vals(heap)))
      BY DEF MachineInv
    <2>2. QED
      BY <1>1, <2>1
  <1>3. Whole(i) \in Int /\ Whole(i) >= 0 /\ Whole(i) < Len(heap[r.v])
    BY WholeIsInt DEF Has
  <1>4. Len(heap[r.v]) \in Nat
    BY <1>2
  <1>5. QED
    BY <1>1, <1>2, <1>3, <1>4

LEMMA LoadElementKeepsInv ==
  ASSUME MachineInv, LoadElement
  PROVE  MachineInv'
  <1> DEFINE e == heap[Arg(2).v][Whole(Arg(1)) + 1]
  <1>1. /\ status = "running" /\ image' = image /\ In.op = "ALOAD"
        /\ Die \/ (Has(Arg(2), Arg(1)) /\ Result(e))
    BY DEF LoadElement, Executes
  <1>2. Pops(In) = 2 /\ Pushes(In) = 1
    BY <1>1 DEF Pops, Pushes, Binaries, Comparisons
  <1>3. Arg(1) \in Vals(heap) /\ Arg(2) \in Vals(heap)
    <2>1. 1 \in 1 .. Pops(In) /\ 2 \in 1 .. Pops(In)
      BY <1>2
    <2>2. QED
      BY <1>1, <2>1, ArgIs
  <1>4. CASE Die
    BY <1>1, <1>4, DieKeepsInv
  <1>5. CASE Has(Arg(2), Arg(1)) /\ Result(e)
    <2>1. heap[Arg(2).v] \in Seq(Vals(heap)) /\ Whole(Arg(1)) + 1 \in 1 .. Len(heap[Arg(2).v])
      BY <1>3, <1>5, ElementIs
    <2>2. e \in Vals(heap)
      BY <2>1, ElementOfSeq
    <2> HIDE DEF e
    <2>3. QED
      BY <1>1, <1>2, <1>5, <2>2, ResultKeepsInv
  <1>6. QED
    BY <1>1, <1>4, <1>5

LEMMA StoreElementKeepsInv ==
  ASSUME MachineInv, StoreElement
  PROVE  MachineInv'
  <1> DEFINE r == Arg(3).v
             k == Whole(Arg(2)) + 1
             a == [heap[r] EXCEPT ![k] = Arg(1)]
  <1>1. /\ status = "running" /\ image' = image /\ In.op = "ASTORE"
        /\ \/ Die
           \/ /\ Has(Arg(3), Arg(2)) /\ heap' = [heap EXCEPT ![r] = a]
              /\ Continue(NextPc, Below) /\ out' = out /\ status' = status
    BY DEF StoreElement, Executes
  <1>2. Pops(In) = 3 /\ Pushes(In) = 0
    BY <1>1 DEF Pops, Pushes, Binaries, Comparisons, Unaries
  <1>3. Arg(1) \in Vals(heap) /\ Arg(2) \in Vals(heap) /\ Arg(3) \in Vals(heap)
    <2>1. 1 \in 1 .. Pops(In) /\ 2 \in 1 .. Pops(In) /\ 3 \in 1 .. Pops(In)
      BY <1>2
    <2>2. QED
      BY <1>1, <2>1, ArgIs
  <1>4. CASE Die
    BY <1>1, <1>4, DieKeepsInv
  <1>5. CASE /\ Has(Arg(3), Arg(2)) /\ heap' = [heap EXCEPT ![r] = a]
             /\ Continue(NextPc, Below) /\ out' = out /\ status' = status
    <2>1. /\ r \in DOMAIN heap /\ heap[r] \in Seq(Vals(heap))
          /\ k \in 1 .. Len(heap[r])
      BY <1>3, <1>5, ElementIs
    <2>2. a \in Seq(Vals(heap))
      BY <1>3, <2>1, ExceptSeq
    <2>3. heap \in Seq(Seq(Vals(heap))) /\ r \in 1 .. Len(heap)
      BY <2>1 DEF MachineInv
    <2> HIDE DEF r, k, a
    <2>4. heap' \in Seq(Seq(Vals(heap))) /\ DOMAIN heap' = DOMAIN heap
      <3>1. /\ [heap EXCEPT ![r] = a] \in Seq(Seq(Vals(heap)))
            /\ DOMAIN [heap EXCEPT ![r] = a] = DOMAIN heap
        BY <2>2, <2>3, ExceptSeq
      <3>2. QED
        BY <1>5, <3>1
    <2>5. Vals(heap') = Vals(heap)
      BY <2>4 DEF Vals
    <2>6. heap' \in Seq(Seq(Vals(heap')))
      BY <2>4, <2>5
    <2>7. /\ NextPc \in DOMAIN CodeOf(Top.f) /\ DepthAt(image, Top.f, NextPc) = Len(Below)
          /\ Below \in Seq(Vals(heap')) /\ Len(Below) <= StackMax
      BY <1>1, <1>2, <2>5, NextIs, TopIs, ArgsAre
    <2>8. Framed(frames', heap', image) /\ frames' # <<>>
      BY <1>1, <1>5, <2>4, <2>7, GoesOn
    <2>9. QED
      BY <1>1, <1>5, <2>6, <2>8 DEF MachineInv
  <1>6. QED
    BY <1>1, <1>4, <1>5

(* All of them do, and so does standing still.                             *)
LEMMA InstructionKeepsInv ==
  ASSUME MachineInv, Instruction
  PROVE  MachineInv'
  BY LoadKeepsInv, StoreKeepsInv, BinaryKeepsInv, UnaryKeepsInv, JumpKeepsInv, CallKeepsInv,
     ReturnKeepsInv, NewArrayKeepsInv, LoadElementKeepsInv, StoreElementKeepsInv,
     PrintKeepsInv, PopKeepsInv, Zenon
     DEF Instruction

LEMMA MachineStays ==
  ASSUME MachineInv, UNCHANGED machine
  PROVE  MachineInv'
  BY DEF MachineInv, machine

LEMMA MachineInvariance ==
  ASSUME \A s \in Sources : Checks(Loaded(s))
  PROVE  MachineSpec => []MachineInv
  <1>1. MachineInit => MachineInv
    BY MachineStarts
  <1>2. MachineInv /\ [MachineNext]_machine => MachineInv'
    BY InstructionKeepsInv, MachineStays DEF MachineNext, Stopped
  <1>3. QED
    BY <1>1, <1>2, PTL DEF MachineSpec

-----------------------------------------------------------------------------
(* What follows from it.                                                   *)
(* The invariant says more than CanGoOn, Balanced and MachineTypeOK do.    *)
LEMMA MachineGoesOn ==
  ASSUME MachineInv, status = "running"
  PROVE  CanGoOn /\ Balanced
  <1>1. /\ Depth \in Nat /\ Depth <= StackMax
        /\ frames # <<>>
    BY TopIs DEF MachineInv, Activation, Depth
  <1>2. /\ Top.pc \in DOMAIN CodeOf(Top.f) /\ NamesWhatIs(image, image.funcs[Top.f], In)
        /\ Pops(In) \in Nat /\ Pops(In) <= Depth /\ Leads(image, Top.f, Top.pc, In, Depth)
    BY InIs
  <1>3. ASSUME In.op \in {"ALOAD", "ASTORE"}
        PROVE  Arg(Pops(In)).t = "ref" => Arg(Pops(In)).v \in DOMAIN heap
    <2>1. Pops(In) \in 1 .. Pops(In)
      BY <1>3 DEF Pops, Binaries, Comparisons
    <2>2. QED
      BY <2>1, ArgIs
  <1>4. CanGoOn
    BY <1>1, <1>2, <1>3 DEF CanGoOn
  <1>5. Balanced
    BY <1>2, Zenon DEF Balanced, Leads
  <1>6. QED
    BY <1>4, <1>5

LEMMA MachineTyped ==
  ASSUME MachineInv
  PROVE  MachineTypeOK
  <1>1. Values3 = Vals(heap)
    BY DEF Values3, Vals
  <1>2. ASSUME NEW i \in DOMAIN frames
        PROVE  IsActivation(frames[i], heap, image)
    <2>1. frames \in [1 .. Len(frames) -> Activations(heap, image)]
      BY DEF MachineInv, Framed
    <2>2. frames[i] \in Activations(heap, image)
      BY <2>1
    <2>3. QED
      BY <2>2, ActivationsAre
  <1>3. QED
    BY <1>1, <1>2 DEF MachineInv, MachineTypeOK, IsActivation, Activation, CodeOf, CodeIn

(* run_func on code that checks out (svm.c:144-237): wherever it is there  *)
(* is an instruction, it finds the values it pops, what it names exists,   *)
(* and a statement finds and leaves its function's stack empty, for every  *)
(* set of programs and every size of stack.                                *)
THEOREM CheckedCodeGoesOn ==
  ASSUME \A s \in Sources : Checks(Loaded(s))
  PROVE  MachineSpec => []Runnable
  <1>1. MachineInv => Runnable
    BY MachineGoesOn DEF MachineInv, Runnable
  <1>2. QED
    BY <1>1, MachineInvariance, PTL

(* On such code a stack never outgrows its room, and every reference, be   *)
(* it in a stack, a local or an array, is to an array that exists          *)
(* (svm.c:144-237).                                                        *)
THEOREM MachineTypeCorrect ==
  ASSUME \A s \in Sources : Checks(Loaded(s))
  PROVE  MachineSpec => []MachineTypeOK
  BY MachineTyped, MachineInvariance, PTL
=============================================================================
