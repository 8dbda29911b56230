----------------------------- MODULE TokenCursor -----------------------------
(***************************************************************************)
(* Which memory the compiler's front end reads, and whether it is still    *)
(* there (COMPILER_HW/src/lexer.c and parser.c).  The lexer appends tokens *)
(* to an array that moves when it grows; prescan and the parser hold       *)
(* pointers into it.  Names are strings that belong to a lexer and die     *)
(* with it, unless they have been copied.                                  *)
(*                                                                         *)
(* A pointer is the array it points into; which token it is does not       *)
(* matter here.  What a token is (its kind decides the way through prescan *)
(* and the parser) is left open, except for the end of the source.         *)
(***************************************************************************)
EXTENDS Integers

CONSTANTS
  InitCap,   (* capacity of a fresh token array (256 in the source)        *)
  MaxToks    (* bound: tokens one lexer produces, repeated ends included   *)

ASSUME TokenCursorAssumption ==
  /\ InitCap \in Nat /\ InitCap >= 2
  /\ MaxToks \in Nat /\ MaxToks >= 2

VARIABLES
  phase,     (* "prescan", "parse", "codegen", "failed"                    *)
  at,        (* where prescan is, or the parser                            *)
  array,     (* the token array: a number, another one when it has moved   *)
  cap, ntok, (* its capacity and length                                    *)
  ended,     (* the lexer has reached the end of the source                *)
  ptr,       (* the pointers held, by the name of the C variable           *)
  fname,     (* prescan's fname: who owns the string                       *)
  sigs,      (* owners of the names in P->sigs                             *)
  funcs,     (* owners of the names of the functions parsed                *)
  gone       (* history: what has been read after its memory was gone      *)

lexer == <<array, cap, ntok, ended>>
names == <<fname, sigs, funcs>>
vars  == <<phase, at, lexer, ptr, names, gone>>

Vars   == {"t", "nm", "lp", "p", "pn", "cur", "peek"}
Owners == {"scanner", "parser", "copy"}

None == 0

Address == [array : Nat, eof : BOOLEAN]

(* A token can be read while the array it is in is the lexer's array.      *)
Live(x) == ptr[x].array = array

(* A lexer's strings last as long as the lexer; a copy until it is freed.  *)
Alive(owner) ==
  \/ owner = "copy"
  \/ owner = "scanner" /\ phase = "prescan"
  \/ owner = "parser" /\ phase = "parse"

(* Reading tokens through the variables X, and strings that belong to S.   *)
Read(X, S) ==
  gone' = gone \cup {x \in X : ~ Live(x)} \cup {s \in S : ~ Alive(s)}

(* The token read through x may be the end of the source, or another one;  *)
(* a token that is gone can look like anything.                            *)
SeesEnd(x)   == Live(x) => ptr[x].eof
SeesToken(x) == Live(x) => ~ ptr[x].eof

(* lexer_init: arrays are numbered afresh, none twice.                     *)
FreshLexer ==
  /\ array' = array + 1
  /\ cap' = InitCap
  /\ ntok' = 0
  /\ ended' = FALSE

Init ==
  /\ phase = "prescan" /\ at = "start"
  /\ array = 1 /\ cap = InitCap /\ ntok = 0 /\ ended = FALSE
  /\ ptr = [x \in Vars |-> [array |-> None, eof |-> FALSE]]
  /\ fname = "copy" /\ sigs = {} /\ funcs = {}
  /\ gone = {}

-----------------------------------------------------------------------------
(* push_tok: a full array is reallocated, and may move; lexer_next: past   *)
(* the end every token is T_EOF, and a stray character gives one before.   *)
Push ==
  /\ ntok < MaxToks
  /\ ntok' = ntok + 1
  /\ IF ntok = cap
     THEN cap' = 2 * cap /\ array' \in {array, array + 1}
     ELSE UNCHANGED <<cap, array>>

Lexes(end) ==
  /\ Push
  /\ ended' \in (IF ended THEN {TRUE} ELSE BOOLEAN)
  /\ IF ended' THEN end = TRUE ELSE end \in BOOLEAN

(* The next token, held in x.                                              *)
Fetch(x) ==
  \E end \in BOOLEAN :
    /\ Lexes(end)
    /\ ptr' = [ptr EXCEPT ![x] = [array |-> array', eof |-> end]]

-----------------------------------------------------------------------------
(* prescan: one pass with its own lexer.  Each step reads the token it     *)
(* looks at and fetches the next one.                                      *)

Scan(here, there) ==
  /\ phase = "prescan" /\ at = here /\ at' = there
  /\ UNCHANGED <<phase, funcs>>

ScanStart ==
  Scan("start", "type") /\ Fetch("t") /\ UNCHANGED <<fname, sigs, gone>>

(* Not a type keyword: on to the next token.                               *)
ScanSkip ==
  /\ Scan("type", "type") /\ SeesToken("t") /\ Read({"t"}, {})
  /\ Fetch("t")
  /\ UNCHANGED <<fname, sigs>>

ScanType ==
  /\ Scan("type", "name") /\ SeesToken("t") /\ Read({"t"}, {})
  /\ Fetch("nm")
  /\ UNCHANGED <<fname, sigs>>

(* The name's kind and string are copied out before the next token.        *)
\* Mutant: they are read through nm when the next token is there.
ScanNameLate ==
  /\ Scan("name", "paren")
  /\ Fetch("lp")
  /\ gone' = gone \cup (IF ptr["nm"].array # array' THEN {"nm"} ELSE {})
  /\ fname' = "scanner"
  /\ UNCHANGED sigs

ScanName ==
  /\ Scan("name", "paren") /\ Read({"nm"}, {})
  /\ fname' = "scanner"
  /\ Fetch("lp")
  /\ UNCHANGED sigs

NotAFunction ==
  /\ Scan("paren", "type") /\ Read({"lp"}, {})
  /\ Fetch("t")
  /\ UNCHANGED <<fname, sigs>>

ScanParams ==
  /\ Scan("paren", "param") /\ SeesToken("lp") /\ Read({"lp"}, {})
  /\ Fetch("p")
  /\ UNCHANGED <<fname, sigs>>

(* A parameter: its type, its name or '[' and then ']', a comma or not.    *)
ScanParam ==
  /\ Scan("param", "param_name") /\ SeesToken("p") /\ Read({"p"}, {})
  /\ Fetch("pn")
  /\ UNCHANGED <<fname, sigs>>

ScanBracket ==
  /\ Scan("param_name", "bracket") /\ SeesToken("pn") /\ Read({"pn"}, {})
  /\ \E end \in BOOLEAN : Lexes(end)
  /\ UNCHANGED <<ptr, fname, sigs>>

AfterParam ==
  /\ \/ Scan("param_name", "comma") /\ Read({"pn"}, {})
     \/ Scan("bracket", "comma") /\ UNCHANGED gone
     \/ Scan("param", "comma") /\ SeesToken("p") /\ Read({"p"}, {})
  /\ Fetch("p")
  /\ UNCHANGED <<fname, sigs>>

ScanComma ==
  /\ Scan("comma", "param") /\ SeesToken("p") /\ Read({"p"}, {})
  /\ Fetch("p")
  /\ UNCHANGED <<fname, sigs>>

NoComma ==
  /\ Scan("comma", "param") /\ Read({"p"}, {})
  /\ UNCHANGED <<lexer, ptr, fname, sigs>>

(* The signature is kept, with a copy of the name.                         *)
\* Mutant: the name is not copied.
SigBorrowed == fname

SigOwner == "copy"

ScanSig ==
  /\ Scan("param", "type") /\ Read({"p"}, {fname})
  /\ sigs' = sigs \cup {SigOwner}
  /\ Fetch("t")
  /\ UNCHANGED fname

(* The end: prescan's lexer is freed, the parser's starts.                 *)
ScanEnd ==
  /\ phase = "prescan" /\ at = "type" /\ SeesEnd("t") /\ Read({"t"}, {})
  /\ phase' = "parse" /\ at' = "prime_cur"
  /\ FreshLexer
  /\ UNCHANGED <<ptr, names>>

Prescan ==
  \/ ScanStart \/ ScanSkip \/ ScanType \/ ScanName \/ NotAFunction \/ ScanParams
  \/ ScanParam \/ ScanBracket \/ AfterParam \/ ScanComma \/ NoComma
  \/ ScanSig \/ ScanEnd

-----------------------------------------------------------------------------
(* The parser.                                                             *)

PrimeCur ==
  /\ phase = "parse" /\ at = "prime_cur" /\ at' = "prime_peek"
  /\ Fetch("cur")
  /\ UNCHANGED <<phase, names, gone>>

PrimePeek ==
  /\ phase = "parse" /\ at = "prime_peek" /\ at' = "parsing"
  /\ Fetch("peek")
  /\ UNCHANGED <<phase, names, gone>>

Parsing == phase = "parse" /\ at = "parsing"

(* advance, after a look at the current token (accept, expect, a literal,  *)
(* a name, an operator): cur takes over peek, and peek the next token.     *)
\* Mutant: cur is incremented instead of taken over from peek.
AdvanceByOne ==
  /\ Parsing /\ Read({"cur"}, {})
  /\ \E end \in BOOLEAN :
       /\ Lexes(end)
       /\ ptr' = [ptr EXCEPT !["cur"].eof = ptr["peek"].eof,
                             !["peek"] = [array |-> array', eof |-> end]]
  /\ UNCHANGED <<phase, at, names>>

Advance ==
  /\ Parsing /\ Read({"cur"}, {})
  /\ \E end \in BOOLEAN :
       /\ Lexes(end)
       /\ ptr' = [ptr EXCEPT !["cur"] = ptr["peek"],
                             !["peek"] = [array |-> array', eof |-> end]]
  /\ UNCHANGED <<phase, at, names>>

(* A look at the current token only: check, or an error message.           *)
Check ==
  /\ Parsing /\ Read({"cur"}, {})
  /\ UNCHANGED <<phase, at, lexer, ptr, names>>

(* parse_lvalue_stmt takes the name from cur and looks at peek.            *)
LookAhead ==
  /\ Parsing /\ SeesToken("cur") /\ Read({"cur", "peek"}, {})
  /\ UNCHANGED <<phase, at, lexer, ptr, names>>

(* parse_func keeps a copy of the function's name.                         *)
\* Mutant: it keeps the lexer's string.
FuncBorrowed == "parser"

FuncOwner == "copy"

NameFunction ==
  /\ Parsing /\ SeesToken("cur") /\ Read({"cur"}, {"parser"})
  /\ funcs' = funcs \cup {FuncOwner}
  /\ UNCHANGED <<phase, at, lexer, ptr, fname, sigs>>

(* A call: its name, the lexer's string, is compared with every signature. *)
FindSig ==
  /\ Parsing /\ Read({}, sigs \cup {"parser"})
  /\ UNCHANGED <<phase, at, lexer, ptr, names>>

(* parse_program returns at the end of the source or after an error; the   *)
(* lexer and the signatures are freed first.                               *)
EndParse ==
  /\ Parsing /\ Read({"cur"}, {})
  /\ \/ SeesEnd("cur") /\ phase' = "codegen"
     \/ phase' = "failed"
  /\ at' = "done"
  /\ array' = None
  /\ sigs' = {}
  /\ UNCHANGED <<cap, ntok, ended, ptr, fname, funcs>>

(* codegen reads the functions' names, nothing else of the front end.      *)
Codegen ==
  /\ phase = "codegen" /\ Read({}, funcs)
  /\ UNCHANGED <<phase, at, lexer, ptr, names>>

Parse == PrimeCur \/ PrimePeek \/ Advance \/ Check \/ LookAhead \/ NameFunction
         \/ FindSig \/ EndParse

Next == Prescan \/ Parse \/ Codegen

Spec == Init /\ [][Next]_vars

-----------------------------------------------------------------------------
(* Properties.                                                             *)

TypeOK ==
  /\ phase \in {"prescan", "parse", "codegen", "failed"}
  /\ at \in {"start", "type", "name", "paren", "param", "param_name", "bracket",
             "comma", "prime_cur", "prime_peek", "parsing", "done"}
  /\ array \in Nat /\ cap \in Nat \ {0} /\ ntok \in 0 .. cap /\ ended \in BOOLEAN
  /\ ptr \in [Vars -> Address]
  /\ fname \in Owners /\ sigs \subseteq Owners /\ funcs \subseteq Owners
  /\ gone \subseteq Vars \cup Owners

(* The front end reads freed memory through one variable only, cur: every  *)
(* other pointer is read before the next token is fetched, and every name  *)
(* that outlives its lexer has been copied.                                *)
OnlyCurDangles == gone \subseteq {"cur"}

(* peek is always the token just fetched; cur is a token of the lexer's    *)
(* array unless the last advance moved the array.                          *)
PeekIsLive == Parsing => Live("peek")

(* Why: each pointer is live where it is about to be read, and no borrowed *)
(* name is kept beyond its lexer.  Inductive.                              *)
HeldLive ==
  /\ PeekIsLive
  /\ phase = "prescan" =>
       /\ at \in {"start", "type", "name", "paren", "param", "param_name",
                  "bracket", "comma"}
       /\ at = "type" => Live("t")
       /\ at = "name" => Live("nm")
       /\ at = "paren" => Live("lp")
       /\ at \in {"param", "comma"} => Live("p")
       /\ at = "param_name" => Live("pn")
  /\ fname # "parser"
  /\ sigs \subseteq {"copy"} /\ funcs \subseteq {"copy"}

IndInv == TypeOK /\ HeldLive /\ OnlyCurDangles

(* A cur that dangles lasts for one token: the next advance takes a live   *)
(* token over from peek, and only a move of the array makes cur dangle.    *)
DanglesForOneToken ==
  [][(Parsing /\ Parsing' /\ ~ Live("cur")') => ptr' = ptr \/ array' # array]_vars

=============================================================================
