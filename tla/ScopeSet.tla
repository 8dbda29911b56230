------------------------------ MODULE ScopeSet ------------------------------
(***************************************************************************)
(* What a scoped symbol table promises to the parser, with no hash table:  *)
(* the set of entries that a lookup can still find.  A function body is    *)
(* parsed with a fresh table (parse_func): the parameters are declared at  *)
(* depth 0, then blocks are entered and left and locals are declared.      *)
(*                                                                         *)
(* Lag says how late an entry is retired.  The documents of COMPILER_HW    *)
(* (README.md section 4.4, include/svc.h:98, src/symtab.c:7-9) ask for     *)
(* Lag = 0: leaving a block removes that block's entries.  The condition   *)
(* scope_pop tests gives Lag = 1: they go when the enclosing block ends.   *)
(***************************************************************************)
EXTENDS Integers

CONSTANTS
  Names,     (* identifiers: interned strings, compared by pointer         *)
  Lag,       (* a natural number: 0 if entries leave with their block, 1   *)
             (* if they leave one block later                              *)
  MaxDepth,  (* bound: deepest block nesting                               *)
  MaxLocals  (* bound: declarations in one function, parameters included   *)

VARIABLES
  entries,   (* what a lookup can find                                     *)
  depth,     (* current block nesting                                      *)
  nlocals,   (* next slot number of the function being parsed              *)
  stage      (* "params", then "body", then "ended"                        *)

vars == <<entries, depth, nlocals, stage>>

(* A declaration: the slot number identifies it within its function.       *)
Entry == [name : Names, slot : Nat, depth : Nat]

TypeOK ==
  /\ entries \subseteq Entry
  /\ depth \in Nat
  /\ nlocals \in Nat
  /\ stage \in {"params", "body", "ended"} /\ (stage = "body" => depth > 0)

Init ==
  /\ entries = {}
  /\ depth = 0
  /\ nlocals = 0
  /\ stage = "params"

(* A parameter or a local is declared in the current scope.                *)
Declare(n) ==
  /\ stage # "ended"
  /\ nlocals < MaxLocals
  /\ entries' = entries \cup {[name |-> n, slot |-> nlocals, depth |-> depth]}
  /\ nlocals' = nlocals + 1
  /\ UNCHANGED <<depth, stage>>

(* A block is entered: the function body first, then nested blocks.        *)
EnterBlock ==
  /\ stage # "ended"
  /\ depth < MaxDepth
  /\ depth' = depth + 1
  /\ stage' = "body"
  /\ UNCHANGED <<entries, nlocals>>

(* A block is left; leaving the outermost one ends the function.           *)
LeaveBlock ==
  /\ stage = "body"
  /\ entries' = {e \in entries : e.depth < depth + Lag}
  /\ depth' = depth - 1
  /\ stage' = IF depth = 1 THEN "ended" ELSE "body"
  /\ UNCHANGED nlocals

(* The next function starts with an empty table.                           *)
NextFunction ==
  /\ stage = "ended"
  /\ entries' = {}
  /\ depth' = 0
  /\ nlocals' = 0
  /\ stage' = "params"

Next ==
  \/ \E n \in Names : Declare(n)
  \/ EnterBlock
  \/ LeaveBlock
  \/ NextFunction

Spec == Init /\ [][Next]_vars

=============================================================================
