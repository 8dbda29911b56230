-------------------------------- MODULE Csim --------------------------------
(***************************************************************************)
(* The command line of the cache simulator (CACHE_HW/src/csim.c).  The     *)
(* simulation itself is not in this repository; here main tells how csim   *)
(* leaves - with a summary or before there is one - and the cache that it  *)
(* simulates.  An option is [opt, arg], as getopt returns it.              *)
(***************************************************************************)
EXTENDS Integers, Sequences

CONSTANT IntLimit     \* INT_MAX + 1, half as many as there are ints

ASSUME CsimAssumption == IntLimit \in Nat \ {0}

CInt == -IntLimit .. IntLimit - 1

\* An int printed with %u.
AsUnsigned(n) == n % (2 * IntLimit)

Unset == -1

\* The static variables and the locals of main; exit is "no" while csim goes on.
Defaults == [s |-> Unset, E |-> Unset, b |-> Unset, trace |-> "", policy |-> "lru",
             verbose |-> 0, exit |-> "no"]

\* atoi of a printed number: strtol, which is wider, cut to an int.
atoi(n) ==
  LET low == AsUnsigned(n)
  IN  IF low < IntLimit THEN low ELSE low - 2 * IntLimit

parsePolicy(state, name) ==
  IF name \in {"lru", "fifo", "lfu"} THEN [state EXCEPT !.policy = name]
  ELSE [state EXCEPT !.exit = "failed"]

TakeOption(state, option) ==
  IF state.exit # "no" THEN state
  ELSE CASE option.opt = "h" -> [state EXCEPT !.exit = "helped"]
         [] option.opt = "v" -> [state EXCEPT !.verbose = 1]
         [] option.opt = "s" -> [state EXCEPT !.s = atoi(option.arg)]
         [] option.opt = "E" -> [state EXCEPT !.E = atoi(option.arg)]
         [] option.opt = "b" -> [state EXCEPT !.b = atoi(option.arg)]
         [] option.opt = "t" -> [state EXCEPT !.trace = option.arg]
         [] option.opt = "r" -> parsePolicy(state, option.arg)
         [] OTHER -> [state EXCEPT !.exit = "failed"]

Missing(state) == state.s < 0 \/ state.E < 1 \/ state.b < 0 \/ state.trace = ""

\* Up to replayTrace, from where only a crash keeps csim from its summary.
csim(options) ==
  LET taken[k \in 0 .. Len(options)] ==
        IF k = 0 THEN Defaults ELSE TakeOption(taken[k - 1], options[k])
      state == taken[Len(options)]
  IN  IF state.exit = "no" /\ Missing(state) THEN [state EXCEPT !.exit = "failed"]
      ELSE state
=============================================================================
