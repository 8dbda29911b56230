-------------------------- MODULE TransScoreProofs --------------------------
(***************************************************************************)
(* Proofs about the transpose harness, for every number of functions,      *)
(* every cache, either kind of shell and every width of an int.            *)
(***************************************************************************)
EXTENDS TransScore, TLAPS, NaturalsInduction, WellFoundedInduction

(* Where the loop is: a function is being evaluated between "trace" and    *)
(* "read", and nothing after it has been validated, or died unseen.        *)
Place ==
  /\ pc \in {"rules", "next", "trace", "marker", "copy", "csim", "read", "exit"}
  /\ i \in 1 .. NFuncs + 1
  /\ pc \in {"trace", "marker", "copy", "csim", "read"} => i \in Funcs
  /\ submissions \subseteq Funcs /\ funcid \in {0} \cup submissions
  /\ func_correct \in [Funcs -> BOOLEAN] /\ correct \in BOOLEAN
  /\ validated \subseteq Funcs /\ unseen \subseteq Funcs
  /\ \A f \in validated \cup unseen : f <= i
  /\ pc \in {"rules", "next", "trace"} => i \notin validated \cup unseen
  /\ pc # "exit" => lines = <<>>

(* What has been accepted, and what its trace is.                          *)
Accepted ==
  /\ pc = "marker" => i \in validated \cup unseen
  /\ correct => Taken # {}
  /\ pc \in {"marker", "copy"} =>
       IF i \in validated THEN marker = "ours" /\ tmp = Whole(i)
       ELSE tmp \in {Whole(i), Some(i), Nothing}

HarnessInv == Place /\ Accepted /\ CorrectMeansValidated /\ CsimReadsWholeTrace

-----------------------------------------------------------------------------
LEMMA FuncsAreNumbers ==
  /\ NFuncs \in Nat
  /\ \A f \in Funcs : f \in Nat /\ f # 0 /\ f + 1 \in 1 .. NFuncs + 1
BY TransScoreAssumption DEF Funcs

LEMMA InitInv == Init => HarnessInv
<1> SUFFICES ASSUME Init PROVE HarnessInv
  OBVIOUS
<1>1. Place
  <2>1. 1 \in 1 .. NFuncs + 1
    BY FuncsAreNumbers
  <2> QED
    BY <2>1 DEF Init, Place
<1>2. Accepted
  BY DEF Init, Accepted
<1>3. CorrectMeansValidated
  BY DEF Init, CorrectMeansValidated
<1>4. CsimReadsWholeTrace
  BY DEF Init, CsimReadsWholeTrace
<1> QED
  BY <1>1, <1>2, <1>3, <1>4 DEF HarnessInv

(* What a trace becomes in its window.                                     *)
LEMMA Windows ==
  ASSUME NEW f \in Funcs
  PROVE  /\ Window(Whole(f)) = Whole(f)
         /\ Window(Some(f)) = Some(f)
         /\ Window(Nothing) = Nothing
BY FuncsAreNumbers DEF Window, Whole, Some, Nothing

(* A run that is over has said nothing good, or what the last look at the  *)
(* marker said.                                                            *)
LEMMA SaysBad ==
  ASSUME HarnessInv, pc # "exit", NoScore,
         UNCHANGED <<i, submissions, results, func_correct, marker, tmp, part, hist>>
  PROVE  HarnessInv'
<1> USE DEF HarnessInv, results, hist
<1>1. pc' = "exit" /\ lines' = <<[correct |-> FALSE, misses |-> Nothing]>>
  <2>1. lines = <<>> /\ pc' = "exit"
    BY DEF NoScore, Goto, Place
  <2>2. lines' = Append(lines, [correct |-> FALSE, misses |-> Nothing])
    BY DEF NoScore, Says
  <2>3. Append(<<>>, [correct |-> FALSE, misses |-> Nothing])
          = <<[correct |-> FALSE, misses |-> Nothing]>>
    OBVIOUS
  <2> QED
    BY <2>1, <2>2, <2>3
<1>2. Place'
  BY <1>1 DEF Place
<1>3. Accepted'
  BY <1>1 DEF Accepted, Taken
<1>4. \A l \in DOMAIN lines' : ~ lines'[l].correct
  BY <1>1
<1>5. CorrectMeansValidated'
  BY <1>4 DEF CorrectMeansValidated
<1>6. CsimReadsWholeTrace'
  BY <1>1 DEF CsimReadsWholeTrace
<1> QED
  BY <1>2, <1>3, <1>5, <1>6

(* The next function comes after all that have been evaluated.             *)
LEMMA Skipping ==
  ASSUME HarnessInv, i \in Funcs, Skips,
         UNCHANGED <<submissions, validated, unseen, funcid, correct, func_correct, lines>>,
         lines = <<>>
  PROVE  HarnessInv'
<1> USE DEF HarnessInv
<1>1. pc' = "next" /\ i' = i + 1
  BY DEF Skips, Goto
<1>2. Place'
  <2>1. \A f \in validated \cup unseen : f <= i /\ f \in Nat
    BY FuncsAreNumbers DEF Place
  <2>2. \A f \in validated \cup unseen : f <= i' /\ f # i'
    BY <1>1, <2>1, FuncsAreNumbers
  <2> QED
    BY <1>1, <2>2, FuncsAreNumbers DEF Place
<1>3. Accepted'
  BY <1>1 DEF Accepted, Taken
<1>4. CorrectMeansValidated'
  BY DEF CorrectMeansValidated, Taken
<1>5. CsimReadsWholeTrace'
  BY <1>1 DEF CsimReadsWholeTrace
<1> QED
  BY <1>2, <1>3, <1>4, <1>5
-----------------------------------------------------------------------------
LEMMA StepInv == HarnessInv /\ [Next]_vars => HarnessInv'
<1> SUFFICES ASSUME HarnessInv, [Next]_vars PROVE HarnessInv'
  OBVIOUS
<1>1. CASE RuleCheck
  <2>1. CASE NoScore
    BY <1>1, <2>1, SaysBad DEF RuleCheck, results, list, files, hist
  <2>2. CASE Goto("next") /\ UNCHANGED <<lines, exit>>
    BY <1>1, <2>2 DEF RuleCheck, Goto, results, list, files, hist, HarnessInv, Place, Accepted,
       CorrectMeansValidated, CsimReadsWholeTrace, Taken
  <2> QED
    BY <1>1, <2>1, <2>2 DEF RuleCheck
<1>2. CASE NextFunction
  <2>1. pc' = "trace" /\ i' = i /\ i \in Funcs /\ funcid' \in {0} \cup submissions
    BY <1>2, FuncsAreNumbers DEF NextFunction, Goto, HarnessInv, Place, Funcs
  <2>2. UNCHANGED <<submissions, correct, func_correct, lines, validated, unseen>>
    BY <1>2 DEF NextFunction, list, hist
  <2>3. pc = "next"
    BY <1>2 DEF NextFunction
  <2> QED
    BY <2>1, <2>2, <2>3
    DEF HarnessInv, Place, Accepted, CorrectMeansValidated, CsimReadsWholeTrace, Taken
<1>3. CASE TraceValid
  <2>1. pc = "trace" /\ pc' = "marker" /\ i' = i /\ i \in Funcs
    BY <1>3 DEF TraceValid, Seen, Accepts, Goto, HarnessInv, Place
  <2>2. marker' = "ours" /\ tmp' = Whole(i) /\ validated' = validated \cup {i}
    BY <1>3 DEF TraceValid
  <2>3. UNCHANGED <<submissions, funcid, correct, func_correct, lines, unseen>>
    BY <1>3 DEF TraceValid, list, results
  <2>4. \A f \in validated' \cup unseen' : f <= i
    BY <2>1, <2>2, <2>3, FuncsAreNumbers DEF HarnessInv, Place
  <2>5. Taken \subseteq Taken'
    BY <2>2, <2>3 DEF Taken
  <2> QED
    BY <2>1, <2>2, <2>3, <2>4, <2>5
    DEF HarnessInv, Place, Accepted, CorrectMeansValidated, CsimReadsWholeTrace
<1>4. CASE TraceWrong
  <2>1. Skips /\ i \in Funcs /\ lines = <<>>
    BY <1>4, FuncsAreNumbers DEF TraceWrong, Seen, HarnessInv, Place
  <2> QED
    BY <1>4, <2>1, Skipping DEF TraceWrong, results, list, hist
<1>5. CASE TraceDies
  <2>1. i \in Funcs /\ lines = <<>> /\ pc = "trace"
    BY <1>5 DEF TraceDies, HarnessInv, Place
  <2>2. UNCHANGED <<submissions, funcid, correct, func_correct, lines, validated>>
    BY <1>5 DEF TraceDies, results, list
  <2>3. CASE Seen(139) /\ UNCHANGED unseen
    <3>1. Skips
      BY <2>3 DEF Seen
    <3> QED
      BY <3>1, <2>1, <2>2, <2>3, Skipping
  <2>4. CASE Seen(0) /\ unseen' = unseen \cup {i}
    <3>1. pc' = "marker" /\ i' = i
      BY <2>4 DEF Seen, Accepts, Goto
    <3>2. tmp' \in {Whole(i), Some(i), Nothing}
      BY <1>5 DEF TraceDies
    <3>3. i \notin validated
      BY <2>1 DEF HarnessInv, Place
    <3>4. \A f \in validated' \cup unseen' : f <= i
      BY <2>1, <2>2, <2>4, FuncsAreNumbers DEF HarnessInv, Place
    <3>5. Taken \subseteq Taken'
      BY <2>2, <2>4 DEF Taken
    <3> QED
      BY <2>1, <2>2, <2>4, <3>1, <3>2, <3>3, <3>4, <3>5
      DEF HarnessInv, Place, Accepted, CorrectMeansValidated, CsimReadsWholeTrace
  <2> QED
    BY <1>5, <2>3, <2>4 DEF TraceDies
<1>6. CASE ReadMarker
  <2>1. pc = "marker" /\ i \in Funcs /\ lines = <<>>
    BY <1>6 DEF ReadMarker, HarnessInv, Place
  <2>2. UNCHANGED <<i, submissions, funcid, score, marker, tmp, part, validated, unseen, reported>>
    BY <1>6 DEF ReadMarker, files, hist
  <2>3. \/ Aborts /\ UNCHANGED <<correct, func_correct>>
        \/ NoScore /\ UNCHANGED <<correct, func_correct>>
        \/ /\ func_correct' = [func_correct EXCEPT ![i] = TRUE]
           /\ correct' = (correct \/ funcid = i)
           /\ Goto("copy") /\ UNCHANGED <<lines, exit>>
    BY <1>6 DEF ReadMarker
  <2>4. CASE Aborts /\ UNCHANGED <<correct, func_correct>>
    <3>1. pc' = "exit" /\ UNCHANGED <<lines>>
      BY <2>4 DEF Aborts, Goto
    <3> QED
      BY <2>1, <2>2, <2>4, <3>1
      DEF HarnessInv, Place, Accepted, CorrectMeansValidated, CsimReadsWholeTrace, Taken
  <2>5. CASE NoScore /\ UNCHANGED <<correct, func_correct>>
    BY <2>1, <2>2, <2>5, SaysBad DEF results, hist
  <2>6. CASE /\ func_correct' = [func_correct EXCEPT ![i] = TRUE]
             /\ correct' = (correct \/ funcid = i)
             /\ Goto("copy") /\ UNCHANGED <<lines, exit>>
    <3>1. pc' = "copy" /\ lines' = lines
      BY <2>6 DEF Goto
    <3>2. i \in validated \cup unseen
      BY <2>1 DEF HarnessInv, Accepted
    <3>3. correct' => Taken # {}
      BY <2>1, <2>6, <3>2, FuncsAreNumbers DEF HarnessInv, Place, Accepted, Taken
    <3>4. \A f \in Funcs : func_correct'[f] => f \in validated \cup unseen
      BY <2>6, <3>2 DEF HarnessInv, Place, CorrectMeansValidated
    <3>5. Place'
      BY <2>1, <2>2, <2>6, <3>1 DEF HarnessInv, Place
    <3>6. Accepted'
      BY <2>1, <2>2, <3>1, <3>3 DEF HarnessInv, Accepted, Taken
    <3>7. CorrectMeansValidated' /\ CsimReadsWholeTrace'
      BY <2>1, <2>2, <3>1, <3>4 DEF CorrectMeansValidated, CsimReadsWholeTrace
    <3> QED
      BY <3>5, <3>6, <3>7 DEF HarnessInv
  <2> QED
    BY <2>3, <2>4, <2>5, <2>6
<1>7. CASE CopyTrace
  <2>1. pc = "copy" /\ pc' = "csim" /\ i \in Funcs /\ i' = i
    BY <1>7 DEF CopyTrace, Goto, HarnessInv, Place
  <2>2. UNCHANGED <<submissions, funcid, correct, func_correct, lines, validated, unseen>>
    BY <1>7 DEF CopyTrace, results, list, hist
  <2>3. IF i \in validated THEN marker = "ours" /\ tmp = Whole(i)
        ELSE tmp \in {Whole(i), Some(i), Nothing}
    BY <2>1 DEF HarnessInv, Accepted
  <2>4. part' = Window(tmp) \/ (marker = "old" /\ part' = Nothing)
    BY <1>7 DEF CopyTrace
  <2>5. IF i \in validated THEN part' = Whole(i) ELSE part' \in {Whole(i), Some(i), Nothing}
    BY <2>1, <2>3, <2>4, Windows
  <2> QED
    BY <2>1, <2>2, <2>5
    DEF HarnessInv, Place, Accepted, CorrectMeansValidated, CsimReadsWholeTrace, Taken
<1>8. CASE Csim
  BY <1>8 DEF Csim, Goto, results, list, HarnessInv, Place, Accepted, CorrectMeansValidated,
     CsimReadsWholeTrace, Taken
<1>9. CASE ReadResults
  <2>1. pc = "read" /\ i \in Funcs /\ lines = <<>>
    BY <1>9 DEF ReadResults, HarnessInv, Place
  <2>2. UNCHANGED <<submissions, funcid, correct, func_correct, validated, unseen>>
    BY <1>9 DEF ReadResults, hist
  <2>3. CASE Aborts /\ UNCHANGED i
    <3>1. pc' = "exit" /\ UNCHANGED <<i, lines>>
      BY <2>3 DEF Aborts, Goto
    <3> QED
      BY <2>1, <2>2, <3>1
      DEF HarnessInv, Place, Accepted, CorrectMeansValidated, CsimReadsWholeTrace, Taken
  <2>4. CASE Skips /\ UNCHANGED lines
    BY <2>1, <2>2, <2>4, Skipping
  <2> QED
    BY <1>9, <2>3, <2>4 DEF ReadResults
<1>10. CASE Score
  <2>1. pc' = "exit" /\ lines = <<>>
    BY <1>10 DEF Score, Goto, HarnessInv, Place
  <2>2. UNCHANGED <<i, submissions, funcid, correct, func_correct, validated, unseen>>
    BY <1>10 DEF Score, results, list, hist
  <2>3. \E c \in {FALSE, correct} : \E m : lines' = <<[correct |-> c, misses |-> m]>>
    BY <1>10, <2>1 DEF Score, Says
  <2>4. \A l \in DOMAIN lines' : lines'[l].correct => correct
    <3>1. PICK c \in {FALSE, correct} : \E m : lines' = <<[correct |-> c, misses |-> m]>>
      BY <2>3
    <3>2. \A l \in DOMAIN lines' : lines'[l].correct = c
      BY <3>1
    <3>3. c => correct
      BY <3>1
    <3> QED
      BY <3>2, <3>3
  <2> QED
    BY <2>1, <2>2, <2>4
    DEF HarnessInv, Place, Accepted, CorrectMeansValidated, CsimReadsWholeTrace, Taken
<1>11. CASE Alarm
  BY <1>11, SaysBad DEF Alarm, Due, results, list, files, hist
<1>12. CASE UNCHANGED vars
  BY <1>12 DEF vars, results, list, files, hist, HarnessInv, Place, Accepted,
     CorrectMeansValidated, CsimReadsWholeTrace, Taken
<1> QED
  BY <1>1, <1>2, <1>3, <1>4, <1>5, <1>6, <1>7, <1>8, <1>9, <1>10, <1>11, <1>12
  DEF Next, Harness

LEMMA Invariant == Spec => []HarnessInv
BY InitInv, StepInv, PTL DEF Spec

(* For every number of functions and whatever tracegen, csim and older     *)
(* files do: a function that is called correct has been validated in this  *)
(* run or has died unseen, and if the result line says correct, so has     *)
(* one of the submissions (test-trans.c:eval_perf, main).                  *)
THEOREM CorrectWasValidated == Spec => []CorrectMeansValidated
BY Invariant, PTL DEF HarnessInv

(* csim is never given another function's trace, and of a function that    *)
(* was validated it is given all (test-trans.c:eval_perf).                 *)
THEOREM TracesAreWhole == Spec => []CsimReadsWholeTrace
BY Invariant, PTL DEF HarnessInv
-----------------------------------------------------------------------------
(* The command line: csim simulates the cache that was asked for.          *)

(* Every set of naturals that is not empty has a least element.            *)
LEMMA LeastNatural ==
  ASSUME NEW S, S \subseteq Nat, S # {}
  PROVE  \E m \in S : \A k \in S : m <= k
<1>1. PICK m \in S : \A k \in S : ~ (<<k, m>> \in OpToRel(<, Nat))
  BY WFMin, NatLessThanWellFounded
<1>2. \A k \in S : ~ (k < m)
  BY <1>1 DEF OpToRel
<1> QED
  BY <1>2

(* What main has read of its options, option by option.                    *)
Took(options, n, f) ==
  f = [k \in 0 .. n |-> IF k = 0 THEN Defaults ELSE TakeOption(f[k - 1], options[k])]

LEMMA OptionsAreTaken ==
  ASSUME NEW options, NEW n \in Nat
  PROVE  \E f : Took(options, n, f)
<1> DEFINE S == {m \in Nat : ~ \E f : Took(options, m, f)}
<1> SUFFICES ASSUME S # {} PROVE FALSE
  OBVIOUS
<1>1. PICK m \in S : \A k \in S : m <= k
  BY LeastNatural
<1>2. CASE m = 0
  <2>1. Took(options, 0, [k \in 0 .. 0 |-> Defaults])
    BY DEF Took
  <2> QED
    BY <1>2, <2>1
<1>3. CASE m # 0
  <2>1. PICK f : Took(options, m - 1, f)
    BY <1>1, <1>3
  <2> DEFINE g == [k \in 0 .. m |-> IF k = m THEN TakeOption(f[m - 1], options[m]) ELSE f[k]]
  <2>2. \A k \in 0 .. m : g[k] = IF k = 0 THEN Defaults ELSE TakeOption(g[k - 1], options[k])
    <3> TAKE k \in 0 .. m
    <3>1. CASE k = m
      BY <1>3, <3>1
    <3>2. CASE k # m
      <4>1. k \in 0 .. m - 1 /\ (k # 0 => k - 1 \in 0 .. m /\ k - 1 # m)
        BY <1>3, <3>2
      <4>2. f[k] = IF k = 0 THEN Defaults ELSE TakeOption(f[k - 1], options[k])
        BY <2>1, <4>1 DEF Took
      <4> QED
        BY <3>2, <4>1, <4>2
    <3> QED
      BY <3>1, <3>2
  <2>3. Took(options, m, g)
    BY <2>2 DEF Took
  <2> QED
    BY <2>3
<1> QED
  BY <1>2, <1>3

(* csim's state after all its options.                                     *)
LEMMA CsimTakes ==
  ASSUME NEW options, Len(options) \in Nat
  PROVE  \E f : /\ Took(options, Len(options), f)
                /\ csim(options) =
                     IF f[Len(options)].exit = "no" /\ Missing(f[Len(options)])
                     THEN [f[Len(options)] EXCEPT !.exit = "failed"] ELSE f[Len(options)]
<1> DEFINE f == CHOOSE f : Took(options, Len(options), f)
<1>1. Took(options, Len(options), f)
  BY OptionsAreTaken
<1>2. csim(options) = IF f[Len(options)].exit = "no" /\ Missing(f[Len(options)])
                     THEN [f[Len(options)] EXCEPT !.exit = "failed"] ELSE f[Len(options)]
  BY DEF csim, Took
<1> QED
  BY <1>1, <1>2

(* An int survives being printed as unsigned and read with atoi.           *)
LEMMA AtoiOfPrinted ==
  ASSUME NEW n \in CInt
  PROVE  atoi(AsUnsigned(n)) = n
<1>1. IntLimit \in Nat \ {0}
  BY CsimAssumption
<1>2. CASE n >= 0
  <2>1. AsUnsigned(n) = n
    BY <1>1, <1>2 DEF CInt, AsUnsigned
  <2> QED
    BY <1>1, <1>2, <2>1 DEF CInt, atoi
<1>3. CASE n < 0
  <2>1. AsUnsigned(n) = n + 2 * IntLimit
    BY <1>1, <1>3 DEF CInt, AsUnsigned
  <2>2. AsUnsigned(n + 2 * IntLimit) = n + 2 * IntLimit
    BY <1>1, <1>3 DEF CInt, AsUnsigned
  <2> QED
    BY <1>1, <1>3, <2>1, <2>2 DEF CInt, atoi
<1> QED
  BY <1>2, <1>3 DEF CInt
(* The state of csim before -r.                                            *)
Given(s, E, b, trace) ==
  [s |-> s, E |-> E, b |-> b, trace |-> trace, policy |-> "lru", verbose |-> 0, exit |-> "no"]

LEMMA SetBits ==
  ASSUME NEW n \in CInt, NEW s, NEW E, NEW b, NEW t
  PROVE  TakeOption(Given(s, E, b, t), Option("s", AsUnsigned(n))) = Given(n, E, b, t)
<1> DEFINE g == Given(s, E, b, t)
<1>1. g.exit = "no"
  BY DEF Given
<1>2. TakeOption(g, Option("s", AsUnsigned(n))) = [g EXCEPT !.s = n]
  BY <1>1, AtoiOfPrinted DEF TakeOption, Option
<1>3. [g EXCEPT !.s = n] = Given(n, E, b, t)
  BY DEF Given
<1> QED
  BY <1>2, <1>3

LEMMA Lines ==
  ASSUME NEW n \in CInt, NEW s, NEW E, NEW b, NEW t
  PROVE  TakeOption(Given(s, E, b, t), Option("E", AsUnsigned(n))) = Given(s, n, b, t)
<1> DEFINE g == Given(s, E, b, t)
<1>1. g.exit = "no"
  BY DEF Given
<1>2. TakeOption(g, Option("E", AsUnsigned(n))) = [g EXCEPT !.E = n]
  BY <1>1, AtoiOfPrinted DEF TakeOption, Option
<1>3. [g EXCEPT !.E = n] = Given(s, n, b, t)
  BY DEF Given
<1> QED
  BY <1>2, <1>3

LEMMA BlockBits ==
  ASSUME NEW n \in CInt, NEW s, NEW E, NEW b, NEW t
  PROVE  TakeOption(Given(s, E, b, t), Option("b", AsUnsigned(n))) = Given(s, E, n, t)
<1> DEFINE g == Given(s, E, b, t)
<1>1. g.exit = "no"
  BY DEF Given
<1>2. TakeOption(g, Option("b", AsUnsigned(n))) = [g EXCEPT !.b = n]
  BY <1>1, AtoiOfPrinted DEF TakeOption, Option
<1>3. [g EXCEPT !.b = n] = Given(s, E, n, t)
  BY DEF Given
<1> QED
  BY <1>2, <1>3

LEMMA TraceName ==
  ASSUME NEW arg, NEW s, NEW E, NEW b, NEW t
  PROVE  TakeOption(Given(s, E, b, t), Option("t", arg)) = Given(s, E, b, arg)
<1> DEFINE g == Given(s, E, b, t)
<1>1. g.exit = "no"
  BY DEF Given
<1>2. TakeOption(g, Option("t", arg)) = [g EXCEPT !.trace = arg]
  BY <1>1 DEF TakeOption, Option
<1>3. [g EXCEPT !.trace = arg] = Given(s, E, b, arg)
  BY DEF Given
<1> QED
  BY <1>2, <1>3

LEMMA PolicyName ==
  ASSUME NEW arg, NEW s, NEW E, NEW b, NEW t
  PROVE  TakeOption(Given(s, E, b, t), Option("r", arg)) = parsePolicy(Given(s, E, b, t), arg)
<1>1. Given(s, E, b, t).exit = "no"
  BY DEF Given
<1> QED
  BY <1>1 DEF TakeOption, Option

Numbers == Given(asked.s, asked.E, asked.b, "trace")

LEMMA NumbersArrive ==
  ASSUME asked \in Caches, NEW f, NEW n \in Nat, n >= 4, NEW options,
         options[1] = Option("s", AsUnsigned(asked.s)),
         options[2] = Option("E", AsUnsigned(asked.E)),
         options[3] = Option("b", AsUnsigned(asked.b)),
         options[4] = Option("t", "trace"),
         Took(options, n, f)
  PROVE  f[4] = Numbers
<1>1. asked.s \in CInt /\ asked.E \in CInt /\ asked.b \in CInt
  BY TransScoreAssumption
<1>2. /\ f[0] = Defaults
      /\ f[1] = TakeOption(f[0], options[1]) /\ f[2] = TakeOption(f[1], options[2])
      /\ f[3] = TakeOption(f[2], options[3]) /\ f[4] = TakeOption(f[3], options[4])
  BY DEF Took
<1>3. PICK u, t : f[0] = Given(u, u, u, t)
  BY <1>2 DEF Defaults, Given
<1>4. f[1] = Given(asked.s, u, u, t)
  <2>1. TakeOption(Given(u, u, u, t), Option("s", AsUnsigned(asked.s))) = Given(asked.s, u, u, t)
    BY <1>1, SetBits
  <2> QED
    BY <1>2, <1>3, <2>1
<1>5. f[2] = Given(asked.s, asked.E, u, t)
  <2>1. TakeOption(Given(asked.s, u, u, t), Option("E", AsUnsigned(asked.E))) = Given(asked.s, asked.E, u, t)
    BY <1>1, Lines
  <2> QED
    BY <1>2, <1>4, <2>1
<1>6. f[3] = Given(asked.s, asked.E, asked.b, t)
  <2>1. TakeOption(Given(asked.s, asked.E, u, t), Option("b", AsUnsigned(asked.b))) = Given(asked.s, asked.E, asked.b, t)
    BY <1>1, BlockBits
  <2> QED
    BY <1>2, <1>5, <2>1
<1>7. TakeOption(Given(asked.s, asked.E, asked.b, t), Option("t", "trace")) = Numbers
  BY TraceName DEF Numbers
<1> QED
  BY <1>2, <1>6, <1>7

(* If csim goes on, it simulates the cache that was asked for.             *)
LEMMA CacheArrives ==
  ASSUME asked \in Caches, csim(CsimCommand).exit = "no"
  PROVE  LET c == csim(CsimCommand)
         IN  [s |-> c.s, E |-> c.E, b |-> c.b, policy |-> c.policy] = asked
<1> DEFINE options == CsimCommand
           four    == <<Option("s", AsUnsigned(asked.s)), Option("E", AsUnsigned(asked.E)),
                        Option("b", AsUnsigned(asked.b)), Option("t", "trace")>>
           c       == csim(options)
<1>1. asked \in [s : CInt, E : CInt, b : CInt, policy : STRING]
  BY TransScoreAssumption
<1>2. CASE asked.policy = "lru"
  <2>1. options = four
    BY <1>2 DEF CsimCommand, PolicyOption
  <2>2. /\ Len(options) = 4
        /\ options[1] = Option("s", AsUnsigned(asked.s))
        /\ options[2] = Option("E", AsUnsigned(asked.E))
        /\ options[3] = Option("b", AsUnsigned(asked.b))
        /\ options[4] = Option("t", "trace")
    BY <2>1
  <2> HIDE DEF options
  <2>3. PICK f : /\ Took(options, 4, f)
                 /\ c = IF f[4].exit = "no" /\ Missing(f[4])
                        THEN [f[4] EXCEPT !.exit = "failed"] ELSE f[4]
    <3>1. Len(options) \in Nat
      BY <2>2
    <3>2. PICK f : /\ Took(options, Len(options), f)
                   /\ c = IF f[Len(options)].exit = "no" /\ Missing(f[Len(options)])
                          THEN [f[Len(options)] EXCEPT !.exit = "failed"] ELSE f[Len(options)]
      BY <3>1, CsimTakes
    <3> QED
      BY <2>2, <3>2
  <2>4. f[4] = Numbers
    BY <2>2, <2>3, NumbersArrive
  <2>5. c = Numbers
    <3>1. c.exit = "no"
      BY DEF options
    <3>2. CASE f[4].exit = "no" /\ Missing(f[4])
      <4>1. c = [Numbers EXCEPT !.exit = "failed"]
        BY <2>3, <2>4, <3>2
      <4>2. c.exit = "failed"
        BY <4>1 DEF Numbers, Given
      <4> QED
        BY <3>1, <4>2
    <3> QED
      BY <2>3, <2>4, <3>2
  <2> QED
    BY <1>1, <1>2, <2>5 DEF Numbers, Given, options
<1>3. CASE asked.policy # "lru"
  <2>1. options = four \o <<Option("r", asked.policy)>>
    BY <1>3 DEF CsimCommand, PolicyOption
  <2>2. /\ Len(options) = 5
        /\ options[1] = Option("s", AsUnsigned(asked.s))
        /\ options[2] = Option("E", AsUnsigned(asked.E))
        /\ options[3] = Option("b", AsUnsigned(asked.b))
        /\ options[4] = Option("t", "trace")
        /\ options[5] = Option("r", asked.policy)
    BY <2>1
  <2> HIDE DEF options
  <2>3. PICK f : /\ Took(options, 5, f)
                 /\ c = IF f[5].exit = "no" /\ Missing(f[5])
                        THEN [f[5] EXCEPT !.exit = "failed"] ELSE f[5]
    <3>1. Len(options) \in Nat
      BY <2>2
    <3>2. PICK f : /\ Took(options, Len(options), f)
                   /\ c = IF f[Len(options)].exit = "no" /\ Missing(f[Len(options)])
                          THEN [f[Len(options)] EXCEPT !.exit = "failed"] ELSE f[Len(options)]
      BY <3>1, CsimTakes
    <3> QED
      BY <2>2, <3>2
  <2>4. f[4] = Numbers
    BY <2>2, <2>3, NumbersArrive
  <2>5. f[5] = parsePolicy(Numbers, asked.policy)
    <3>1. f[5] = TakeOption(f[4], options[5])
      BY <2>3 DEF Took
    <3> QED
      BY <3>1, <2>2, <2>4, PolicyName DEF Numbers
  <2>6. f[5].exit = "no" /\ c = f[5]
    <3>1. c.exit = "no"
      BY DEF options
    <3>2. CASE f[5].exit = "no" /\ Missing(f[5])
      BY <2>3, <3>1, <3>2
    <3> QED
      BY <2>3, <3>1, <3>2
  <2>7. c = [Numbers EXCEPT !.policy = asked.policy]
    <3>1. Numbers.exit = "no"
      BY DEF Numbers, Given
    <3>2. CASE asked.policy \in {"lru", "fifo", "lfu"}
      BY <2>5, <2>6, <3>2 DEF parsePolicy
    <3>3. CASE asked.policy \notin {"lru", "fifo", "lfu"}
      <4>1. f[5] = [Numbers EXCEPT !.exit = "failed"]
        BY <2>5, <3>3 DEF parsePolicy
      <4>2. f[5].exit = "failed"
        BY <4>1 DEF Numbers, Given
      <4> QED
        BY <2>6, <4>2
    <3> QED
      BY <3>2, <3>3
  <2> QED
    BY <1>1, <2>7 DEF Numbers, Given, options
<1> QED
  BY <1>2, <1>3
-----------------------------------------------------------------------------
(* Types.                                                                  *)

LEMMA Contents ==
  /\ Nothing \in Content /\ IntMax \in Content /\ Junk \in Content
  /\ \A f \in Funcs : Whole(f) \in Content /\ Some(f) \in Content
  /\ \A c \in Content : Window(c) \in Content
  /\ \A c \in Content : \A k \in {"missing", "empty", "full"} : File(k, c) \in ResultFiles
<1>1. NFuncs \in Nat /\ 0 \in 0 .. NFuncs
  BY TransScoreAssumption
<1>2. Nothing \in Content /\ IntMax \in Content /\ Junk \in Content
  BY <1>1 DEF Nothing, IntMax, Junk, Content
<1>3. \A f \in Funcs : Whole(f) \in Content /\ Some(f) \in Content
  BY <1>1 DEF Whole, Some, Content, Funcs
<1>4. ASSUME NEW c \in Content PROVE Window(c) \in Content
  <2>1. c.of \in 0 .. NFuncs
    BY DEF Content
  <2>2. CASE c.of = 0
    BY <1>2, <2>2 DEF Window
  <2>3. CASE c.of # 0
    <3>1. c.of \in Funcs
      BY <1>1, <2>1, <2>3 DEF Funcs
    <3> QED
      BY <1>3, <2>3, <3>1 DEF Window
  <2> QED
    BY <2>2, <2>3
<1>5. \A c \in Content : \A k \in {"missing", "empty", "full"} : File(k, c) \in ResultFiles
  BY DEF File, ResultFiles
<1> QED
  BY <1>2, <1>3, <1>4, <1>5

(* A result line is well typed.                                            *)
LEMMA SaysTypes ==
  ASSUME NEW c \in BOOLEAN, NEW m \in Content, lines = <<>>, Says(c, m)
  PROVE  /\ lines' \in Seq([correct : BOOLEAN, misses : Content])
         /\ Len(lines') = 1
<1>1. lines' = <<[correct |-> c, misses |-> m]>>
  BY DEF Says
<1>2. [correct |-> c, misses |-> m] \in [correct : BOOLEAN, misses : Content]
  OBVIOUS
<1> HIDE DEF Content
<1> QED
  BY <1>1, <1>2

LEMMA InitTypes == Init => TypeOK
<1> SUFFICES ASSUME Init PROVE TypeOK
  OBVIOUS
<1>2. Place
  BY InitInv DEF HarnessInv
<1>3. /\ score \in Content /\ misses \in Content /\ tmp \in Content /\ part \in Content
      /\ csim_results \in ResultFiles
  BY Contents DEF Init
<1>4. func_misses \in [Funcs -> Content]
  BY Contents DEF Init
<1>5. lines \in Seq([correct : BOOLEAN, misses : Content]) /\ Len(lines) <= 1
  BY DEF Init
<1>6. /\ asked \in Caches /\ alarmed \in BOOLEAN /\ exit \in {"no", "done", "failed", "aborted"}
      /\ marker \in {"missing", "short", "old", "ours"}
      /\ unseen \subseteq Funcs /\ reported \subseteq Funcs
  BY DEF Init
<1> QED
  BY <1>2, <1>3, <1>4, <1>5, <1>6 DEF TypeOK, Place

(* What is not in Place.                                                   *)
LEMMA TypeStep == TypeOK /\ HarnessInv /\ HarnessInv' /\ [Next]_vars => TypeOK'
<1> SUFFICES ASSUME TypeOK, Place, Place', [Next]_vars PROVE TypeOK'
  BY DEF HarnessInv
<1> DEFINE Rest ==
      /\ asked \in Caches /\ score \in Content /\ misses \in Content
      /\ func_misses \in [Funcs -> Content] /\ alarmed \in BOOLEAN
      /\ lines \in Seq([correct : BOOLEAN, misses : Content]) /\ Len(lines) <= 1
      /\ exit \in {"no", "done", "failed", "aborted"}
      /\ marker \in {"missing", "short", "old", "ours"}
      /\ tmp \in Content /\ part \in Content /\ csim_results \in ResultFiles
      /\ unseen \subseteq Funcs /\ reported \subseteq Funcs
<1>1. Rest /\ (pc # "exit" => lines = <<>>)
  BY DEF TypeOK, Place
<1> SUFFICES Rest'
  BY DEF TypeOK, Place
<1>2. ASSUME NoScore, pc # "exit"
      PROVE  /\ lines' \in Seq([correct : BOOLEAN, misses : Content]) /\ Len(lines') <= 1
             /\ exit' = "failed"
  <2>1. Says(FALSE, Nothing) /\ exit' = "failed" /\ lines = <<>>
    BY <1>1, <1>2 DEF NoScore
  <2>2. Nothing \in Content /\ FALSE \in BOOLEAN
    BY Contents
  <2>3. lines' \in Seq([correct : BOOLEAN, misses : Content]) /\ Len(lines') = 1
    BY <2>1, <2>2, SaysTypes
  <2> QED
    BY <2>1, <2>3
<1>3. CASE RuleCheck
  <2>1. pc # "exit" /\ alarmed' = TRUE
        /\ UNCHANGED <<asked, score, misses, func_misses, marker, tmp, part, csim_results,
                        unseen, reported>>
    BY <1>3 DEF RuleCheck, results, list, files, hist
  <2>2. CASE UNCHANGED <<lines, exit>>
    BY <1>1, <2>1, <2>2
  <2>3. CASE NoScore
    BY <1>1, <1>2, <2>1, <2>3
  <2> QED
    BY <1>3, <2>2, <2>3 DEF RuleCheck
<1>4. CASE NextFunction
  BY <1>1, <1>4 DEF NextFunction, list, files, hist
<1>5. CASE TraceValid
  <2>1. Whole(i) \in Content
    BY <1>5, Contents DEF Place, TraceValid
  <2> QED
    BY <1>1, <1>5, <2>1 DEF TraceValid, results, list
<1>6. CASE TraceWrong
  <2>1. Whole(i) \in Content
    BY <1>6, Contents DEF Place, TraceWrong
  <2> QED
    BY <1>1, <1>6, <2>1 DEF TraceWrong, results, list, hist
<1>7. CASE TraceDies
  <2>1. i \in Funcs /\ Whole(i) \in Content /\ Some(i) \in Content /\ Nothing \in Content
    BY <1>7, Contents DEF Place, TraceDies
  <2>2. tmp' \in Content /\ marker' \in {"missing", "short", "old", "ours"}
    BY <1>1, <1>7, <2>1 DEF TraceDies
  <2>3. unseen' \subseteq Funcs
    BY <1>1, <1>7, <2>1 DEF TraceDies
  <2> QED
    BY <1>1, <1>7, <2>2, <2>3 DEF TraceDies, results, list
<1>8. CASE ReadMarker
  <2>1. pc # "exit"
        /\ UNCHANGED <<asked, score, misses, func_misses, alarmed, marker, tmp, part,
                        csim_results, unseen, reported>>
    BY <1>8 DEF ReadMarker, files, hist
  <2>2. CASE NoScore
    BY <1>1, <1>2, <2>1, <2>2
  <2>3. CASE UNCHANGED lines /\ exit' \in {exit, "aborted"}
    BY <1>1, <2>1, <2>3
  <2> QED
    BY <1>8, <2>2, <2>3 DEF ReadMarker, Aborts
<1>9. CASE CopyTrace
  <2>1. part' \in Content
    BY <1>1, <1>9, Contents DEF CopyTrace
  <2> QED
    BY <1>1, <1>9, <2>1 DEF CopyTrace, results, list, hist
<1>10. CASE Csim
  <2>1. csim_results' \in ResultFiles
    BY <1>1, <1>10, Contents DEF Csim
  <2>2. reported' \subseteq Funcs
    BY <1>1, <1>10 DEF Csim, Place
  <2> QED
    BY <1>1, <1>10, <2>1, <2>2 DEF Csim, results, list
<1>11. CASE ReadResults
  <2>1. UNCHANGED <<asked, alarmed, marker, tmp, part, csim_results, unseen, reported, lines>>
        /\ exit' \in {exit, "aborted"}
    BY <1>11 DEF ReadResults, files, hist, Aborts
  <2>2. MissesRead \in Content
    BY <1>1 DEF MissesRead, ResultFiles
  <2>3. CASE UNCHANGED <<misses, score, func_misses>>
    BY <1>1, <2>1, <2>3
  <2>4. CASE /\ misses' = MissesRead /\ score' = ScoreOf(MissesRead)
             /\ func_misses' = [func_misses EXCEPT ![i] = MissesRead]
    <3>1. score' \in Content
      BY <1>1, <2>2, <2>4 DEF ScoreOf
    <3>2. func_misses' \in [Funcs -> Content]
      BY <1>1, <2>2, <2>4
    <3> QED
      BY <1>1, <2>1, <2>2, <2>4, <3>1, <3>2
  <2> QED
    BY <1>11, <2>3, <2>4 DEF ReadResults
<1>12. CASE Score
  <2>1. UNCHANGED <<asked, score, misses, func_misses, alarmed, marker, tmp, part,
                    csim_results, unseen, reported>> /\ exit' = "done"
    BY <1>12 DEF Score, results, list, files, hist
  <2>2. \E c \in BOOLEAN, m \in Content : Says(c, m)
    BY <1>1, <1>12, Contents DEF Score, Place
  <2>3. lines = <<>>
    BY <1>1, <1>12 DEF Score
  <2>4. lines' \in Seq([correct : BOOLEAN, misses : Content]) /\ Len(lines') = 1
    BY <2>2, <2>3, SaysTypes
  <2> QED
    BY <1>1, <2>1, <2>4
<1>13. CASE Alarm
  BY <1>1, <1>2, <1>13 DEF Alarm, Due, results, list, files, hist
<1>14. CASE UNCHANGED vars
  BY <1>1, <1>14 DEF vars, results, list, files, hist
<1> QED
  BY <1>3, <1>4, <1>5, <1>6, <1>7, <1>8, <1>9, <1>10, <1>11, <1>12, <1>13, <1>14
  DEF Next, Harness

(* Every variable keeps its type, whatever tracegen and csim do.           *)
THEOREM TypeCorrect == Spec => []TypeOK
BY Invariant, InitTypes, TypeStep, PTL DEF Spec

-----------------------------------------------------------------------------
(* The score.                                                              *)
Evaluating == pc \in {"trace", "marker", "copy", "csim", "read"}
Passed     == pc \in {"copy", "csim", "read"}

(* The submission is the last function with its description up to here.    *)
Known ==
  /\ funcid <= i
  /\ IF Evaluating THEN funcid = i <=> i \in submissions ELSE funcid < i
  /\ funcid = 0 => \A f \in submissions : i < f \/ (f = i /\ ~ Evaluating)

(* A submission that was taken is before the i-th, or the i-th.            *)
TakenSoFar ==
  /\ \A f \in Taken : f < i \/ (f = i /\ (pc = "marker" \/ Passed))
  /\ \A f \in Taken : f < i \/ Passed => correct

(* Functions before the i-th are settled: their misses, and the score, are *)
(* final.  The i-th has its place in the file once csim has reported.      *)
SoFar ==
  /\ Known /\ TakenSoFar
  /\ \A f \in reported : f < i \/ (f = i /\ pc = "read")
  /\ pc = "marker" \/ Passed => i \in validated \cup unseen
  /\ \A f \in validated \cap reported : f < i => func_misses[f] = Whole(f)
  /\ pc = "read" /\ i \in validated \cap reported => csim_results = File("full", Whole(i))
  /\ \A f \in Taken \cap validated \cap reported :
       f < i /\ (\A g \in Taken : g < i => g <= f) => score = Whole(f)
  /\ (\A f \in Taken : f = i) => score = IntMax

ScoreInv ==
  /\ reported # {} => csim(CsimCommand).exit = "no"
  /\ IF pc = "exit" THEN ScoreIsItsOwn ELSE SoFar /\ exit = "no"

LEMMA InitScores == Init => ScoreInv
<1> SUFFICES ASSUME Init PROVE SoFar
  BY DEF Init, ScoreInv
<1>1. submissions \subseteq Funcs /\ i = 1 /\ \A f \in Funcs : f \in Nat /\ f # 0
  BY FuncsAreNumbers DEF Init
<1>2. pc = "rules" /\ reported = {} /\ validated = {} /\ unseen = {} /\ funcid = 0 /\ score = IntMax
  BY DEF Init
<1>3. ~ Evaluating /\ ~ Passed /\ Taken = {}
  BY <1>2 DEF Evaluating, Passed, Taken
<1>4. Known
  BY <1>1, <1>2, <1>3 DEF Known
<1>5. TakenSoFar
  BY <1>3 DEF TakenSoFar
<1> QED
  BY <1>1, <1>2, <1>3, <1>4, <1>5 DEF SoFar

(* A run that ends without a score promises nothing about one.             *)
LEMMA EndsUnscored ==
  ASSUME ScoreInv, TypeOK, pc' = "exit", exit' # "done", UNCHANGED <<asked, reported>>
  PROVE  ScoreInv'
<1>1. reported' # {} => csim(CsimCommand)'.exit = "no"
  BY DEF ScoreInv, CsimCommand, PolicyOption
<1>2. reported' # {} => LET c == csim(CsimCommand)'
                        IN  [s |-> c.s, E |-> c.E, b |-> c.b, policy |-> c.policy] = asked'
  BY <1>1, CacheArrives DEF TypeOK, CsimCommand, PolicyOption
<1> QED
  BY <1>1, <1>2 DEF ScoreInv, ScoreIsItsOwn

(* A function that is skipped has no misses of its own; one whose results  *)
(* have been read has.                                                     *)
LEMMA Settles ==
  ASSUME SoFar, TypeOK, HarnessInv, i \in Funcs, Evaluating,
         pc' = "next", i' = i + 1,
         UNCHANGED <<submissions, funcid, correct, reported, validated, unseen>>,
         \A f \in Funcs \ {i} : func_misses'[f] = func_misses[f],
         i \in validated \cap reported => func_misses'[i] = Whole(i),
         score' = IF pc = "read" /\ funcid = i THEN func_misses'[i] ELSE score,
         pc = "read" \/ i \notin validated \cup unseen
  PROVE  SoFar'
<1>1. /\ i \in Nat /\ i # 0 /\ funcid \in Nat
      /\ \A f \in Funcs : f \in Nat /\ f # 0
      /\ validated \subseteq Funcs /\ reported \subseteq Funcs /\ submissions \subseteq Funcs
      /\ Taken \subseteq Funcs
  BY FuncsAreNumbers DEF TypeOK, Taken
<1>2. /\ ~ Evaluating' /\ ~ Passed' /\ pc' # "marker" /\ pc' # "read"
      /\ \A f \in Funcs : f < i' <=> f < i \/ f = i
      /\ Taken' = Taken
  BY <1>1 DEF Evaluating, Passed, Taken
<1>3. Known'
  <2>1. funcid' < i' /\ funcid' <= i'
    BY <1>1 DEF SoFar, Known
  <2>2. funcid' = 0 => \A f \in submissions : i < f
    BY <1>1 DEF SoFar, Known
  <2>3. \A f \in submissions : i < f => i' < f \/ f = i'
    BY <1>1
  <2> QED
    BY <1>2, <2>1, <2>2, <2>3 DEF Known
<1>4. i \in Taken => pc = "read"
  BY DEF Taken
<1>5. TakenSoFar'
  <2>1. \A f \in Taken : f < i'
    BY <1>1, <1>2 DEF SoFar, TakenSoFar
  <2>2. \A f \in Taken : correct
    BY <1>1, <1>2, <1>4 DEF SoFar, TakenSoFar, Passed
  <2> QED
    BY <1>2, <2>1, <2>2 DEF TakenSoFar
<1>6. \A f \in reported' : f < i'
  BY <1>1, <1>2 DEF SoFar
<1>7. \A f \in validated' \cap reported' : f < i' => func_misses'[f] = Whole(f)
  <2> SUFFICES ASSUME NEW f \in validated \cap reported, f < i'
               PROVE  func_misses'[f] = Whole(f)
    OBVIOUS
  <2>1. CASE f = i
    BY <2>1
  <2>2. CASE f # i
    BY <1>1, <1>2, <2>2 DEF SoFar
  <2> QED
    BY <2>1, <2>2
<1>8. pc = "read" /\ funcid = i <=> i \in Taken
  BY <1>4 DEF SoFar, Known, Passed, Taken
<1>9. ASSUME NEW f \in Taken \cap validated \cap reported, f < i',
             \A g \in Taken : g < i' => g <= f
      PROVE  score' = Whole(f)
  <2>1. CASE f = i
    BY <1>8, <2>1
  <2>2. CASE f # i
    <3>1. f < i /\ i \notin Taken
      BY <1>1, <1>2, <1>9, <2>2
    <3>2. \A g \in Taken : g < i => g <= f
      BY <1>1, <1>2, <1>9
    <3> QED
      BY <1>8, <3>1, <3>2 DEF SoFar
  <2> QED
    BY <2>1, <2>2
<1>10. (\A f \in Taken : f = i') => score' = IntMax
  <2> SUFFICES ASSUME \A f \in Taken : f = i' PROVE score' = IntMax
    OBVIOUS
  <2>1. Taken = {}
    BY <1>1, <1>2 DEF SoFar, TakenSoFar
  <2> QED
    BY <1>8, <2>1 DEF SoFar
<1> QED
  BY <1>2, <1>3, <1>5, <1>6, <1>7, <1>9, <1>10 DEF SoFar

(* A function that is accepted: nothing else changes.                      *)
LEMMA Accepting ==
  ASSUME SoFar, TypeOK, HarnessInv, i \in Funcs, pc = "trace", pc' = "marker",
         UNCHANGED <<i, submissions, funcid, correct, score, func_misses, reported>>,
         i \in validated' \cup unseen',
         validated' \cup unseen' = validated \cup unseen \cup {i},
         \A f \in validated' \cap reported' : f \in validated \cap reported
  PROVE  SoFar'
<1>1. /\ i \in Nat /\ \A f \in Funcs : f \in Nat
      /\ submissions \subseteq Funcs /\ Taken \subseteq Funcs /\ Taken' \subseteq Funcs
  BY FuncsAreNumbers DEF TypeOK, Taken
<1>2. Evaluating /\ Evaluating' /\ ~ Passed /\ ~ Passed'
  BY DEF Evaluating, Passed
<1>3. Known'
  BY <1>2 DEF SoFar, Known
<1>4. \A f : f \in Taken' /\ f # i <=> f \in Taken
  BY <1>1, <1>2 DEF SoFar, TakenSoFar, Taken
<1>5. TakenSoFar'
  BY <1>1, <1>2, <1>4 DEF SoFar, TakenSoFar
<1>6. ASSUME NEW f \in Taken' \cap validated' \cap reported', f < i,
             \A g \in Taken' : g < i => g <= f
      PROVE  score = Whole(f)
  <2>1. f \in Taken \cap validated \cap reported
    BY <1>1, <1>4, <1>6
  <2>2. \A g \in Taken : g < i => g <= f
    BY <1>4, <1>6
  <2> QED
    BY <1>6, <2>1, <2>2 DEF SoFar
<1>7. (\A f \in Taken' : f = i) => score = IntMax
  BY <1>4 DEF SoFar
<1> QED
  BY <1>2, <1>3, <1>5, <1>6, <1>7 DEF SoFar

LEMMA ScoreStep == ScoreInv /\ TypeOK /\ TypeOK' /\ HarnessInv /\ [Next]_vars => ScoreInv'
<1> SUFFICES ASSUME ScoreInv, TypeOK, TypeOK', HarnessInv, [Next]_vars PROVE ScoreInv'
  OBVIOUS
<1>0. /\ NFuncs \in Nat /\ i \in Nat /\ i # 0
      /\ \A f \in Funcs : f \in Nat /\ f # 0
      /\ submissions \subseteq Funcs /\ Taken \subseteq Funcs
      /\ validated \subseteq Funcs /\ reported \subseteq Funcs
  BY FuncsAreNumbers DEF TypeOK, Taken
<1>a. ASSUME pc # "exit", pc' # "exit", SoFar', exit' = exit, UNCHANGED <<asked, reported>>
      PROVE  ScoreInv'
  BY <1>a DEF ScoreInv, CsimCommand, PolicyOption
<1>b. ASSUME pc # "exit" PROVE SoFar /\ exit = "no"
  BY <1>b DEF ScoreInv
<1>1. CASE RuleCheck
  <2>1. CASE NoScore
    BY <1>1, <2>1, EndsUnscored DEF RuleCheck, NoScore, Goto, hist
  <2>2. CASE Goto("next") /\ UNCHANGED <<lines, exit>>
    <3>1. SoFar'
      BY <1>1, <1>b, <2>2 DEF RuleCheck, Goto, results, list, files, hist, SoFar, Known, TakenSoFar,
         Taken, Evaluating, Passed
    <3> QED
      BY <1>1, <1>a, <2>2, <3>1 DEF RuleCheck, Goto, hist
  <2> QED
    BY <1>1, <2>1, <2>2 DEF RuleCheck
<1>2. CASE NextFunction
  <2>1. pc = "next" /\ pc' = "trace" /\ SoFar
    BY <1>2, <1>b DEF NextFunction, Goto
  <2>2. /\ ~ Evaluating /\ Evaluating' /\ ~ Passed /\ ~ Passed'
        /\ funcid' = (IF i \in submissions THEN i ELSE funcid) /\ UNCHANGED <<i, submissions>>
    BY <1>2, <2>1 DEF NextFunction, Evaluating, Passed
  <2>4. funcid < i /\ (funcid = 0 => \A f \in submissions : i < f \/ f = i)
    BY <2>1, <2>2 DEF SoFar, Known
  <2>5. Known'
    BY <1>0, <2>2, <2>4 DEF Known
  <2>6. Taken' = Taken
    BY <1>2 DEF NextFunction, hist, Taken
  <2>7. TakenSoFar'
    BY <1>2, <2>1, <2>2, <2>6 DEF NextFunction, SoFar, TakenSoFar
  <2>3. SoFar'
    BY <1>2, <2>1, <2>2, <2>5, <2>6, <2>7 DEF NextFunction, list, files, hist, SoFar
  <2> QED
    BY <1>2, <1>a, <2>1, <2>3 DEF NextFunction, hist
<1>3. CASE TraceValid
  <2>1. /\ pc = "trace" /\ pc' = "marker" /\ i' = i /\ i \in Funcs /\ SoFar
        /\ i \notin validated \cup unseen
    BY <1>3, <1>b DEF TraceValid, Seen, Accepts, Goto, HarnessInv, Place
  <2>2. validated' = validated \cup {i} /\ i \notin reported
    BY <1>0, <1>3, <2>1 DEF TraceValid, SoFar
  <2>3. UNCHANGED <<submissions, funcid, correct, score, func_misses, unseen, reported>>
    BY <1>3 DEF TraceValid, results, list
  <2>4. i \in validated' \cup unseen' /\ validated' \cup unseen' = validated \cup unseen \cup {i}
    BY <2>2, <2>3
  <2>6. \A f \in validated' \cap reported' : f \in validated \cap reported
    BY <2>2, <2>3
  <2>5. SoFar'
    BY <2>1, <2>3, <2>4, <2>6, Accepting
  <2> QED
    BY <1>3, <1>a, <2>1, <2>3, <2>5 DEF TraceValid
<1>4. CASE TraceWrong
  <2>1. pc = "trace" /\ Skips /\ i \in Funcs /\ SoFar /\ i \notin validated \cup unseen
    BY <1>0, <1>4, <1>b DEF TraceWrong, Seen, HarnessInv, Place
  <2>2. SoFar'
    BY <1>4, <2>1, Settles DEF TraceWrong, results, list, hist, Skips, Goto, Evaluating
  <2> QED
    BY <1>4, <1>a, <2>1, <2>2 DEF TraceWrong, Skips, Goto, hist
<1>5. CASE TraceDies
  <2>1. pc = "trace" /\ i \in Funcs /\ SoFar /\ i \notin validated \cup unseen
    BY <1>5, <1>b DEF TraceDies, HarnessInv, Place
  <2>2. UNCHANGED <<asked, submissions, funcid, correct, score, func_misses, exit, validated, reported>>
    BY <1>5 DEF TraceDies, results, list
  <2>3. CASE Seen(139) /\ UNCHANGED unseen
    <3>1. Skips
      BY <2>3 DEF Seen
    <3>2. SoFar'
      BY <2>1, <2>2, <2>3, <3>1, Settles DEF Skips, Goto, Evaluating
    <3> QED
      BY <1>a, <2>1, <2>2, <3>1, <3>2 DEF Skips, Goto
  <2>4. CASE Seen(0) /\ unseen' = unseen \cup {i}
    <3>1. pc' = "marker" /\ i' = i
      BY <2>4 DEF Seen, Accepts, Goto
    <3>2. i \in validated' \cup unseen' /\ validated' \cup unseen' = validated \cup unseen \cup {i}
      BY <2>2, <2>4
    <3>3. SoFar'
      BY <2>1, <2>2, <3>1, <3>2, Accepting
    <3> QED
      BY <1>a, <2>1, <2>2, <3>1, <3>3
  <2> QED
    BY <1>5, <2>3, <2>4 DEF TraceDies
<1>6. CASE ReadMarker
  <2>1. pc = "marker" /\ i \in Funcs /\ SoFar
    BY <1>6, <1>b DEF ReadMarker, HarnessInv, Place
  <2>2. UNCHANGED <<i, asked, submissions, funcid, score, func_misses, csim_results,
                    validated, unseen, reported>>
    BY <1>6 DEF ReadMarker, files, hist
  <2>3. CASE Aborts \/ NoScore
    BY <2>2, <2>3, EndsUnscored DEF Aborts, NoScore, Goto
  <2>4. CASE correct' = (correct \/ funcid = i) /\ Goto("copy") /\ UNCHANGED <<lines, exit>>
    <3>1. pc' = "copy" /\ Evaluating /\ Evaluating' /\ Passed' /\ Taken' = Taken
      BY <2>1, <2>2, <2>4 DEF Goto, Evaluating, Passed, Taken
    <3>2. funcid = i <=> i \in submissions
      BY <2>1, <3>1 DEF SoFar, Known
    <3>3. \A f \in Taken : f < i => correct
      BY <2>1 DEF SoFar, TakenSoFar
    <3>5. \A f \in Taken : correct'
      BY <2>1, <2>4, <3>2, <3>3 DEF SoFar, TakenSoFar, Taken
    <3>6. Known'
      BY <2>1, <2>2, <3>1 DEF SoFar, Known
    <3>7. TakenSoFar'
      BY <2>1, <2>2, <3>1, <3>5 DEF SoFar, TakenSoFar
    <3>4. SoFar'
      BY <2>1, <2>2, <3>1, <3>6, <3>7 DEF SoFar
    <3> QED
      BY <1>a, <2>1, <2>2, <2>4, <3>4 DEF Goto
  <2> QED
    BY <1>6, <2>3, <2>4 DEF ReadMarker
<1>7. CASE CopyTrace
  <2>1. pc = "copy" /\ pc' = "csim" /\ SoFar
    BY <1>7, <1>b DEF CopyTrace, Goto
  <2>2. SoFar'
    BY <1>7, <2>1 DEF CopyTrace, results, list, hist, SoFar, Known, TakenSoFar, Taken, Evaluating, Passed
  <2> QED
    BY <1>7, <1>a, <2>1, <2>2 DEF CopyTrace, hist
<1>8. CASE Csim
  <2>1. pc = "csim" /\ pc' = "read" /\ i' = i /\ i \in Funcs /\ SoFar
    BY <1>8, <1>b DEF Csim, Goto, HarnessInv, Place
  <2>2. UNCHANGED <<asked, submissions, funcid, correct, score, func_misses, exit,
                    validated, unseen>>
    BY <1>8 DEF Csim, results, list
  <2>3. i \notin reported /\ (i \in validated => part = Whole(i))
    BY <1>0, <2>1 DEF SoFar, HarnessInv, CsimReadsWholeTrace
  <2>4. CASE /\ csim(CsimCommand).exit = "no"
             /\ csim_results' = File("full", part) /\ reported' = reported \cup {i}
    <3>1. \A f \in reported' : f < i \/ f = i
      BY <2>1, <2>4 DEF SoFar
    <3>2. \A f \in validated' \cap reported' : f < i => func_misses'[f] = Whole(f)
      BY <1>0, <2>1, <2>2, <2>4 DEF SoFar
    <3>3. i \in validated' => csim_results' = File("full", Whole(i))
      BY <2>2, <2>3, <2>4
    <3>4. \A f \in Taken \cap validated \cap reported' : f < i => f \in reported
      BY <1>0, <2>1, <2>4
    <3>7. Taken' = Taken /\ Evaluating /\ Evaluating' /\ Passed /\ Passed'
      BY <2>1, <2>2 DEF Taken, Evaluating, Passed
    <3>8. Known' /\ TakenSoFar'
      BY <2>1, <2>2, <3>7 DEF SoFar, Known, TakenSoFar
    <3>9. /\ \A f \in Taken' \cap validated' \cap reported' :
               f < i' /\ (\A g \in Taken' : g < i' => g <= f) => score' = Whole(f)
          /\ (\A f \in Taken' : f = i') => score' = IntMax
      BY <2>1, <2>2, <3>4, <3>7 DEF SoFar
    <3>5. SoFar'
      BY <2>1, <2>2, <3>1, <3>2, <3>3, <3>7, <3>8, <3>9 DEF SoFar
    <3>6. csim(CsimCommand)'.exit = "no"
      BY <2>2, <2>4 DEF CsimCommand, PolicyOption
    <3> QED
      BY <1>b, <2>1, <2>2, <3>5, <3>6 DEF ScoreInv
  <2>5. CASE UNCHANGED reported
    <3>1. SoFar'
      BY <2>1, <2>2, <2>3, <2>5 DEF SoFar, Known, TakenSoFar, Taken, Evaluating, Passed
    <3> QED
      BY <1>a, <2>1, <2>2, <2>5, <3>1
  <2> QED
    BY <1>8, <2>4, <2>5 DEF Csim
<1>9. CASE ReadResults
  <2>1. pc = "read" /\ i \in Funcs /\ SoFar
    BY <1>9, <1>b DEF ReadResults, HarnessInv, Place
  <2>2. UNCHANGED <<asked, submissions, funcid, correct, validated, unseen, reported>>
    BY <1>9 DEF ReadResults, hist
  <2>3. CASE Aborts
    BY <2>2, <2>3, EndsUnscored DEF Aborts, Goto
  <2>4. CASE /\ func_misses' = [func_misses EXCEPT ![i] = MissesRead]
             /\ score' = ScoreOf(MissesRead)
             /\ Skips /\ UNCHANGED <<lines, exit>>
    <3>1. func_misses'[i] = MissesRead /\ \A f \in Funcs \ {i} : func_misses'[f] = func_misses[f]
      BY <2>1, <2>4 DEF TypeOK
    <3>2. score' = IF funcid = i THEN func_misses'[i] ELSE score
      BY <2>4, <3>1 DEF ScoreOf
    <3>3. i \in validated \cap reported => func_misses'[i] = Whole(i)
      BY <2>1, <3>1 DEF SoFar, MissesRead, File
    <3>4. SoFar'
      BY <2>1, <2>2, <2>4, <3>1, <3>2, <3>3, Settles DEF Skips, Goto, Evaluating
    <3> QED
      BY <1>a, <2>1, <2>2, <2>4, <3>4 DEF Skips, Goto
  <2> QED
    BY <1>9, <2>3, <2>4 DEF ReadResults
<1>10. CASE Score
  <2>1. pc = "next" /\ i = NFuncs + 1 /\ SoFar /\ lines = <<>>
    BY <1>0, <1>10, <1>b DEF Score, HarnessInv, Place
  <2>2. UNCHANGED <<asked, submissions, funcid, score, correct, func_misses, validated, unseen, reported>>
    BY <1>10 DEF Score, results, list, hist
  <2>3. \A f \in Funcs : f < i
    BY <2>1, FuncsAreNumbers DEF Funcs
  <2>4. \A f \in validated' \cap reported' : func_misses'[f] = Whole(f)
    BY <1>0, <2>1, <2>2, <2>3 DEF SoFar
  <2>5. submissions # {} => lines' = <<[correct |-> correct, misses |-> score]>>
    <3>1. submissions # {} => funcid # 0
      BY <1>0, <2>1, <2>3 DEF SoFar, Known
    <3> QED
      BY <1>10, <2>1, <3>1 DEF Score, Says
  <2>6. \A f \in validated \cap reported : LastTaken(f) => correct = TRUE /\ score = Whole(f)
    <3> SUFFICES ASSUME NEW f \in validated \cap reported, LastTaken(f)
                 PROVE  correct = TRUE /\ score = Whole(f)
      OBVIOUS
    <3>1. f \in Taken /\ f < i /\ \A g \in Taken : g <= f
      BY <1>0, <2>3 DEF LastTaken
    <3> QED
      BY <2>1, <3>1 DEF SoFar, TakenSoFar, TypeOK
  <2>7. Taken = {} => correct = FALSE /\ score = IntMax
    BY <2>1 DEF SoFar, HarnessInv, Accepted, TypeOK
  <2>12. Taken' = Taken /\ \A f : LastTaken(f)' = LastTaken(f)
    BY <2>2 DEF Taken, LastTaken
  <2>13. \A f : LastTaken(f) => submissions # {}
    BY DEF LastTaken, Taken
  <2>8. /\ \A f \in validated' \cap reported' :
             LastTaken(f)' => lines' = <<[correct |-> TRUE, misses |-> Whole(f)]>>
        /\ submissions' # {} /\ Taken' = {} =>
             lines' = <<[correct |-> FALSE, misses |-> IntMax]>>
    BY <2>2, <2>5, <2>6, <2>7, <2>12, <2>13
  <2>9. reported' # {} => csim(CsimCommand)'.exit = "no"
    BY <2>2 DEF ScoreInv, CsimCommand, PolicyOption
  <2>10. reported' # {} => LET c == csim(CsimCommand)'
                           IN  [s |-> c.s, E |-> c.E, b |-> c.b, policy |-> c.policy] = asked'
    BY <2>2, <2>9, CacheArrives DEF TypeOK, CsimCommand, PolicyOption
  <2>11. pc' = "exit"
    BY <1>10 DEF Score, Goto
  <2> QED
    BY <2>4, <2>8, <2>9, <2>10, <2>11 DEF ScoreInv, ScoreIsItsOwn
<1>11. CASE Alarm
  BY <1>11, EndsUnscored DEF Alarm, NoScore, Goto, hist
<1>12. CASE UNCHANGED vars
  BY <1>12 DEF vars, results, list, files, hist, ScoreInv, ScoreIsItsOwn, SoFar, Known,
     TakenSoFar, Taken, LastTaken, Evaluating, Passed, CsimCommand, PolicyOption
<1> QED
  BY <1>1, <1>2, <1>3, <1>4, <1>5, <1>6, <1>7, <1>8, <1>9, <1>10, <1>11, <1>12
  DEF Next, Harness

(* For every number of functions and of submissions, and every cache: the  *)
(* misses of a validated function csim reported on are its own, counted in *)
(* the cache that was asked for, and the result line is that of the last   *)
(* submission that was not skipped (test-trans.c:eval_perf, main;          *)
(* csim.c:main).                                                           *)
THEOREM ScoresAreTheirOwn == Spec => []ScoreIsItsOwn
<1>1. ScoreInv /\ TypeOK => ScoreIsItsOwn
  <2> SUFFICES ASSUME ScoreInv, TypeOK PROVE ScoreIsItsOwn
    OBVIOUS
  <2>1. reported # {} => LET c == csim(CsimCommand)
                         IN  [s |-> c.s, E |-> c.E, b |-> c.b, policy |-> c.policy] = asked
    BY CacheArrives DEF ScoreInv, TypeOK
  <2> QED
    BY <2>1 DEF ScoreInv, ScoreIsItsOwn
<1> QED
  BY <1>1, InitScores, ScoreStep, Invariant, TypeCorrect, PTL DEF Spec

-----------------------------------------------------------------------------
(* tracegen's validation.                                                  *)

(* Cell k of an array with rows of N is in row k \div N, column k % N.      *)
LEMMA CellOf ==
  ASSUME NEW M \in Nat \ {0}, NEW N \in Nat \ {0}, NEW r \in 0 .. M - 1, NEW c \in 0 .. N - 1
  PROVE  /\ At(r, c, N) \in 0 .. M * N - 1
         /\ At(r, c, N) % N = c /\ At(r, c, N) \div N = r
<1> DEFINE k == r * N + c
<1>1. k \in Nat /\ r * N \in Nat
  OBVIOUS
<1>2. r * N + c <= (M - 1) * N + (N - 1)
  <2>1. r * N <= (M - 1) * N
    OBVIOUS
  <2> QED
    BY <2>1
<1>3. (M - 1) * N = M * N - N
  OBVIOUS
<1>4. k \in 0 .. M * N - 1
  BY <1>1, <1>2, <1>3
<1>5. k % N \in 0 .. N - 1 /\ k \div N \in Nat /\ k = N * (k \div N) + (k % N)
  BY <1>1
<1> DEFINE q == k \div N
<1>6. q = r
  <2> HIDE DEF k, q
  <2>1. q \in Nat /\ r \in Nat
    BY <1>5 DEF q
  <2>2. CASE q >= r + 1
    <3>1. N * q >= N * (r + 1)
      BY <2>1, <2>2
    <3> QED
      BY <1>5, <2>1, <3>1 DEF q, k
  <2>3. CASE q + 1 <= r
    <3>1. N * (q + 1) <= N * r
      BY <2>1, <2>3
    <3> QED
      BY <1>5, <2>1, <3>1 DEF q, k
  <2> QED
    BY <2>1, <2>2, <2>3
<1>7. k % N = c
  BY <1>5, <1>6
<1> QED
  BY <1>4, <1>6, <1>7 DEF At


(* B is the transpose of A.                                                *)
Transposed(M, N, A, B) ==
  \A row \in 0 .. N - 1, column \in 0 .. M - 1 : A[row * M + column] = B[column * N + row]

(* What tracegen's validate compares B with is the transpose of A.         *)
LEMMA ValidateFinds ==
  ASSUME NEW M \in Nat \ {0}, NEW N \in Nat \ {0}, NEW A, NEW B
  PROVE  validate(M, N, A, B) <=> Transposed(M, N, A, B)
<1>1. ASSUME NEW r \in 0 .. M - 1, NEW c \in 0 .. N - 1
      PROVE  correctTrans(M, N, A)[At(r, c, N)] = A[c * M + r]
  <2>1. At(r, c, N) \in 0 .. M * N - 1 /\ At(r, c, N) % N = c /\ At(r, c, N) \div N = r
    BY CellOf
  <2>2. correctTrans(M, N, A)[At(r, c, N)] = A[At(c, r, M)]
    BY <2>1 DEF correctTrans
  <2> QED
    BY <2>2 DEF At
<1>2. validate(M, N, A, B) <=> \A r \in 0 .. M - 1, c \in 0 .. N - 1 : B[r * N + c] = A[c * M + r]
  BY <1>1 DEF validate, At
<1> QED
  BY <1>2 DEF Transposed

(* Two functions that leave the same matrices.                             *)
LEMMA StatusOfTwo ==
  ASSUME NEW M, NEW N, NEW A, NEW B
  PROVE  LET after == <<[A |-> A, B |-> B], [A |-> A, B |-> B]>>
         IN  /\ main(M, N, after, 2) = IF validate(M, N, A, B) THEN 0 ELSE 2
             /\ main(M, N, after, -1) = IF validate(M, N, A, B) THEN 0 ELSE 1
<1> DEFINE m     == [A |-> A, B |-> B]
           after == <<m, m>>
<1>1. \A f \in {1, 2} : after[f].A = A /\ after[f].B = B
  OBVIOUS
<1>2. DOMAIN after = {1, 2}
  OBVIOUS
<1> HIDE DEF after
<1>3. Wrong(M, N, after, 2) = IF validate(M, N, A, B) THEN {} ELSE {2}
  BY <1>1 DEF Wrong
<1>4. Wrong(M, N, after, -1) = IF validate(M, N, A, B) THEN {} ELSE {1, 2}
  BY <1>1, <1>2 DEF Wrong
<1>5. main(M, N, after, 2) = IF validate(M, N, A, B) THEN 0 ELSE 2
  <2>1. (CHOOSE f \in {2} : \A g \in {2} : f <= g) = 2
    OBVIOUS
  <2> QED
    BY <1>3, <2>1 DEF main
<1>6. main(M, N, after, -1) = IF validate(M, N, A, B) THEN 0 ELSE 1
  <2>1. (CHOOSE f \in {1, 2} : \A g \in {1, 2} : f <= g) = 1
    OBVIOUS
  <2> QED
    BY <1>4, <2>1 DEF main
<1> QED
  BY <1>5, <1>6 DEF after

LEMMA TransposesAreValid == ValidMeansTransposed
<1> SUFFICES ASSUME NEW M \in 1 .. MaxCells, NEW N \in 1 .. MaxCells \div M,
                    NEW A \in Matrix(N, M), NEW B \in Matrix(M, N)
             PROVE  LET transposed == \A row \in 0 .. N - 1, column \in 0 .. M - 1 :
                                        A[row * M + column] = B[column * N + row]
                        matrices   == [A |-> A, B |-> B]
                    IN  /\ validate(M, N, A, B) = transposed
                        /\ is_transpose(M, N, A, B) = transposed
                        /\ main(M, N, <<matrices, matrices>>, 2) = (IF transposed THEN 0 ELSE 2)
                        /\ main(M, N, <<matrices, matrices>>, -1) = (IF transposed THEN 0 ELSE 1)
  BY DEF ValidMeansTransposed
<1>1. M \in Nat \ {0} /\ N \in Nat \ {0}
  OBVIOUS
<1> DEFINE transposed == Transposed(M, N, A, B)
<1>2. validate(M, N, A, B) = transposed
  <2>1. validate(M, N, A, B) <=> transposed
    BY <1>1, ValidateFinds
  <2>2. validate(M, N, A, B) \in BOOLEAN /\ transposed \in BOOLEAN
    BY DEF validate, Transposed
  <2> QED
    BY <2>1, <2>2
<1>3. is_transpose(M, N, A, B) = transposed
  BY DEF is_transpose, At, Transposed
<1> HIDE DEF transposed
<1>4. LET matrices == [A |-> A, B |-> B]
      IN  /\ main(M, N, <<matrices, matrices>>, 2) = (IF transposed THEN 0 ELSE 2)
          /\ main(M, N, <<matrices, matrices>>, -1) = (IF transposed THEN 0 ELSE 1)
  BY <1>2, StatusOfTwo
<1> QED
  BY <1>2, <1>3, <1>4 DEF transposed, Transposed

(* For matrices of every shape and content: status 0 of tracegen means the *)
(* transpose, and both checks of the lab agree on it                       *)
(* (tracegen.c:validate, main; trans.c:is_transpose).                      *)
THEOREM ValidationIsRight == Spec => []TracegenIsRight
<1>1. TracegenIsRight
  BY TransposesAreValid DEF TracegenIsRight
<1> QED
  BY <1>1, PTL
=============================================================================
