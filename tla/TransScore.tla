----------------------------- MODULE TransScore -----------------------------
(***************************************************************************)
(* The transpose harness of the cache lab: test-trans runs tracegen (under *)
(* valgrind) and csim once per registered function and scores the          *)
(* submission - or the submissions: nothing keeps two functions from       *)
(* having its description.  The processes talk through files - .marker, trace.tmp,     *)
(* trace.f<i>, .csim_results - that earlier runs leave behind.             *)
(*                                                                         *)
(* A trace, or a number of misses, is known by the function whose accesses *)
(* it stands for (0: none of this run) and by whether it has all of them.  *)
(***************************************************************************)
EXTENDS Csim, Tracegen

CONSTANTS
  NFuncs,   (* functions that registerFunctions registers                  *)
  Caches,   (* the caches [s, E, b, policy] somebody asks for              *)
  Shells    (* how system's shell runs the command: "fork", or "exec" in   *)
            (* its own place, so that system sees the death by a signal    *)

ASSUME TransScoreAssumption ==
  /\ NFuncs \in Nat /\ Shells \subseteq {"fork", "exec"}
  /\ \A c \in Caches : c \in [s : CInt, E : CInt, b : CInt, policy : STRING]

VARIABLES
  (* test-trans                                                            *)
  pc, i,
  asked,         (* cache_s, cache_E, cache_b, cache_policy                *)
  submissions,   (* the functions with the submission's description        *)
  funcid, correct, score,  (* the struct results                           *)
  func_correct,  (* func_list[].correct                                    *)
  func_misses,   (* func_list[].num_misses                                 *)
  misses,        (* the local variable, not initialised                    *)
  alarmed,       (* alarm(120) has been set                                *)
  lines,         (* the TEST_TRANS_RESULTS lines printed                   *)
  exit,          (* "no", then "done", "failed" or "aborted"               *)
  (* the files                                                             *)
  marker,        (* .marker: "missing", "short", "old" or "ours"           *)
  tmp,           (* trace.tmp                                              *)
  part,          (* trace.f<i>, as another process sees it                 *)
  csim_results,  (* .csim_results                                          *)
  (* history                                                               *)
  validated,     (* functions tracegen has validated                       *)
  unseen,        (* functions whose death system reported as status 0      *)
  reported       (* functions csim has reported on                         *)

results == <<funcid, correct, score>>
list    == <<func_correct, func_misses>>
files   == <<marker, tmp, part, csim_results>>
hist    == <<validated, unseen, reported>>
vars    == <<pc, i, asked, submissions, results, list, misses, alarmed, lines, exit, files, hist>>

Funcs == 1 .. NFuncs

Content == [of : 0 .. NFuncs, whole : BOOLEAN]
Nothing == [of |-> 0, whole |-> FALSE]
Whole(f) == [of |-> f, whole |-> TRUE]
Some(f)  == [of |-> f, whole |-> FALSE]

(* INT_MAX, and what an earlier run's csim left or a variable happens to   *)
(* contain.                                                                *)
IntMax == [of |-> 0, whole |-> TRUE]
Junk   == Nothing

(* A file of numbers: missing, empty, or with its content.                 *)
File(kind, c) == [kind |-> kind, content |-> c]
ResultFiles   == [kind : {"missing", "empty", "full"}, content : Content]

Init ==
  /\ pc = "rules" /\ i = 1 /\ submissions \in SUBSET Funcs /\ asked \in Caches
  /\ funcid = 0 /\ correct = FALSE /\ score = IntMax
  /\ func_correct = [f \in Funcs |-> FALSE] /\ func_misses = [f \in Funcs |-> Junk]
  /\ misses = Junk /\ alarmed = FALSE /\ lines = <<>> /\ exit = "no"
  /\ marker \in {"missing", "short", "old"}
  /\ tmp = Nothing /\ part = Nothing
  /\ csim_results \in {File("missing", Nothing), File("empty", Nothing), File("full", Junk)}
  /\ validated = {} /\ unseen = {} /\ reported = {}

Goto(there) == pc' = there

Says(c, m) == lines' = Append(lines, [correct |-> c, misses |-> m])

(* TEST_TRANS_RESULTS=0:0 and exit(1); a failed assertion says nothing.    *)
NoScore == Says(FALSE, Nothing) /\ exit' = "failed" /\ Goto("exit")

Aborts == exit' = "aborted" /\ Goto("exit") /\ UNCHANGED lines

-----------------------------------------------------------------------------
(* main: the alarm, then the rules of Part B.                              *)
RuleCheck ==
  /\ pc = "rules"
  /\ alarmed' = TRUE
  /\ \/ Goto("next") /\ UNCHANGED <<lines, exit>>
     \/ NoScore
  /\ UNCHANGED <<i, asked, submissions, results, list, misses, files, hist>>

(* eval_perf's loop: each function with the submission's description is    *)
(* the submission from here on.                                            *)
NextFunction ==
  /\ pc = "next" /\ i <= NFuncs
  /\ funcid' = IF i \in submissions THEN i ELSE funcid
  /\ Goto("trace")
  /\ UNCHANGED <<i, asked, submissions, correct, score, list, misses, alarmed, lines, exit,
                 files, hist>>

(* tracegen: what it leaves behind, and what main sees of its exit.  The   *)
(* shell has emptied trace.tmp; .marker is written before the function     *)
(* runs, the end marker is in the trace if it returns.                     *)
Skips == Goto("next") /\ i' = i + 1

Accepts == Goto("marker") /\ UNCHANGED i

\* Mutant: the exit status of tracegen is ignored.
SeenAnyway(status) == Accepts

Seen(status) == IF status = 0 THEN Accepts ELSE Skips

TraceValid ==
  /\ pc = "trace"
  /\ marker' = "ours" /\ tmp' = Whole(i)
  /\ validated' = validated \cup {i}
  /\ Seen(0)
  /\ UNCHANGED <<asked, submissions, results, list, misses, alarmed, lines, exit, part,
                 csim_results, unseen, reported>>

(* validate found a difference: status i + 1, with i counted from 0.       *)
TraceWrong ==
  /\ pc = "trace"
  /\ marker' = "ours" /\ tmp' = Whole(i)
  /\ Seen(i)
  /\ UNCHANGED <<asked, submissions, results, list, misses, alarmed, lines, exit, part,
                 csim_results, hist>>

(* It died: before the function was called, with .marker unwritten or half *)
(* written, in the function, or in validate, when the trace is whole.      *)
(* WEXITSTATUS is 0 for a death by a signal that no shell turned into an   *)
(* exit status.                                                            *)
TraceDies ==
  /\ pc = "trace"
  /\ \/ marker' = "ours" /\ tmp' \in {Whole(i), Some(i), Nothing}
     \/ marker' \in {marker, "short"} /\ tmp' = Nothing
  /\ \/ "fork" \in Shells /\ Seen(139) /\ UNCHANGED unseen
     \/ "exec" \in Shells /\ Seen(0) /\ unseen' = unseen \cup {i}
  /\ UNCHANGED <<asked, submissions, results, list, misses, alarmed, lines, exit, part,
                 csim_results, validated, reported>>

ReadMarker ==
  /\ pc = "marker"
  /\ \/ marker = "missing" /\ Aborts /\ UNCHANGED <<correct, func_correct>>
     \/ marker = "short" /\ NoScore /\ UNCHANGED <<correct, func_correct>>
     \/ /\ marker \in {"old", "ours"}
        /\ func_correct' = [func_correct EXCEPT ![i] = TRUE]
        /\ correct' = (correct \/ funcid = i)
        /\ Goto("copy") /\ UNCHANGED <<lines, exit>>
  /\ UNCHANGED <<i, asked, submissions, funcid, score, func_misses, misses, alarmed, files, hist>>

(* The window between the markers goes to trace.f<i>, which is closed at   *)
(* the end marker only: without one, some of it stays in the buffer.       *)
\* Mutant: the file is left open at the end marker too.
Unflushed(t) == IF t.of = 0 THEN Nothing ELSE Some(t.of)

Window(t) == IF t.whole THEN t ELSE IF t.of = 0 THEN Nothing ELSE Some(t.of)

CopyTrace ==
  /\ pc = "copy"
  /\ \/ marker = "ours" /\ part' = Window(tmp)
     \/ marker = "old" /\ part' \in {Window(tmp), Nothing}
  /\ Goto("csim")
  /\ UNCHANGED <<i, asked, submissions, results, list, misses, alarmed, lines, exit,
                 marker, tmp, csim_results, hist>>

(* The command: the numbers were read with atoi and are printed as         *)
(* unsigned; csim's own default stands for lru.                            *)
Option(opt, arg) == [opt |-> opt, arg |-> arg]

\* Mutant: the default policy is never overridden.
NoPolicy == <<>>

PolicyOption == IF asked.policy = "lru" THEN <<>> ELSE <<Option("r", asked.policy)>>

CsimCommand ==
  <<Option("s", AsUnsigned(asked.s)), Option("E", AsUnsigned(asked.E)),
    Option("b", AsUnsigned(asked.b)), Option("t", "trace")>> \o PolicyOption

(* csim on trace.f<i>; its exit status is not looked at.  printSummary     *)
(* rewrites .csim_results; csim may refuse its options, crash, or be cut   *)
(* off.                                                                    *)
Csim ==
  /\ pc = "csim"
  /\ \/ /\ csim(CsimCommand).exit = "no"
        /\ csim_results' = File("full", part) /\ reported' = reported \cup {i}
     \/ UNCHANGED <<csim_results, reported>>
     \/ /\ csim(CsimCommand).exit = "no"
        /\ csim_results' = File("empty", Nothing) /\ UNCHANGED reported
  /\ Goto("read")
  /\ UNCHANGED <<i, asked, submissions, results, list, misses, alarmed, lines, exit,
                 marker, tmp, part, validated, unseen>>

(* The file, whoever wrote it; fscanf leaves the variable alone if it is   *)
(* empty.                                                                  *)
MissesRead == IF csim_results.kind = "full" THEN csim_results.content ELSE misses

\* Mutant: the last function's misses are the submission's.
ScoreOfLast(m) == m

ScoreOf(m) == IF funcid = i THEN m ELSE score

ReadResults ==
  /\ pc = "read"
  /\ IF csim_results.kind = "missing"
     THEN Aborts /\ UNCHANGED <<i, misses, score, func_misses>>
     ELSE /\ misses' = MissesRead
          /\ func_misses' = [func_misses EXCEPT ![i] = MissesRead]
          /\ score' = ScoreOf(MissesRead)
          /\ Skips /\ UNCHANGED <<lines, exit>>
  /\ UNCHANGED <<asked, submissions, funcid, correct, func_correct, alarmed, files, hist>>

Score ==
  /\ pc = "next" /\ i > NFuncs
  /\ IF funcid = 0 THEN Says(FALSE, Nothing) ELSE Says(correct, score)
  /\ exit' = "done" /\ Goto("exit")
  /\ UNCHANGED <<i, asked, submissions, results, list, misses, alarmed, files, hist>>

(* SIGALRM, 120 seconds after main asked for it: whatever the harness is   *)
(* waiting for.                                                            *)
\* Mutant: nobody set the alarm.
Never == FALSE

Due == alarmed /\ pc # "exit"

Alarm ==
  /\ Due
  /\ NoScore
  /\ UNCHANGED <<i, asked, submissions, results, list, misses, alarmed, files, hist>>

Harness == RuleCheck \/ NextFunction \/ ReadMarker \/ CopyTrace \/ ReadResults \/ Score

Next == Harness \/ TraceValid \/ TraceWrong \/ TraceDies \/ Csim \/ Alarm

(* The harness runs and time passes; tracegen and csim may hang.           *)
Spec == Init /\ [][Next]_vars /\ WF_vars(Harness) /\ WF_vars(Alarm)

-----------------------------------------------------------------------------
(* Properties.                                                             *)

TypeOK ==
  /\ pc \in {"rules", "next", "trace", "marker", "copy", "csim", "read", "exit"}
  /\ i \in 1 .. NFuncs + 1 /\ submissions \subseteq Funcs /\ funcid \in {0} \cup submissions
  /\ asked \in Caches
  /\ correct \in BOOLEAN /\ score \in Content /\ misses \in Content
  /\ func_correct \in [Funcs -> BOOLEAN] /\ func_misses \in [Funcs -> Content]
  /\ alarmed \in BOOLEAN
  /\ lines \in Seq([correct : BOOLEAN, misses : Content]) /\ Len(lines) <= 1
  /\ exit \in {"no", "done", "failed", "aborted"}
  /\ marker \in {"missing", "short", "old", "ours"}
  /\ tmp \in Content /\ part \in Content /\ csim_results \in ResultFiles
  /\ validated \subseteq Funcs /\ unseen \subseteq Funcs /\ reported \subseteq Funcs

(* The submissions that were not skipped: tracegen validated them in this  *)
(* run, or died in a way that system reports as status 0                   *)
(* (test-trans.c:92).                                                      *)
Taken == submissions \cap (validated \cup unseen)

(* Whoever is called correct was not skipped: each function in the list,   *)
(* and one of the submissions if the result line says so (which one, if    *)
(* there are several, it does not tell: test-trans.c:112, 270).            *)
CorrectMeansValidated ==
  /\ \A f \in Funcs : func_correct[f] => f \in validated \cup unseen
  /\ \A l \in DOMAIN lines : lines[l].correct => Taken # {}

(* csim is given the whole window of the function being evaluated, if that *)
(* function was validated: nothing is left in a buffer, and nothing of     *)
(* another function or another run is in it, however this one died.        *)
CsimReadsWholeTrace ==
  pc = "csim" => IF i \in validated THEN part = Whole(i)
                 ELSE part \in {Whole(i), Some(i), Nothing}

LastTaken(f) == f \in Taken /\ \A g \in Taken : g <= f

(* In a run that is done, the misses of a validated function on whose      *)
(* trace csim reported are its own, whatever csim and tracegen did on the  *)
(* other functions, counted in the cache that was asked for.  The result   *)
(* line is that of the last submission that was not skipped, and has no    *)
(* misses if all were.                                                     *)
ScoreIsItsOwn ==
  /\ reported # {} => LET c == csim(CsimCommand)
                      IN [s |-> c.s, E |-> c.E, b |-> c.b, policy |-> c.policy] = asked
  /\ exit = "done" =>
       /\ \A f \in validated \cap reported :
            /\ func_misses[f] = Whole(f)
            /\ LastTaken(f) => lines = <<[correct |-> TRUE, misses |-> Whole(f)]>>
       /\ submissions # {} /\ Taken = {} =>
            lines = <<[correct |-> FALSE, misses |-> IntMax]>>

(* tracegen's status 0, which the harness goes by, means what it seems to  *)
(* mean.                                                                   *)
TracegenIsRight == pc = "trace" => ValidMeansTransposed

(* It ends, also if tracegen or csim hangs, and unless it aborts it has    *)
(* said how.                                                               *)
Ends == <>(pc = "exit" /\ (exit = "aborted" \/ lines # <<>>))

=============================================================================
