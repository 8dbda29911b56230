------------------------------- MODULE Shell -------------------------------
(***************************************************************************)
(* The shell's main routine (SHELL_HW/src/tsh.c) around its job list: the  *)
(* options, the signal handlers, the loop that reads a line and has it     *)
(* evaluated, and the ways out.                                            *)
(*                                                                         *)
(* eval, waitfg, the fg and bg commands and three of the handlers are left *)
(* to be written.  They are external here: they use the job list as its    *)
(* comments say, fork and addjob with SIGCHLD blocked, and wait for a      *)
(* foreground job until fgpid names another.                               *)
(***************************************************************************)
EXTENDS JobList, ParseLine

CONSTANT Reads        \* bound: the lines standard input has

VARIABLES pc,         \* where main is
          restarts,   \* the handlers are in place and let reads restart
          stdin,      \* "open", "ended" or "broken"
          lines,      \* the lines read into cmdline so far
          cut,        \* the last of them ends with the input, without a newline
          evaluated,  \* the lines given to eval so far
          awaited,    \* the pid waitfg waits for
          why         \* how the process ended

input == <<stdin, lines, cut>>
shellVars == <<pc, restarts, input, evaluated, awaited, why>>
vars == <<jobVars, shellVars>>

exit(reason) == pc' = "exit" /\ why' = reason

-----------------------------------------------------------------------------
(* main.                                                                   *)

Init ==
  /\ JobInit
  /\ pc = "start" /\ restarts = FALSE /\ stdin = "open"
  /\ lines = 0 /\ cut = FALSE /\ evaluated = 0 /\ awaited = 0 /\ why = "runs"

\* -h or an unknown option; -v and -p change only what is printed.
usage ==
  /\ pc = "start"
  /\ exit("usage")
  /\ UNCHANGED <<jobVars, restarts, input, evaluated, awaited>>

\* Mutant: the flags are left at 0.
NoFlags == FALSE

\* The flags Signal gives to sigaction: whether an interrupted read goes on.
SA_RESTART == TRUE

Signal ==
  /\ pc = "start"
  /\ \/ pc' = "read" /\ restarts' = SA_RESTART /\ UNCHANGED why
     \/ exit("unix_error") /\ UNCHANGED restarts
  /\ UNCHANGED <<jobVars, input, evaluated, awaited>>

\* fgets returns a line, or as much of it as fits.
ReadLine ==
  /\ pc = "read" /\ stdin = "open" /\ lines < Reads
  /\ lines' = lines + 1
  /\ pc' = "eval"
  /\ UNCHANGED <<jobVars, restarts, stdin, cut, evaluated, awaited, why>>

\* What fgets leaves in cmdline at the end of the input: what was there, or a last
\* line that has no newline.
LastLine ==
  \/ UNCHANGED <<lines, cut>>
  \/ lines < Reads /\ lines' = lines + 1 /\ cut' = TRUE

\* Mutant: feof is not looked at.
ReadEndGoesOn ==
  /\ pc = "read" /\ stdin = "open"
  /\ stdin' = "ended"
  /\ LastLine
  /\ pc' = "eval"
  /\ UNCHANGED <<jobVars, restarts, evaluated, awaited, why>>

\* fgets finds the end of the input: feof is looked at before cmdline is, and main
\* leaves, with a last line that nobody evaluates if there is one.
ReadEnd ==
  /\ pc = "read" /\ stdin = "open"
  /\ stdin' = "ended"
  /\ LastLine
  /\ exit("eof")
  /\ UNCHANGED <<jobVars, restarts, evaluated, awaited>>

\* fgets fails and ferror says so.
ReadError ==
  /\ pc = "read" /\ stdin = "open"
  /\ stdin' = "broken"
  /\ exit("app_error")
  /\ UNCHANGED <<jobVars, restarts, lines, cut, evaluated, awaited>>

\* SIGQUIT ends the shell from its handler, wherever main is.
sigquit_handler ==
  /\ pc \notin {"start", "exit"}
  /\ exit("sigquit")
  /\ UNCHANGED <<jobVars, restarts, input, evaluated, awaited>>

-----------------------------------------------------------------------------
(* External: what a command line does, and the children.                   *)

Returns == pc' = "read" /\ evaluated' = evaluated + 1

\* A line that starts nothing (blank, or jobs), and quit.
EvalNothing ==
  /\ pc = "eval"
  /\ \/ Returns /\ UNCHANGED why
     \/ exit("quit") /\ evaluated' = evaluated + 1
  /\ UNCHANGED <<jobVars, restarts, input, awaited>>

\* A foreground job is waited for.
Waits(pid) == pc' = "waitfg" /\ awaited' = pid /\ UNCHANGED evaluated

\* fork gives a pid whose process has been reaped, or -1.  Which one matters to
\* nobody (the list only compares pids), so it is the smallest.
forks ==
  LET reaped == {pid \in Pids : WithPid(pid) = {}}
  IN  {-1} \cup {pid \in reaped : \A other \in reaped : pid <= other}

Launch(pid, st) ==
  /\ pc = "eval"
  /\ nextjid <= JidBound
  /\ pid \in forks
  /\ \/ addjob(pid, st) /\ IF st = FG THEN Waits(pid) ELSE Returns /\ UNCHANGED awaited
     \/ addjobRefuses(pid) /\ Returns /\ UNCHANGED awaited
  /\ UNCHANGED <<restarts, input, why>>

\* fg %jid and bg %jid.
Resume(jid, st) ==
  /\ pc = "eval"
  /\ getjobjid(jid) # NULL
  /\ SetState(getjobjid(jid), st)
  /\ IF st = FG THEN Waits(jobs[getjobjid(jid)].pid) ELSE Returns /\ UNCHANGED awaited
  /\ UNCHANGED <<restarts, input, why>>

waitfg ==
  /\ pc = "waitfg"
  /\ fgpid # awaited
  /\ Returns
  /\ UNCHANGED <<jobVars, restarts, input, awaited, why>>

\* SIGCHLD: waitpid reports a child that has ended or stopped.  A read that the
\* signal interrupts goes on if the handler was installed so, and fails otherwise.
sigchld_handler(pid) ==
  /\ pc \notin {"start", "exit"}
  /\ \/ deletejob(pid)
     \/ deletejobRefuses(pid)
     \/ getjobpid(pid) # NULL /\ SetState(getjobpid(pid), ST)
  /\ IF pc = "read" /\ ~restarts THEN exit("app_error") ELSE UNCHANGED <<pc, why>>
  /\ UNCHANGED <<restarts, input, evaluated, awaited>>

Stopped == pc = "exit" /\ UNCHANGED vars

Next ==
  \/ usage \/ Signal \/ ReadLine \/ ReadEnd \/ ReadError \/ sigquit_handler
  \/ EvalNothing \/ waitfg \/ Stopped
  \/ \E pid \in Pids : sigchld_handler(pid)
  \/ \E pid \in Pids \cup {-1}, st \in {FG, BG} : Launch(pid, st)
  \/ \E jid \in 1 .. JidBound, st \in {FG, BG} : Resume(jid, st)

Spec == Init /\ [][Next]_vars

-----------------------------------------------------------------------------
(* Properties.                                                             *)

\* "At most 1 job can be in the FG state" (tsh.c:41): while the shell runs, the only
\* foreground job is the one waitfg waits for, and fgpid finds it.
OneForeground ==
  pc # "exit" =>
    \A i \in Foreground : pc = "waitfg" /\ jobs[i].pid = awaited /\ fgpid = awaited

\* Every line is given to eval once, before the next one is read over it, and what is
\* left in cmdline at the end of the input is not evaluated again.  The one line read
\* and never evaluated is a last one without a newline.  The shell gives up before the
\* end only when the input is broken, not because a child's death interrupted the read
\* (tsh.c:135-154, 506).
EveryLineOnce ==
  /\ pc = "read" => evaluated = lines
  /\ pc \in {"eval", "waitfg"} => evaluated = lines - 1
  /\ why = "eof" => evaluated = (IF cut THEN lines - 1 ELSE lines)
  /\ why = "app_error" => stdin = "broken"

\* The arguments of the line that eval is given are those that were typed, however
\* they are spaced and quoted (tsh.c:193-241).
ArgumentsComeBack == pc = "eval" => ParsesBack
=============================================================================
