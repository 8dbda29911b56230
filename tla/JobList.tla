------------------------------ MODULE JobList ------------------------------
(***************************************************************************)
(* The shell's job list (SHELL_HW/src/tsh.c): an array of MAXJOBS slots,   *)
(* a slot being free while its pid is 0, and the counter of job ids that   *)
(* addjob wraps and deletejob rewinds.                                     *)
(*                                                                         *)
(* Its callers (eval, the fg and bg commands, the SIGCHLD handler) are not *)
(* written in the repository.  They add a child that fork has just         *)
(* returned, or -1 when fork failed, remove a child that waitpid reports,  *)
(* and change states as the comment at the head of the file draws them.    *)
(***************************************************************************)
EXTENDS Integers, FiniteSets

CONSTANTS MAXJOBS,    \* number of slots
          Pids,       \* the pids that fork can return
          JidBound    \* bound: no job is added while the counter is above it

ASSUME JobListAssumption ==
  /\ MAXJOBS \in Nat \ {0}
  /\ Pids \subseteq Nat \ {0}
  /\ JidBound \in Nat

VARIABLES jobs,       \* the slots: [pid, jid, state]
          nextjid,    \* the next job id to hand out
          numbering   \* history of nextjid: "fresh" (above every id in the list),
                      \* "wrapped" (back at 1 since), "reused" (and handed out since)

jobVars == <<jobs, nextjid, numbering>>

Slots == 0 .. MAXJOBS - 1
UNDEF == "UNDEF"
FG    == "FG"
BG    == "BG"
ST    == "ST"
ListedStates == {FG, BG, ST}

NULL == MAXJOBS       \* a lookup that finds no slot

First(S) == CHOOSE i \in S : \A j \in S : i <= j

-----------------------------------------------------------------------------
(* The helper routines.                                                    *)

\* Mutant: the state is left as it was.
ClearsAllButState(job) == [job EXCEPT !.pid = 0, !.jid = 0]

clearjob(job) == [job EXCEPT !.pid = 0, !.jid = 0, !.state = UNDEF]

initjobs == [i \in Slots |-> [pid |-> 0, jid |-> 0, state |-> UNDEF]]

\* Mutant: the loop ends one slot early.
maxjidShort(js) ==
  LET ids == {0} \cup {js[i].jid : i \in Slots \ {MAXJOBS - 1}}
  IN  CHOOSE m \in ids : \A k \in ids : k <= m

\* The largest id in use, 0 when there is none.
maxjid(js) ==
  LET ids == {0} \cup {js[i].jid : i \in Slots}
  IN  CHOOSE m \in ids : \A k \in ids : k <= m

WithPid(pid) == {i \in Slots : jobs[i].pid = pid}
WithJid(jid) == {i \in Slots : jobs[i].jid = jid}
Foreground   == {i \in Slots : jobs[i].state = FG}

getjobpid(pid) ==
  IF pid < 1 \/ WithPid(pid) = {} THEN NULL ELSE First(WithPid(pid))

getjobjid(jid) ==
  IF jid < 1 \/ WithJid(jid) = {} THEN NULL ELSE First(WithJid(jid))

pid2jid(pid) ==
  IF pid < 1 \/ WithPid(pid) = {} THEN 0 ELSE jobs[First(WithPid(pid))].jid

\* Mutant: the loop ends one slot early.
FgpidShort ==
  LET S == Foreground \ {MAXJOBS - 1} IN IF S = {} THEN 0 ELSE jobs[First(S)].pid

fgpid == IF Foreground = {} THEN 0 ELSE jobs[First(Foreground)].pid

\* What the jobs command prints, a row for each slot in use.
listjobs == {jobs[i] : i \in {s \in Slots : jobs[s].pid # 0}}

\* Mutant: a full list is not noticed, and the first slot written over.
AddsOverFirst(pid, st) ==
  /\ pid >= 1
  /\ jobs' = [jobs EXCEPT ![IF WithPid(0) = {} THEN 0 ELSE First(WithPid(0))] =
                [pid |-> pid, jid |-> nextjid, state |-> st]]
  /\ nextjid' = IF nextjid + 1 > MAXJOBS THEN 1 ELSE nextjid + 1
  /\ numbering' = "reused"

\* The first free slot is taken, and the counter wraps past MAXJOBS.
addjob(pid, st) ==
  /\ pid >= 1
  /\ WithPid(0) # {}
  /\ jobs' = [jobs EXCEPT ![First(WithPid(0))] =
                [pid |-> pid, jid |-> nextjid, state |-> st]]
  /\ nextjid' = IF nextjid + 1 > MAXJOBS THEN 1 ELSE nextjid + 1
  /\ numbering' = IF numbering # "fresh" THEN "reused"
                  ELSE IF nextjid + 1 > MAXJOBS THEN "wrapped" ELSE "fresh"

\* No pid, or no slot ("Tried to create too many jobs"): nothing changes.
addjobRefuses(pid) ==
  /\ pid < 1 \/ WithPid(0) = {}
  /\ UNCHANGED jobVars

\* The slot is cleared first; the ids go on after the largest one that is left.
deletejob(pid) ==
  /\ pid >= 1
  /\ WithPid(pid) # {}
  /\ jobs' = [jobs EXCEPT ![First(WithPid(pid))] = clearjob(@)]
  /\ nextjid' = maxjid(jobs') + 1
  /\ numbering' = IF numbering = "wrapped" THEN "fresh" ELSE numbering

\* A pid that is not listed: a stage of a pipeline other than the first.
deletejobRefuses(pid) ==
  /\ pid < 1 \/ WithPid(pid) = {}
  /\ UNCHANGED jobVars

\* The transitions of the comment at the head of the file, and a background job
\* that stops by itself.
Transitions == {<<FG, ST>>, <<ST, FG>>, <<ST, BG>>, <<BG, FG>>, <<BG, ST>>}

\* A caller writes the state of a job it has looked up.
SetState(i, st) ==
  /\ i \in Slots
  /\ <<jobs[i].state, st>> \in Transitions
  /\ jobs' = [jobs EXCEPT ![i].state = st]
  /\ UNCHANGED <<nextjid, numbering>>

-----------------------------------------------------------------------------
(* The list under any sequence of calls.                                   *)

JobInit == jobs = initjobs /\ nextjid = 1 /\ numbering = "fresh"

\* fork gives no pid that is still listed: its process has not been reaped.
JobNext ==
  \/ \E pid \in Pids : WithPid(pid) = {} /\ \E st \in {FG, BG} : addjob(pid, st)
  \/ \E pid \in Pids : deletejob(pid)
  \/ \E i \in Slots, st \in ListedStates : SetState(i, st)

JobSpec == JobInit /\ [][JobNext]_jobVars

-----------------------------------------------------------------------------
(* Properties.                                                             *)

JobTypeOK ==
  /\ jobs \in [Slots -> [pid : Nat, jid : Nat, state : ListedStates \cup {UNDEF}]]
  /\ nextjid \in Nat \ {0}
  /\ numbering \in {"fresh", "wrapped", "reused"}

\* A slot is in use, numbered and in a state together, or in none of the three, and
\* no process is listed twice: deletejob leaves nothing of a job behind.
SlotsWhole ==
  /\ \A i \in Slots : /\ jobs[i].pid = 0 <=> jobs[i].jid = 0
                      /\ jobs[i].pid = 0 <=> jobs[i].state = UNDEF
                      /\ jobs[i].pid \in Pids \cup {0}
  /\ \A i, j \in Slots : jobs[i].pid = jobs[j].pid /\ jobs[i].pid # 0 => i = j

\* "bg and fg accept either %jid or pid": the id that the jobs command shows for a
\* job names that job, until the counter has wrapped past MAXJOBS and handed out an id
\* with no job deleted in between.  (After that two jobs can have the same id, and
\* %jid reaches only the first.)
IdNamesItsJob ==
  numbering # "reused" =>
    \A row \in listjobs : /\ getjobjid(row.jid) # NULL
                          /\ jobs[getjobjid(row.jid)].pid = row.pid
                          /\ pid2jid(row.pid) = row.jid

\* The list is a map from the pids of its jobs to their states: JobMap.
Listed ==
  [p \in {jobs[i].pid : i \in Slots} \ {0} |-> jobs[getjobpid(p)].state]

Map == INSTANCE JobMap WITH JobStates <- ListedStates, Room <- MAXJOBS,
                            listed <- Listed

ImplementsJobMap == Map!MapSpec
=============================================================================
