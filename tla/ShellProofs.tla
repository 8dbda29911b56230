---------------------------- MODULE ShellProofs ----------------------------
(***************************************************************************)
(* Proofs about the shell's job list and main loop, for every number of    *)
(* slots and every set of pids, and about parseline, for every line of     *)
(* every set of arguments.                                                 *)
(***************************************************************************)
EXTENDS Shell, SequenceTheorems, FiniteSetTheorems, TLAPS

-----------------------------------------------------------------------------
(* The operators.                                                          *)

\* Every set of naturals that is not empty has a least element.
LEMMA LeastNatural ==
  ASSUME NEW S, S \subseteq Nat, S # {}
  PROVE  \E m \in S : \A k \in S : m <= k
<1>1. PICK m \in S : \A k \in S : ~ (<<k, m>> \in OpToRel(<, Nat))
  BY WFMin, NatLessThanWellFounded
<1>2. \A k \in S : ~ (k < m)
  BY <1>1 DEF OpToRel
<1> QED
  BY <1>2

\* First is the least element, so a lookup finds a slot if there is one.
LEMMA FirstIsLeast ==
  ASSUME NEW S, S \subseteq Nat, S # {}
  PROVE  First(S) \in S /\ \A k \in S : First(S) <= k
BY LeastNatural DEF First

\* The slots are as many naturals as there is room for jobs.
LEMMA SlotRange == Slots \subseteq Nat /\ IsFiniteSet(Slots) /\ Cardinality(Slots) = MAXJOBS
<1>1. MAXJOBS - 1 \in Int /\ MAXJOBS \in Nat \ {0}
  BY JobListAssumption
<1>2. Slots \subseteq Nat
  BY <1>1 DEF Slots
<1>3. IsFiniteSet(0 .. MAXJOBS - 1) /\ Cardinality(0 .. MAXJOBS - 1) = MAXJOBS
  BY <1>1, FS_Interval
<1> QED
  BY <1>2, <1>3 DEF Slots

Listable == [pid : Nat, jid : Nat, state : ListedStates \cup {UNDEF}]

\* maxjid is at least as large as every id in a list whose ids have a bound, and is
\* one of them or 0.
LEMMA MaxjidIsLargest ==
  ASSUME NEW js \in [Slots -> Listable],
         NEW b \in Nat, \A i \in Slots : js[i].jid <= b
  PROVE  /\ maxjid(js) \in Nat
         /\ \A i \in Slots : js[i].jid <= maxjid(js)
<1> DEFINE ids == {0} \cup {js[i].jid : i \in Slots}
           above == {u \in Nat : \A k \in ids : k <= u}
<1>1. ids \subseteq Nat
  BY DEF Listable
<1>2. b \in above
  BY <1>1
<1>3. PICK m \in above : \A u \in above : m <= u
  <2>1. above \subseteq Nat /\ above # {}
    BY <1>2
  <2> QED
    BY <2>1, LeastNatural
<1>4. m \in ids
  <2>1. SUFFICES ASSUME m \notin ids PROVE FALSE
    OBVIOUS
  <2>2. m \in Nat /\ \A k \in ids : k <= m
    BY <1>3
  <2>3. m # 0 /\ \A k \in ids : k <= m - 1
    BY <2>1, <2>2, <1>1
  <2>4. m - 1 \in above
    BY <2>2, <2>3
  <2> QED
    BY <2>2, <2>4, <1>3
<1>5. \A k \in ids : k <= m
  BY <1>3
<1>6. maxjid(js) = CHOOSE x \in ids : \A k \in ids : k <= x
  BY DEF maxjid
<1> HIDE DEF ids
<1>7. maxjid(js) \in ids /\ \A k \in ids : k <= maxjid(js)
  BY <1>4, <1>5, <1>6
<1> USE DEF ids
<1>8. \A i \in Slots : js[i].jid \in ids
  OBVIOUS
<1> QED
  BY <1>1, <1>7, <1>8

-----------------------------------------------------------------------------
(* The job list.                                                           *)

\* What maxjid needs, and what the history of the counter stands for: while no id has
\* been handed out twice, ids name their jobs; before the counter wraps it is larger
\* than every one of them.
Numbered ==
  /\ \E b \in Nat : \A i \in Slots : jobs[i].jid <= b
  /\ numbering = "fresh" => \A i \in Slots : jobs[i].jid < nextjid
  /\ numbering = "wrapped" => nextjid = 1
  /\ numbering # "reused" =>
       \A i, j \in Slots : jobs[i].jid = jobs[j].jid /\ jobs[i].jid # 0 => i = j

JobInv == JobTypeOK /\ SlotsWhole /\ Numbered

LEMMA JobInitially == JobInit => JobInv
<1> SUFFICES ASSUME JobInit PROVE JobInv
  OBVIOUS
<1>1. \A i \in Slots : jobs[i] = [pid |-> 0, jid |-> 0, state |-> UNDEF]
  BY DEF JobInit, initjobs
<1>2. JobTypeOK
  BY DEF JobInit, initjobs, JobTypeOK
<1>3. SlotsWhole
  BY <1>1 DEF SlotsWhole
<1>4. Numbered
  <2>1. 0 \in Nat /\ \A i \in Slots : jobs[i].jid <= 0
    BY <1>1
  <2>2. nextjid = 1 /\ numbering = "fresh"
    BY DEF JobInit
  <2>3. \A i \in Slots : jobs[i].jid = 0
    BY <1>1
  <2> QED
    BY <2>1, <2>2, <2>3 DEF Numbered
<1> QED
  BY <1>2, <1>3, <1>4 DEF JobInv

\* A list keeps its type when a slot gets a record of the right type.
LEMMA SlotType ==
  ASSUME JobTypeOK, NEW s \in Slots, NEW row \in Listable,
         jobs' = [jobs EXCEPT ![s] = row]
  PROVE  /\ jobs' \in [Slots -> Listable]
         /\ jobs'[s] = row
         /\ \A i \in Slots \ {s} : jobs'[i] = jobs[i]
BY DEF JobTypeOK, Listable

\* A process that is not listed yet is added.
LEMMA AddKeeps ==
  ASSUME JobInv, NEW pid \in Pids, NEW st \in {FG, BG},
         WithPid(pid) = {}, addjob(pid, st)
  PROVE  JobInv'
<1> DEFINE s == First(WithPid(0))
           row == [pid |-> pid, jid |-> nextjid, state |-> st]
<1> USE DEF JobInv
<1>1. s \in Slots /\ jobs[s].pid = 0
  <2>1. WithPid(0) \subseteq Nat /\ WithPid(0) # {}
    BY SlotRange DEF WithPid, addjob
  <2>2. s \in WithPid(0)
    BY <2>1, FirstIsLeast
  <2> QED
    BY <2>2 DEF WithPid
<1>2. pid \in Nat \ {0} /\ nextjid \in Nat \ {0} /\ st # UNDEF /\ MAXJOBS \in Nat
  BY JobListAssumption DEF JobTypeOK, FG, BG, UNDEF
<1>3. row \in Listable
  BY <1>2 DEF Listable, ListedStates
<1>4. jobs' = [jobs EXCEPT ![s] = row]
  BY DEF addjob
<1> HIDE DEF s, row
<1>5. /\ jobs' \in [Slots -> Listable]
      /\ jobs'[s] = row
      /\ \A i \in Slots \ {s} : jobs'[i] = jobs[i]
  BY <1>1, <1>3, <1>4, SlotType
<1>6. row.pid = pid /\ row.jid = nextjid /\ row.state = st
  BY DEF row
<1>7. /\ nextjid' = IF nextjid + 1 > MAXJOBS THEN 1 ELSE nextjid + 1
      /\ numbering' = IF numbering # "fresh" THEN "reused"
                      ELSE IF nextjid + 1 > MAXJOBS THEN "wrapped" ELSE "fresh"
  BY DEF addjob
<1>8. JobTypeOK'
  BY <1>2, <1>5, <1>7 DEF JobTypeOK, Listable
<1>9. SlotsWhole'
  <2>1. \A i \in Slots : /\ jobs'[i].pid = 0 <=> jobs'[i].jid = 0
                         /\ jobs'[i].pid = 0 <=> jobs'[i].state = UNDEF
                         /\ jobs'[i].pid \in Pids \cup {0}
    BY <1>2, <1>5, <1>6 DEF SlotsWhole
  <2>2. \A i \in Slots : jobs[i].pid # pid
    BY DEF WithPid
  <2>3. \A i, j \in Slots : jobs'[i].pid = jobs'[j].pid /\ jobs'[i].pid # 0 => i = j
    BY <1>5, <1>6, <2>2 DEF SlotsWhole
  <2> QED
    BY <2>1, <2>3 DEF SlotsWhole
<1>10. Numbered'
  <2>0. \A i \in Slots : jobs[i].jid \in Nat
    BY DEF JobTypeOK
  <2>1. PICK b \in Nat : \A i \in Slots : jobs[i].jid <= b
    BY DEF Numbered
  <2>2. \E c \in Nat : \A i \in Slots : jobs'[i].jid <= c
    <3>1. b + nextjid \in Nat
      BY <1>2
    <3>2. \A i \in Slots : jobs'[i].jid <= b + nextjid
      BY <1>2, <1>5, <1>6, <2>0, <2>1
    <3> QED
      BY <3>1, <3>2
  <2>3. numbering' = "fresh" => \A i \in Slots : jobs'[i].jid < nextjid'
    <3> SUFFICES ASSUME numbering' = "fresh", NEW i \in Slots
                 PROVE  jobs'[i].jid < nextjid'
      OBVIOUS
    <3>1. numbering = "fresh" /\ nextjid' = nextjid + 1
      BY <1>7
    <3>2. jobs'[i].jid <= nextjid
      BY <1>2, <1>5, <1>6, <2>0, <3>1 DEF Numbered
    <3> QED
      BY <1>2, <1>5, <3>1, <3>2 DEF Listable
  <2>4. numbering' = "wrapped" => nextjid' = 1
    BY <1>7
  <2>5. numbering' # "reused" =>
          \A i, j \in Slots : jobs'[i].jid = jobs'[j].jid /\ jobs'[i].jid # 0 => i = j
    <3> SUFFICES ASSUME numbering' # "reused"
                 PROVE  \A i, j \in Slots : jobs'[i].jid = jobs'[j].jid /\ jobs'[i].jid # 0 => i = j
      OBVIOUS
    <3>1. numbering = "fresh"
      BY <1>7
    <3>2. \A i \in Slots : jobs[i].jid # nextjid
      BY <1>2, <2>0, <3>1 DEF Numbered
    <3> QED
      BY <1>5, <1>6, <3>1, <3>2 DEF Numbered
  <2> QED
    BY <2>2, <2>3, <2>4, <2>5 DEF Numbered
<1> QED
  BY <1>8, <1>9, <1>10

\* A cleared slot has the three fields of one that was never used.
LEMMA ClearedRow ==
  ASSUME NEW row \in Listable
  PROVE  clearjob(row) = [pid |-> 0, jid |-> 0, state |-> UNDEF]
<1> DEFINE r1 == [row EXCEPT !.pid = 0]
           r2 == [r1 EXCEPT !.jid = 0]
           r3 == [r2 EXCEPT !.state = UNDEF]
<1>1. r1 \in Listable /\ r1.pid = 0
  BY DEF Listable
<1> HIDE DEF r1
<1>2. r2 \in Listable /\ r2.pid = 0 /\ r2.jid = 0
  BY <1>1 DEF Listable
<1> HIDE DEF r2
<1>3. r3 \in Listable /\ r3.pid = 0 /\ r3.jid = 0 /\ r3.state = UNDEF
  BY <1>2 DEF Listable
<1>4. clearjob(row) = r3
  BY DEF clearjob, r1, r2
<1> HIDE DEF r3
<1> QED
  BY <1>3, <1>4 DEF Listable

\* A job is removed.
LEMMA DeleteKeeps ==
  ASSUME JobInv, NEW pid \in Pids, deletejob(pid)
  PROVE  JobInv'
<1> DEFINE s == First(WithPid(pid))
           row == [pid |-> 0, jid |-> 0, state |-> UNDEF]
<1> USE DEF JobInv
<1>1. s \in Slots
  <2>1. WithPid(pid) \subseteq Nat /\ WithPid(pid) # {}
    BY SlotRange DEF WithPid, deletejob
  <2>2. s \in WithPid(pid)
    BY <2>1, FirstIsLeast
  <2> QED
    BY <2>2 DEF WithPid
<1>2. row \in Listable
  BY DEF Listable
<1>a. jobs' = [jobs EXCEPT ![s] = clearjob(jobs[s])]
  BY DEF deletejob
<1>b. clearjob(jobs[s]) = row
  <2>1. jobs[s] \in Listable
    BY <1>1 DEF JobTypeOK, Listable
  <2> QED
    BY <2>1, ClearedRow
<1> HIDE DEF s, row
<1>3. jobs' = [jobs EXCEPT ![s] = row]
  BY <1>a, <1>b
<1>4. /\ jobs' \in [Slots -> Listable]
      /\ jobs'[s] = row
      /\ \A i \in Slots \ {s} : jobs'[i] = jobs[i]
  BY <1>1, <1>2, <1>3, SlotType
<1>5. row.pid = 0 /\ row.jid = 0 /\ row.state = UNDEF
  BY DEF row
<1>6. PICK b \in Nat : \A i \in Slots : jobs[i].jid <= b
  BY DEF Numbered
<1>7. \A i \in Slots : jobs'[i].jid <= b
  BY <1>4, <1>5, <1>6
<1>8. maxjid(jobs') \in Nat /\ \A i \in Slots : jobs'[i].jid <= maxjid(jobs')
  BY <1>4, <1>7, MaxjidIsLargest
<1>9. /\ nextjid' = maxjid(jobs') + 1
      /\ numbering' = IF numbering = "wrapped" THEN "fresh" ELSE numbering
  BY DEF deletejob
<1>10. JobTypeOK'
  BY <1>4, <1>8, <1>9 DEF JobTypeOK, Listable
<1>11. SlotsWhole'
  BY <1>4, <1>5 DEF SlotsWhole
<1>12. Numbered'
  <2>1. \A i \in Slots : jobs'[i].jid \in Nat
    BY <1>4 DEF Listable
  <2>2. \A i \in Slots : jobs'[i].jid < nextjid'
    BY <1>8, <1>9, <2>1
  <2>3. numbering' # "wrapped" /\ (numbering' # "reused" => numbering # "reused")
    BY <1>9
  <2>4. numbering' # "reused" =>
          \A i, j \in Slots : jobs'[i].jid = jobs'[j].jid /\ jobs'[i].jid # 0 => i = j
    BY <1>4, <1>5, <2>3 DEF Numbered
  <2>5. \E c \in Nat : \A i \in Slots : jobs'[i].jid <= c
    BY <1>7
  <2> QED
    BY <2>2, <2>3, <2>4, <2>5 DEF Numbered
<1> QED
  BY <1>10, <1>11, <1>12

\* The state of a job is written.
LEMMA SetStateKeeps ==
  ASSUME JobInv, NEW s, NEW st \in ListedStates, SetState(s, st)
  PROVE  /\ JobInv'
         /\ s \in Slots /\ jobs[s].pid # 0
         /\ jobs'[s].pid = jobs[s].pid /\ jobs'[s].state = st
         /\ \A i \in Slots \ {s} : jobs'[i] = jobs[i]
<1> USE DEF JobInv
<1>1. s \in Slots /\ <<jobs[s].state, st>> \in Transitions
  BY DEF SetState
<1>2. jobs[s] \in Listable /\ jobs[s].state # UNDEF /\ st # UNDEF
  BY <1>1 DEF Transitions, JobTypeOK, Listable, ListedStates, FG, BG, ST, UNDEF
<1> DEFINE row == [jobs[s] EXCEPT !.state = st]
<1>3. /\ row \in Listable /\ row.state = st
      /\ row.pid = jobs[s].pid /\ row.jid = jobs[s].jid
  BY <1>2 DEF Listable
<1>4. jobs' = [jobs EXCEPT ![s] = row] /\ nextjid' = nextjid /\ numbering' = numbering
  BY DEF SetState
<1> HIDE DEF row
<1>5. /\ jobs' \in [Slots -> Listable]
      /\ jobs'[s] = row
      /\ \A i \in Slots \ {s} : jobs'[i] = jobs[i]
  BY <1>1, <1>3, <1>4, SlotType
<1>6. JobTypeOK'
  BY <1>4, <1>5 DEF JobTypeOK, Listable
<1>7. \A i \in Slots : jobs'[i].pid = jobs[i].pid /\ jobs'[i].jid = jobs[i].jid
  BY <1>3, <1>5
<1>8. SlotsWhole'
  BY <1>1, <1>2, <1>3, <1>5, <1>7 DEF SlotsWhole
<1>9. Numbered'
  BY <1>4, <1>7 DEF Numbered
<1>10. jobs[s].pid # 0
  BY <1>1, <1>2 DEF SlotsWhole
<1> QED
  BY <1>1, <1>3, <1>5, <1>6, <1>8, <1>9, <1>10

LEMMA UnchangedKeeps == JobInv /\ UNCHANGED jobVars => JobInv'
BY DEF JobInv, JobTypeOK, SlotsWhole, Numbered, jobVars

-----------------------------------------------------------------------------
(* The shell around it.                                                    *)

\* Launch adds a process that is not listed, with a slot in use for nothing else.
LEMMA LaunchAdds ==
  ASSUME JobInv, NEW pid \in Pids \cup {-1}, NEW st \in {FG, BG}, Launch(pid, st)
  PROVE  \/ pid \in Pids /\ WithPid(pid) = {} /\ addjob(pid, st)
         \/ UNCHANGED jobVars
<1>1. CASE addjob(pid, st)
  <2>1. pid \in forks /\ pid >= 1
    BY <1>1 DEF Launch, addjob
  <2>2. pid # -1
    BY <2>1
  <2> QED
    BY <1>1, <2>1, <2>2 DEF forks
<1>2. CASE addjobRefuses(pid)
  BY <1>2 DEF addjobRefuses
<1> QED
  BY <1>1, <1>2 DEF Launch

\* Every step leaves the list alone, or calls one of its routines as they expect.
LEMMA StepsOfTheList ==
  ASSUME JobInv, [Next]_vars
  PROVE  \/ UNCHANGED jobVars
         \/ \E pid \in Pids, st \in {FG, BG} : WithPid(pid) = {} /\ addjob(pid, st)
         \/ \E pid \in Pids : deletejob(pid)
         \/ \E i \in Slots, st \in ListedStates : SetState(i, st)
<1>1. CASE UNCHANGED vars
  BY <1>1 DEF vars
<1>2. CASE usage \/ Signal \/ ReadLine \/ ReadEnd \/ ReadError \/ sigquit_handler
  BY <1>2 DEF usage, Signal, ReadLine, ReadEnd, ReadError, sigquit_handler
<1>3. CASE EvalNothing \/ waitfg \/ Stopped
  BY <1>3 DEF EvalNothing, waitfg, Stopped, vars
<1>4. ASSUME NEW pid \in Pids, sigchld_handler(pid)
      PROVE  \/ UNCHANGED jobVars
             \/ deletejob(pid)
             \/ \E i \in Slots, st \in ListedStates : SetState(i, st)
  <2>1. CASE deletejob(pid)
    BY <2>1
  <2>2. CASE deletejobRefuses(pid)
    BY <2>2 DEF deletejobRefuses
  <2>3. CASE SetState(getjobpid(pid), ST)
    <3>1. getjobpid(pid) \in Slots /\ ST \in ListedStates
      BY <2>3 DEF SetState, ListedStates
    <3> QED
      BY <2>3, <3>1
  <2> QED
    BY <1>4, <2>1, <2>2, <2>3 DEF sigchld_handler
<1>5. ASSUME NEW pid \in Pids \cup {-1}, NEW st \in {FG, BG}, Launch(pid, st)
      PROVE  \/ UNCHANGED jobVars
             \/ pid \in Pids /\ WithPid(pid) = {} /\ addjob(pid, st)
  BY <1>5, LaunchAdds
<1>6. ASSUME NEW jid \in 1 .. JidBound, NEW st \in {FG, BG}, Resume(jid, st)
      PROVE  \E i \in Slots, t \in ListedStates : SetState(i, t)
  <2>1. SetState(getjobjid(jid), st)
    BY <1>6 DEF Resume
  <2>2. getjobjid(jid) \in Slots /\ st \in ListedStates
    BY <2>1 DEF SetState, ListedStates
  <2> QED
    BY <2>1, <2>2
<1> QED
  BY <1>1, <1>2, <1>3, <1>4, <1>5, <1>6 DEF Next

LEMMA JobInvStep ==
  ASSUME JobInv, [Next]_vars
  PROVE  JobInv'
<1>1. CASE UNCHANGED jobVars
  BY <1>1, UnchangedKeeps
<1>2. ASSUME NEW pid \in Pids, NEW st \in {FG, BG}, WithPid(pid) = {}, addjob(pid, st)
      PROVE  JobInv'
  BY <1>2, AddKeeps
<1>3. ASSUME NEW pid \in Pids, deletejob(pid)
      PROVE  JobInv'
  BY <1>3, DeleteKeeps
<1>4. ASSUME NEW i \in Slots, NEW st \in ListedStates, SetState(i, st)
      PROVE  JobInv'
  BY <1>4, SetStateKeeps
<1> QED
  BY <1>1, <1>2, <1>3, <1>4, StepsOfTheList

\* A slot of the list is in use, numbered and in a state together or not at all, and no
\* process is listed twice, whatever the shell does (tsh.c:313-381).
THEOREM SlotsStayWhole == Spec => [](JobTypeOK /\ SlotsWhole)
<1>1. Init => JobInv
  BY JobInitially DEF Init
<1>2. JobInv /\ [Next]_vars => JobInv'
  BY JobInvStep
<1>3. JobInv => JobTypeOK /\ SlotsWhole
  BY DEF JobInv
<1> QED
  BY <1>1, <1>2, <1>3, PTL DEF Spec

\* A job's id finds the job, for any number of slots, until an id has been handed out
\* after the counter wrapped and before a job was deleted (tsh.c:340-381, 406-430).
THEOREM IdsNameTheirJobs == Spec => []IdNamesItsJob
<1>1. Init => JobInv
  BY JobInitially DEF Init
<1>2. JobInv /\ [Next]_vars => JobInv'
  BY JobInvStep
<1>3. JobInv => IdNamesItsJob
  <2> SUFFICES ASSUME JobInv, numbering # "reused", NEW row \in listjobs
               PROVE  /\ getjobjid(row.jid) # NULL
                      /\ jobs[getjobjid(row.jid)].pid = row.pid
                      /\ pid2jid(row.pid) = row.jid
    BY DEF IdNamesItsJob
  <2>1. PICK s \in Slots : row = jobs[s] /\ jobs[s].pid # 0
    BY DEF listjobs
  <2>2. row.pid \in Nat \ {0} /\ row.jid \in Nat \ {0}
    BY <2>1 DEF JobInv, JobTypeOK, SlotsWhole
  <2>3. WithJid(row.jid) = {s}
    BY <2>1, <2>2 DEF WithJid, JobInv, Numbered
  <2>4. WithPid(row.pid) = {s}
    BY <2>1, <2>2 DEF WithPid, JobInv, SlotsWhole
  <2>5. First({s}) = s
    BY FirstIsLeast, SlotRange
  <2>6. s # NULL
    BY JobListAssumption DEF Slots, NULL
  <2>7. getjobjid(row.jid) = s
    BY <2>2, <2>3, <2>5 DEF getjobjid
  <2>8. pid2jid(row.pid) = jobs[s].jid
    BY <2>2, <2>4, <2>5 DEF pid2jid
  <2> QED
    BY <2>1, <2>6, <2>7, <2>8
<1> QED
  BY <1>1, <1>2, <1>3, PTL DEF Spec

-----------------------------------------------------------------------------
(* Lines.                                                                  *)

\* Where main is decides how many of the lines it has read eval has seen.
LinesInv ==
  /\ pc \in {"start", "read", "eval", "waitfg", "exit"}
  /\ lines \in Nat /\ evaluated \in Nat
  /\ pc \in {"start", "read"} => evaluated = lines
  /\ pc \in {"eval", "waitfg"} => evaluated = lines - 1
  /\ pc \in {"read", "eval", "waitfg"} => restarts
  /\ pc # "exit" => why = "runs"
  /\ pc # "exit" => cut = FALSE
  /\ cut \in BOOLEAN
  /\ why = "eof" => evaluated = (IF cut THEN lines - 1 ELSE lines)
  /\ why = "app_error" => stdin = "broken"

LEMMA LinesInvStep ==
  ASSUME LinesInv, [Next]_vars
  PROVE  LinesInv'
<1> USE DEF LinesInv, input
<1>1. CASE UNCHANGED vars
  BY <1>1 DEF vars, shellVars
<1>2. CASE usage
  BY <1>2 DEF usage, exit
<1>3. CASE Signal
  BY <1>3 DEF Signal, SA_RESTART, exit
<1>4. CASE ReadLine
  BY <1>4 DEF ReadLine
<1>5. CASE ReadEnd
  <2>1. /\ pc = "read" /\ pc' = "exit" /\ why' = "eof" /\ UNCHANGED <<restarts, evaluated>>
        /\ evaluated = lines /\ cut = FALSE
    BY <1>5 DEF ReadEnd, exit
  <2>2. CASE UNCHANGED <<lines, cut>>
    BY <2>1, <2>2
  <2>3. CASE lines' = lines + 1 /\ cut' = TRUE
    BY <2>1, <2>3
  <2> QED
    BY <1>5, <2>2, <2>3 DEF ReadEnd, LastLine
<1>6. CASE ReadError
  BY <1>6 DEF ReadError, exit
<1>7. CASE sigquit_handler
  BY <1>7 DEF sigquit_handler, exit
<1>8. CASE EvalNothing
  BY <1>8 DEF EvalNothing, Returns, exit
<1>9. CASE waitfg
  BY <1>9 DEF waitfg, Returns
<1>10. CASE Stopped
  BY <1>10 DEF Stopped, vars, shellVars
<1>11. ASSUME NEW pid \in Pids, sigchld_handler(pid)
       PROVE  LinesInv'
  <2>1. pc \in {"read", "eval", "waitfg"} /\ restarts
    BY <1>11 DEF sigchld_handler
  <2>2. UNCHANGED <<pc, why, restarts, input, evaluated>>
    BY <1>11, <2>1 DEF sigchld_handler
  <2> QED
    BY <2>2
<1>12. ASSUME NEW pid \in Pids \cup {-1}, NEW st \in {FG, BG}, Launch(pid, st)
       PROVE  LinesInv'
  <2>1. /\ pc = "eval"
        /\ \/ pc' = "waitfg" /\ evaluated' = evaluated
           \/ pc' = "read" /\ evaluated' = evaluated + 1
        /\ UNCHANGED <<restarts, input, why>>
    BY <1>12 DEF Launch, Waits, Returns
  <2> QED
    BY <2>1
<1>13. ASSUME NEW jid \in 1 .. JidBound, NEW st \in {FG, BG}, Resume(jid, st)
       PROVE  LinesInv'
  <2>1. /\ pc = "eval"
        /\ \/ pc' = "waitfg" /\ evaluated' = evaluated
           \/ pc' = "read" /\ evaluated' = evaluated + 1
        /\ UNCHANGED <<restarts, input, why>>
    BY <1>13 DEF Resume, Waits, Returns
  <2> QED
    BY <2>1
<1> QED
  BY <1>1, <1>2, <1>3, <1>4, <1>5, <1>6, <1>7, <1>8, <1>9, <1>10, <1>11, <1>12, <1>13 DEF Next

\* Every line that is read is evaluated once, except a last one without a newline, and
\* the shell gives up only when its input is broken (tsh.c:135-154, 506).
THEOREM LinesAreEvaluatedOnce == Spec => []EveryLineOnce
<1>1. Init => LinesInv
  <2> SUFFICES ASSUME Init PROVE LinesInv
    OBVIOUS
  <2>1. pc = "start" /\ why = "runs" /\ lines = 0 /\ evaluated = 0 /\ cut = FALSE
    BY DEF Init
  <2>2. "start" # "exit" /\ why # "eof" /\ why # "app_error"
    BY <2>1
  <2>3. cut \in BOOLEAN
    BY <2>1
  <2> QED
    BY <2>1, <2>2, <2>3 DEF LinesInv
<1>2. LinesInv /\ [Next]_vars => LinesInv'
  BY LinesInvStep
<1>3. LinesInv => EveryLineOnce
  BY DEF LinesInv, EveryLineOnce
<1> QED
  BY <1>1, <1>2, <1>3, PTL DEF Spec

-----------------------------------------------------------------------------
(* The foreground.                                                         *)

\* A foreground job is the one that waitfg waits for.
ForegroundAwaited ==
  pc # "exit" => \A i \in Foreground : pc = "waitfg" /\ jobs[i].pid = awaited

ForegroundInv == JobInv /\ ForegroundAwaited

\* There is one at most, so fgpid finds it.
LEMMA FgpidFindsIt ==
  ASSUME ForegroundInv, pc # "exit", NEW i \in Foreground
  PROVE  fgpid = awaited
<1>1. Foreground = {i}
  <2>1. SUFFICES ASSUME NEW j \in Foreground PROVE j = i
    OBVIOUS
  <2>2. jobs[i].pid = awaited /\ jobs[j].pid = awaited
    BY DEF ForegroundInv, ForegroundAwaited
  <2>3. i \in Slots /\ j \in Slots /\ jobs[i].pid # 0
    BY DEF Foreground, ForegroundInv, JobInv, SlotsWhole, FG, UNDEF
  <2> QED
    BY <2>2, <2>3 DEF ForegroundInv, JobInv, SlotsWhole
<1>2. First({i}) = i
  BY FirstIsLeast, SlotRange DEF Foreground
<1> QED
  BY <1>1, <1>2 DEF fgpid, ForegroundInv, ForegroundAwaited

\* A step that leaves the list alone, and main where foreground jobs are as they are.
LEMMA StaysAwaited ==
  ASSUME ForegroundAwaited, UNCHANGED jobVars,
         \/ pc' = "exit"
         \/ UNCHANGED <<pc, awaited>>
         \/ pc \notin {"waitfg", "exit"}
  PROVE  ForegroundAwaited'
BY DEF ForegroundAwaited, Foreground, jobVars

\* The foreground after a job has been added.
LEMMA AddForeground ==
  ASSUME JobInv, NEW pid \in Pids, NEW st \in {FG, BG}, WithPid(pid) = {}, addjob(pid, st)
  PROVE  \A i \in Slots : \/ jobs'[i] = jobs[i]
                          \/ jobs'[i].pid = pid /\ jobs'[i].state = st
<1> DEFINE s == First(WithPid(0))
           row == [pid |-> pid, jid |-> nextjid, state |-> st]
<1>1. jobs' = [jobs EXCEPT ![s] = row]
  BY DEF addjob
<1>2. row.pid = pid /\ row.state = st
  OBVIOUS
<1> HIDE DEF s, row
<1> QED
  BY <1>1, <1>2 DEF JobInv, JobTypeOK

\* The foreground after a job has been removed.
LEMMA DeleteForeground ==
  ASSUME JobInv, NEW pid \in Pids, deletejob(pid)
  PROVE  \A i \in Slots : jobs'[i] = jobs[i] \/ jobs'[i].state = UNDEF
<1> DEFINE s == First(WithPid(pid))
<1>1. s \in Slots
  <2>1. WithPid(pid) \subseteq Nat /\ WithPid(pid) # {}
    BY SlotRange DEF WithPid, deletejob
  <2>2. s \in WithPid(pid)
    BY <2>1, FirstIsLeast
  <2> QED
    BY <2>2 DEF WithPid
<1>2. jobs' = [jobs EXCEPT ![s] = clearjob(jobs[s])]
  BY DEF deletejob
<1> HIDE DEF s
<1>3. jobs[s] \in Listable
  BY <1>1 DEF JobInv, JobTypeOK, Listable
<1>4. clearjob(jobs[s]).state = UNDEF
  BY <1>3, ClearedRow
<1> QED
  BY <1>1, <1>2, <1>4 DEF JobInv, JobTypeOK

LEMMA ForegroundStep ==
  ASSUME ForegroundInv, [Next]_vars
  PROVE  ForegroundAwaited'
<1> USE DEF ForegroundInv
<1>1. CASE UNCHANGED vars
  BY <1>1, StaysAwaited DEF vars, shellVars
<1>2. CASE usage \/ ReadEnd \/ ReadError \/ sigquit_handler
  BY <1>2, StaysAwaited DEF usage, ReadEnd, ReadError, sigquit_handler, exit
<1>3. CASE Signal \/ ReadLine \/ EvalNothing
  BY <1>3, StaysAwaited DEF Signal, ReadLine, EvalNothing
<1>4. CASE waitfg
  <2>1. Foreground = {}
    BY <1>4, FgpidFindsIt DEF waitfg
  <2>2. Foreground' = {}
    BY <1>4, <2>1 DEF waitfg, Foreground, jobVars
  <2> QED
    BY <2>2 DEF ForegroundAwaited
<1>5. CASE Stopped
  BY <1>5, StaysAwaited DEF Stopped, vars, shellVars
<1>6. ASSUME NEW pid \in Pids, sigchld_handler(pid)
      PROVE  ForegroundAwaited'
  <2>1. pc' = "exit" \/ UNCHANGED pc
    BY <1>6 DEF sigchld_handler, exit
  <2>2. UNCHANGED awaited /\ pc # "exit"
    BY <1>6 DEF sigchld_handler
  <2>3. \A i \in Slots : jobs'[i] = jobs[i] \/ jobs'[i].state # FG
    <3>1. CASE deletejob(pid)
      BY <3>1, DeleteForeground DEF FG, UNDEF
    <3>2. CASE deletejobRefuses(pid)
      BY <3>2 DEF deletejobRefuses, jobVars
    <3>3. CASE SetState(getjobpid(pid), ST)
      BY <3>3, SetStateKeeps DEF ListedStates, FG, ST
    <3> QED
      BY <1>6, <3>1, <3>2, <3>3 DEF sigchld_handler
  <2> QED
    BY <2>1, <2>2, <2>3 DEF ForegroundAwaited, Foreground
<1>7. ASSUME NEW pid \in Pids \cup {-1}, NEW st \in {FG, BG}, Launch(pid, st)
      PROVE  ForegroundAwaited'
  <2>1. pc = "eval"
    BY <1>7 DEF Launch
  <2>2. \A i \in Slots : jobs[i].state # FG
    BY <2>1 DEF ForegroundAwaited, Foreground
  <2>3. CASE UNCHANGED jobVars
    BY <2>1, <2>3, StaysAwaited
  <2>4. CASE pid \in Pids /\ WithPid(pid) = {} /\ addjob(pid, st)
    <3>1. \A i \in Slots : jobs'[i].state = FG => st = FG /\ jobs'[i].pid = pid
      BY <2>2, <2>4, AddForeground
    <3>2. st = FG => pc' = "waitfg" /\ awaited' = pid
      <4>1. ~ addjobRefuses(pid)
        BY <2>4, JobListAssumption DEF addjob, addjobRefuses
      <4> QED
        BY <1>7, <4>1 DEF Launch, Waits
    <3> QED
      BY <3>1, <3>2 DEF ForegroundAwaited, Foreground
  <2> QED
    BY <1>7, <2>3, <2>4, LaunchAdds
<1>8. ASSUME NEW jid \in 1 .. JidBound, NEW st \in {FG, BG}, Resume(jid, st)
      PROVE  ForegroundAwaited'
  <2> DEFINE s == getjobjid(jid)
  <2>1. pc = "eval" /\ SetState(s, st) /\ st \in ListedStates
    BY <1>8 DEF Resume, ListedStates
  <2>2. \A i \in Slots : jobs[i].state # FG
    BY <2>1 DEF ForegroundAwaited, Foreground
  <2>3. st = FG => pc' = "waitfg" /\ awaited' = jobs[s].pid
    BY <1>8 DEF Resume, Waits
  <2> HIDE DEF s
  <2>4. /\ jobs'[s].pid = jobs[s].pid /\ jobs'[s].state = st
        /\ \A i \in Slots \ {s} : jobs'[i] = jobs[i]
    BY <2>1, SetStateKeeps
  <2>5. \A i \in Slots : jobs'[i].state = FG => i = s /\ st = FG
    BY <2>2, <2>4
  <2> QED
    BY <2>3, <2>4, <2>5 DEF ForegroundAwaited, Foreground
<1> QED
  BY <1>1, <1>2, <1>3, <1>4, <1>5, <1>6, <1>7, <1>8 DEF Next

\* While the shell runs, the only foreground job is the one it waits for, for any
\* number of slots (tsh.c:41, 384-391).
THEOREM OneForegroundJob == Spec => []OneForeground
<1>1. Init => ForegroundInv
  <2>1. Init => JobInv
    BY JobInitially DEF Init
  <2>2. Init => Foreground = {}
    BY DEF Init, JobInit, initjobs, Foreground, FG, UNDEF
  <2> QED
    BY <2>1, <2>2 DEF ForegroundInv, ForegroundAwaited
<1>2. ForegroundInv /\ [Next]_vars => ForegroundInv'
  <2>1. ForegroundInv /\ [Next]_vars => JobInv'
    BY JobInvStep DEF ForegroundInv
  <2>2. ForegroundInv /\ [Next]_vars => ForegroundAwaited'
    BY ForegroundStep
  <2> QED
    BY <2>1, <2>2 DEF ForegroundInv
<1>3. ForegroundInv => OneForeground
  BY FgpidFindsIt DEF OneForeground, ForegroundInv, ForegroundAwaited
<1> QED
  BY <1>1, <1>2, <1>3, PTL DEF Spec

-----------------------------------------------------------------------------
(* Refinement: the array is a map from pids to states.                     *)

\* Listed has a pid for each slot in use, with the state of that slot.
ListedFollows ==
  /\ DOMAIN Listed = {jobs[i].pid : i \in Slots} \ {0}
  /\ Listed = [p \in DOMAIN Listed |-> Listed[p]]
  /\ \A i \in Slots : jobs[i].pid # 0 => Listed[jobs[i].pid] = jobs[i].state

LEMMA ListedIs == JobInv => ListedFollows
<1> SUFFICES ASSUME JobInv PROVE ListedFollows
  OBVIOUS
<1>1. ASSUME NEW i \in Slots, jobs[i].pid # 0
      PROVE  jobs[getjobpid(jobs[i].pid)] = jobs[i]
  <2>1. jobs[i].pid \in Nat \ {0}
    BY <1>1 DEF JobInv, JobTypeOK
  <2>2. WithPid(jobs[i].pid) = {i}
    BY <1>1 DEF WithPid, JobInv, SlotsWhole
  <2>3. First({i}) = i
    BY FirstIsLeast, SlotRange
  <2> QED
    BY <2>1, <2>2, <2>3 DEF getjobpid
<1> QED
  BY <1>1 DEF Listed, ListedFollows

\* The same of the list after a step.
LEMMA ListedIsNext == JobInv' => ListedFollows'
BY ListedIs, PTL

\* While a slot is free there is room.
LEMMA RoomLeft ==
  ASSUME JobInv, WithPid(0) # {}
  PROVE  Cardinality(DOMAIN Listed) < MAXJOBS
<1>1. PICK free \in Slots : jobs[free].pid = 0
  BY DEF WithPid
<1> DEFINE used == {i \in Slots : jobs[i].pid # 0}
           pidOf == [i \in used |-> jobs[i].pid]
<1>2. /\ IsFiniteSet(Slots \ {free})
      /\ Cardinality(Slots \ {free}) = MAXJOBS - 1
  BY SlotRange, FS_RemoveElement
<1>3. used \in SUBSET (Slots \ {free})
  BY <1>1
<1>4. IsFiniteSet(used) /\ Cardinality(used) <= MAXJOBS - 1
  BY <1>2, <1>3, FS_Subset
<1>5. pidOf \in Surjection(used, DOMAIN Listed)
  <2>1. DOMAIN Listed = {jobs[i].pid : i \in used}
    BY ListedIs DEF ListedFollows
  <2> QED
    BY <2>1 DEF Surjection
<1>6. IsFiniteSet(DOMAIN Listed) /\ Cardinality(DOMAIN Listed) <= Cardinality(used)
  BY <1>4, <1>5, FS_Surjection
<1>7. Cardinality(DOMAIN Listed) \in Nat /\ Cardinality(used) \in Nat /\ MAXJOBS \in Nat
  BY <1>4, <1>6, FS_CardinalityType, JobListAssumption
<1> QED
  BY <1>4, <1>6, <1>7

LEMMA AddRefines ==
  ASSUME JobInv, JobInv', NEW pid \in Pids, NEW st \in {FG, BG},
         WithPid(pid) = {}, addjob(pid, st)
  PROVE  Map!Add(pid, st)
<1> DEFINE s == First(WithPid(0))
           row == [pid |-> pid, jid |-> nextjid, state |-> st]
<1>1. s \in Slots /\ jobs[s].pid = 0 /\ WithPid(0) # {}
  <2>1. WithPid(0) \subseteq Nat /\ WithPid(0) # {}
    BY SlotRange DEF WithPid, addjob
  <2>2. s \in WithPid(0)
    BY <2>1, FirstIsLeast
  <2> QED
    BY <2>1, <2>2 DEF WithPid
<1>2. jobs' = [jobs EXCEPT ![s] = row]
  BY DEF addjob
<1>3. row.pid = pid /\ row.state = st /\ pid # 0
  BY JobListAssumption
<1> HIDE DEF s, row
<1>4. jobs'[s] = row /\ \A i \in Slots \ {s} : jobs'[i] = jobs[i]
  BY <1>1, <1>2 DEF JobInv, JobTypeOK
<1>5. ListedFollows /\ ListedFollows'
  BY ListedIs, ListedIsNext
<1>6. pid \notin DOMAIN Listed
  BY <1>5 DEF WithPid, ListedFollows
<1>7. Cardinality(DOMAIN Listed) < MAXJOBS
  BY <1>1, RoomLeft
<1>8. DOMAIN Listed' = DOMAIN Listed \cup {pid}
  BY <1>1, <1>3, <1>4, <1>5 DEF ListedFollows
<1>9. Listed'[pid] = st
  BY <1>1, <1>3, <1>4, <1>5 DEF ListedFollows
<1>10. ASSUME NEW p \in DOMAIN Listed
       PROVE  Listed'[p] = Listed[p]
  <2>1. PICK i \in Slots : jobs[i].pid = p /\ p # 0
    BY <1>5 DEF ListedFollows
  <2>2. jobs'[i] = jobs[i]
    BY <1>1, <1>4, <2>1
  <2> QED
    BY <1>5, <2>1, <2>2 DEF ListedFollows
<1>11. Listed' = [p \in DOMAIN Listed \cup {pid} |-> IF p = pid THEN st ELSE Listed[p]]
  <2>1. Listed' = [p \in DOMAIN Listed' |-> Listed'[p]]
    BY <1>5 DEF ListedFollows
  <2>2. \A p \in DOMAIN Listed' : Listed'[p] = IF p = pid THEN st ELSE Listed[p]
    BY <1>8, <1>9, <1>10
  <2> DEFINE new == [p \in DOMAIN Listed \cup {pid} |-> IF p = pid THEN st ELSE Listed[p]]
  <2>3. new = [p \in DOMAIN Listed' |-> Listed'[p]]
    BY <1>8, <2>2
  <2> QED
    BY <2>1, <2>3
<1>12. Map!Cardinality(DOMAIN Listed) = Cardinality(DOMAIN Listed)
  BY DEF Map!Cardinality, Cardinality
<1> QED
  BY <1>6, <1>7, <1>11, <1>12 DEF Map!Add

LEMMA DeleteRefines ==
  ASSUME JobInv, JobInv', NEW pid \in Pids, deletejob(pid)
  PROVE  Map!Delete(pid)
<1> DEFINE s == First(WithPid(pid))
<1>1. s \in Slots /\ jobs[s].pid = pid /\ pid # 0
  <2>1. WithPid(pid) \subseteq Nat /\ WithPid(pid) # {}
    BY SlotRange DEF WithPid, deletejob
  <2>2. s \in WithPid(pid)
    BY <2>1, FirstIsLeast
  <2> QED
    BY <2>2, JobListAssumption DEF WithPid
<1>2. jobs' = [jobs EXCEPT ![s] = clearjob(jobs[s])]
  BY DEF deletejob
<1> HIDE DEF s
<1>3. clearjob(jobs[s]).pid = 0
  <2>1. jobs[s] \in Listable
    BY <1>1 DEF JobInv, JobTypeOK, Listable
  <2> QED
    BY <2>1, ClearedRow
<1>4. jobs'[s].pid = 0 /\ \A i \in Slots \ {s} : jobs'[i] = jobs[i]
  BY <1>1, <1>2, <1>3 DEF JobInv, JobTypeOK
<1>5. ListedFollows /\ ListedFollows'
  BY ListedIs, ListedIsNext
<1>6. \A i \in Slots \ {s} : jobs[i].pid # pid
  BY <1>1 DEF JobInv, SlotsWhole
<1>7. DOMAIN Listed' = DOMAIN Listed \ {pid} /\ pid \in DOMAIN Listed
  BY <1>1, <1>4, <1>5, <1>6 DEF ListedFollows
<1>8. ASSUME NEW p \in DOMAIN Listed'
      PROVE  Listed'[p] = Listed[p]
  <2>1. PICK i \in Slots : jobs'[i].pid = p /\ p # 0
    BY <1>5 DEF ListedFollows
  <2>2. jobs'[i] = jobs[i]
    BY <1>4, <2>1
  <2> QED
    BY <1>5, <2>1, <2>2 DEF ListedFollows
<1>9. Listed' = [p \in DOMAIN Listed \ {pid} |-> Listed[p]]
  <2>1. Listed' = [p \in DOMAIN Listed' |-> Listed'[p]]
    BY <1>5 DEF ListedFollows
  <2> HIDE DEF Listed
  <2> QED
    BY <1>7, <1>8, <2>1
<1> QED
  BY <1>7, <1>9 DEF Map!Delete

LEMMA SetStateRefines ==
  ASSUME JobInv, JobInv', NEW s \in Slots, NEW st \in ListedStates, SetState(s, st)
  PROVE  jobs[s].pid \in Pids /\ Map!Change(jobs[s].pid, st)
<1> DEFINE pid == jobs[s].pid
<1>1. /\ pid # 0
      /\ jobs'[s].pid = pid /\ jobs'[s].state = st
      /\ \A i \in Slots \ {s} : jobs'[i] = jobs[i]
  BY SetStateKeeps
<1>2. pid \in Pids /\ \A i \in Slots \ {s} : jobs[i].pid # pid
  BY <1>1 DEF JobInv, SlotsWhole
<1>3. ListedFollows /\ ListedFollows'
  BY ListedIs, ListedIsNext
<1>4. DOMAIN Listed' = DOMAIN Listed /\ pid \in DOMAIN Listed
  BY <1>1, <1>3 DEF ListedFollows
<1>5. Listed'[pid] = st
  BY <1>1, <1>3 DEF ListedFollows
<1>6. ASSUME NEW p \in DOMAIN Listed, p # pid
      PROVE  Listed'[p] = Listed[p]
  <2>1. PICK i \in Slots : jobs[i].pid = p /\ p # 0
    BY <1>3 DEF ListedFollows
  <2>2. jobs'[i] = jobs[i]
    BY <1>1, <1>6, <2>1
  <2> QED
    BY <1>3, <2>1, <2>2 DEF ListedFollows
<1> HIDE DEF pid
<1>7. Listed' = [Listed EXCEPT ![pid] = st]
  <2>1. /\ Listed' = [p \in DOMAIN Listed' |-> Listed'[p]]
        /\ Listed = [p \in DOMAIN Listed |-> Listed[p]]
    BY <1>3 DEF ListedFollows
  <2> HIDE DEF Listed
  <2> QED
    BY <1>4, <1>5, <1>6, <2>1
<1>8. Map!Change(pid, st)
  BY <1>4, <1>7 DEF Map!Change
<1> QED
  BY <1>2, <1>8 DEF pid

\* The job list is a map from pids to states, for any number of slots (tsh.c:313-416).
THEOREM ListImplementsMap == Spec => ImplementsJobMap
<1>1. Init => JobInv /\ Map!MapInit
  <2>1. Init => JobInv
    BY JobInitially DEF Init
  <2>2. ASSUME Init PROVE Listed = << >>
    <3>1. \A i \in Slots : jobs[i].pid = 0
      BY <2>2 DEF Init, JobInit, initjobs
    <3>2. {jobs[i].pid : i \in Slots} \ {0} = {}
      BY <3>1
    <3> QED
      BY <3>2 DEF Listed
  <2> QED
    BY <2>1, <2>2 DEF Map!MapInit
<1>2. JobInv /\ [Next]_vars => JobInv'
  BY JobInvStep
<1>3. JobInv /\ JobInv' /\ [Next]_vars => [Map!MapNext]_Listed
  <2> SUFFICES ASSUME JobInv, JobInv', [Next]_vars
               PROVE  Map!MapNext \/ Listed' = Listed
    OBVIOUS
  <2>1. CASE UNCHANGED jobVars
    BY <2>1 DEF Listed, getjobpid, WithPid, jobVars
  <2>2. ASSUME NEW pid \in Pids, NEW st \in {FG, BG}, WithPid(pid) = {}, addjob(pid, st)
        PROVE  Map!MapNext
    <3>1. Map!Add(pid, st) /\ st \in ListedStates
      BY <2>2, AddRefines DEF ListedStates
    <3> QED
      BY <3>1 DEF Map!MapNext
  <2>3. ASSUME NEW pid \in Pids, deletejob(pid)
        PROVE  Map!MapNext
    BY <2>3, DeleteRefines DEF Map!MapNext
  <2>4. ASSUME NEW i \in Slots, NEW st \in ListedStates, SetState(i, st)
        PROVE  Map!MapNext
    BY <2>4, SetStateRefines DEF Map!MapNext
  <2> QED
    BY <2>1, <2>2, <2>3, <2>4, StepsOfTheList
<1> QED
  BY <1>1, <1>2, <1>3, PTL DEF Spec, ImplementsJobMap, Map!MapSpec

-----------------------------------------------------------------------------
(* parseline.                                                              *)

\* What holds of 0, and of i + 1 when of i, holds up to n.
LEMMA StepByStep ==
  ASSUME NEW n \in Nat, NEW T, 0 \in T, \A i \in 0 .. n - 1 : i \in T => i + 1 \in T
  PROVE  \A i \in 0 .. n : i \in T
<1> DEFINE S == {i \in Nat : i <= n /\ i \notin T}
<1> SUFFICES ASSUME S # {} PROVE FALSE
  OBVIOUS
<1>1. PICK m \in S : \A k \in S : m <= k
  BY LeastNatural
<1>2. m # 0 /\ m - 1 \in 0 .. n - 1
  BY <1>1
<1>3. m - 1 \in T
  BY <1>1, <1>2
<1>4. (m - 1) + 1 \in T
  BY <1>2, <1>3
<1> QED
  BY <1>1, <1>4

Texts == Seq(Chars)

\* The characters of w from pos on begin with those of s.
PartOf(w, pos, s) == pos + Len(s) <= Len(w) /\ \A k \in 1 .. Len(s) : w[pos + k] = s[k]

\* Both parts are found in what \o puts together.
LEMMA Joins ==
  ASSUME NEW s \in Texts, NEW t \in Texts
  PROVE  /\ s \o t \in Texts /\ Len(s \o t) = Len(s) + Len(t)
         /\ PartOf(s \o t, 0, s) /\ PartOf(s \o t, Len(s), t)
<1>1. s \o t \in Texts /\ Len(s \o t) = Len(s) + Len(t)
  BY ConcatProperties DEF Texts
<1>2. \A i \in 1 .. Len(s) + Len(t) : (s \o t)[i] = IF i <= Len(s) THEN s[i] ELSE t[i - Len(s)]
  BY ConcatProperties DEF Texts
<1>3. Len(s) \in Nat /\ Len(t) \in Nat
  BY DEF Texts
<1>4. PartOf(s \o t, 0, s)
  BY <1>1, <1>2, <1>3 DEF PartOf
<1>5. PartOf(s \o t, Len(s), t)
  <2>1. \A k \in 1 .. Len(t) : (s \o t)[Len(s) + k] = t[k]
    <3> TAKE k \in 1 .. Len(t)
    <3>1. Len(s) + k \in 1 .. Len(s) + Len(t) /\ ~ (Len(s) + k <= Len(s)) /\ (Len(s) + k) - Len(s) = k
      BY <1>3
    <3> QED
      BY <1>2, <3>1
  <2> QED
    BY <1>1, <1>3, <2>1 DEF PartOf
<1> QED
  BY <1>1, <1>4, <1>5

\* A part of a part is a part.
LEMMA PartOfPart ==
  ASSUME NEW w \in Texts, NEW s \in Texts, NEW t \in Texts, NEW pos \in Nat, NEW b \in Nat,
         PartOf(w, pos, s), PartOf(s, b, t)
  PROVE  PartOf(w, pos + b, t)
<1>1. Len(w) \in Nat /\ Len(s) \in Nat /\ Len(t) \in Nat
  BY DEF Texts
<1>2. (pos + b) + Len(t) <= Len(w)
  BY <1>1 DEF PartOf
<1>3. \A k \in 1 .. Len(t) : w[(pos + b) + k] = t[k]
  <2> TAKE k \in 1 .. Len(t)
  <2>1. b + k \in 1 .. Len(s) /\ (pos + b) + k = pos + (b + k)
    BY <1>1 DEF PartOf
  <2>2. w[pos + (b + k)] = s[b + k]
    BY <2>1 DEF PartOf
  <2>3. s[b + k] = t[k]
    BY DEF PartOf
  <2> QED
    BY <2>1, <2>2, <2>3
<1> QED
  BY <1>2, <1>3 DEF PartOf

\* A part of s is a part of what begins with s.
LEMMA StaysPart ==
  ASSUME NEW s \in Texts, NEW t \in Texts, NEW u \in Texts, NEW pos \in Nat, PartOf(s, pos, u)
  PROVE  PartOf(s \o t, pos, u)
<1>1. PartOf(s \o t, 0, s) /\ s \o t \in Texts
  BY Joins
<1>2. PartOf(s \o t, 0 + pos, u)
  BY <1>1, PartOfPart
<1>3. 0 + pos = pos
  OBVIOUS
<1> QED
  BY <1>2, <1>3

\* What FlattenSeq has put together of the first n sequences.
Joined(seqs, n, f) == f = [i \in 1 .. n |-> IF i = 1 THEN seqs[i] ELSE f[i - 1] \o seqs[i]]

\* The sequences put together one after the other, up to any number of them.
LEMMA JoinedExists ==
  ASSUME NEW seqs, NEW n \in Nat
  PROVE  \E f : Joined(seqs, n, f)
<1> DEFINE T == {k \in 0 .. n : \E f : Joined(seqs, k, f)}
<1>1. 0 \in T
  <2>1. Joined(seqs, 0, [i \in 1 .. 0 |-> 0])
    BY DEF Joined
  <2> QED
    BY <2>1
<1>2. ASSUME NEW k \in 0 .. n - 1, k \in T PROVE k + 1 \in T
  <2>1. PICK f : Joined(seqs, k, f)
    BY <1>2
  <2>0. \A j \in 1 .. k : f[j] = IF j = 1 THEN seqs[j] ELSE f[j - 1] \o seqs[j]
    BY <2>1 DEF Joined
  <2> DEFINE g == [i \in 1 .. k + 1 |-> IF i = 1 THEN seqs[i] ELSE IF i = k + 1 THEN f[k] \o seqs[i] ELSE f[i]]
  <2>2. \A i \in 1 .. k + 1 : g[i] = IF i = 1 THEN seqs[i] ELSE g[i - 1] \o seqs[i]
    <3> TAKE i \in 1 .. k + 1
    <3>1. CASE i = 1
      BY <3>1
    <3>2. CASE i # 1
      <4>1. i - 1 \in 1 .. k /\ g[i - 1] = f[i - 1]
        BY <2>0, <3>2
      <4>2. CASE i = k + 1
        <5>1. g[i] = f[k] \o seqs[i]
          BY Zenon, <3>2, <4>2
        <5>2. i - 1 = k /\ i - 1 # k + 1
          BY <4>2
        <5>3. g[i - 1] = f[k]
          BY Zenon, <4>1, <5>2
        <5> HIDE DEF g
        <5> QED
          BY Zenon, <3>2, <5>1, <5>3
      <4>3. CASE i # k + 1
        <5>1. i \in 1 .. k /\ g[i] = f[i]
          BY <3>2, <4>3
        <5> HIDE DEF g
        <5>2. f[i] = f[i - 1] \o seqs[i]
          BY Zenon, <2>0, <3>2, <5>1
        <5> QED
          BY Zenon, <3>2, <4>1, <5>1, <5>2
      <4> QED
        BY <4>2, <4>3
    <3> QED
      BY <3>1, <3>2
  <2>3. Joined(seqs, k + 1, g)
    BY <2>2 DEF Joined
  <2> QED
    BY <2>3
<1>3. \A k \in 0 .. n : k \in T
  <2> HIDE DEF T
  <2> QED
    BY <1>1, <1>2, StepByStep
<1> QED
  BY <1>3

\* off[i] characters of w come before the i-th of the sequences it consists of.
Consists(w, seqs, off) ==
  /\ \A i \in 1 .. Len(seqs) + 1 : off[i] \in Nat
  /\ off[1] = 0
  /\ off[Len(seqs) + 1] = Len(w)
  /\ \A i \in 1 .. Len(seqs) : off[i + 1] = off[i] + Len(seqs[i]) /\ PartOf(w, off[i], seqs[i])

\* FlattenSeq puts the sequences one behind the other.
LEMMA Flattens ==
  ASSUME NEW seqs \in Seq(Texts)
  PROVE  FlattenSeq(seqs) \in Texts /\ \E off : Consists(FlattenSeq(seqs), seqs, off)
<1> DEFINE n == Len(seqs)
           f == CHOOSE f : Joined(seqs, n, f)
           off == [i \in 1 .. n + 1 |-> IF i = 1 THEN 0 ELSE Len(f[i - 1])]
<1>1. n \in Nat /\ \A i \in 1 .. n : seqs[i] \in Texts
  OBVIOUS
<1>2. CASE n = 0
  <2>1. seqs = << >> /\ FlattenSeq(seqs) = seqs
    BY <1>2 DEF FlattenSeq
  <2>2. << >> \in Texts /\ Len(<< >>) = 0
    BY DEF Texts
  <2>3. Consists(<< >>, seqs, [i \in 1 .. 1 |-> 0])
    BY <1>2, <2>2 DEF Consists
  <2> QED
    BY <2>1, <2>2, <2>3
<1>3. CASE n # 0
  <2>1. Joined(seqs, n, f)
    BY <1>1, JoinedExists
  <2>2. FlattenSeq(seqs) = f[n]
    BY <1>3 DEF FlattenSeq, Joined
  <2>3. \A i \in 1 .. n : f[i] = IF i = 1 THEN seqs[i] ELSE f[i - 1] \o seqs[i]
    BY <2>1 DEF Joined
  <2> HIDE DEF f
  <2> DEFINE T == {k \in 0 .. n : k = 0 \/ f[k] \in Texts}
  <2>4. 0 \in T
    BY <1>1
  <2>5. ASSUME NEW k \in 0 .. n - 1, k \in T PROVE k + 1 \in T
    <3>1. k + 1 \in 1 .. n /\ (k + 1) - 1 = k
      BY <1>1
    <3>2. CASE k = 0
      BY <1>1, <2>3, <3>1, <3>2
    <3>3. CASE k # 0
      <4>1. f[k + 1] = f[k] \o seqs[k + 1]
        <5>1. k + 1 # 1
          BY <3>3
        <5>2. f[k + 1] = f[(k + 1) - 1] \o seqs[k + 1]
          BY Zenon, <2>3, <3>1, <5>1
        <5> QED
          BY Zenon, <3>1, <5>2
      <4>2. f[k] \in Texts /\ seqs[k + 1] \in Texts
        BY <1>1, <2>5, <3>1, <3>3
      <4>3. f[k] \o seqs[k + 1] \in Texts
        BY <4>2, Joins
      <4>4. f[k + 1] \in Texts
        BY Zenon, <4>1, <4>3
      <4>5. k + 1 \in 0 .. n
        BY <3>1
      <4> QED
        BY <4>4, <4>5
    <3> QED
      BY <3>2, <3>3
  <2>6. \A k \in 0 .. n : k \in T
    <3> HIDE DEF T, n
    <3> QED
      BY <1>1, <2>4, <2>5, StepByStep
  <2>7. \A k \in 1 .. n : f[k] \in Texts /\ Len(f[k]) \in Nat /\ Len(seqs[k]) \in Nat
    BY <1>1, <2>6 DEF Texts
  <2>8. off[1] = 0 /\ \A i \in 1 .. n : off[i + 1] = Len(f[i])
    OBVIOUS
  <2>9. \A i \in 1 .. n + 1 : off[i] \in Nat
    BY <2>7
  <2> HIDE DEF off
  <2>10. \A i \in 1 .. n : off[i + 1] = off[i] + Len(seqs[i]) /\ PartOf(f[i], off[i], seqs[i])
    <3> TAKE i \in 1 .. n
    <3>1. CASE i = 1
      <4>1. f[i] = seqs[i] /\ off[i] = 0 /\ off[i + 1] = Len(f[i])
        BY <2>3, <2>8, <3>1
      <4>2. PartOf(seqs[i], 0, seqs[i])
        BY <2>7 DEF PartOf
      <4> QED
        BY <2>7, <4>1, <4>2
    <3>2. CASE i # 1
      <4>1. i - 1 \in 1 .. n /\ (i - 1) + 1 = i
        BY <3>2
      <4>2. f[i] = f[i - 1] \o seqs[i] /\ off[i] = Len(f[i - 1]) /\ off[i + 1] = Len(f[i])
        BY <2>3, <2>8, <3>2, <4>1
      <4>3. f[i - 1] \in Texts /\ seqs[i] \in Texts
        BY <1>1, <2>7, <4>1
      <4> QED
        BY <4>2, <4>3, Joins
    <3> QED
      BY <3>1, <3>2
  <2> DEFINE P == {k \in 0 .. n : \A i \in 1 .. k : PartOf(f[k], off[i], seqs[i])}
  <2>11. 0 \in P
    BY <1>1
  <2>12. ASSUME NEW k \in 0 .. n - 1, k \in P PROVE k + 1 \in P
    <3>1. k + 1 \in 1 .. n /\ (k + 1) - 1 = k
      BY <1>1
    <3>2. ASSUME NEW i \in 1 .. k + 1 PROVE PartOf(f[k + 1], off[i], seqs[i])
      <4>1. CASE i = k + 1
        BY <2>10, <3>1, <4>1
      <4>2. CASE i # k + 1
        <5>1. i \in 1 .. k /\ k \in 1 .. n /\ k + 1 # 1 /\ i \in 1 .. n /\ i \in 1 .. n + 1
          BY <1>1, <3>1, <4>2
        <5>2. f[k + 1] = f[k] \o seqs[k + 1]
          BY <2>3, <3>1, <5>1
        <5>3. PartOf(f[k], off[i], seqs[i])
          BY <2>12, <5>1
        <5>4. f[k] \in Texts /\ seqs[k + 1] \in Texts /\ seqs[i] \in Texts /\ off[i] \in Nat
          BY <1>1, <2>7, <2>9, <3>1, <5>1
        <5>5. PartOf(f[k] \o seqs[k + 1], off[i], seqs[i])
          BY <5>3, <5>4, StaysPart
        <5> QED
          BY <5>2, <5>5
      <4> QED
        BY <4>1, <4>2
    <3>3. k + 1 \in 0 .. n
      BY <3>1
    <3> QED
      BY <3>2, <3>3
  <2>13. \A k \in 0 .. n : k \in P
    <3> HIDE DEF P, n
    <3> QED
      BY <1>1, <2>11, <2>12, StepByStep
  <2>14. n \in 1 .. n /\ n \in 0 .. n
    BY <1>1, <1>3
  <2>15. \A i \in 1 .. n : PartOf(f[n], off[i], seqs[i])
    BY <2>13, <2>14
  <2>16. off[n + 1] = Len(f[n])
    BY <2>8, <2>14
  <2>17. Consists(f[n], seqs, off)
    BY <2>8, <2>9, <2>10, <2>15, <2>16 DEF Consists
  <2> QED
    BY <2>2, <2>7, <2>14, <2>17
<1> QED
  BY <1>2, <1>3


\* The first place where something is the case is the only one that is.
LEMMA MinIs ==
  ASSUME NEW S, S \subseteq Nat, NEW m \in S, \A k \in S : m <= k
  PROVE  Min(S) = m
<1>1. Min(S) \in S /\ \A k \in S : Min(S) <= k
  BY DEF Min
<1>2. Min(S) <= m /\ m <= Min(S) /\ Min(S) \in Nat /\ m \in Nat
  BY <1>1
<1> QED
  BY <1>2

\* strchr stops at the first place with the character.
LEMMA StrchrIs ==
  ASSUME NEW s \in Texts, NEW c, NEW i \in Nat, NEW j \in Nat, i <= j, j <= Len(s),
         s[j] = c, \A k \in i .. j - 1 : s[k] # c
  PROVE  strchr(s, c, i) = j
<1> DEFINE I == {k \in i .. Len(s) : s[k] = c}
<1>1. Len(s) \in Nat
  BY DEF Texts
<1>2. I \subseteq Nat /\ j \in I /\ \A k \in I : j <= k
  BY <1>1
<1>3. Min(I) = j /\ I # {}
  BY <1>2, MinIs, Zenon
<1> QED
  BY <1>3 DEF strchr, SelectInSubSeq

\* strchr finds nothing where the character is not.
LEMMA StrchrNone ==
  ASSUME NEW s \in Texts, NEW c, NEW i \in Nat, \A k \in i .. Len(s) : s[k] # c
  PROVE  strchr(s, c, i) = 0
<1>1. {k \in i .. Len(s) : s[k] = c} = {}
  OBVIOUS
<1> QED
  BY <1>1 DEF strchr, SelectInSubSeq

\* SkipSpaces stops at the first place that is no space.
LEMMA SkipIs ==
  ASSUME NEW s \in Texts, NEW i \in Nat \ {0}, NEW j \in Nat, i <= j, j <= Len(s) + 1,
         \A k \in i .. j - 1 : s[k] = SPACE, j <= Len(s) => s[j] # SPACE
  PROVE  SkipSpaces(s, i) = j
<1> DEFINE I == {k \in i .. Len(s) : s[k] # SPACE}
<1>1. Len(s) \in Nat
  BY DEF Texts
<1>2. SelectInSubSeq(s, i, Len(s), LAMBDA x : x # SPACE) = IF I # {} THEN Min(I) ELSE 0
  BY DEF SelectInSubSeq
<1>3. CASE j <= Len(s)
  <2>1. I \subseteq Nat /\ j \in I /\ \A k \in I : j <= k
    BY <1>1, <1>3
  <2>2. Min(I) = j /\ I # {}
    BY <2>1, MinIs, Zenon
  <2> HIDE DEF I
  <2>3. SelectInSubSeq(s, i, Len(s), LAMBDA x : x # SPACE) = j /\ j # 0
    BY <1>2, <2>2
  <2> QED
    BY <2>3 DEF SkipSpaces
<1>4. CASE j = Len(s) + 1
  <2>1. I = {}
    BY <1>1, <1>4
  <2> QED
    BY <1>2, <1>4, <2>1 DEF SkipSpaces
<1> QED
  BY <1>1, <1>3, <1>4

\* The places of buf, up to n arguments.
Buf(s, k, last) == SkipSpaces(s, IF k = 0 THEN 1 ELSE Delim(s, last) + 1)
Advances(s, n, f) == f = [argc \in 0 .. n |-> Buf(s, argc, f[argc - 1])]

\* The recursive function Bufs defines: one that satisfies its equation exists.
LEMMA BufsExist ==
  ASSUME NEW s, NEW n \in Nat
  PROVE  \E f : Advances(s, n, f)
<1> DEFINE T == {k \in 0 .. n : \E f : Advances(s, k, f)}
<1>1. 0 \in T
  <2> DEFINE f == [argc \in 0 .. 0 |-> SkipSpaces(s, 1)]
  <2>1. Advances(s, 0, f)
    BY DEF Advances, Buf
  <2> QED
    BY <2>1
<1>2. ASSUME NEW k \in 0 .. n - 1, k \in T PROVE k + 1 \in T
  <2>1. PICK f : Advances(s, k, f)
    BY <1>2
  <2>2. \A a \in 0 .. k : f[a] = Buf(s, a, f[a - 1])
    BY <2>1 DEF Advances
  <2> DEFINE g == [a \in 0 .. k + 1 |-> IF a = k + 1 THEN Buf(s, a, f[k]) ELSE f[a]]
  <2>3. \A a \in 0 .. k + 1 : g[a] = Buf(s, a, g[a - 1])
    <3> TAKE a \in 0 .. k + 1
    <3>1. CASE a = k + 1
      <4>1. k \in 0 .. k + 1 /\ k # k + 1 /\ a - 1 = k
        BY <3>1
      <4>2. g[a - 1] = f[k] /\ g[a] = Buf(s, a, f[k])
        BY <3>1, <4>1
      <4> HIDE DEF g
      <4> QED
        BY Zenon, <4>2
    <3>2. CASE a \in 1 .. k
      <4>1. a - 1 \in 0 .. k + 1 /\ a - 1 # k + 1 /\ a # k + 1 /\ a \in 0 .. k
        BY <3>2
      <4>2. g[a - 1] = f[a - 1] /\ g[a] = f[a]
        BY <4>1
      <4> HIDE DEF g
      <4> QED
        BY Zenon, <2>2, <4>1, <4>2
    <3>3. CASE a = 0
      <4>1. g[0] = f[0] /\ 0 \in 0 .. k
        OBVIOUS
      <4> HIDE DEF g
      <4>2. f[0] = Buf(s, 0, f[0 - 1])
        BY Zenon, <2>2, <4>1
      <4>3. Buf(s, 0, f[0 - 1]) = Buf(s, 0, g[0 - 1])
        BY DEF Buf
      <4> QED
        BY Zenon, <3>3, <4>1, <4>2, <4>3
    <3> QED
      BY <3>1, <3>2, <3>3
  <2>4. Advances(s, k + 1, g)
    BY <2>3 DEF Advances
  <2> QED
    BY <2>4
<1>3. \A k \in 0 .. n : k \in T
  <2> HIDE DEF T
  <2> QED
    BY <1>1, <1>2, StepByStep
<1> QED
  BY <1>3

\* Each place buf is at follows from the one before.
LEMMA BufsAre ==
  ASSUME NEW s \in Texts
  PROVE  \A k \in 0 .. Len(s) : Bufs(s)[k] = Buf(s, k, Bufs(s)[k - 1])
<1> DEFINE f == CHOOSE f : Advances(s, Len(s), f)
<1>1. Len(s) \in Nat
  BY DEF Texts
<1>2. Advances(s, Len(s), f)
  BY <1>1, BufsExist
<1>3. Bufs(s) = f
  BY DEF Bufs, Advances, Buf
<1> QED
  BY <1>2, <1>3 DEF Advances

\* How an argument is typed, and what it is.
LEMMA SpellingIs ==
  ASSUME NEW w \in Texts, NEW t \in Spellings(w)
  PROVE  /\ t \in Texts /\ Len(t) > 0
         /\ \/ t = w /\ t[1] # QUOTE /\ \A i \in 1 .. Len(t) : t[i] # SPACE
            \/ t = <<QUOTE>> \o w \o <<QUOTE>> /\ \A i \in 1 .. Len(w) : w[i] # QUOTE
<1>1. CASE t = w /\ w # << >> /\ ~ Contains(w, SPACE) /\ w[1] # QUOTE
  BY <1>1 DEF Contains, Texts
<1>2. CASE t = <<QUOTE>> \o w \o <<QUOTE>> /\ ~ Contains(w, QUOTE)
  <2>1. \A i \in 1 .. Len(w) : w[i] # QUOTE
    BY <1>2 DEF Contains
  <2>2. <<QUOTE>> \in Texts /\ Len(<<QUOTE>>) = 1
    BY DEF Texts, Chars
  <2>3. <<QUOTE>> \o w \in Texts /\ Len(<<QUOTE>> \o w) = 1 + Len(w)
    BY <2>2, Joins
  <2>4. t \in Texts /\ Len(t) = (1 + Len(w)) + 1
    BY <1>2, <2>2, <2>3, Joins
  <2>5. Len(t) > 0
    BY <2>4 DEF Texts
  <2> QED
    BY <1>2, <2>1, <2>4, <2>5
<1> QED
  BY <1>1, <1>2 DEF Spellings

LEMMA QuoteIsNoSpace == QUOTE # SPACE
BY DEF QUOTE, SPACE

\* What stands where in a quoted argument.
LEMMA QuotedIs ==
  ASSUME NEW w \in Texts, NEW t, t = <<QUOTE>> \o w \o <<QUOTE>>
  PROVE  /\ t \in Texts /\ Len(w) \in Nat /\ Len(t) = Len(w) + 2
         /\ t[1] = QUOTE /\ t[Len(w) + 2] = QUOTE
         /\ \A i \in 1 .. Len(w) : t[i + 1] = w[i]
<1> DEFINE q == <<QUOTE>>
<1>1. q \in Texts /\ Len(q) = 1 /\ q[1] = QUOTE
  BY DEF Texts, Chars
<1> HIDE DEF q
<1>2. q \o w \in Texts /\ Len(q \o w) = 1 + Len(w) /\ PartOf(q \o w, 0, q) /\ PartOf(q \o w, 1, w)
  BY <1>1, Joins
<1>3. /\ (q \o w) \o q \in Texts /\ Len((q \o w) \o q) = (1 + Len(w)) + 1
      /\ PartOf((q \o w) \o q, 0, q \o w) /\ PartOf((q \o w) \o q, 1 + Len(w), q)
  BY <1>1, <1>2, Joins
<1>4. t = (q \o w) \o q
  BY DEF q
<1>5. Len(w) \in Nat
  BY DEF Texts
<1> DEFINE u == (q \o w) \o q
<1> HIDE DEF u
<1>6. u \in Texts /\ Len(u) = Len(w) + 2 /\ t = u
  BY <1>3, <1>4, <1>5 DEF u
<1>7. u[1] = QUOTE /\ \A i \in 1 .. Len(w) : u[i + 1] = w[i]
  <2>1. PartOf(u, 0, q \o w) /\ PartOf(q \o w, 0, q) /\ PartOf(q \o w, 1, w)
    BY <1>2, <1>3 DEF u
  <2>2. \A i \in 1 .. Len(q \o w) : u[i] = (q \o w)[i]
    BY <1>2, <1>5, <2>1 DEF PartOf
  <2>3. (q \o w)[1] = QUOTE /\ \A i \in 1 .. Len(w) : (q \o w)[1 + i] = w[i]
    BY <1>1, <2>1 DEF PartOf
  <2>4. \A i \in 1 .. Len(w) : i + 1 \in 1 .. Len(q \o w) /\ 1 + i = i + 1
    BY <1>2, <1>5
  <2>5. 1 \in 1 .. Len(q \o w)
    BY <1>2, <1>5
  <2>6. u[1] = QUOTE
    BY Zenon, <2>2, <2>3, <2>5
  <2>7. \A i \in 1 .. Len(w) : u[i + 1] = w[i]
    BY <2>2, <2>3, <2>4
  <2> QED
    BY <2>6, <2>7
<1>8. u[Len(w) + 2] = QUOTE
  <2>1. PartOf(u, 1 + Len(w), q)
    BY <1>3 DEF u
  <2>2. u[(1 + Len(w)) + 1] = q[1] /\ (1 + Len(w)) + 1 = Len(w) + 2
    BY <1>1, <1>5, <2>1 DEF PartOf
  <2> QED
    BY <1>1, <2>2
<1> QED
  BY <1>5, <1>6, <1>7, <1>8

\* What is in the line s: n arguments, spelled somehow, the k-th behind off[k]
\* characters and gap spaces; then a space, and then nothing or an open quote.
Typed(args, typed, n) == \A k \in 1 .. n : args[k] \in Texts /\ typed[k] \in Spellings(args[k])

Holds(s, n, gap, typed, off) ==
  \A k \in 1 .. n : /\ off[k + 1] = off[k] + gap + Len(typed[k])
                    /\ \A g \in 1 .. gap : s[off[k] + g] = SPACE
                    /\ \A i \in 1 .. Len(typed[k]) : s[off[k] + gap + i] = typed[k][i]

Ends(s, last) ==
  /\ last + 1 <= Len(s) /\ s[last + 1] = SPACE
  /\ \/ last + 1 = Len(s)
     \/ last + 2 <= Len(s) /\ s[last + 2] = QUOTE /\ \A j \in last + 3 .. Len(s) : s[j] # QUOTE

Lays(s, n, gap, typed, off) ==
  /\ s \in Texts /\ n \in Nat /\ gap \in Nat \ {0}
  /\ off[1] = 0 /\ \A k \in 1 .. n + 1 : off[k] \in Nat
  /\ Holds(s, n, gap, typed, off)
  /\ Ends(s, off[n + 1])

\* buf, when k arguments have been cut off.
Place(n, gap, off, k) == IF k < n THEN off[k + 1] + gap + 1 ELSE off[n + 1] + 2

\* No argument begins after the line's end, and each takes at least a character.
LEMMA LinesGrow ==
  ASSUME NEW s, NEW n, NEW gap, NEW typed, NEW off, NEW args,
         Lays(s, n, gap, typed, off), Typed(args, typed, n)
  PROVE  /\ \A k \in 1 .. n : off[k + 1] <= off[n + 1]
         /\ n <= off[n + 1]
<1>1. n \in Nat /\ gap \in Nat /\ off[1] = 0 /\ \A k \in 1 .. n + 1 : off[k] \in Nat
  BY DEF Lays
<1>2. \A k \in 1 .. n : Len(typed[k]) \in Nat /\ Len(typed[k]) > 0
  <2> TAKE k \in 1 .. n
  <2>1. args[k] \in Texts /\ typed[k] \in Spellings(args[k])
    BY DEF Typed
  <2>2. typed[k] \in Texts /\ Len(typed[k]) > 0
    BY <2>1, SpellingIs
  <2> QED
    BY <2>2 DEF Texts
<1>3. \A k \in 1 .. n : off[k + 1] > off[k] /\ k \in 1 .. n + 1 /\ k + 1 \in 1 .. n + 1
  <2> TAKE k \in 1 .. n
  <2>1. off[k + 1] = off[k] + gap + Len(typed[k])
    BY Zenon DEF Lays, Holds
  <2>2. k \in 1 .. n + 1 /\ k + 1 \in 1 .. n + 1
    BY <1>1
  <2> QED
    BY <1>1, <1>2, <2>1, <2>2
<1>4. \A i \in 0 .. n : off[i + 1] >= i
  <2> DEFINE T == {i \in 0 .. n : off[i + 1] >= i}
  <2>1. 0 \in T
    BY <1>1
  <2>2. ASSUME NEW i \in 0 .. n - 1, i \in T PROVE i + 1 \in T
    <3>1. i + 1 \in 1 .. n /\ i + 1 \in 1 .. n + 1 /\ (i + 1) + 1 \in 1 .. n + 1
      BY <1>1
    <3>2. off[(i + 1) + 1] > off[i + 1] /\ off[(i + 1) + 1] \in Nat /\ off[i + 1] \in Nat
      BY <1>1, <1>3, <3>1
    <3> QED
      BY <2>2, <3>1, <3>2
  <2> HIDE DEF T
  <2>3. \A i \in 0 .. n : i \in T
    BY <1>1, <2>1, <2>2, StepByStep
  <2> QED
    BY <2>3 DEF T
<1>5. \A i \in 0 .. n : off[(n - i) + 1] <= off[n + 1]
  <2> DEFINE T == {i \in 0 .. n : off[(n - i) + 1] <= off[n + 1]}
  <2>1. 0 \in T
    BY <1>1
  <2>2. ASSUME NEW i \in 0 .. n - 1, i \in T PROVE i + 1 \in T
    <3>1. n - i \in 1 .. n /\ n - i \in 1 .. n + 1 /\ (n - i) + 1 \in 1 .. n + 1 /\ n + 1 \in 1 .. n + 1
      BY <1>1
    <3>2. (n - (i + 1)) + 1 = n - i
      BY <1>1
    <3>3. /\ off[(n - i) + 1] > off[n - i] /\ off[n - i] \in Nat /\ off[(n - i) + 1] \in Nat
          /\ off[n + 1] \in Nat
      BY <1>1, <1>3, <3>1
    <3>4. off[n - i] <= off[n + 1]
      BY <2>2, <3>3
    <3>5. off[(n - (i + 1)) + 1] <= off[n + 1]
      BY Zenon, <3>2, <3>4
    <3>6. i + 1 \in 0 .. n
      BY <1>1
    <3> QED
      BY Zenon, <3>5, <3>6
  <2> HIDE DEF T
  <2>3. \A i \in 0 .. n : i \in T
    BY <1>1, <2>1, <2>2, StepByStep
  <2> QED
    BY <2>3 DEF T
<1>6. \A k \in 1 .. n : off[k + 1] <= off[n + 1]
  <2> TAKE k \in 1 .. n
  <2>1. n - k \in 0 .. n /\ (n - (n - k)) + 1 = k + 1
    BY <1>1
  <2> QED
    BY <1>5, <2>1
<1> QED
  BY <1>1, <1>4, <1>6

\* From the end of an argument, skipping spaces leads to the next one, or behind the line.
LEMMA SpacesAreSkipped ==
  ASSUME NEW s, NEW n, NEW gap, NEW typed, NEW off, NEW args,
         Lays(s, n, gap, typed, off), Typed(args, typed, n),
         NEW k \in 0 .. n, NEW p \in {off[k + 1] + 1, off[k + 1] + 2}
  PROVE  SkipSpaces(s, p) = Place(n, gap, off, k)
<1>1. /\ n \in Nat /\ gap \in Nat \ {0} /\ s \in Texts /\ Len(s) \in Nat
      /\ \A i \in 1 .. n + 1 : off[i] \in Nat
  BY DEF Lays, Texts
<1>2. k + 1 \in 1 .. n + 1 /\ off[k + 1] \in Nat /\ off[n + 1] \in Nat
  BY <1>1
<1>3. off[n + 1] + 1 <= Len(s) /\ s[off[n + 1] + 1] = SPACE
      /\ (off[n + 1] + 1 = Len(s) \/ s[off[n + 1] + 2] = QUOTE)
  BY DEF Lays, Ends
<1>4. CASE k = n
  <2>1. SkipSpaces(s, p) = off[n + 1] + 2
    <3> DEFINE j == off[n + 1] + 2
    <3>1. p \in Nat \ {0} /\ j \in Nat /\ p <= j /\ j <= Len(s) + 1
      BY <1>2, <1>3, <1>1, <1>4
    <3>2. \A i \in p .. j - 1 : s[i] = SPACE
      <4>1. \A i \in p .. j - 1 : i = off[n + 1] + 1
        BY <1>2, <1>4
      <4> QED
        BY <1>3, <4>1
    <3>3. j <= Len(s) => s[j] # SPACE
      <4>1. off[n + 1] + 1 = Len(s) => ~ (j <= Len(s))
        BY <1>1, <1>2
      <4> QED
        BY <1>3, <4>1, QuoteIsNoSpace
    <3> HIDE DEF j
    <3> QED
      BY <1>1, <3>1, <3>2, <3>3, SkipIs DEF j
  <2> QED
    BY <1>4, <2>1, <1>1 DEF Place
<1>5. CASE k # n
  <2>0. PICK a \in Nat : a = off[k + 1]
    BY <1>2
  <2> DEFINE j == off[k + 1] + gap + 1
  <2>1. k + 1 \in 1 .. n /\ (k + 1) + 1 \in 1 .. n + 1
    BY <1>1, <1>5
  <2>2. /\ off[(k + 1) + 1] = off[k + 1] + gap + Len(typed[k + 1])
        /\ \A g \in 1 .. gap : s[off[k + 1] + g] = SPACE
        /\ \A i \in 1 .. Len(typed[k + 1]) : s[off[k + 1] + gap + i] = typed[k + 1][i]
    BY Zenon, <2>1 DEF Lays, Holds
  <2>3. /\ typed[k + 1] \in Texts /\ Len(typed[k + 1]) > 0 /\ Len(typed[k + 1]) \in Nat
        /\ typed[k + 1][1] # SPACE
    <3>1. args[k + 1] \in Texts /\ typed[k + 1] \in Spellings(args[k + 1])
      BY Zenon, <2>1 DEF Typed
    <3>2. /\ typed[k + 1] \in Texts /\ Len(typed[k + 1]) > 0
          /\ \/ \A i \in 1 .. Len(typed[k + 1]) : typed[k + 1][i] # SPACE
             \/ typed[k + 1] = <<QUOTE>> \o args[k + 1] \o <<QUOTE>>
      BY Zenon, <3>1, SpellingIs
    <3>3. Len(typed[k + 1]) \in Nat
      BY <3>2 DEF Texts
    <3>4. CASE \A i \in 1 .. Len(typed[k + 1]) : typed[k + 1][i] # SPACE
      BY <3>2, <3>3, <3>4
    <3>5. CASE typed[k + 1] = <<QUOTE>> \o args[k + 1] \o <<QUOTE>>
      <4>1. typed[k + 1][1] = QUOTE
        BY Zenon, <3>1, <3>5, QuotedIs
      <4> QED
        BY <3>2, <3>3, <4>1, QuoteIsNoSpace
    <3> QED
      BY <3>2, <3>4, <3>5
  <2>4. off[(k + 1) + 1] <= off[n + 1]
    BY Zenon, <2>1, LinesGrow
  <2>5. off[(k + 1) + 1] \in Nat
    BY <1>1, <2>1
  <2>6. p \in Nat \ {0} /\ j \in Nat /\ p <= j /\ j <= Len(s) + 1
    <3>1. PICK l \in Nat : l = Len(typed[k + 1]) /\ l > 0
      BY <2>3
    <3>2. PICK e \in Nat : e = off[n + 1] /\ a + gap + l <= e /\ e + 1 <= Len(s)
      BY <1>2, <1>3, <2>0, <2>2, <2>4, <3>1
    <3>3. p \in {a + 1, a + 2} /\ j = a + gap + 1
      BY <2>0
    <3> HIDE DEF j
    <3>4. PICK z \in Nat : z = Len(s)
      BY <1>1
    <3>5. e + 1 <= z
      BY <3>2, <3>4
    <3>6. p \in Nat \ {0} /\ j \in Nat /\ p <= j
      BY <1>1, <3>3
    <3>7. j <= z + 1
      <4>1. gap \in Nat /\ j = a + gap + 1 /\ l > 0 /\ a + gap + l <= e
        BY <1>1, <3>1, <3>2, <3>3
      <4> QED
        BY <3>5, <4>1
    <3> QED
      BY <3>4, <3>6, <3>7
  <2>7. \A i \in p .. j - 1 : s[i] = SPACE
    <3> TAKE i \in p .. j - 1
    <3>1. p \in {a + 1, a + 2} /\ j = a + gap + 1
      BY <2>0
    <3> HIDE DEF j
    <3>2. i - a \in 1 .. gap /\ a + (i - a) = i
      BY <1>1, <3>1
    <3>3. s[a + (i - a)] = SPACE
      BY Zenon, <2>0, <2>2, <3>2
    <3> QED
      BY Zenon, <3>2, <3>3
  <2>8. s[j] # SPACE
    <3>1. 1 \in 1 .. Len(typed[k + 1])
      BY <2>3
    <3>2. s[off[k + 1] + gap + 1] = typed[k + 1][1]
      BY <2>2, <3>1
    <3> QED
      BY <2>3, <3>2
  <2> HIDE DEF j
  <2>9. SkipSpaces(s, p) = j
    BY <1>1, <2>6, <2>7, <2>8, SkipIs
  <2> QED
    BY <2>9, <1>1, <1>5 DEF Place, j
<1> QED
  BY <1>4, <1>5

\* SubSeq cuts out a part.
LEMMA PartIsCut ==
  ASSUME NEW w \in Texts, NEW t \in Texts, NEW pos \in Nat, PartOf(w, pos, t),
         NEW last, last = pos + Len(t)
  PROVE  SubSeq(w, pos + 1, last) = t
<1>1. Len(w) \in Nat /\ Len(t) \in Nat
  BY DEF Texts
<1>2. pos + Len(t) <= Len(w) /\ \A k \in 1 .. Len(t) : w[pos + k] = t[k]
  BY DEF PartOf
<1> DEFINE u == SubSeq(w, pos + 1, last)
<1>3. u \in Texts /\ Len(u) = Len(t) /\ \A k \in 1 .. Len(t) : u[k] = w[pos + k]
  BY <1>1, <1>2 DEF Texts
<1> HIDE DEF u
<1>4. \A k \in 1 .. Len(t) : u[k] = t[k]
  BY <1>2, <1>3
<1>5. u = t
  BY <1>1, <1>3, <1>4 DEF Texts
<1> QED
  BY <1>5 DEF u

\* An argument that is typed as t behind a places of s, with a space after it.
LEMMA CutsSpelling ==
  ASSUME NEW s \in Texts, NEW a \in Nat, NEW w \in Texts, NEW t \in Spellings(w),
         PartOf(s, a, t), NEW e \in Nat, e = a + Len(t), e + 1 <= Len(s), s[e + 1] = SPACE
  PROVE  /\ Delim(s, a + 1) \in {e, e + 1} /\ Delim(s, a + 1) # 0
         /\ Argument(s, a + 1) = w
<1>1. PICK l \in Nat : l = Len(t) /\ l > 0 /\ e = a + l
  <2>1. t \in Texts /\ Len(t) > 0
    BY SpellingIs
  <2> QED
    BY <2>1 DEF Texts
<1>2. PICK m \in Nat : m = Len(s) /\ e + 1 <= m
  BY DEF Texts
<1>3. \A k \in 1 .. l : s[a + k] = t[k]
  BY <1>1 DEF PartOf
<1>4. s[a + 1] = t[1] /\ a + 1 <= Len(s)
  BY <1>1, <1>2, <1>3
<1>5. t \in Texts
  BY SpellingIs
<1>6. CASE t = w /\ t[1] # QUOTE /\ \A i \in 1 .. Len(t) : t[i] # SPACE
  <2>1. Starts(s, a + 1) = a + 1 /\ Delim(s, a + 1) = strchr(s, SPACE, a + 1)
    BY <1>4, <1>6 DEF Starts, Delim
  <2>2. \A i \in a + 1 .. (e + 1) - 1 : s[i] # SPACE
    <3> TAKE i \in a + 1 .. (e + 1) - 1
    <3>1. i - a \in 1 .. l /\ a + (i - a) = i
      BY <1>1
    <3>2. s[a + (i - a)] = t[i - a] /\ t[i - a] # SPACE
      BY <1>1, <1>3, <1>6, <3>1
    <3> QED
      BY Zenon, <3>1, <3>2
  <2>3. a + 1 \in Nat /\ e + 1 \in Nat /\ a + 1 <= e + 1 /\ (e + 1) - 1 = e
    BY <1>1
  <2>4. strchr(s, SPACE, a + 1) = e + 1
    BY <2>2, <2>3, StrchrIs
  <2>5. SubSeq(s, a + 1, e) = w
    <3>1. SubSeq(s, a + 1, e) = t
      BY <1>5, PartIsCut
    <3> QED
      BY Zenon, <1>6, <3>1
  <2>6. Argument(s, a + 1) = w
    BY Zenon, <2>1, <2>3, <2>4, <2>5 DEF Argument
  <2>7. e + 1 # 0
    OBVIOUS
  <2> QED
    BY <2>1, <2>4, <2>6, <2>7
<1>7. CASE t = <<QUOTE>> \o w \o <<QUOTE>> /\ \A i \in 1 .. Len(w) : w[i] # QUOTE
  <2>1. PICK n \in Nat : n = Len(w) /\ l = n + 2
    BY <1>1, <1>7, QuotedIs
  <2>2. t[1] = QUOTE /\ t[n + 2] = QUOTE /\ \A i \in 1 .. n : t[i + 1] = w[i]
    BY Zenon, <1>7, <2>1, QuotedIs
  <2>3. Starts(s, a + 1) = (a + 1) + 1 /\ Delim(s, a + 1) = strchr(s, QUOTE, (a + 1) + 1)
    BY <1>4, <2>2 DEF Starts, Delim
  <2>4. \A i \in 1 .. n : s[(a + 1) + i] = w[i]
    <3> TAKE i \in 1 .. n
    <3>1. i + 1 \in 1 .. l /\ a + (i + 1) = (a + 1) + i
      BY <2>1
    <3>2. s[a + (i + 1)] = t[i + 1]
      BY <1>3, <3>1
    <3> QED
      BY <2>2, <3>1, <3>2
  <2>5. s[e] = QUOTE
    <3>1. l \in 1 .. l
      BY <1>1
    <3> QED
      BY <1>1, <1>3, <2>1, <2>2, <3>1
  <2>6. \A i \in (a + 1) + 1 .. e - 1 : s[i] # QUOTE
    <3> TAKE i \in (a + 1) + 1 .. e - 1
    <3>1. i - (a + 1) \in 1 .. n /\ (a + 1) + (i - (a + 1)) = i
      BY <1>1, <2>1
    <3>2. s[(a + 1) + (i - (a + 1))] = w[i - (a + 1)] /\ w[i - (a + 1)] # QUOTE
      BY <1>7, <2>1, <2>4, <3>1
    <3> QED
      BY Zenon, <3>1, <3>2
  <2>7. /\ (a + 1) + 1 \in Nat /\ (a + 1) + 1 <= e /\ e <= Len(s) /\ e # 0
        /\ (a + 1) + n = e - 1 /\ (a + 1) \in Nat /\ (a + 1) + n <= Len(s)
    BY <1>1, <1>2, <2>1
  <2>8. strchr(s, QUOTE, (a + 1) + 1) = e
    BY <2>5, <2>6, <2>7, StrchrIs
  <2>9. PartOf(s, a + 1, w)
    BY <2>1, <2>4, <2>7 DEF PartOf
  <2>10. e - 1 = (a + 1) + Len(w)
    BY <2>1, <2>7
  <2>11. SubSeq(s, (a + 1) + 1, e - 1) = w
    <3> DEFINE b == a + 1
               last == e - 1
    <3>1. b \in Nat /\ PartOf(s, b, w) /\ last = b + Len(w)
      BY Zenon, <2>7, <2>9, <2>10
    <3> HIDE DEF b, last
    <3>2. SubSeq(s, b + 1, last) = w
      BY <3>1, PartIsCut
    <3> QED
      BY Zenon, <3>2 DEF b, last
  <2> QED
    BY Zenon, <2>3, <2>7, <2>8, <2>11 DEF Argument
<1> QED
  BY <1>6, <1>7, SpellingIs

\* From the k-th argument's place, the delimiter is at its end, and it is what is cut off.
LEMMA ArgumentIsCut ==
  ASSUME NEW s, NEW n, NEW gap, NEW typed, NEW off, NEW args,
         Lays(s, n, gap, typed, off), Typed(args, typed, n),
         NEW k \in 1 .. n, NEW p, p = Place(n, gap, off, k - 1)
  PROVE  /\ Delim(s, p) \in {off[k + 1], off[k + 1] + 1} /\ Delim(s, p) # 0
         /\ Argument(s, p) = args[k]
<1>1. /\ n \in Nat /\ gap \in Nat \ {0} /\ s \in Texts
      /\ k \in 1 .. n + 1 /\ k + 1 \in 1 .. n + 1 /\ n + 1 \in 1 .. n + 1
  BY DEF Lays
<1>2. off[k] \in Nat /\ off[k + 1] \in Nat /\ off[n + 1] \in Nat
  BY <1>1 DEF Lays
<1>3. args[k] \in Texts /\ typed[k] \in Spellings(args[k])
  BY Zenon DEF Typed
<1>4. PICK a \in Nat : a = off[k] + gap /\ p = a + 1
  <2>1. k - 1 < n /\ (k - 1) + 1 = k
    BY <1>1
  <2> QED
    BY <1>1, <1>2, <2>1 DEF Place
<1>5. /\ off[k + 1] = a + Len(typed[k])
      /\ \A i \in 1 .. Len(typed[k]) : s[a + i] = typed[k][i]
  BY Zenon, <1>4 DEF Lays, Holds
<1>6. off[k + 1] <= off[n + 1]
  BY LinesGrow
<1>7. off[n + 1] + 1 <= Len(s) /\ s[off[n + 1] + 1] = SPACE
  BY DEF Lays, Ends
<1>8. PICK m \in Nat : m = Len(s)
  BY <1>1 DEF Texts
<1>9. off[k + 1] + 1 <= Len(s) /\ off[k + 1] <= Len(s)
  BY <1>2, <1>6, <1>7, <1>8
<1>10. s[off[k + 1] + 1] = SPACE
  <2>1. CASE k = n
    BY <1>7, <2>1
  <2>2. CASE k # n
    <3>1. k + 1 \in 1 .. n /\ 1 \in 1 .. gap
      BY <1>1, <2>2
    <3> QED
      BY Zenon, <3>1 DEF Lays, Holds
  <2> QED
    BY <2>1, <2>2
<1>11. PartOf(s, a, typed[k])
  BY <1>5, <1>9 DEF PartOf
<1> DEFINE e == off[k + 1]
<1>12. e \in Nat /\ e = a + Len(typed[k]) /\ e + 1 <= Len(s) /\ s[e + 1] = SPACE
  BY <1>2, <1>5, <1>9, <1>10
<1> HIDE DEF e
<1>13. /\ Delim(s, a + 1) \in {e, e + 1} /\ Delim(s, a + 1) # 0
       /\ Argument(s, a + 1) = args[k]
  BY <1>1, <1>3, <1>11, <1>12, CutsSpelling
<1> QED
  BY <1>4, <1>13 DEF e

\* Behind the last argument no delimiter follows.
LEMMA NoMoreIsCut ==
  ASSUME NEW s, NEW n, NEW gap, NEW typed, NEW off, Lays(s, n, gap, typed, off),
         NEW p, p = Place(n, gap, off, n)
  PROVE  Delim(s, p) = 0
<1>1. PICK e \in Nat : e = off[n + 1]
  <2>1. n \in Nat /\ n + 1 \in 1 .. n + 1
    BY DEF Lays
  <2> QED
    BY <2>1 DEF Lays
<1>2. s \in Texts /\ n \in Nat /\ Ends(s, e)
  BY <1>1 DEF Lays
<1>3. p = e + 2
  BY <1>1, <1>2 DEF Place
<1>4. PICK m \in Nat : m = Len(s)
  BY <1>2 DEF Texts
<1>5. CASE e + 1 = Len(s)
  <2>1. Delim(s, p) = strchr(s, SPACE, p)
    BY <1>3, <1>4, <1>5 DEF Delim, Starts
  <2>2. p \in Nat /\ \A k \in p .. Len(s) : s[k] # SPACE
    BY <1>3, <1>4, <1>5
  <2> QED
    BY <1>2, <2>1, <2>2, StrchrNone
<1>6. CASE e + 2 <= Len(s) /\ s[e + 2] = QUOTE /\ \A j \in e + 3 .. Len(s) : s[j] # QUOTE
  <2>1. Delim(s, p) = strchr(s, QUOTE, p + 1)
    BY <1>3, <1>6 DEF Delim, Starts
  <2>2. p + 1 = e + 3 /\ p + 1 \in Nat
    BY <1>3
  <2>3. \A k \in p + 1 .. Len(s) : s[k] # QUOTE
    BY <1>6, <2>2
  <2> QED
    BY <1>2, <2>1, <2>2, <2>3, StrchrNone
<1> QED
  BY <1>2, <1>5, <1>6 DEF Ends

\* buf is at Place as long as there are arguments.
LEMMA BufsArePlaces ==
  ASSUME NEW s, NEW n, NEW gap, NEW typed, NEW off, NEW args,
         Lays(s, n, gap, typed, off), Typed(args, typed, n)
  PROVE  \A k \in 0 .. n : k \in 0 .. Len(s) /\ Bufs(s)[k] = Place(n, gap, off, k)
<1>1. s \in Texts /\ n \in Nat /\ Len(s) \in Nat
  BY DEF Lays, Texts
<1>2. off[n + 1] \in Nat /\ off[1] = 0
  <2>1. n + 1 \in 1 .. n + 1
    BY <1>1
  <2> QED
    BY <2>1 DEF Lays
<1>3. n <= Len(s)
  <2>1. n <= off[n + 1] /\ off[n + 1] + 1 <= Len(s)
    BY LinesGrow DEF Lays, Ends
  <2> QED
    BY <1>1, <1>2, <2>1
<1>4. \A k \in 0 .. n : k \in 0 .. Len(s)
  BY <1>1, <1>3
<1> DEFINE T == {k \in 0 .. n : Bufs(s)[k] = Place(n, gap, off, k)}
<1>5. 0 \in T
  <2>1. Bufs(s)[0] = Buf(s, 0, Bufs(s)[0 - 1])
    BY <1>1, <1>4, BufsAre
  <2>2. Bufs(s)[0] = SkipSpaces(s, 1)
    BY <2>1 DEF Buf
  <2>3. 0 \in 0 .. n /\ 1 \in {off[0 + 1] + 1, off[0 + 1] + 2}
    BY <1>1, <1>2
  <2>4. SkipSpaces(s, 1) = Place(n, gap, off, 0)
    BY <2>3, SpacesAreSkipped
  <2> QED
    BY <2>2, <2>3, <2>4
<1>6. ASSUME NEW k \in 0 .. n - 1, k \in T PROVE k + 1 \in T
  <2>1. k + 1 \in 1 .. n /\ k + 1 \in 0 .. n /\ k + 1 \in 0 .. Len(s) /\ (k + 1) - 1 = k /\ k + 1 # 0
    BY <1>1, <1>4
  <2> DEFINE p == Place(n, gap, off, k)
             d == Delim(s, p)
  <2>2. Bufs(s)[k] = p
    BY <1>6
  <2>3. Bufs(s)[k + 1] = SkipSpaces(s, d + 1)
    <3>1. Bufs(s)[k + 1] = Buf(s, k + 1, Bufs(s)[(k + 1) - 1])
      BY <1>1, <2>1, BufsAre
    <3>2. Bufs(s)[k + 1] = Buf(s, k + 1, p)
      BY Zenon, <2>1, <2>2, <3>1
    <3> HIDE DEF p
    <3> QED
      BY <2>1, <3>2 DEF Buf
  <2>4. d \in {off[(k + 1) + 1], off[(k + 1) + 1] + 1}
    <3>1. p = Place(n, gap, off, (k + 1) - 1)
      BY Zenon, <2>1
    <3> HIDE DEF p
    <3> QED
      BY Zenon, <2>1, <3>1, ArgumentIsCut
  <2>5. off[(k + 1) + 1] \in Nat
    <3>1. (k + 1) + 1 \in 1 .. n + 1
      BY <1>1, <2>1
    <3> QED
      BY <3>1 DEF Lays
  <2> HIDE DEF d
  <2>6. d + 1 \in {off[(k + 1) + 1] + 1, off[(k + 1) + 1] + 2}
    BY <2>4, <2>5
  <2>7. SkipSpaces(s, d + 1) = Place(n, gap, off, k + 1)
    BY <2>1, <2>6, SpacesAreSkipped
  <2> QED
    BY Zenon, <2>1, <2>3, <2>7
<1>7. \A k \in 0 .. n : k \in T
  <2> HIDE DEF T
  <2> QED
    BY <1>1, <1>5, <1>6, StepByStep
<1> QED
  BY <1>4, <1>7

\* What is cut off is what was typed.
LEMMA CutAtPlace ==
  ASSUME NEW s, NEW n, NEW gap, NEW typed, NEW off, NEW args,
         Lays(s, n, gap, typed, off), Typed(args, typed, n),
         NEW k \in 1 .. n, NEW p, p = Place(n, gap, off, k - 1)
  PROVE  Delim(s, p) # 0 /\ Argument(s, p) = args[k]
BY ArgumentIsCut

\* The arguments are cut off one by one.
LEMMA ArgumentsAreCut ==
  ASSUME NEW s, NEW n, NEW gap, NEW typed, NEW off, NEW args,
         Lays(s, n, gap, typed, off), Typed(args, typed, n)
  PROVE  \A k \in 1 .. n : /\ Delim(s, Bufs(s)[k - 1]) # 0
                          /\ Argument(s, Bufs(s)[k - 1]) = args[k]
<1> TAKE k \in 1 .. n
<1>1. n \in Nat
  BY DEF Lays
<1>2. k - 1 \in 0 .. n
  BY <1>1
<1>3. Bufs(s)[k - 1] = Place(n, gap, off, k - 1)
  BY Zenon, <1>2, BufsArePlaces
<1> DEFINE p == Place(n, gap, off, k - 1)
<1>4. p = Place(n, gap, off, k - 1)
  OBVIOUS
<1> HIDE DEF p
<1>5. Delim(s, p) # 0 /\ Argument(s, p) = args[k]
  BY <1>4, CutAtPlace
<1> QED
  BY Zenon, <1>3, <1>4, <1>5

Tuple(args, n) == [k \in 1 .. n |-> args[k]]

\* The arguments of a line are those that were typed.
LEMMA ArgumentsAre ==
  ASSUME NEW s, NEW n, NEW gap, NEW typed, NEW off, NEW args,
         Lays(s, n, gap, typed, off), Typed(args, typed, n)
  PROVE  Arguments(s) = Tuple(args, n)
<1> DEFINE buf == Bufs(s)
           Last1(m) == Delim(s, buf[m]) = 0 /\ \A k \in 0 .. m - 1 : Delim(s, buf[k]) # 0
           argc == CHOOSE m \in 0 .. Len(s) : Last1(m)
<1>1. n \in Nat /\ Len(s) \in Nat
  BY DEF Lays, Texts
<1>2. \A k \in 0 .. n : k \in 0 .. Len(s) /\ buf[k] = Place(n, gap, off, k)
  BY BufsArePlaces
<1>3. \A k \in 1 .. n : /\ Delim(s, buf[k - 1]) # 0
                        /\ Argument(s, buf[k - 1]) = args[k]
  BY ArgumentsAreCut
<1>4. Delim(s, buf[n]) = 0
  <2>1. buf[n] = Place(n, gap, off, n)
    BY <1>1, <1>2
  <2> HIDE DEF buf
  <2> QED
    BY Zenon, <2>1, NoMoreIsCut
<1>5. \A k \in 0 .. n - 1 : Delim(s, buf[k]) # 0
  <2> TAKE k \in 0 .. n - 1
  <2>1. k + 1 \in 1 .. n /\ (k + 1) - 1 = k
    BY <1>1
  <2>2. Delim(s, buf[(k + 1) - 1]) # 0
    BY Zenon, <1>3, <2>1
  <2> QED
    BY Zenon, <2>1, <2>2
<1>6. n \in 0 .. Len(s) /\ Last1(n)
  BY <1>1, <1>2, <1>4, <1>5
<1>7. ASSUME NEW m \in 0 .. Len(s), Last1(m) PROVE m = n
  <2> HIDE DEF buf
  <2>1. CASE m < n
    <3>1. m \in 0 .. n - 1
      BY <1>1, <2>1
    <3> QED
      BY <1>5, <1>7, <3>1
  <2>2. CASE n < m
    <3>1. n \in 0 .. m - 1
      BY <1>1, <2>2
    <3> QED
      BY <1>4, <1>7, <3>1
  <2> QED
    BY <1>1, <2>1, <2>2
<1>8. argc = n
  <2>1. argc \in 0 .. Len(s) /\ Last1(argc)
    <3> HIDE DEF Last1
    <3> QED
      BY <1>6
  <2> HIDE DEF argc, Last1
  <2> QED
    BY <1>7, <2>1
<1>9. Arguments(s) = [k \in 1 .. argc |-> Argument(s, buf[k - 1])]
  BY DEF Arguments
<1> HIDE DEF argc, buf
<1>10. Arguments(s) = [k \in 1 .. n |-> Argument(s, buf[k - 1])]
  BY Zenon, <1>8, <1>9
<1> QED
  BY Zenon, <1>3, <1>10 DEF Tuple

\* A line that has been put together.
Written(w, n, gap, typed, off) ==
  /\ w \in Texts /\ n \in Nat /\ gap \in Nat \ {0}
  /\ off[1] = 0 /\ \A k \in 1 .. n + 1 : off[k] \in Nat
  /\ off[n + 1] = Len(w)
  /\ \A k \in 1 .. n : off[k + 1] <= Len(w)
  /\ Holds(w, n, gap, typed, off)

Spaces(gap) == [g \in 1 .. gap |-> SPACE]

\* The spaces before an argument.
LEMMA SpacesAre ==
  ASSUME NEW gap \in Nat \ {0}
  PROVE  /\ Spaces(gap) \in Texts /\ Len(Spaces(gap)) = gap
         /\ \A g \in 1 .. gap : Spaces(gap)[g] = SPACE
<1>1. SPACE \in Chars
  BY DEF Chars
<1> HIDE DEF SPACE
<1> QED
  BY <1>1 DEF Spaces, Texts

\* Line lays the spellings out one behind the other.
LEMMA LineIsWritten ==
  ASSUME NEW n \in Nat, NEW gap \in Nat \ {0}, NEW args, NEW typed, DOMAIN typed = 1 .. n,
         Typed(args, typed, n)
  PROVE  \E off : Written(Line(typed, gap), n, gap, typed, off)
<1> DEFINE seqs == [k \in DOMAIN typed |-> [g \in 1 .. gap |-> SPACE] \o typed[k]]
           w == Line(typed, gap)
<1>1. \A k \in 1 .. n : typed[k] \in Texts /\ Len(typed[k]) \in Nat
  <2> TAKE k \in 1 .. n
  <2>1. args[k] \in Texts /\ typed[k] \in Spellings(args[k])
    BY DEF Typed
  <2>2. typed[k] \in Texts
    BY <2>1, SpellingIs
  <2> QED
    BY <2>2 DEF Texts
<1>2. \A k \in 1 .. n : seqs[k] = Spaces(gap) \o typed[k]
  BY DEF Spaces
<1>3. DOMAIN seqs = 1 .. n
  OBVIOUS
<1>4. w = FlattenSeq(seqs)
  BY DEF Line
<1>5. \A k \in 1 .. n : /\ seqs[k] \in Texts /\ Len(seqs[k]) = gap + Len(typed[k])
                        /\ PartOf(seqs[k], 0, Spaces(gap)) /\ PartOf(seqs[k], gap, typed[k])
  <2> HIDE DEF seqs
  <2> TAKE k \in 1 .. n
  <2> DEFINE b == Spaces(gap)
  <2>1. b \in Texts /\ Len(b) = gap
    BY SpacesAre
  <2> HIDE DEF b
  <2>2. typed[k] \in Texts
    BY <1>1
  <2>3. /\ b \o typed[k] \in Texts /\ Len(b \o typed[k]) = Len(b) + Len(typed[k])
        /\ PartOf(b \o typed[k], 0, b) /\ PartOf(b \o typed[k], Len(b), typed[k])
    BY <2>1, <2>2, Joins
  <2> QED
    BY Zenon, <1>2, <2>1, <2>3 DEF b
<1>6. seqs = [k \in 1 .. n |-> seqs[k]]
  OBVIOUS
<1> HIDE DEF seqs, w
<1>7. seqs \in [1 .. n -> Texts]
  BY Zenon, <1>5, <1>6
<1>8. seqs \in Seq(Texts) /\ Len(seqs) = n
  BY <1>7
<1>9. PICK off : Consists(w, seqs, off) /\ w \in Texts
  BY Zenon, <1>4, <1>8, Flattens
<1>10. /\ \A k \in 1 .. n + 1 : off[k] \in Nat
       /\ off[1] = 0 /\ off[n + 1] = Len(w)
       /\ \A k \in 1 .. n : off[k + 1] = off[k] + Len(seqs[k]) /\ PartOf(w, off[k], seqs[k])
  BY Zenon, <1>8, <1>9 DEF Consists
<1>11. ASSUME NEW k \in 1 .. n
       PROVE  /\ off[k + 1] = off[k] + gap + Len(typed[k]) /\ off[k + 1] <= Len(w)
              /\ \A g \in 1 .. gap : w[off[k] + g] = SPACE
              /\ \A i \in 1 .. Len(typed[k]) : w[off[k] + gap + i] = typed[k][i]
  <2>1. PICK l \in Nat : l = Len(typed[k])
    BY <1>1, <1>11
  <2>2. PICK a \in Nat : a = off[k]
    BY <1>10, <1>11
  <2>3. /\ seqs[k] \in Texts /\ Len(seqs[k]) = gap + l
        /\ PartOf(seqs[k], 0, Spaces(gap)) /\ PartOf(seqs[k], gap, typed[k])
    BY Zenon, <1>5, <1>11, <2>1
  <2>4. off[k + 1] = a + Len(seqs[k]) /\ PartOf(w, a, seqs[k])
    BY Zenon, <1>10, <1>11, <2>2
  <2>5. off[k + 1] = a + gap + l /\ off[k + 1] <= Len(w)
    BY <2>3, <2>4 DEF PartOf
  <2>6. \A i \in 1 .. gap + l : w[a + i] = seqs[k][i]
    BY <2>3, <2>4 DEF PartOf
  <2>7. \A g \in 1 .. gap : seqs[k][0 + g] = SPACE
    BY Zenon, <2>3, SpacesAre DEF PartOf
  <2>8. \A i \in 1 .. l : seqs[k][gap + i] = typed[k][i]
    BY Zenon, <2>1, <2>3 DEF PartOf
  <2>9. \A g \in 1 .. gap : w[a + g] = SPACE
    <3> TAKE g \in 1 .. gap
    <3>1. g \in 1 .. gap + l /\ 0 + g = g
      OBVIOUS
    <3> QED
      BY Zenon, <2>6, <2>7, <3>1
  <2>10. \A i \in 1 .. l : w[a + gap + i] = typed[k][i]
    <3> TAKE i \in 1 .. l
    <3>1. gap + i \in 1 .. gap + l /\ a + (gap + i) = a + gap + i
      OBVIOUS
    <3> QED
      BY Zenon, <2>6, <2>8, <3>1
  <2> QED
    BY Zenon, <2>1, <2>2, <2>5, <2>9, <2>10
<1>12. Holds(w, n, gap, typed, off)
  BY Zenon, <1>11 DEF Holds
<1> QED
  BY Zenon, <1>9, <1>10, <1>11, <1>12 DEF Written, w

\* A line with such an end has the arguments.
LEMMA WrittenLays ==
  ASSUME NEW w, NEW n, NEW gap, NEW typed, NEW off, Written(w, n, gap, typed, off),
         NEW args, Typed(args, typed, n),
         NEW s \in Texts, \A i \in 1 .. Len(w) : s[i] = w[i],
         NEW last, last = Len(w), Ends(s, last)
  PROVE  Lays(s, n, gap, typed, off)
<1>1. /\ w \in Texts /\ n \in Nat /\ gap \in Nat \ {0}
      /\ off[1] = 0 /\ \A k \in 1 .. n + 1 : off[k] \in Nat
      /\ off[n + 1] = Len(w) /\ \A k \in 1 .. n : off[k + 1] <= Len(w)
  BY Zenon DEF Written
<1>2. PICK m \in Nat : m = Len(w)
  BY <1>1 DEF Texts
<1>3. ASSUME NEW k \in 1 .. n
      PROVE  /\ off[k + 1] = off[k] + gap + Len(typed[k])
             /\ \A g \in 1 .. gap : s[off[k] + g] = SPACE
             /\ \A i \in 1 .. Len(typed[k]) : s[off[k] + gap + i] = typed[k][i]
  <2>1. /\ off[k + 1] = off[k] + gap + Len(typed[k])
        /\ \A g \in 1 .. gap : w[off[k] + g] = SPACE
        /\ \A i \in 1 .. Len(typed[k]) : w[off[k] + gap + i] = typed[k][i]
    BY Zenon, <1>3 DEF Written, Holds
  <2>2. PICK a \in Nat : a = off[k]
    <3>1. k \in 1 .. n + 1
      BY <1>1, <1>3
    <3> QED
      BY <1>1, <3>1
  <2>3. PICK l \in Nat : l = Len(typed[k])
    <3>1. args[k] \in Texts /\ typed[k] \in Spellings(args[k])
      BY <1>3 DEF Typed
    <3>2. typed[k] \in Texts
      BY <3>1, SpellingIs
    <3> QED
      BY <3>2 DEF Texts
  <2>4. a + gap + l <= m
    BY Zenon, <1>1, <1>2, <1>3, <2>1, <2>2, <2>3
  <2>5. \A g \in 1 .. gap : a + g \in 1 .. m
    BY <1>1, <2>4
  <2>6. \A i \in 1 .. l : a + gap + i \in 1 .. m
    BY <1>1, <2>4
  <2> QED
    BY Zenon, <1>2, <2>1, <2>2, <2>3, <2>5, <2>6
<1>4. Holds(s, n, gap, typed, off)
  BY Zenon, <1>3 DEF Holds
<1> QED
  BY Zenon, <1>1, <1>4 DEF Lays

\* The two lines that ParsesBack looks at, with a space for the last character.
Blanked(s, cmd) == s = [cmd EXCEPT ![Len(cmd)] = SPACE]

\* A line that ends after its last argument.
LEMMA PlainEnd ==
  ASSUME NEW w \in Texts, NEW s, Blanked(s, w \o <<NEWLINE>>)
  PROVE  s \in Texts /\ (\A i \in 1 .. Len(w) : s[i] = w[i]) /\ Ends(s, Len(w))
<1> DEFINE e == <<NEWLINE>>
           cmd == w \o e
<1>1. e \in Texts /\ Len(e) = 1
  BY DEF Texts, Chars
<1> HIDE DEF e
<1>2. cmd \in Texts /\ Len(cmd) = Len(w) + 1 /\ PartOf(cmd, 0, w)
  BY <1>1, Joins
<1>3. s = [cmd EXCEPT ![Len(cmd)] = SPACE]
  BY DEF Blanked, e
<1> HIDE DEF cmd
<1>4. PICK m \in Nat : m = Len(w)
  BY DEF Texts
<1>5. \A i \in 1 .. m : cmd[i] = w[i]
  <2>1. \A i \in 1 .. m : cmd[0 + i] = w[i]
    BY Zenon, <1>2, <1>4 DEF PartOf
  <2> QED
    BY <2>1
<1>6. SPACE \in Chars
  BY DEF Chars
<1> HIDE DEF SPACE
<1>7. /\ s \in Texts /\ Len(s) = m + 1 /\ s[m + 1] = SPACE
      /\ \A i \in 1 .. m : s[i] = cmd[i]
  BY <1>2, <1>3, <1>4, <1>6 DEF Texts
<1>8. Ends(s, m)
  BY <1>7 DEF Ends
<1> QED
  BY Zenon, <1>4, <1>5, <1>7, <1>8

\* A line that ends with a quote that is never closed.
LEMMA OpenEnd ==
  ASSUME NEW w \in Texts, NEW s, Blanked(s, w \o <<SPACE, QUOTE>> \o <<LETTER, NEWLINE>>)
  PROVE  s \in Texts /\ (\A i \in 1 .. Len(w) : s[i] = w[i]) /\ Ends(s, Len(w))
<1> DEFINE e == <<SPACE, QUOTE>>
           x == <<LETTER, NEWLINE>>
           v == w \o e
           cmd == v \o x
<1>1. /\ e \in Texts /\ Len(e) = 2 /\ e[1] = SPACE /\ e[2] = QUOTE
      /\ x \in Texts /\ Len(x) = 2 /\ x[1] = LETTER
  BY DEF Texts, Chars
<1>0. s = [cmd EXCEPT ![Len(cmd)] = SPACE]
  BY DEF Blanked
<1> HIDE DEF e, x
<1>2. v \in Texts /\ Len(v) = Len(w) + 2 /\ PartOf(v, 0, w) /\ PartOf(v, Len(w), e)
  BY <1>1, Joins
<1> HIDE DEF v
<1>3. cmd \in Texts /\ Len(cmd) = Len(v) + 2 /\ PartOf(cmd, 0, v) /\ PartOf(cmd, Len(v), x)
  <2>1. v \in Texts /\ x \in Texts /\ Len(x) = 2
    BY Zenon, <1>1, <1>2
  <2>2. /\ v \o x \in Texts /\ Len(v \o x) = Len(v) + Len(x)
        /\ PartOf(v \o x, 0, v) /\ PartOf(v \o x, Len(v), x)
    BY Zenon, <2>1, Joins
  <2> QED
    BY Zenon, <2>1, <2>2
<1> HIDE DEF cmd
<1>4. PICK m \in Nat : m = Len(w)
  BY DEF Texts
<1>5. \A i \in 1 .. m + 2 : cmd[i] = v[i]
  <2>1. \A i \in 1 .. m + 2 : cmd[0 + i] = v[i]
    BY Zenon, <1>2, <1>3, <1>4 DEF PartOf
  <2> QED
    BY <2>1
<1>6. \A i \in 1 .. m : v[i] = w[i]
  <2>1. \A i \in 1 .. m : v[0 + i] = w[i]
    BY Zenon, <1>2, <1>4 DEF PartOf
  <2> QED
    BY <2>1
<1>7. v[m + 1] = SPACE /\ v[m + 2] = QUOTE
  <2>1. \A i \in 1 .. 2 : v[m + i] = e[i]
    BY Zenon, <1>1, <1>2, <1>4 DEF PartOf
  <2> QED
    BY <1>1, <2>1
<1>8. cmd[m + 3] = LETTER
  <2>1. Len(v) = m + 2
    BY <1>2, <1>4
  <2>2. \A i \in 1 .. 2 : cmd[(m + 2) + i] = x[i]
    BY Zenon, <1>1, <1>3, <2>1 DEF PartOf
  <2>3. cmd[(m + 2) + 1] = x[1]
    BY <2>2
  <2> QED
    BY <1>1, <2>3
<1>9. cmd[m + 1] = SPACE /\ cmd[m + 2] = QUOTE
  BY <1>5, <1>7
<1>10. SPACE \in Chars /\ SPACE # QUOTE /\ LETTER # QUOTE
  BY DEF Chars, SPACE, QUOTE, LETTER
<1> HIDE DEF SPACE, QUOTE, LETTER
<1>11. Len(cmd) = m + 4
  BY <1>2, <1>3, <1>4
<1>12. /\ s \in Texts /\ Len(s) = m + 4 /\ s[m + 4] = SPACE
       /\ \A i \in 1 .. m + 3 : s[i] = cmd[i]
  BY <1>0, <1>3, <1>10, <1>11 DEF Texts
<1>13. \A i \in 1 .. m : s[i] = w[i]
  BY <1>5, <1>6, <1>12
<1>14. s[m + 1] = SPACE /\ s[m + 2] = QUOTE /\ s[m + 3] = LETTER
  BY <1>8, <1>9, <1>12
<1>15. \A j \in m + 3 .. Len(s) : s[j] # QUOTE
  BY <1>10, <1>12, <1>14
<1>16. Ends(s, m)
  BY <1>12, <1>14, <1>15 DEF Ends
<1> QED
  BY Zenon, <1>4, <1>12, <1>13, <1>16

\* Whatever line is laid out like that, parseline returns the arguments.
LEMMA AskedIsParsed ==
  ASSUME NEW cmd, NEW s, Blanked(s, cmd), NEW args, Arguments(s) = args
  PROVE  parseline(cmd) = Asked(args)
BY Zenon DEF Blanked, parseline, Asked

\* What is typed comes back.
ComesBack(typed, gap, args) ==
  \A cmd : \/ cmd = Line(typed, gap) \o <<NEWLINE>>
           \/ cmd = Line(typed, gap) \o <<SPACE, QUOTE>> \o <<LETTER, NEWLINE>>
          => parseline(cmd) = Asked(args)

LEMMA TypedComesBack ==
  ASSUME NEW n \in Nat, NEW gap \in Nat \ {0}, NEW args, args = Tuple(args, n),
         NEW typed, DOMAIN typed = 1 .. n, Typed(args, typed, n)
  PROVE  ComesBack(typed, gap, args)
<1> SUFFICES ASSUME NEW cmd,
                    cmd = Line(typed, gap) \o <<NEWLINE>>
                      \/ cmd = Line(typed, gap) \o <<SPACE, QUOTE>> \o <<LETTER, NEWLINE>>
             PROVE  parseline(cmd) = Asked(args)
  BY Zenon DEF ComesBack
<1> DEFINE w == Line(typed, gap)
           s == [cmd EXCEPT ![Len(cmd)] = SPACE]
<1>1. PICK off : Written(w, n, gap, typed, off)
  BY Zenon, LineIsWritten
<1>2. Blanked(s, cmd)
  BY Zenon DEF Blanked
<1> HIDE DEF w, s
<1>3. w \in Texts
  BY Zenon, <1>1 DEF Written
<1>4. s \in Texts /\ (\A i \in 1 .. Len(w) : s[i] = w[i]) /\ Ends(s, Len(w))
  <2>1. cmd = w \o <<NEWLINE>> \/ cmd = w \o <<SPACE, QUOTE>> \o <<LETTER, NEWLINE>>
    BY Zenon DEF w
  <2>2. CASE cmd = w \o <<NEWLINE>>
    <3>1. Blanked(s, w \o <<NEWLINE>>)
      BY Zenon, <1>2, <2>2
    <3> QED
      BY Zenon, <1>3, <3>1, PlainEnd
  <2>3. CASE cmd = w \o <<SPACE, QUOTE>> \o <<LETTER, NEWLINE>>
    <3>1. Blanked(s, w \o <<SPACE, QUOTE>> \o <<LETTER, NEWLINE>>)
      BY Zenon, <1>2, <2>3
    <3> QED
      BY Zenon, <1>3, <3>1, OpenEnd
  <2> QED
    BY Zenon, <2>1, <2>2, <2>3
<1>5. Lays(s, n, gap, typed, off)
  BY Zenon, <1>1, <1>4, WrittenLays
<1>7. Arguments(s) = args
  BY Zenon, <1>5, ArgumentsAre
<1> QED
  BY Zenon, <1>2, <1>7, AskedIsParsed

\* Every line of every set of arguments is parsed back.
LEMMA LinesParseBack == ParsesBack
<1> SUFFICES ASSUME NEW n \in 0 .. MaxArgs, NEW gap \in 1 .. 2, NEW args \in [1 .. n -> Words],
                    NEW typed \in {t \in [1 .. n -> UNION {Spellings(w) : w \in Words}] :
                                     \A k \in 1 .. n : t[k] \in Spellings(args[k])}
             PROVE  /\ parseline(Line(typed, gap) \o <<NEWLINE>>) = Asked(args)
                    /\ parseline(Line(typed, gap) \o <<SPACE, QUOTE>> \o <<LETTER, NEWLINE>>) = Asked(args)
  BY Zenon DEF ParsesBack
<1>1. n \in Nat /\ gap \in Nat \ {0}
  BY ParseLineAssumption
<1>2. Typed(args, typed, n)
  <2>1. \A k \in 1 .. n : args[k] \in Words /\ typed[k] \in Spellings(args[k])
    BY Zenon
  <2>2. \A w \in Words : w \in Texts
    BY ParseLineAssumption DEF Texts
  <2> QED
    BY Zenon, <2>1, <2>2 DEF Typed
<1>3. args = Tuple(args, n) /\ DOMAIN typed = 1 .. n
  BY Zenon DEF Tuple
<1>4. ComesBack(typed, gap, args)
  BY <1>1, <1>2, <1>3, TypedComesBack
<1> QED
  BY Zenon, <1>4 DEF ComesBack

\* For every set of arguments and any number of them on a line: the arguments of the
\* line that eval is given are those that were typed (tsh.c:193-241).
THEOREM LinesAreParsedBack == Spec => []ArgumentsComeBack
<1>1. ArgumentsComeBack
  BY LinesParseBack DEF ArgumentsComeBack
<1> QED
  BY <1>1, PTL
=============================================================================
