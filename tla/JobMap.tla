------------------------------- MODULE JobMap -------------------------------
(***************************************************************************)
(* What the shell's job list promises its callers (SHELL_HW/src/tsh.c): a  *)
(* finite map from process ids to job states, of bounded size, in which a  *)
(* job is found by its pid for exactly as long as it is listed.            *)
(***************************************************************************)
EXTENDS Naturals, FiniteSets

CONSTANTS Pids,       \* the pids that fork can return
          JobStates,  \* the states a listed job can have
          Room        \* how many jobs the list holds

VARIABLE listed       \* the listed jobs: pid -> state

MapInit == listed = << >>

\* A job is added while there is room; otherwise nothing happens.
Add(pid, st) ==
  /\ pid \notin DOMAIN listed
  /\ Cardinality(DOMAIN listed) < Room
  /\ listed' = [p \in DOMAIN listed \cup {pid} |->
                  IF p = pid THEN st ELSE listed[p]]

Delete(pid) ==
  /\ pid \in DOMAIN listed
  /\ listed' = [p \in DOMAIN listed \ {pid} |-> listed[p]]

Change(pid, st) ==
  /\ pid \in DOMAIN listed
  /\ listed' = [listed EXCEPT ![pid] = st]

MapNext ==
  \E pid \in Pids : \/ Delete(pid)
                    \/ \E st \in JobStates : Add(pid, st) \/ Change(pid, st)

MapSpec == MapInit /\ [][MapNext]_listed
=============================================================================
