------------------------------ MODULE MCDaemonLife ------------------------------
(***************************************************************************)
(* An instance of DaemonLife for TLC: two starts, an add and a stop meet   *)
(* two daemons. The starts are given the same issue; the add repeats it.   *)
(***************************************************************************)
EXTENDS DaemonLife, TLC

CONSTANTS d1, d2, p1, p2, start1, start2, add1, stop1

IssuesGiven == start1 :> <<1>> @@ start2 :> <<1>> @@ add1 :> <<1, 3>>
Alike == Permutations(Daemons) \cup Permutations(Pids) \cup Permutations(Starters)
=================================================================================
