------------------------------- MODULE MCScheduler -------------------------------
(***************************************************************************)
(* Instances of Scheduler for TLC.                                         *)
(***************************************************************************)
EXTENDS Scheduler

CONSTANTS i1, i2, i3, ext

ThreeIssues == {i1, i2, i3}
TwoIssues   == {i1, i2}
NoExternal  == {}
OneExternal == {ext}

Q12  == <<i1, i2>>

\* i3 waits for i1, i2 for an issue nobody queues.
Chain      == [i \in Issues |-> IF i = i3 THEN {i1} ELSE IF i = i2 THEN External ELSE {}]

Clash12    == {<<i1, i1>>, <<i1, i2>>, <<i2, i1>>, <<i2, i2>>, <<i3, i3>>}
Disjoint   == {<<i, i>> : i \in Issues}
=================================================================================
