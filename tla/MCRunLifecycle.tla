----------------------------- MODULE MCRunLifecycle -----------------------------
(***************************************************************************)
(* Instances of RunLifecycle for TLC.                                      *)
(***************************************************************************)
EXTENDS RunLifecycle, TLC

CONSTANTS p1, p2, t0, t1, t2, f1, f2

OneProc   == {p1}
TwoProcs  == {p1, p2}
TwoTrees  == {t0, t1}
ThreeTrees == {t0, t1, t2}
OneFinding  == {f1}
TwoFindings == {f1, f2}

\* Processes, findings and trees other than the base are interchangeable.
Symmetry == Permutations(Procs) \cup Permutations(Findings) \cup Permutations(Trees \ {BaseTree})

=================================================================================
