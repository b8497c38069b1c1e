-------------------------------- MODULE Bootstrap -------------------------------
(***************************************************************************)
(* `bootstrap --plan`, then `bootstrap --apply` of the plan it stored.     *)
(***************************************************************************)
EXTENDS BootstrapAsk, BootstrapApply

vars == <<askVars, applyVars>>

Init == AskInit /\ ApplyInit

Next ==
    \/ AskNext /\ UNCHANGED applyVars
    \/ planned /\ ApplyNext /\ UNCHANGED askVars

Spec     == Init /\ [][Next]_vars
FairSpec == Spec /\ AskFairness /\ WF_vars(planned /\ Apply /\ UNCHANGED askVars)

\* A plan that is stored is applied in the end, if it is applied again after
\* each failure; an aborted question that the operator never answers is no
\* hindrance.
PlanIsApplied == planned ~> IsApplied
=================================================================================
