--------------------------------- MODULE Stages ---------------------------------
(***************************************************************************)
(* The stages a run can occupy and the table of legal moves between them,  *)
(* as src/workflow/state-machine.ts and src/domain/contracts.ts declare    *)
(* them. Both the run store and the orchestrator import these names.       *)
(***************************************************************************)

\* Stages that release the issue: another run of the same issue may start.
\* FAILED is one of them although `resume` accepts a FAILED run.
TerminalStages == {"PR_OPEN", "NEEDS_REFINEMENT", "FAILED", "CANCELLED"}

WorkingStages ==
    {"PREFLIGHT", "READINESS_CHECK", "WORKSPACE_CREATION", "IMPLEMENTATION",
     "VERIFICATION", "INDEPENDENT_REVIEW", "ACCEPTANCE_VERIFICATION",
     "CORRECTION", "PUBLICATION"}

RunStages == WorkingStages \cup {"BLOCKED"} \cup TerminalStages

\* Stages in which nothing is supposed to be working on the run.
QuiescentStages == TerminalStages \cup {"BLOCKED"}

\* Stages `resume` accepts.
ResumableStages == {"BLOCKED", "FAILED"}

Abort == {"FAILED", "CANCELLED"}

\* The TRANSITIONS table.
Transitions ==
    [PREFLIGHT               |-> Abort \cup {"READINESS_CHECK"},
     READINESS_CHECK         |-> Abort \cup {"WORKSPACE_CREATION", "NEEDS_REFINEMENT"},
     WORKSPACE_CREATION      |-> Abort \cup {"IMPLEMENTATION"},
     IMPLEMENTATION          |-> Abort \cup {"VERIFICATION", "BLOCKED", "NEEDS_REFINEMENT"},
     VERIFICATION            |-> Abort \cup {"INDEPENDENT_REVIEW", "IMPLEMENTATION", "BLOCKED"},
     INDEPENDENT_REVIEW      |-> Abort \cup {"ACCEPTANCE_VERIFICATION", "CORRECTION",
                                             "NEEDS_REFINEMENT", "BLOCKED"},
     ACCEPTANCE_VERIFICATION |-> Abort \cup {"PUBLICATION", "CORRECTION",
                                             "NEEDS_REFINEMENT", "BLOCKED"},
     CORRECTION              |-> Abort \cup {"IMPLEMENTATION", "BLOCKED"},
     PUBLICATION             |-> Abort \cup {"PR_OPEN"},
     BLOCKED                 |-> {"IMPLEMENTATION", "CORRECTION"},
     PR_OPEN                 |-> {},
     NEEDS_REFINEMENT        |-> {},
     FAILED                  |-> {},
     CANCELLED               |-> {}]

=================================================================================
