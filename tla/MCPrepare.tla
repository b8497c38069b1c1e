-------------------------------- MODULE MCPrepare -------------------------------
(***************************************************************************)
(* Two commands, and sessions of every kind the branches tell apart.       *)
(***************************************************************************)
EXTENDS Prepare, TLC

CONSTANTS c1, c2

Result(outcome, missing, ambiguity, sound) ==
    [outcome |-> outcome, missing |-> missing, ambiguity |-> ambiguity, sound |-> sound]

MCResults ==
    {Result("READY", FALSE, "none", TRUE),
     Result("READY", FALSE, "none", FALSE),
     Result("NEEDS_REFINEMENT", TRUE, "none", TRUE)}

Permuted == Permutations(Commands)
=================================================================================
