------------------------------- MODULE MCBootstrap ------------------------------
(***************************************************************************)
(* Two questions at once; a plan of three epics with four children, in     *)
(* which a title of an epic and one of a child come twice, and of which an *)
(* earlier plan has made the second epic and its child.                    *)
(***************************************************************************)
EXTENDS Bootstrap, TLC

CONSTANTS q1, q2, E1, E2, K1, K2, K3

MCEpics == <<E1, E2, E1>>
MCKids  == <<K1, K2, K3, K2>>
MCEpicOf == (4 :> 1) @@ (5 :> 1) @@ (6 :> 2) @@ (7 :> 3)

MCEarlier == [NoIssues EXCEPT ![1] = NewIssue(E2, PlainBody(E2), {}),
                              ![2] = NewIssue(K3, PlainBody(K3), {})]

MCEarlierParent == [n \in IssueNumbers |-> IF n = 2 THEN 1 ELSE Nothing]
=================================================================================
