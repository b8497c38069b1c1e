----------------------------------- MODULE Sift ----------------------------------
(***************************************************************************)
(* The filter both queues of the daemon put the pending file through. It   *)
(* is a recursive function and not SelectSeq, so that it can be proved     *)
(* about (SiftProofs).                                                     *)
(***************************************************************************)
EXTENDS Naturals, Sequences

\* The elements of s that are not in `known`, in the order of s.
Without(s, known) ==
    LET kept[n \in 0..Len(s)] ==
            IF n = 0 THEN <<>>
            ELSE IF s[n] \in known THEN kept[n - 1] ELSE Append(kept[n - 1], s[n])
    IN  kept[Len(s)]
=================================================================================
