------------------------------ MODULE MCSplits -------------------------------
(* Instances of SplitParser: values and registers are model values. *)
EXTENDS SplitParser

CONSTANTS v, w, a0, a1

\* Steps read no split once it is collected, so states are told apart by the
\* last one only, and by that only until the next begins.
LastOf(s) == IF where = "file" /\ s # <<>> THEN s[Len(s)] ELSE EmptySplit
MCView == <<author[1], author[2], Len(file), LastOf(file),
            state, split, splitCount, LastOf(splits), allocated, status>>
==============================================================================
