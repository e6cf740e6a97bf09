----------------------------- MODULE MCFdTable -----------------------------
(* Instances of FdTable small enough for TLC.                               *)
EXTENDS FdTable

\* Scaled-down contents: shorter than, as long as and longer than a read.
MCContentLen == [n \in Static |-> CASE n = "ProcVersion" -> 3
                                    [] n = "ProcMeminfo" -> 4
                                    [] OTHER -> 2]

\* Negative, standard, open and unknown descriptors.
MCFds == {-1, 0, 1, 3, 4, 5}

=============================================================================
