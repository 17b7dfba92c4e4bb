--------------------------- MODULE MCContributors ---------------------------
(* Two keys on one branch over two instants, so that the bounds that matter *)
(* are the first instant as an end and the second as a beginning.           *)
EXTENDS Contributors, TLC

MCSpans == {[from |-> NoBound, until |-> NoBound], [from |-> NoBound, until |-> 1],
            [from |-> 2, until |-> NoBound]}
Interchangeable == Permutations(Keys)
=============================================================================
