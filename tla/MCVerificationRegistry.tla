----------------------- MODULE MCVerificationRegistry -----------------------
(* Model-checking instances of VerificationRegistry. *)
EXTENDS VerificationRegistry, TLC

\* Operators are interchangeable: no action or invariant tells them apart.  Of the
\* runs only that of the limit takes it: the other checks liveness.
OperatorSymmetry == Permutations(Operators)

=============================================================================
