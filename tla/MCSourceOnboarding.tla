------------------------ MODULE MCSourceOnboarding ------------------------
(* SourceOnboarding with values for TLC. *)
EXTENDS SourceOnboarding

CONSTANTS n1, d1, d2, d3, e1, e2

\* A site without a valid endpoint, and one whose third endpoint is redirected.
MCValidated == {<<>>, <<e1, e2, e1>>}

\* A slug that a discovery may choose as well.
MCGiven == {<<n1, 2>>}

MCFirst == [name |-> n1, domain |-> d1, endpoint |-> e1]

\* The domains that the first publisher does not have are alike.
MCSymmetry == Permutations({d2, d3})
=============================================================================
