------------------------------ MODULE MCKeyChain ------------------------------
(* Small instances of KeyChain for TLC. *)
EXTENDS KeyChain, TLC

CONSTANTS r1, r2, r3, p1, p2

TwoPublishers == {p1, p2}
ThreeRoots == {r1, r2, r3}

\* Neither of them can sign for the other.
TwoSets == {[keys |-> {r1}, threshold |-> 1], [keys |-> {r2, r3}, threshold |-> 2]}

Interchangeable == Permutations(TwoPublishers)

Unsigned == {"archive signature"}

=============================================================================
