------------------------------ MODULE MCSource ------------------------------
(* Small instances of Source for TLC. *)
EXTENDS Source, TLC

CONSTANTS p1, amd64, arm64, v1, v2, d1, d2

OneProc == {p1}
TwoMembers == {amd64, arm64}
TwoVersions == {v1, v2}
TwoDigests == {d1, d2}

Symmetry == Permutations(Members) \cup Permutations(Versions) \cup Permutations(Digests)

=============================================================================
