----------------------------- MODULE MCSnapshot -----------------------------
(* Small instances of Snapshot for TLC. *)
EXTENDS Snapshot, TLC

CONSTANTS s1, s2, r1, r2

TwoSources == {s1, s2}
OneSource == {s1}
OneRun == {r1}
TwoRuns == {r1, r2}

\* A run without --source, and one limited to the first source.
AnySelection == {Sources, {s1}}
NoSelection == {Sources}

Symmetry == Permutations(Runs)

=============================================================================
