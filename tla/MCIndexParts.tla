---------------------------- MODULE MCIndexParts ----------------------------
(* Small instances of IndexParts for TLC. *)
EXTENDS IndexParts, TLC

CONSTANTS v1, v2, d1, d2

TwoVersions == {v1, v2}
TwoDigests == {d1, d2}

\* A family and the package of one of its platforms.
OnePlatform == {<<"tools">>, <<"tools", "amd64">>}
Platforms == {"amd64"}

\* One that either of the names could pass for.
OneSidecar ==
    {[name |-> <<"tools">>, architecture |-> "amd64", version |-> v1, wellformed |-> TRUE]}

\* The first version has a part, the second one is for the head.
OnePart == <<{v1}>>

Interchangeable == Permutations(TwoDigests)

=============================================================================
