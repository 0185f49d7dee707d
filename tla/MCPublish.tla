------------------------------ MODULE MCPublish ------------------------------
(* Small instances of Publish for TLC. *)
EXTENDS Publish

CONSTANTS amd64, arm64, sdkPackage, buildTools, sdk, r1, r2

\* The build tools come for two platforms, with a meta package; the SDK does
\* not.
TwoSources == {buildTools, sdk}
ThreePackages == {amd64, arm64, sdkPackage}
HomeOfThree == [p \in ThreePackages |-> IF p = sdkPackage THEN sdk ELSE buildTools]
OneFamily == {buildTools}

\* A release is uploaded in two goes.
InTwo == {{amd64}, {arm64, sdkPackage}}

OneRun == {r1}
TwoRuns == {r1, r2}

\* A run without --source, and one limited to the SDK.
NoSelection == {TwoSources}
AnySelection == {TwoSources, {sdk}}

=============================================================================
