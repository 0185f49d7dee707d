CONSTANTS
    amd64 = amd64
    arm64 = arm64
    sdkPackage = sdkPackage
    buildTools = buildTools
    sdk = sdk
    r1 = r1
    r2 = r2
    NoRun = NoRun
    Packages <- ThreePackages
    Sources <- TwoSources
    Home <- HomeOfThree
    Families <- OneFamily
    LaidDown <- TwoSources
    Uploads <- InTwo
    Runs <- OneRun
    Selections <- AnySelection
    MaxVersion = 1
SPECIFICATION Spec
INVARIANT ServedVerifies
CHECK_DEADLOCK FALSE
