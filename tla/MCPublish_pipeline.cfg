CONSTANTS
    amd64 = amd64
    arm64 = arm64
    sdkPackage = sdkPackage
    buildTools = buildTools
    sdk = sdk
    r1 = r1
    r2 = r2
    NoRun = NoRun
    Packages <- ThreePackages
    Sources <- TwoSources
    Home <- HomeOfThree
    Families <- OneFamily
    LaidDown <- OneFamily
    Uploads <- InTwo
    Runs <- TwoRuns
    Selections <- NoSelection
    MaxVersion = 1
SPECIFICATION FairSpec
INVARIANTS PublishInv ServedVerifies
PROPERTIES ServedStays EventuallyPublished
CHECK_DEADLOCK FALSE
