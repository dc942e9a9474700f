CONSTANTS
    Process = {p1, p2}
    Release <- MCRelease
    MaxDeploys = 3
    MaxCrashes = 2
    None = None
SPECIFICATION FairSpec
PROPERTIES
    NeverDowngraded
    UpToDateInTheEnd
