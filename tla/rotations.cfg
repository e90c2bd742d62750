CONSTANTS
    Destinations = {d1}
    DestinationNames = {n1}
    S3Keys = {good, bad}
    GoodKeys = {good}
    DestWriters = {w1, w2}
    Refreshers = {r1}
    DestinationLimit = 1
    NoDestination = NoDestination
    NoS3Key = NoS3Key
SPECIFICATION DestSpec
CHECK_DEADLOCK FALSE
INVARIANT RotationsAgree
