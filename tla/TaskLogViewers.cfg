SPECIFICATION FairSpec
CONSTANTS
    x = x
    y = y
    v1 = v1
    Builds <- TwoBuilds
    Versions = {x, y}
    VersionOf <- SameVersion
    Uploads <- SecondUploads
    Viewers = {v1}
    MaxLines = 2
    MaxCrashes = 1
INVARIANT TypeOK
INVARIANT ShownInFull
INVARIANT ShownWithOneSeam
INVARIANT ImagesAreBuilt
PROPERTY ViewersLetGo
