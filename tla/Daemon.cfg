CONSTANTS
    Channel = {c1}
    Lower <- SameName
    Prop <- DeepProp
    Above <- DeepAbove
    Val = {v}
    Name <- OwnNames
    Propname <- OwnName
    Array = {}
    Printed <- RoundW
    SystemFiles = {c1}
    SystemTree <- SystemLeaf
    LockedChannels = {}
    InitialFile <- EmptyFile
    UserPath = FALSE
    IoErrors = FALSE
    MaxQueue = 3
    Unset = Unset
    Absent = Absent
    NoFile = NoFile
    NotLoaded = NotLoaded
    Torn = Torn
    c1 = c1
    c2 = c2
    v = v
    w = w
SPECIFICATION DaemonFairSpec
INVARIANT ToldOrQueued
PROPERTY QuietIsTold
PROPERTY QuietIsSaved
PROPERTY ImplementsSettingsStore
