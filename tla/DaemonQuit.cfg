CONSTANTS
    Channel = {c1}
    Lower <- SameName
    Prop <- FlatProp
    Above <- FlatAbove
    Val = {v, w}
    Name <- OwnNames
    Propname <- OwnName
    Array = {}
    Printed <- RoundW
    SystemFiles = {c1}
    SystemTree <- SystemLeaf
    LockedChannels = {}
    InitialFile <- OldFile
    UserPath = TRUE
    IoErrors = FALSE
    MaxQueue = 3
    Unset = Unset
    Absent = Absent
    NoFile = NoFile
    NotLoaded = NotLoaded
    Torn = Torn
    c1 = c1
    c2 = c2
    v = v
    w = w
SPECIFICATION DaemonSpec
PROPERTY ExitIsSaved
