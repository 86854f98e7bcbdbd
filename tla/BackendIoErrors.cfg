CONSTANTS
    Channel = {c1, c2}
    Lower <- SameName
    Prop <- FlatProp
    Above <- FlatAbove
    Val = {v}
    Name <- OwnNames
    Propname <- OwnName
    Array = {v}
    Printed <- RoundW
    SystemFiles = {c1}
    SystemTree <- SystemLeaf
    LockedChannels = {}
    InitialFile <- EmptyFile
    UserPath = FALSE
    IoErrors = TRUE
    Unset = Unset
    Absent = Absent
    NoFile = NoFile
    NotLoaded = NotLoaded
    Torn = Torn
    c1 = c1
    c2 = c2
    v = v
    w = w
SPECIFICATION Spec
INVARIANT FilesAreWhole
PROPERTY ImplementsConfigStore
