CONSTANTS
    Channel = {c1}
    Lower <- SameName
    Prop <- DeepProp
    Above <- DeepAbove
    Val = {v, w}
    Name <- NameAfterA
    Propname <- AfterA
    Array = {}
    Printed <- RoundW
    SystemFiles = {c1}
    SystemTree <- SystemLeaf
    LockedChannels = {}
    InitialFile <- OldFile
    UserPath = TRUE
    IoErrors = FALSE
    Unset = Unset
    Absent = Absent
    NoFile = NoFile
    NotLoaded = NotLoaded
    Torn = Torn
    c1 = c1
    c2 = c2
    v = v
    w = w
SPECIFICATION Spec
PROPERTY ChangesAreReported
