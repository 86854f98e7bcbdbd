CONSTANTS
    Prop <- PropABD
    Above <- AboveABD
    Name <- OwnNames
    Propname <- OwnName
    Val <- AnyVal
    Me = me
    Group = {staff}
    SystemConfigs <- Configs
    InitialFiles <- UserFiles
    GivenValue <- Given
    MaxMtime = 2
    Unset = Unset
    Absent = Absent
    NotLoaded = NotLoaded
    NoFile = NoFile
    NoCache = NoCache
    me = me
    staff = staff
SPECIFICATION Spec
INVARIANT TypeOK
INVARIANT ValuesGoHome
PROPERTY ReadBackButLockedArrays
PROPERTY SystemFilesRule
PROPERTY SavesTheTree
PROPERTY UserFileKeepsLocks
