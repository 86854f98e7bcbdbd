CONSTANTS
    Prop <- PropABD
    Above <- AboveABD
    Name <- OwnNames
    Propname <- OwnName
    Val <- AnyVal
    Me = me
    Group = {}
    SystemConfigs <- LockLater
    InitialFiles <- None
    GivenValue <- GivenArrays
    MaxMtime = 1
    Unset = Unset
    Absent = Absent
    NotLoaded = NotLoaded
    NoFile = NoFile
    NoCache = NoCache
    me = me
    staff = staff
SPECIFICATION Spec
PROPERTY ReadBack
