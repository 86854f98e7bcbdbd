CONSTANTS
    Prop <- AB
    Above <- AboveAB
    Val = {v, w}
    Unset = Unset
    NotCached = NotCached
    NoCall = NoCall
    SystemConfig <- Systems
    Watched = {}
    Fault = {"restart", "timeout"}
    MaxMessages = 3
    MaxDead = 1
    a = a
    ab = ab
    v = v
    w = w
SPECIFICATION FairSpec
INVARIANT TypeOK
INVARIANT EachReplyHasItsSet
INVARIANT BehindBySignals
PROPERTY OwnSetHolds
PROPERTY QuietIsCurrent
PROPERTY NothingBlocksForEver
PROPERTY DaemonIsSettingsStore
