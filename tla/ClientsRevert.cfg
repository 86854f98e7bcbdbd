CONSTANTS
    Prop <- AB
    Above <- AboveAB
    Val = {v, w}
    Unset = Unset
    NotCached = NotCached
    NoCall = NoCall
    SystemConfig <- Systems
    Watched = {a, ab}
    Fault = {}
    MaxMessages = 2
    MaxDead = 1
    a = a
    ab = ab
    v = v
    w = w
SPECIFICATION Spec
PROPERTY ReplacedIsTold
