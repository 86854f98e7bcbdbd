CONSTANTS
    Chan = {c1, c2}
    PropertyBase <- MCBase
    IsSingleton <- OnlyC1
    Piece = {"/", "/a", "/b", "b"}
    Path <- MCPath
    Val = {0, 1, 2, black, white}
    Array = {black, white}
    Unset = Unset
    MaxInit = 2
    Binding = {b1, b2, b3}
    Obj = {switch, entry, colour}
    Bindable <- MCBindable
    ObjVal <- MCObjVal
    Default <- MCDefault
    Boxed = {colour}
    ToObject <- MCToObject
    ToChannel <- MCToChannel
    Fail = Fail
    Gone = Gone
    c1 = c1
    c2 = c2
    switch = switch
    entry = entry
    colour = colour
    b1 = b1
    black = black
    white = white
SPECIFICATION Spec
INVARIANT TypeOK
INVARIANT BoundAgree
INVARIANT BindingsAreWhole
PROPERTY NoEcho
INVARIANT NestingEnds
SYMMETRY Bindings
