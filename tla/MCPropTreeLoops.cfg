CONSTANTS
    Prop <- MCProp
    Above <- MCAbove
    Name <- MCName
    Propname <- MCPropname
    Val = {v}
    Unset = Unset
    Absent = Absent
    ShortNames = {"/", "b"}
    GNode = {n0, n1, n2, n3, n4}
    Root = n0
    NULL = NULL
SPECIFICATION Spec
INVARIANT EveryNodeIsFound
INVARIANT GetAllListsSubtree
PROPERTY ImplementsChannelTree
SYMMETRY GNodes
