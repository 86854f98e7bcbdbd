----------------------------- MODULE MCXmlFile ------------------------------
(***************************************************************************)
(* Small instances of a channel's XML files.  "d" is what administrators   *)
(* lock, for one user or for a group.                                      *)
(***************************************************************************)
EXTENDS XmlFile

CONSTANTS me, staff

A == <<"a">>
AB == <<"a", "b">>
D == <<"d">>

PropABD == {A, AB, D}
AboveABD == [p \in PropABD |-> IF p = AB THEN {A} ELSE {}]
OwnNames == Prop
OwnName == [p \in Prop |-> p]

Number(type, n) == GValue(type, n, <<>>)
List1(v) == GValue("array", 0, <<v>>)

AnyVal == {Number(t, n) : t \in NumberType, n \in {0, 1, -1, 10}}

Root(locked, unlocked) == StartTag("channel", "", "", 0, locked, unlocked, TRUE)
Property(name, type, n) == StartTag("property", name, type, n, {}, {}, TRUE)
Locked(name, n, list) == StartTag("property", name, "int", n, list, {}, TRUE)
Unlocked(name, n, list) == StartTag("property", name, "int", n, {}, list, TRUE)
Value(type, n) == StartTag("value", "", type, n, {}, {}, TRUE)

File(root, tags) == <<root>> \o tags \o <<EndTag>>
Leaf(tag) == <<tag, EndTag>>
Plain == Root({}, {})

\* "d" locked for the group; its default changed by a file that says nothing
\* of locks; an array as default.
GroupLock == File(Plain, Leaf(Locked("d", 1, {staff})))
NewDefault == File(Plain, Leaf(Property("d", "int", 0))
                          \o <<Property("a", "array", 0), Value("int", 1), EndTag,
                               Property("b", "empty", 0), EndTag, EndTag>>)
\* The channel is for nobody but the group; another file says it is for all.
StaffOnly == File(Root({}, {staff}), Leaf(Property("d", "int", 1)))
ForAll == File(Root({}, {me}), Leaf(Property("a", "int", 1)))
LockedForMe == File(Root({me}, {}), Leaf(Unlocked("d", 0, {me})))
OldVersion == File([Plain EXCEPT !.valid = FALSE], Leaf(Property("d", "int", 1)))
Opened == File(Plain, Leaf(Unlocked("d", 0, {me})))

LockedBelow == File(Plain, <<Property("a", "empty", 0), Locked("b", 1, {me}), EndTag, EndTag>>)

Configs == {<<>>, <<GroupLock, NewDefault>>, <<NewDefault, StaffOnly, ForAll>>,
            <<OldVersion, LockedForMe, StaffOnly>>, <<GroupLock, Opened>>, <<LockedBelow>>}
LockLater == {<<>>, <<File(Plain, Leaf(Locked("d", 1, {me})))>>}

\* A file as the daemon writes it, with an array in an array, which a system
\* file may lock; and files that were edited by hand: a 16-bit number, a <value>
\* in a property that is no array, a <value> in a property in an array, a lock,
\* which only system files may have.
UserFiles == {NoFile,
           File(Plain, <<Property("a", "array", 0), Value("int", 1), EndTag,
                         Property("b", "array", 0), Value("int", 10), EndTag, EndTag, EndTag>>),
           File(Plain, Leaf(Property("d", "int16", 1)) \o Leaf(Property("a", "int", 1))),
           File(Plain, <<Property("a", "array", 0), EndTag, Property("d", "int", 0), Value("int", 1)>>),
           File(Plain, <<Property("a", "array", 0), Value("int", 1), EndTag,
                         Property("b", "int", 0), Value("int", 10), EndTag, EndTag, EndTag>>),
           File(Plain, Leaf(Locked("a", 1, {me})))}
None == {NoFile}

\* A float that is saved as 0, a char, also in an array, and an array in an array.
Given == [p \in Prop |->
    CASE p = A -> {GValue("array", 0, <<Number("char", 1), Number("float", 1)>>)}
      [] p = AB -> {Number("float", 1), List1(List1(Number("int", 1)))}
      [] p = D -> {Number("int", 1)}]
GivenArrays == [p \in Prop |-> {List1(Number("int", 1))}]

=============================================================================
