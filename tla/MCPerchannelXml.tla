-------------------------- MODULE MCPerchannelXml ---------------------------
(***************************************************************************)
(* Small instances of the backend.  Paths are sequences of components; a   *)
(* file lists some paths with a value, some without.                       *)
(***************************************************************************)
EXTENDS PerchannelXml, Sequences, Naturals, FiniteSets

CONSTANTS c1, c2, v, w

A == <<"a">>
AB == <<"a", "b">>
ABE == <<"a", "b", "e">>
D == <<"d">>

AboveIn(S) == [p \in S |-> {q \in S : \E n \in 1..(Len(p) - 1) : q = SubSeq(p, 1, n)}]

FlatProp == {A, D}
FlatAbove == AboveIn(FlatProp)
DeepProp == {A, AB, ABE, D}
DeepAbove == AboveIn(DeepProp)

\* Changes are reported under the property's own name, unless the component
\* "a" has one character: its own name and what is above it is then lost.
OwnNames == Prop
OwnName == [p \in Prop |-> p]
AfterA == [p \in Prop |-> IF Head(p) = "a" THEN Tail(p) ELSE p]
NameAfterA == Prop \cup {AfterA[p] : p \in Prop}

SameName == [c \in Channel |-> c]

\* A double that "%f" rounds: w is written and read back as v.
RoundW == [x \in Val |-> IF x = w THEN v ELSE x]

NodeOf(sys, lock) == [value |-> Unset, system_value |-> sys, locked |-> lock]

\* "d" is locked with a value; "a/b" has a default, one that printing would
\* round if there is one, and "a" is its branch.
Precise == IF w \in Val THEN w ELSE v
SystemLeaf == [c \in Channel |-> [p \in Prop |->
    IF c \notin SystemFiles THEN Absent ELSE IF p = D THEN NodeOf(v, TRUE) ELSE IF p = AB THEN NodeOf(Precise, FALSE)
    ELSE IF p = A /\ AB \in Prop THEN NodeOf(Unset, FALSE) ELSE Absent]]

EmptyFile == {[p \in Prop |-> Absent]}
\* A file from before "d" was locked, with an empty branch left in it.
OldFile == {[p \in Prop |-> IF p = D THEN w ELSE IF p = A THEN Unset ELSE Absent]}

=============================================================================
