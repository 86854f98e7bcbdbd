-------------------------- MODULE MCBlconfBinding ---------------------------
(***************************************************************************)
(* A program with the singleton of a channel, a second channel object for  *)
(* the properties below "/a", a switch, which knows zero from non-zero     *)
(* only, a colour, which takes an array, and an entry, which takes every   *)
(* number but no array.  Switch and colour are bound once at a time.       *)
(***************************************************************************)
EXTENDS BlconfBinding

CONSTANTS c1, c2, switch, entry, colour, b1, black, white

B == <<"/a", "/b">>
MCPath == {B}
MCBase == [c \in Chan |-> IF c = c2 THEN <<"/a">> ELSE <<>>]
OnlyC1 == [c \in Chan |-> c = c1]
MCBindable == [b \in Binding |->
    {[channel |-> p[1], blconf_property |-> p[2], object |-> o] :
        p \in {<<c1, B>>, <<c2, <<"/b">>>>}, o \in IF b = b1 THEN {switch} ELSE {entry}}
    \cup {[channel |-> c1, blconf_property |-> B, object |-> o] : o \in IF b = b1 THEN {colour} ELSE {}}]

MCDefault == [o \in Obj |-> IF o = colour THEN black ELSE 0]
MCObjVal == [o \in Obj |-> CASE o = switch -> {0, 1} [] o = colour -> Array [] OTHER -> Val \ Array]
MCToObject == [o \in Obj |-> [v \in Val |->
    CASE (v \in Array) # (o = colour) -> Fail
      [] o = switch /\ v \notin Array -> IF v = 0 THEN 0 ELSE 1
      [] OTHER -> v]]
MCToChannel == [o \in Obj |-> [x \in ObjVal[o] |-> x]]

Bindings == Permutations(Binding \ {b1})

=============================================================================
