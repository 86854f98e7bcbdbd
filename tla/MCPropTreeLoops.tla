-------------------------- MODULE MCPropTreeLoops ---------------------------
(* Three levels and a sibling: enough for a climb over two parents that    *)
(* stops at a branching, and for a cleanup with kept and removed children. *)
EXTENDS PropTreeLoops

MCProp == {<<"a">>, <<"a", "b">>, <<"a", "b", "c">>, <<"a", "d">>}
MCAbove == [p \in Prop |-> {SubSeq(p, 1, k) : k \in 1..(Len(p) - 1)}]
MCPropname == [p \in Prop |-> AfterShort(p)]
MCName == Prop \cup {AfterShort(p) : p \in Prop}

GNodes == Permutations(GNode \ {Root})

=============================================================================
