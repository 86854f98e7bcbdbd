---------------------------- MODULE MCBlconfCache ---------------------------
(***************************************************************************)
(* A small instance of the client cache: a property and one below it, with *)
(* two system configurations.                                            *)
(***************************************************************************)
EXTENDS BlconfCache

CONSTANTS a, ab, v, w

AB == {a, ab}
AboveAB == [p \in AB |-> IF p = ab THEN {a} ELSE {}]

SystemOf(x, y, lock) == [default |-> [p \in AB |-> IF p = a THEN x ELSE y], locked |-> lock]

\* A property without default and one that is locked.  The one below is locked,
\* so that calls on it fail and a recursive reset drops it with its parent.
Systems == {SystemOf(Unset, w, {ab}), SystemOf(v, Unset, {a, ab})}

=============================================================================
