------------------------------ MODULE PropTree ------------------------------
(***************************************************************************)
(* The property tree of one channel, as the per-channel XML backend keeps  *)
(* it in a GNode tree of BlconfProperty records.                           *)
(*                                                                         *)
(* A tree is a function from property paths to nodes: tree[p] = Absent     *)
(* when lookup of p finds no node.  The root "/" never carries a value and *)
(* is not a member of Prop.  The C code walks, climbs and traverses the    *)
(* GNode tree; here every result of such a loop is given in closed form,   *)
(* so that it can be used in proofs.  PropTreeLoops holds the loops        *)
(* themselves, and a run shows that both agree.                            *)
(***************************************************************************)
CONSTANTS
    Prop,       \* property paths below one channel root
    Above,      \* Above[p]: the paths strictly between the root and p
    Name,       \* names a change can be reported under
    Propname,   \* Propname[p]: the name build_propname makes up for the node at p
    Val,        \* values (GValues that hold something)
    Unset,      \* a GValue that is not initialised (G_VALUE_TYPE is 0)
    Absent      \* no node

Node == [value : Val \cup {Unset}, system_value : Val \cup {Unset}, locked : BOOLEAN]

ASSUME PathAssumption ==
    /\ Above \in [Prop -> SUBSET Prop]
    /\ \A p \in Prop : p \notin Above[p]
    /\ \A p \in Prop : \A q \in Above[p] : Above[q] \subseteq Above[p]
    /\ \A p \in Prop : \A q, r \in Above[p] : q = r \/ q \in Above[r] \/ r \in Above[q]

ASSUME NameAssumption == Prop \subseteq Name /\ Propname \in [Prop -> Name]

ASSUME ValueAssumption ==
    /\ Unset \notin Val
    /\ Absent \notin Node

Below(p) == {q \in Prop : p \in Above[q]}
Subtree(p) == {p} \cup Below(p)

\* Every node has a parent node, up to the root.
Closed(t) == \A p \in Prop : t[p] # Absent => \A q \in Above[p] : t[q] # Absent

Tree == {t \in [Prop -> Node \cup {Absent}] : Closed(t)}

EmptyTree == [p \in Prop |-> Absent]
Branch == [value |-> Unset, system_value |-> Unset, locked |-> FALSE]

HasChildren(t, p) == \E q \in Below(p) : t[q] # Absent

\* What a client reads: the user's value, else the system default.
ValueToGet(n) == IF n.value # Unset THEN n.value ELSE n.system_value
Visible(t, p) == IF t[p] = Absent THEN Unset ELSE ValueToGet(t[p])

\* The properties get_all puts in its table for the subtree at p.
AllBelow(t, p) == {q \in Subtree(p) : Visible(t, q) # Unset}

-----------------------------------------------------------------------------
\* Faulty: the node is appended without the parents it needs.
AddPropertyAlone(t, p, v, lock) ==
    [t EXCEPT ![p] = [value |-> v, system_value |-> Unset, locked |-> lock]]

(***************************************************************************)
(* blconf_proptree_add_property: append a node that does not exist yet,    *)
(* first creating the missing parents as plain branches.                   *)
(***************************************************************************)
AddProperty(t, p, v, lock) ==
    [q \in Prop |->
        IF q = p THEN [value |-> v, system_value |-> Unset, locked |-> lock]
        ELSE IF q \in Above[p] /\ t[q] = Absent THEN Branch
        ELSE t[q]]

\* blconf_proptree_destroy of the nodes in S.
Destroy(t, S) == [q \in Prop |-> IF q \in S THEN Absent ELSE t[q]]

Valueless(n) == n.value = Unset /\ n.system_value = Unset

(***************************************************************************)
(* blconf_proptree_reset: blank the user's value of one property.  A node  *)
(* with children or a system value stays; any other node is destroyed, and *)
(* the climb towards the root destroys each parent that is left without    *)
(* values and without children.  The climb does not look at locked.        *)
(***************************************************************************)
CanReset(t, p) == t[p] # Absent /\ t[p].value # Unset

Collapses(t, p, q) ==
    /\ \A r \in {q} \cup (Below(q) \cap Above[p]) : Valueless(t[r])
    /\ \A r \in Below(q) : t[r] # Absent => r \in Subtree(p) \cup Above[p]

\* Faulty: a node is kept for its system value only, its children are lost.
KeepsNodeForDefault(t, p) == t[p].system_value # Unset

KeepsNode(t, p) == HasChildren(t, p) \/ t[p].system_value # Unset

Reset(t, p) ==
    IF KeepsNode(t, p)
    THEN [t EXCEPT ![p].value = Unset]
    ELSE Destroy(t, Subtree(p) \cup {q \in Above[p] : Collapses(t, p, q)})

-----------------------------------------------------------------------------
(***************************************************************************)
(* The two post-order traversals of a recursive reset: nodes_do_prop_reset *)
(* blanks every user value, nodes_clean_up then destroys the nodes that    *)
(* are left without children, values, system default and lock.             *)
(***************************************************************************)
UserSet(t, S) == {q \in S : t[q] # Absent /\ t[q].value # Unset}

(***************************************************************************)
(* Each of these is reported under the name that build_propname collects   *)
(* on the way up from the node.  It takes the first one-character name it  *)
(* meets for the "/" of the root and stops there.                          *)
(***************************************************************************)
Reported(S) == {Propname[p] : p \in S}

BlankUserValues(t, S) ==
    [q \in Prop |-> IF q \in UserSet(t, S) THEN [t[q] EXCEPT !.value = Unset] ELSE t[q]]

Dangling(n) == Valueless(n) /\ ~n.locked

\* Faulty: nodes_clean_up without its look at node->children.
CleanUpOneByOne(t, S) == Destroy(t, {q \in S : t[q] # Absent /\ Dangling(t[q])})

CleanUp(t, S) ==
    Destroy(t, {q \in S : \A r \in Subtree(q) : t[r] # Absent => Dangling(t[r])})

=============================================================================
