---------------------------- MODULE ChannelTree -----------------------------
(***************************************************************************)
(* What the property tree of one channel promises to the backend: set and  *)
(* the two kinds of reset, as single steps on the map from paths to nodes. *)
(* PropTreeLoops implements this specification with the GNode loops.       *)
(***************************************************************************)
EXTENDS PropTree

VARIABLES
    tree,       \* the channel's properties
    phase,      \* "loading" the system files, or "running"
    changed     \* properties the last step reported as changed

treeVars == <<tree, phase, changed>>

\* A <property> element of a system file, merged into an unlocked channel.
MergeSystem(p, v, lock) ==
    /\ phase = "loading"
    /\ tree' = LET t == IF tree[p] = Absent THEN AddProperty(tree, p, Unset, FALSE) ELSE tree
               IN  [t EXCEPT ![p] = [value |-> Unset, system_value |-> v, locked |-> lock]]
    /\ changed' = {}
    /\ UNCHANGED phase

Loaded == phase = "loading" /\ phase' = "running" /\ changed' = {} /\ UNCHANGED tree

SetProperty(p, v) ==
    /\ phase = "running"
    /\ tree[p] = Absent \/ (~tree[p].locked /\ Visible(tree, p) # v)
    /\ tree' = IF tree[p] = Absent THEN AddProperty(tree, p, v, FALSE)
                                   ELSE [tree EXCEPT ![p].value = v]
    /\ changed' = {p}
    /\ UNCHANGED phase

ResetProperty(p) ==
    /\ phase = "running"
    /\ CanReset(tree, p)
    /\ tree' = Reset(tree, p)
    /\ changed' = {p}
    /\ UNCHANGED phase

ResetBelow(p) ==
    /\ phase = "running"
    /\ tree[p] # Absent
    /\ tree' = CleanUp(BlankUserValues(tree, Subtree(p)), Subtree(p))
    /\ changed' = Reported(UserSet(tree, Subtree(p)))
    /\ UNCHANGED phase

TreeInit == tree = EmptyTree /\ phase = "loading" /\ changed = {}

TreeNext ==
    \/ \E p \in Prop, v \in Val \cup {Unset}, lock \in BOOLEAN : MergeSystem(p, v, lock)
    \/ Loaded
    \/ \E p \in Prop, v \in Val : SetProperty(p, v)
    \/ \E p \in Prop : ResetProperty(p) \/ ResetBelow(p)

TreeSpec == TreeInit /\ [][TreeNext]_treeVars

=============================================================================
