--------------------------- MODULE PropTreeProofs ---------------------------
(***************************************************************************)
(* Lemmas about the tree operations: each of them yields a tree again, and *)
(* none of them touches a node that is locked and has a system value.      *)
(***************************************************************************)
EXTENDS PropTree, TLAPS

\* add_property of a node that may need parents keeps every node's parents.
LEMMA AddPropertyTree ==
    ASSUME NEW t \in Tree, NEW p \in Prop, NEW v \in Val \cup {Unset}, NEW lock \in BOOLEAN
    PROVE  AddProperty(t, p, v, lock) \in Tree
<1> DEFINE u == AddProperty(t, p, v, lock)
           n == [value |-> v, system_value |-> Unset, locked |-> lock]
<1>1. n \in Node /\ Branch \in Node /\ n # Absent /\ Branch # Absent
  <2>1. n \in Node /\ Branch \in Node
    BY DEF Node, Branch
  <2>2. QED
    BY <2>1, ValueAssumption
<1>2. \A q \in Prop : u[q] = IF q = p THEN n
                           ELSE IF q \in Above[p] /\ t[q] = Absent THEN Branch ELSE t[q]
  BY DEF AddProperty
<1> HIDE DEF n
<1>3. u \in [Prop -> Node \cup {Absent}]
  BY <1>1 DEF AddProperty, Tree, n
<1> HIDE DEF u
<1>4. ASSUME NEW q \in Prop, u[q] # Absent, NEW r \in Above[q]
      PROVE  u[r] # Absent
  <2>1. r \in Prop
    BY <1>4, PathAssumption
  <2>2. CASE q = p \/ q \in Above[p]
    <3>1. r \in Above[p]
      BY <1>4, <2>2, PathAssumption
    <3>2. QED
      BY <1>1, <1>2, <2>1, <3>1
  <2>3. CASE q # p /\ q \notin Above[p]
    <3>1. t[q] # Absent
      BY <1>2, <1>4, <2>3
    <3>2. t[r] # Absent
      BY <1>4, <3>1 DEF Tree, Closed
    <3>3. QED
      BY <1>1, <1>2, <2>1, <3>2
  <2>4. QED
    BY <2>2, <2>3
<1>5. u \in Tree
  BY <1>3, <1>4 DEF Tree, Closed
<1>6. QED
  BY <1>5 DEF u

\* Giving an existing node a new user value changes no other node.
LEMMA SetValueTree ==
    ASSUME NEW t \in Tree, NEW p \in Prop, t[p] # Absent, NEW v \in Val \cup {Unset}
    PROVE  [t EXCEPT ![p].value = v] \in Tree
<1> DEFINE u == [t EXCEPT ![p].value = v]
<1>1. t \in [Prop -> Node \cup {Absent}] /\ t[p] \in Node
  BY DEF Tree
<1>2. u[p] \in Node /\ u[p] # Absent
  <2>1. u[p] = [t[p] EXCEPT !.value = v]
    BY <1>1
  <2>2. u[p] \in Node
    BY <1>1, <2>1 DEF Node
  <2>3. QED
    BY <2>2, ValueAssumption
<1>3. \A q \in Prop : q # p => u[q] = t[q]
  BY DEF Tree
<1>4. u \in [Prop -> Node \cup {Absent}]
  BY <1>2 DEF Tree
<1>5. \A q \in Prop : u[q] # Absent <=> t[q] # Absent
  BY <1>2, <1>3
<1>6. Closed(u)
  BY <1>5, PathAssumption DEF Tree, Closed
<1>7. QED
  BY <1>4, <1>6 DEF Tree

\* Destroying a set of nodes that holds everything below its members.
LEMMA DestroyTree ==
    ASSUME NEW t \in Tree, NEW S \in SUBSET Prop,
           \A q \in S : \A r \in Below(q) : t[r] # Absent => r \in S
    PROVE  Destroy(t, S) \in Tree
<1> DEFINE u == Destroy(t, S)
<1>1. u \in [Prop -> Node \cup {Absent}]
  BY DEF Destroy, Tree
<1>2. ASSUME NEW q \in Prop, u[q] # Absent, NEW r \in Above[q]
      PROVE  u[r] # Absent
  <2>1. q \notin S /\ t[q] # Absent
    BY <1>2 DEF Destroy
  <2>2. r \in Prop /\ q \in Below(r)
    BY <1>2, PathAssumption DEF Below
  <2>3. r \notin S
    BY <2>1, <2>2
  <2>4. t[r] # Absent
    BY <1>2, <2>1 DEF Tree, Closed
  <2>5. QED
    BY <2>2, <2>3, <2>4 DEF Destroy
<1>3. QED
  BY <1>1, <1>2 DEF Tree, Closed

\* Paths below a path below p are below p.
LEMMA BelowBelow ==
    ASSUME NEW p \in Prop, NEW q \in Subtree(p), NEW r \in Subtree(q)
    PROVE  q \in Prop /\ r \in Prop /\ r \in Subtree(p)
BY PathAssumption DEF Subtree, Below

\* proptree_reset: the nodes its climb destroys include all that is below them.
LEMMA ResetTakesSubtrees ==
    ASSUME NEW t, NEW p \in Prop,
           NEW q \in Subtree(p) \cup {q \in Above[p] : Collapses(t, p, q)},
           NEW r \in Below(q), t[r] # Absent
    PROVE  r \in Subtree(p) \cup {s \in Above[p] : Collapses(t, p, s)}
<1>1. CASE q \in Subtree(p)
  BY <1>1, BelowBelow DEF Subtree
<1>2. CASE q \in Above[p] /\ Collapses(t, p, q)
  <2>1. r \in Subtree(p) \cup Above[p]
    BY <1>2 DEF Collapses
  <2>2. ASSUME r \in Above[p]
        PROVE  Collapses(t, p, r)
    <3>1. q \in Above[r] /\ q \in Prop /\ r \in Prop
      BY <1>2, PathAssumption DEF Below
    <3>2. Below(r) \subseteq Below(q)
      BY <3>1, PathAssumption DEF Below
    <3>3. r \in Below(q) \cap Above[p]
      BY <2>2
    <3>4. QED
      BY <1>2, <3>2, <3>3 DEF Collapses
  <2>3. QED
    BY <2>1, <2>2
<1>3. QED
  BY <1>1, <1>2

LEMMA ResetIsTree ==
    ASSUME NEW t \in Tree, NEW p \in Prop, CanReset(t, p)
    PROVE  Reset(t, p) \in Tree
<1> DEFINE S == Subtree(p) \cup {q \in Above[p] : Collapses(t, p, q)}
<1>1. CASE KeepsNode(t, p)
  BY <1>1, SetValueTree DEF Reset, CanReset
<1>2. CASE ~KeepsNode(t, p)
  <2>1. S \in SUBSET Prop
    BY PathAssumption DEF Subtree, Below
  <2>2. \A q \in S : \A r \in Below(q) : t[r] # Absent => r \in S
    BY ResetTakesSubtrees
  <2>3. QED
    BY <1>2, <2>1, <2>2, DestroyTree DEF Reset
<1>3. QED
  BY <1>1, <1>2

\* Blanking user values keeps every node.
LEMMA BlankIsTree ==
    ASSUME NEW t \in Tree, NEW S \in SUBSET Prop
    PROVE  BlankUserValues(t, S) \in Tree
<1> DEFINE u == BlankUserValues(t, S)
<1>1. \A q \in Prop : u[q] \in Node \cup {Absent} /\ (u[q] # Absent <=> t[q] # Absent)
  BY ValueAssumption DEF BlankUserValues, UserSet, Tree, Node
<1>2. u \in [Prop -> Node \cup {Absent}]
  BY <1>1 DEF BlankUserValues
<1>3. Closed(u)
  BY <1>1, PathAssumption DEF Closed, Tree
<1>4. QED
  BY <1>2, <1>3 DEF Tree

\* nodes_clean_up destroys a node only together with all that is below it.
LEMMA CleanUpIsTree ==
    ASSUME NEW t \in Tree, NEW p \in Prop
    PROVE  CleanUp(t, Subtree(p)) \in Tree
<1> DEFINE S == {q \in Subtree(p) : \A r \in Subtree(q) : t[r] # Absent => Dangling(t[r])}
<1>1. S \in SUBSET Prop
  BY DEF Subtree, Below
<1>2. ASSUME NEW q \in S, NEW r \in Below(q), t[r] # Absent
      PROVE  r \in S
  <2>1. q \in Prop /\ r \in Subtree(q) /\ r \in Subtree(p)
    BY <1>2, BelowBelow DEF Subtree
  <2>2. Subtree(r) \subseteq Subtree(q)
    BY <2>1, BelowBelow
  <2>3. QED
    BY <1>2, <2>1, <2>2
<1>3. QED
  BY <1>1, <1>2, DestroyTree DEF CleanUp

-----------------------------------------------------------------------------
\* A node that a system file locks, and gives a value.
LockedWithValue(n) ==
    n \in Node /\ n.locked /\ n.value = Unset /\ n.system_value # Unset

\* Nothing but a set of the property itself touches such a node: adding others
\* below it, resetting others with the climb, or resetting around it.
LEMMA LockedNodeStays ==
    ASSUME NEW t \in Tree, NEW p \in Prop, NEW q \in Prop, LockedWithValue(t[q])
    PROVE  /\ \A v \in Val : t[p] = Absent => AddProperty(t, p, v, FALSE)[q] = t[q]
           /\ CanReset(t, p) => Reset(t, p)[q] = t[q]
           /\ \A S \in SUBSET Prop : BlankUserValues(t, S)[q] = t[q]
           /\ CleanUp(t, Subtree(p))[q] = t[q]
<1>1. t[q] # Absent
  BY ValueAssumption DEF LockedWithValue
<1>2. \A v \in Val : t[p] = Absent => AddProperty(t, p, v, FALSE)[q] = t[q]
  BY <1>1 DEF AddProperty
<1>4. ASSUME CanReset(t, p) PROVE Reset(t, p)[q] = t[q]
  <2>1. p # q
    BY <1>4 DEF CanReset, LockedWithValue
  <2>2. CASE KeepsNode(t, p)
    BY <2>1, <2>2 DEF Reset, Tree
  <2>3. CASE ~KeepsNode(t, p)
    <3>1. q \notin Subtree(p)
      BY <1>1, <2>1, <2>3 DEF KeepsNode, HasChildren, Subtree
    <3>2. ~Collapses(t, p, q)
      BY DEF Collapses, Valueless, LockedWithValue
    <3>3. QED
      BY <2>3, <3>1, <3>2 DEF Reset, Destroy
  <2>4. QED
    BY <2>2, <2>3
<1>5. \A S \in SUBSET Prop : BlankUserValues(t, S)[q] = t[q]
  BY DEF BlankUserValues, UserSet, LockedWithValue
<1>6. CleanUp(t, Subtree(p))[q] = t[q]
  BY <1>1 DEF CleanUp, Destroy, Dangling, LockedWithValue, Subtree
<1>7. QED
  BY <1>2, <1>4, <1>5, <1>6

-----------------------------------------------------------------------------
(* What clients read after an operation, and which defaults are left.      *)

\* The system's value at a path.
DefaultAt(t, p) == IF t[p] = Absent THEN Unset ELSE t[p].system_value

\* Destroying nodes that have neither value takes nothing away that anybody reads.
LEMMA DestroyValueless ==
    ASSUME NEW t \in Tree, NEW S \in SUBSET Prop, NEW q \in Prop,
           q \in S => t[q] = Absent \/ Valueless(t[q])
    PROVE  /\ Visible(Destroy(t, S), q) = Visible(t, q)
           /\ DefaultAt(Destroy(t, S), q) = DefaultAt(t, q)
<1>1. CASE q \in S
  <2>1. Destroy(t, S)[q] = Absent
    BY <1>1 DEF Destroy
  <2>2. Visible(t, q) = Unset /\ DefaultAt(t, q) = Unset
    BY <1>1 DEF Visible, ValueToGet, DefaultAt, Valueless
  <2>3. QED
    BY <2>1, <2>2 DEF Visible, DefaultAt
<1>2. CASE q \notin S
  BY <1>2 DEF Destroy, Visible, DefaultAt
<1>3. QED
  BY <1>1, <1>2

\* A new property shows its value; the parents it brings show nothing.
LEMMA AddPropertyShows ==
    ASSUME NEW t \in Tree, NEW p \in Prop, NEW v \in Val, NEW q \in Prop, t[p] = Absent
    PROVE  /\ Visible(AddProperty(t, p, v, FALSE), q) = IF q = p THEN v ELSE Visible(t, q)
           /\ DefaultAt(AddProperty(t, p, v, FALSE), q) = DefaultAt(t, q)
<1> DEFINE n == [value |-> v, system_value |-> Unset, locked |-> FALSE]
           u == AddProperty(t, p, v, FALSE)
<1>1. /\ n # Absent /\ n.value = v /\ n.system_value = Unset
      /\ Branch # Absent /\ Branch.value = Unset /\ Branch.system_value = Unset
  <2>1. n \in Node /\ Branch \in Node
    BY DEF Node, Branch
  <2>2. n # Absent /\ Branch # Absent
    BY <2>1, ValueAssumption
  <2>3. QED
    BY <2>2 DEF Branch
<1>2. u[q] = IF q = p THEN n ELSE IF q \in Above[p] /\ t[q] = Absent THEN Branch ELSE t[q]
  BY DEF AddProperty
<1>3. v # Unset
  BY ValueAssumption
<1> HIDE DEF n, u
<1>4. /\ Visible(u, q) = IF q = p THEN v ELSE Visible(t, q)
      /\ DefaultAt(u, q) = DefaultAt(t, q)
  BY <1>1, <1>2, <1>3 DEF Visible, ValueToGet, DefaultAt
<1>5. QED
  BY <1>4 DEF u

\* A user value of an existing node; Unset takes it back to the default.
LEMMA SetValueShows ==
    ASSUME NEW t \in Tree, NEW p \in Prop, NEW v \in Val \cup {Unset}, NEW q \in Prop, t[p] # Absent
    PROVE  /\ Visible([t EXCEPT ![p].value = v], q) =
                  IF q # p THEN Visible(t, q) ELSE IF v # Unset THEN v ELSE DefaultAt(t, q)
           /\ DefaultAt([t EXCEPT ![p].value = v], q) = DefaultAt(t, q)
<1> DEFINE u == [t EXCEPT ![p].value = v]
<1>1. t \in [Prop -> Node \cup {Absent}] /\ t[p] \in Node
  BY DEF Tree
<1>2. CASE q = p
  <2>1. u[q] = [t[p] EXCEPT !.value = v] /\ u[q] \in Node
    BY <1>1, <1>2 DEF Node
  <2>2. u[q] # Absent /\ u[q].value = v /\ u[q].system_value = t[p].system_value
    BY <1>1, <2>1, ValueAssumption DEF Node
  <2>3. QED
    BY <1>2, <2>2 DEF Visible, ValueToGet, DefaultAt
<1>3. CASE q # p
  <2>1. u[q] = t[q]
    BY <1>1, <1>3
  <2>2. QED
    BY <1>3, <2>1 DEF Visible, DefaultAt
<1>4. QED
  BY <1>2, <1>3

\* A reset takes one property back to its default, and the climb takes away
\* nothing that anybody reads.
LEMMA ResetShows ==
    ASSUME NEW t \in Tree, NEW p \in Prop, NEW q \in Prop, CanReset(t, p)
    PROVE  /\ Visible(Reset(t, p), q) = IF q = p THEN DefaultAt(t, q) ELSE Visible(t, q)
           /\ DefaultAt(Reset(t, p), q) = DefaultAt(t, q)
<1> DEFINE S == Subtree(p) \cup {r \in Above[p] : Collapses(t, p, r)}
<1>1. CASE KeepsNode(t, p)
  BY <1>1, SetValueShows DEF Reset, CanReset
<1>2. CASE ~KeepsNode(t, p)
  <2>1. Reset(t, p) = Destroy(t, S)
    BY <1>2 DEF Reset
  <2>2. CASE q = p
    <3>1. Destroy(t, S)[q] = Absent
      BY <2>2 DEF Destroy, Subtree
    <3>2. DefaultAt(t, q) = Unset
      BY <1>2, <2>2 DEF KeepsNode, DefaultAt
    <3>3. QED
      BY <2>1, <2>2, <3>1, <3>2 DEF Visible, DefaultAt
  <2>3. CASE q # p
    <3>1. S \in SUBSET Prop
      BY PathAssumption DEF Subtree, Below
    <3>2. q \in S => t[q] = Absent \/ Valueless(t[q])
      BY <1>2, <2>3 DEF KeepsNode, HasChildren, Subtree, Collapses
    <3>3. QED
      BY <2>1, <2>3, <3>1, <3>2, DestroyValueless
  <2>4. QED
    BY <2>2, <2>3
<1>3. QED
  BY <1>1, <1>2

\* Blanking takes exactly the properties that users had set to their defaults.
LEMMA BlankShows ==
    ASSUME NEW t \in Tree, NEW S \in SUBSET Prop, NEW q \in Prop
    PROVE  /\ Visible(BlankUserValues(t, S), q) =
                  IF q \in UserSet(t, S) THEN DefaultAt(t, q) ELSE Visible(t, q)
           /\ DefaultAt(BlankUserValues(t, S), q) = DefaultAt(t, q)
<1> DEFINE u == BlankUserValues(t, S)
<1>1. CASE q \in UserSet(t, S)
  <2>1. t[q] \in Node /\ t[q] # Absent
    BY <1>1 DEF Tree, UserSet
  <2>2. u[q] = [t[q] EXCEPT !.value = Unset]
    BY <1>1 DEF BlankUserValues
  <2>3. u[q] \in Node /\ u[q].value = Unset /\ u[q].system_value = t[q].system_value
    BY <2>1, <2>2 DEF Node
  <2>4. QED
    BY <1>1, <2>1, <2>3, ValueAssumption DEF Visible, ValueToGet, DefaultAt
<1>2. CASE q \notin UserSet(t, S)
  BY <1>2 DEF BlankUserValues, Visible, DefaultAt
<1>3. QED
  BY <1>1, <1>2

\* nodes_clean_up takes away nothing that anybody reads.
LEMMA CleanUpShows ==
    ASSUME NEW t \in Tree, NEW p \in Prop, NEW q \in Prop
    PROVE  /\ Visible(CleanUp(t, Subtree(p)), q) = Visible(t, q)
           /\ DefaultAt(CleanUp(t, Subtree(p)), q) = DefaultAt(t, q)
<1> DEFINE S == {r \in Subtree(p) : \A s \in Subtree(r) : t[s] # Absent => Dangling(t[s])}
<1>1. S \in SUBSET Prop
  BY DEF Subtree, Below
<1>2. q \in S => t[q] = Absent \/ Valueless(t[q])
  BY DEF Subtree, Dangling
<1>3. CleanUp(t, Subtree(p)) = Destroy(t, S)
  BY DEF CleanUp
<1>4. QED
  BY <1>1, <1>2, <1>3, DestroyValueless

=============================================================================
