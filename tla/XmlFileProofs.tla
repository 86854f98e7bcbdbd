--------------------------- MODULE XmlFileProofs ----------------------------
(***************************************************************************)
(* Theorems about the parser of the XML files: that it keeps the tree      *)
(* whole, to which array an item goes, and that the user's file does not   *)
(* touch what system files lock.  They hold for every file, well-formed or *)
(* not, and for every value.                                               *)
(***************************************************************************)
EXTENDS XmlFile, PropTreeProofs, SequenceTheorems

\* Absent is told apart from every node, and Unset from every value.
NothingIsNoNode ==
    /\ \A v, s, lock : [value |-> v, system_value |-> s, locked |-> lock] # Absent
    /\ \A type, n, items : GValue(type, n, items) # Unset

-----------------------------------------------------------------------------
(* Trees of nodes with any values.                                         *)

IsNode(n) == n = [value |-> n.value, system_value |-> n.system_value, locked |-> n.locked]

IsFunction(t) == t = [p \in Prop |-> t[p]]

IsTree(t) ==
    /\ IsFunction(t)
    /\ \A p \in Prop : t[p] # Absent => IsNode(t[p])
    /\ Closed(t)

\* A node is no Absent one, whatever it holds.
LEMMA NodesArePresent ==
    ASSUME NothingIsNoNode, NEW n, IsNode(n)
    PROVE  n # Absent
BY DEF NothingIsNoNode, IsNode

LEMMA BranchIsNode == IsNode(Branch)
BY DEF Branch, IsNode

\* u is t with the node n at p.
Replaces(t, u, p, n) ==
    /\ IsFunction(u) /\ u[p] = n
    /\ \A q \in Prop \ {p} : u[q] = t[q]

\* A node that is changed in place leaves the other nodes and their parents.
LEMMA PutNode ==
    ASSUME NothingIsNoNode, NEW t, IsTree(t), NEW p \in Prop, t[p] # Absent,
           NEW u, NEW n, IsNode(n), Replaces(t, u, p, n)
    PROVE  IsTree(u) /\ u[p] # Absent
<1>1. n # Absent
  BY NodesArePresent
<1>2. \A q \in Prop : u[q] # Absent <=> t[q] # Absent
  BY <1>1 DEF Replaces
<1>3. Closed(u)
  BY <1>2, PathAssumption DEF IsTree, Closed
<1>4. \A q \in Prop : u[q] # Absent => IsNode(u[q])
  BY DEF IsTree, Replaces
<1>5. QED
  BY <1>1, <1>3, <1>4 DEF IsTree, Replaces

\* A new user value, a new system default, or a lock of a node.
LEMMA ChangeNode ==
    ASSUME NothingIsNoNode, NEW t, IsTree(t), NEW p \in Prop, t[p] # Absent, NEW v
    PROVE  /\ Replaces(t, [t EXCEPT ![p].value = v], p,
                   [value |-> v, system_value |-> t[p].system_value, locked |-> t[p].locked])
           /\ Replaces(t, [t EXCEPT ![p].system_value = v], p,
                   [value |-> t[p].value, system_value |-> v, locked |-> t[p].locked])
           /\ Replaces(t, [t EXCEPT ![p].locked = v], p,
                   [value |-> t[p].value, system_value |-> t[p].system_value, locked |-> v])
<1>1. PICK n : n = t[p]
  OBVIOUS
<1>2. n = [value |-> n.value, system_value |-> n.system_value, locked |-> n.locked]
  BY <1>1 DEF IsTree, IsNode
<1>3. IsFunction(t)
  BY DEF IsTree
<1>4. Replaces(t, [t EXCEPT ![p].value = v], p,
                   [value |-> v, system_value |-> n.system_value, locked |-> n.locked])
  BY <1>1, <1>2, <1>3 DEF Replaces, IsFunction
<1>5. Replaces(t, [t EXCEPT ![p].system_value = v], p,
                   [value |-> n.value, system_value |-> v, locked |-> n.locked])
  BY <1>1, <1>2, <1>3 DEF Replaces, IsFunction
<1>6. Replaces(t, [t EXCEPT ![p].locked = v], p,
                   [value |-> n.value, system_value |-> n.system_value, locked |-> v])
  BY <1>1, <1>2, <1>3 DEF Replaces, IsFunction
<1>7. QED
  BY <1>1, <1>4, <1>5, <1>6

\* add_property makes a tree, changes no other node that is there, and makes
\* plain branches of the parents that are not.
LEMMA AddNode ==
    ASSUME NothingIsNoNode, NEW t, IsTree(t), NEW p \in Prop, NEW v, NEW lock
    PROVE  LET u == AddProperty(t, p, v, lock)
           IN  /\ IsTree(u)
               /\ u[p] = [value |-> v, system_value |-> Unset, locked |-> lock]
               /\ \A q \in Prop \ {p} : u[q] = t[q] \/ (t[q] = Absent /\ u[q] = Branch)
<1> DEFINE u == AddProperty(t, p, v, lock)
           n == [value |-> v, system_value |-> Unset, locked |-> lock]
<1>1. IsNode(n) /\ IsNode(Branch)
  BY DEF IsNode, Branch
<1>2. n # Absent /\ Branch # Absent
  BY <1>1, NodesArePresent
<1>3. \A q \in Prop : u[q] = IF q = p THEN n
                           ELSE IF q \in Above[p] /\ t[q] = Absent THEN Branch ELSE t[q]
  BY DEF AddProperty
<1>4. IsFunction(u)
  BY DEF AddProperty, IsFunction
<1>5. u[p] = n
  BY <1>3
<1> HIDE DEF u, n
<1>6. \A q \in Prop : u[q] # Absent => IsNode(u[q])
  BY <1>1, <1>3 DEF IsTree
<1>7. ASSUME NEW q \in Prop, u[q] # Absent, NEW r \in Above[q]
      PROVE  u[r] # Absent
  <2>1. r \in Prop
    BY <1>7, PathAssumption
  <2>2. CASE q = p \/ q \in Above[p]
    <3>1. r \in Above[p]
      BY <1>7, <2>2, PathAssumption
    <3>2. QED
      BY <1>2, <1>3, <2>1, <3>1
  <2>3. CASE q # p /\ q \notin Above[p]
    <3>1. t[q] # Absent
      BY <1>3, <1>7, <2>3
    <3>2. t[r] # Absent
      BY <1>7, <3>1 DEF IsTree, Closed
    <3>3. QED
      BY <1>2, <1>3, <2>1, <3>2
  <2>4. QED
    BY <2>2, <2>3
<1>8. IsTree(u)
  BY <1>4, <1>6, <1>7 DEF IsTree, Closed
<1>9. QED
  BY <1>3, <1>5, <1>8 DEF u, n

\* proptree_reset leaves a tree.
LEMMA ResetLeavesTree ==
    ASSUME NothingIsNoNode, NEW t, IsTree(t), NEW p \in Prop, CanReset(t, p)
    PROVE  IsTree(Reset(t, p))
<1> DEFINE S == Subtree(p) \cup {q \in Above[p] : Collapses(t, p, q)}
           u == Destroy(t, S)
<1>1. CASE KeepsNode(t, p)
  <2>1. PICK w : w = [t EXCEPT ![p].value = Unset]
    OBVIOUS
  <2>2. Replaces(t, w, p, [value |-> Unset, system_value |-> t[p].system_value, locked |-> t[p].locked])
    BY <2>1, ChangeNode DEF CanReset
  <2>3. QED
    BY <1>1, <2>1, <2>2, PutNode DEF Reset, CanReset, IsNode
<1>2. CASE ~KeepsNode(t, p)
  <2>1. \A q \in S : \A r \in Below(q) : t[r] # Absent => r \in S
    BY ResetTakesSubtrees
  <2>2. Reset(t, p) = u
    BY <1>2 DEF Reset
  <2> HIDE DEF S
  <2>3. /\ IsFunction(u)
        /\ \A q \in Prop : u[q] = IF q \in S THEN Absent ELSE t[q]
    BY DEF Destroy, IsFunction
  <2> HIDE DEF u
  <2>4. ASSUME NEW q \in Prop, u[q] # Absent, NEW r \in Above[q]
        PROVE  u[r] # Absent
    <3>1. q \notin S /\ t[q] # Absent
      BY <2>3, <2>4
    <3>2. r \in Prop /\ q \in Below(r)
      BY <2>4, PathAssumption DEF Below
    <3>3. r \notin S
      BY <2>1, <3>1, <3>2
    <3>4. t[r] # Absent
      BY <2>4, <3>1 DEF IsTree, Closed
    <3>5. QED
      BY <2>3, <3>2, <3>3, <3>4
  <2>5. \A q \in Prop : u[q] # Absent => IsNode(u[q])
    BY <2>3 DEF IsTree
  <2>6. QED
    BY <2>2, <2>3, <2>4, <2>5 DEF IsTree, Closed
<1>3. QED
  BY <1>1, <1>2

-----------------------------------------------------------------------------
(* Paths.                                                                  *)

\* The paths of the elements around an element, and its own, are properties.
LEMMA PrefixIsProp ==
    ASSUME NEW p \in Prop, NEW k \in 1..Len(p)
    PROVE  SubSeq(p, 1, k) \in Prop
<1>1. p \in Seq(STRING)
  BY XmlPathAssumption
<1>2. Len(p) \in Nat
  BY <1>1, LenProperties
<1>3. CASE k = Len(p)
  BY <1>1, <1>3, SubSeqFull
<1>4. CASE k # Len(p)
  <2>1. k \in 1..(Len(p) - 1)
    BY <1>2, <1>4
  <2>2. SubSeq(p, 1, k) \in Above[p]
    BY <2>1, XmlPathAssumption
  <2>3. QED
    BY <2>2, PathAssumption
<1>5. QED
  BY <1>3, <1>4

LEMMA FrontIsProp ==
    ASSUME NEW p \in Prop
    PROVE  /\ Len(p) = 1 => Front(p) = <<>>
           /\ Len(p) # 1 => Front(p) \in Prop
<1>1. p \in Seq(STRING) /\ p # <<>>
  BY XmlPathAssumption
<1>2. Len(p) \in Nat /\ Len(p) >= 1
  BY <1>1, EmptySeq
<1>3. Front(p) = SubSeq(p, 1, Len(p) - 1)
  BY DEF Front
<1>4. CASE Len(p) = 1
  BY <1>2, <1>3, <1>4, SubSeqEmpty
<1>5. CASE Len(p) # 1
  <2>1. Len(p) - 1 \in 1..Len(p)
    <3>1. \A n \in Nat : n >= 1 /\ n # 1 => n - 1 \in 1..n
      OBVIOUS
    <3>2. QED
      BY <1>2, <1>5, <3>1
  <2>2. QED
    BY <1>3, <1>5, <2>1, PrefixIsProp
<1>6. QED
  BY <1>4, <1>5

\* full is one element further down than path.
GoesDown(path, full) ==
    /\ Len(path) \in Nat
    /\ Len(full) = Len(path) + 1
    /\ SubSeq(full, 1, Len(full)) = full
    /\ \A k \in 1..Len(path) : /\ SubSeq(full, 1, k) = SubSeq(path, 1, k)
                               /\ SubSeq(full, 1, k) \in Prop \ {full}

LEMMA GoDown ==
    ASSUME NEW path \in Prop \cup {<<>>}, NEW name, NEW full \in Prop, full = Append(path, name)
    PROVE  GoesDown(path, full)
<1>1. path \in Seq(STRING) /\ full \in Seq(STRING)
  BY XmlPathAssumption, EmptySeq
<1>2. PICK T : path \in Seq(T) /\ name \in T
  <2>1. STRING \subseteq STRING \cup {name} /\ name \in STRING \cup {name}
    OBVIOUS
  <2>2. path \in Seq(STRING \cup {name})
    BY <1>1, <2>1, SeqMonotonic
  <2>3. QED
    BY <2>1, <2>2
<1>3. /\ Len(path) \in Nat
      /\ Len(full) = Len(path) + 1
      /\ full \in Seq(T)
      /\ \A i \in 1..Len(path) : full[i] = path[i]
  BY <1>2
<1>4. SubSeq(full, 1, Len(full)) = full
  BY <1>3, SubSeqFull
<1>5. ASSUME NEW k \in 1..Len(path)
      PROVE  /\ SubSeq(full, 1, k) = SubSeq(path, 1, k)
             /\ SubSeq(full, 1, k) \in Prop \ {full}
  <2>1. k \in 1..Len(full) /\ k \in Int /\ k >= 1 /\ k < Len(full)
    BY <1>3, <1>5
  <2>2. \A i \in 1..k : full[i] \in T /\ path[i] \in T /\ full[i] = path[i]
    <3>1. \A i \in 1..k : i \in 1..Len(path) /\ i \in 1..Len(full)
      BY <1>3, <1>5
    <3>2. QED
      BY <1>2, <1>3, <3>1, ElementOfSeq
  <2>3. /\ SubSeq(full, 1, k) \in Seq(T) /\ Len(SubSeq(full, 1, k)) = k
        /\ \A i \in 1..k : SubSeq(full, 1, k)[i] = full[i]
    BY <2>1, <2>2, SubSeqProperties
  <2>4. /\ SubSeq(path, 1, k) \in Seq(T) /\ Len(SubSeq(path, 1, k)) = k
        /\ \A i \in 1..k : SubSeq(path, 1, k)[i] = path[i]
    BY <2>1, <2>2, SubSeqProperties
  <2>5. SubSeq(full, 1, k) = SubSeq(path, 1, k)
    BY <2>2, <2>3, <2>4, SeqEqual
  <2>6. SubSeq(full, 1, k) # full
    BY <2>1, <2>3
  <2>7. SubSeq(full, 1, k) \in Prop
    BY <2>1, PrefixIsProp
  <2>8. QED
    BY <2>5, <2>6, <2>7
<1>6. QED
  BY <1>3, <1>4, <1>5 DEF GoesDown

-----------------------------------------------------------------------------
(* The parser's state.                                                     *)

\* SkipLocked in a given tree; sys: for a system file.
PassedOver(t, sys, p) == ~sys /\ t[p] # Absent /\ t[p].locked

\* HoldsArray in a given tree, of a property that is not passed over.
ArrayAt(t, sys, p) ==
    LET n == t[p]
        v == IF sys THEN n.system_value ELSE n.value
    IN  ~PassedOver(t, sys, p) /\ v # Unset /\ v.type = "array"

IsValue(v) == v = GValue(v.type, v.n, v.items)

\* list holds an array, and of the elements around path and its own it is the
\* innermost array that is not passed over.
Innermost(t, sys, path, arrays, list) ==
    /\ list \in Prop /\ t[list] # Absent /\ ArrayAt(t, sys, list)
    /\ IsValue(IF sys THEN t[list].system_value ELSE t[list].value)
    /\ \E k \in 1..Len(path) :
          /\ list = SubSeq(path, 1, k) /\ arrays[k]
          /\ \A m \in (k + 1)..Len(path) : arrays[m] => PassedOver(t, sys, SubSeq(path, 1, m))

StateOK ==
    /\ state = [is_system_file |-> state.is_system_file, cur_elem |-> state.cur_elem,
                cur_path |-> state.cur_path, list_property |-> state.list_property]
    /\ state.cur_elem \in {"NONE", "CHANNEL", "PROPERTY", "VALUE"}
    /\ state.cur_path \in Prop \cup {<<>>}
    /\ state.cur_elem \in {"PROPERTY", "VALUE"} <=> state.cur_path # <<>>
    /\ is_array \in Seq(BOOLEAN) /\ Len(is_array) = Len(state.cur_path)

IsChannel(c) ==
    /\ c = [properties |-> c.properties, locked |-> c.locked, dirty |-> c.dirty]
    /\ c.locked \in BOOLEAN
    /\ IsTree(c.properties)

\* The user's file is never merged into a locked channel ("the channel loader
\* should never even try to parse this file").
ParserOK ==
    pc = "parsing" =>
        /\ state.is_system_file \/ ~channel.locked
        /\ \/ state.list_property = <<>>
           \/ Innermost(channel.properties, state.is_system_file, state.cur_path, is_array,
                        state.list_property)

EtcOK ==
    /\ system_files \in SystemConfigs
    /\ etc_group = [groups |-> etc_group.groups, mtime |-> etc_group.mtime]
    /\ etc_group.groups \subseteq Group /\ etc_group.mtime \in 1..MaxMtime

XmlInv ==
    /\ EtcOK /\ StateOK /\ ParserOK
    /\ pc \in {"idle", "next_file", "parsing", "writing"}
    /\ channel = NotLoaded \/ IsChannel(channel)
    /\ pc = "idle" \/ IsChannel(channel)
    /\ node \in Prop \cup {<<>>} /\ written \subseteq Prop

\* u is t but for the node at p and the parents it needed.
OnlyAt(t, u, p) ==
    /\ IsTree(u)
    /\ \A q \in Prop \ {p} : u[q] = t[q] \/ (t[q] = Absent /\ u[q] = Branch)

\* No lock and no default is touched, nor anything of a locked property.
KeepsLocks(t, u) ==
    \A p \in Prop : t[p] # Absent => /\ u[p] # Absent
                                     /\ u[p].locked = t[p].locked /\ u[p].system_value = t[p].system_value
                                     /\ t[p].locked => u[p] = t[p]

\* What is passed over stays passed over.
LEMMA StaysPassedOver ==
    ASSUME NEW t, NEW u, NEW sys, ~sys => KeepsLocks(t, u), NEW q \in Prop, PassedOver(t, sys, q)
    PROVE  PassedOver(u, sys, q)
BY DEF PassedOver, KeepsLocks

\* An element that is no array, or is passed over, leaves the innermost array.
LEMMA StaysInnermost ==
    ASSUME NEW t, NEW u, NEW sys, NEW path, NEW full, NEW list, GoesDown(path, full),
           NEW arrays \in Seq(BOOLEAN), Len(arrays) = Len(path), NEW b \in BOOLEAN,
           b => PassedOver(u, sys, full), ~sys => KeepsLocks(t, u),
           Innermost(t, sys, path, arrays, list), OnlyAt(t, u, full)
    PROVE  Innermost(u, sys, full, Append(arrays, b), list)
<1>1. PICK k \in 1..Len(path) :
          /\ list = SubSeq(path, 1, k) /\ arrays[k]
          /\ \A m \in (k + 1)..Len(path) : arrays[m] => PassedOver(t, sys, SubSeq(path, 1, m))
  BY DEF Innermost
<1>2. PICK n \in Nat : n = Len(path)
  BY DEF GoesDown
<1>3. /\ Len(full) = n + 1
      /\ SubSeq(full, 1, n + 1) = full
      /\ \A m \in 1..n : /\ SubSeq(full, 1, m) = SubSeq(path, 1, m)
                         /\ SubSeq(full, 1, m) \in Prop \ {full}
  BY <1>2 DEF GoesDown
<1>4. k \in 1..n /\ k \in 1..Len(full)
  BY <1>2, <1>3
<1>5. list = SubSeq(full, 1, k) /\ list \in Prop \ {full}
  BY <1>1, <1>4, <1>3
<1>6. u[list] = t[list]
  BY <1>5 DEF OnlyAt, Innermost
<1>7. /\ list \in Prop /\ u[list] # Absent /\ ArrayAt(u, sys, list)
      /\ IsValue(IF sys THEN u[list].system_value ELSE u[list].value)
  BY <1>6 DEF Innermost, ArrayAt, PassedOver
<1>8. PICK more : more = Append(arrays, b)
  OBVIOUS
<1>9. more[n + 1] = b /\ \A m \in 1..n : more[m] = arrays[m]
  BY <1>2, <1>8
<1>10. ASSUME NEW m \in (k + 1)..Len(full), more[m]
       PROVE  PassedOver(u, sys, SubSeq(full, 1, m))
  <2>1. CASE m = n + 1
    BY <1>3, <1>9, <1>10, <2>1
  <2>2. CASE m # n + 1
    <3>1. m \in 1..n /\ m \in (k + 1)..n
      BY <1>4, <1>10, <1>3, <2>2
    <3>2. arrays[m]
      BY <1>9, <1>10, <3>1
    <3> DEFINE q == SubSeq(full, 1, m)
    <3>3. q \in Prop /\ PassedOver(t, sys, q)
      BY <1>1, <1>2, <1>3, <3>1, <3>2
    <3> HIDE DEF q
    <3>4. QED
      BY <3>3, StaysPassedOver DEF q
  <2>3. QED
    BY <2>1, <2>2
<1>11. more[k]
  BY <1>1, <1>4, <1>9
<1>12. QED
  BY <1>4, <1>5, <1>7, <1>8, <1>10, <1>11 DEF Innermost

-----------------------------------------------------------------------------
(* What a <property> and a <value> do to the tree.                         *)

\* u has a node for the property with the value v of this file: of the tree
\* before, t, it changes no more than it may.
Placed(t, u, sys, p, v) ==
    /\ OnlyAt(t, u, p) /\ u[p] # Absent
    /\ v = IF sys THEN u[p].system_value ELSE u[p].value
    /\ ~sys => KeepsLocks(t, u) /\ ~u[p].locked

\* A place for the property, with nothing of this file in it.
LEMMA ClearedProperty ==
    ASSUME NothingIsNoNode, IsTree(channel.properties), NEW p \in Prop, ~SkipLocked(p),
           state.is_system_file \/ ~channel.locked
    PROVE  Placed(channel.properties, ClearedTree(p), state.is_system_file, p, Unset)
<1> DEFINE t == channel.properties
           u == ClearedTree(p)
<1>1. CASE t[p] = Absent
  <2>1. u = AddProperty(t, p, Unset, channel.locked)
    BY <1>1 DEF ClearedTree
  <2>2. PICK lock : lock = channel.locked
    OBVIOUS
  <2>3. IsTree(t)
    OBVIOUS
  <2> HIDE DEF t
  <2>4. /\ IsTree(u)
        /\ u[p] = [value |-> Unset, system_value |-> Unset, locked |-> lock]
        /\ \A q \in Prop \ {p} : u[q] = t[q] \/ (t[q] = Absent /\ u[q] = Branch)
    BY <2>1, <2>2, <2>3, AddNode
  <2> HIDE DEF u
  <2>5. u[p] # Absent
    BY <2>4 DEF NothingIsNoNode
  <2>6. ~state.is_system_file => ~lock
    BY <2>2
  <2>7. KeepsLocks(t, u)
    BY <1>1, <2>4 DEF KeepsLocks
  <2>8. QED
    BY <2>4, <2>5, <2>6, <2>7 DEF Placed, OnlyAt, t, u
<1>2. CASE t[p] # Absent
  <2>1. IsTree(t)
    OBVIOUS
  <2>2. ~state.is_system_file => ~t[p].locked
    BY <1>2 DEF SkipLocked
  <2>3. PICK w : w = [t EXCEPT ![p].value = Unset]
    OBVIOUS
  <2>4. /\ state.is_system_file => u = [t EXCEPT ![p].value = Unset, ![p].system_value = Unset]
        /\ ~state.is_system_file => u = w
    BY <1>2, <2>3 DEF ClearedTree
  <2> HIDE DEF t, u
  <2>5. [t EXCEPT ![p].value = Unset, ![p].system_value = Unset] = [w EXCEPT ![p].system_value = Unset]
    BY <2>3
  <2>6. Replaces(t, w, p, [value |-> Unset, system_value |-> t[p].system_value, locked |-> t[p].locked])
    BY <1>2, <2>1, <2>3, ChangeNode
  <2>7. /\ IsTree(w)
        /\ w[p] = [value |-> Unset, system_value |-> t[p].system_value, locked |-> t[p].locked]
        /\ \A q \in Prop \ {p} : w[q] = t[q]
        /\ w[p] # Absent
    BY <1>2, <2>1, <2>6, PutNode DEF IsNode, Replaces
  <2>8. w[p] # Absent
    BY <2>7
  <2>9. CASE state.is_system_file
    <3>1. PICK x : x = [w EXCEPT ![p].system_value = Unset]
      OBVIOUS
    <3>2. u = x
      BY <2>4, <2>5, <2>9, <3>1
    <3>3. Replaces(w, x, p, [value |-> w[p].value, system_value |-> Unset, locked |-> w[p].locked])
      BY <2>7, <2>8, <3>1, ChangeNode
    <3>4. /\ IsTree(x)
          /\ x[p] = [value |-> w[p].value, system_value |-> Unset, locked |-> w[p].locked]
          /\ \A q \in Prop \ {p} : x[q] = w[q]
          /\ x[p] # Absent
      BY <2>7, <2>8, <3>3, PutNode DEF IsNode, Replaces
    <3>5. x[p] # Absent
      BY <3>4
    <3>6. x[p].value = Unset /\ x[p].system_value = Unset
      BY <2>7, <3>4
    <3>7. \A q \in Prop \ {p} : x[q] = t[q]
      BY <2>7, <3>4
    <3>8. QED
      BY <2>9, <3>2, <3>4, <3>5, <3>6, <3>7 DEF Placed, OnlyAt, t, u
  <2>10. CASE ~state.is_system_file
    <3>1. u = w
      BY <2>4, <2>10
    <3>2. KeepsLocks(t, w)
      BY <2>2, <2>7, <2>8, <2>10 DEF KeepsLocks
    <3>3. w[p].value = Unset /\ ~w[p].locked
      BY <2>2, <2>7, <2>10
    <3>4. QED
      BY <2>7, <2>8, <2>10, <3>1, <3>2, <3>3 DEF Placed, OnlyAt, t, u
  <2>11. QED
    BY <2>9, <2>10
<1>3. QED
  BY <1>1, <1>2

\* A lock of a system file leaves the value.
LEMMA LockedProperty ==
    ASSUME NothingIsNoNode, NEW t, NEW u, NEW p \in Prop, NEW v, Placed(t, u, TRUE, p, v), NEW lock
    PROVE  Placed(t, [u EXCEPT ![p].locked = lock], TRUE, p, v)
<1>1. IsTree(u) /\ u[p] # Absent
  BY DEF Placed, OnlyAt
<1>2. PICK w : w = [u EXCEPT ![p].locked = lock]
  OBVIOUS
<1>3. Replaces(u, w, p, [value |-> u[p].value, system_value |-> u[p].system_value, locked |-> lock])
  BY <1>1, <1>2, ChangeNode
<1>4. IsTree(w) /\ w[p] # Absent
  BY <1>1, <1>3, PutNode DEF IsNode
<1>5. w[p].system_value = u[p].system_value /\ \A q \in Prop \ {p} : w[q] = u[q]
  BY <1>3 DEF Replaces
<1>6. Placed(t, w, TRUE, p, v)
  BY <1>4, <1>5 DEF Placed, OnlyAt
<1>7. QED
  BY <1>2, <1>6

\* A value of the file takes the place.
LEMMA GivenProperty ==
    ASSUME NothingIsNoNode, NEW t, NEW u, NEW p \in Prop, NEW v,
           Placed(t, u, state.is_system_file, p, Unset)
    PROVE  Placed(t, PutValue(u, p, v), state.is_system_file, p, v)
<1>1. IsTree(u) /\ u[p] # Absent
  BY DEF Placed, OnlyAt
<1>2. CASE state.is_system_file
  <2>1. PICK w : w = [u EXCEPT ![p].system_value = v]
    OBVIOUS
  <2>2. Replaces(u, w, p, [value |-> u[p].value, system_value |-> v, locked |-> u[p].locked])
    BY <1>1, <2>1, ChangeNode
  <2>3. IsTree(w) /\ w[p] # Absent
    BY <1>1, <2>2, PutNode DEF IsNode
  <2>4. w[p].system_value = v /\ \A q \in Prop \ {p} : w[q] = u[q]
    BY <2>2 DEF Replaces
  <2>5. Placed(t, w, state.is_system_file, p, v)
    BY <1>2, <2>3, <2>4 DEF Placed, OnlyAt
  <2>6. QED
    BY <1>2, <2>1, <2>5 DEF PutValue
<1>3. CASE ~state.is_system_file
  <2>1. PICK w : w = [u EXCEPT ![p].value = v]
    OBVIOUS
  <2>2. Replaces(u, w, p, [value |-> v, system_value |-> u[p].system_value, locked |-> u[p].locked])
    BY <1>1, <2>1, ChangeNode
  <2>3. IsTree(w) /\ w[p] # Absent
    BY <1>1, <2>2, PutNode DEF IsNode
  <2>4. /\ w[p].value = v /\ w[p].system_value = u[p].system_value /\ w[p].locked = u[p].locked
        /\ \A q \in Prop \ {p} : w[q] = u[q]
    BY <2>2 DEF Replaces
  <2>5. ~u[p].locked /\ KeepsLocks(t, u)
    BY <1>3 DEF Placed
  <2>6. KeepsLocks(t, w)
    <3>1. SUFFICES ASSUME NEW q \in Prop, t[q] # Absent
                   PROVE  /\ w[q] # Absent
                          /\ w[q].locked = t[q].locked /\ w[q].system_value = t[q].system_value
                          /\ t[q].locked => w[q] = t[q]
      BY DEF KeepsLocks
    <3>2. CASE q = p
      BY <2>3, <2>4, <2>5, <3>1, <3>2 DEF KeepsLocks
    <3>3. CASE q # p
      BY <2>4, <2>5, <3>1, <3>3 DEF KeepsLocks
    <3>4. QED
      BY <3>2, <3>3
  <2>7. Placed(t, w, state.is_system_file, p, v)
    BY <1>3, <2>3, <2>4, <2>5, <2>6 DEF Placed, OnlyAt
  <2>8. QED
    BY <1>3, <2>1, <2>7 DEF PutValue
<1>4. QED
  BY <1>2, <1>3

\* A <property> is refused; or it is an array and the innermost from now on; or
\* it is read, and then it is passed over if it is an array.
PropertyRead(sys, t, u, full) ==
    /\ OnlyAt(t, u, full)
    /\ ~sys => KeepsLocks(t, u)
    /\ channel' = [channel EXCEPT !.properties = u]
    /\ \/ pc' = "next_file" /\ state' = state /\ is_array' = is_array
       \/ /\ pc' = "parsing"
          /\ \E b \in BOOLEAN : is_array' = Append(is_array, b) /\ (b => PassedOver(u, sys, full))
          /\ state' = [state EXCEPT !.cur_elem = "PROPERTY", !.cur_path = full]
       \/ /\ pc' = "parsing" /\ ArrayAt(u, sys, full) /\ u[full] # Absent
          /\ IsValue(IF sys THEN u[full].system_value ELSE u[full].value)
          /\ is_array' = Append(is_array, TRUE)
          /\ state' = [state EXCEPT !.cur_elem = "PROPERTY", !.cur_path = full, !.list_property = full]

LEMMA PlacedArray ==
    ASSUME NothingIsNoNode, NEW t, NEW u, NEW sys, NEW p \in Prop, NEW n, NEW items,
           Placed(t, u, sys, p, GValue("array", n, items))
    PROVE  ArrayAt(u, sys, p) /\ IsValue(IF sys THEN u[p].system_value ELSE u[p].value)
BY DEF NothingIsNoNode, Placed, ArrayAt, PassedOver, IsValue, GValue

LEMMA HandlePropertyReads ==
    ASSUME NothingIsNoNode, XmlInv, HandleProperty
    PROVE  LET full == Append(state.cur_path, Head(input).name)
           IN  /\ pc = "parsing" /\ full \in Prop
               /\ \E u : PropertyRead(state.is_system_file, channel.properties, u, full)
<1> DEFINE e == Head(input)
           full == Append(state.cur_path, e.name)
           type == GtypeFromString(e.type)
           cleared == ClearedTree(full)
           locking == HasLock(e) /\ state.is_system_file
           lock == channel.locked \/ IsLock(e)
           tree == IF locking THEN [cleared EXCEPT ![full].locked = lock] ELSE cleared
           down == [state EXCEPT !.cur_elem = "PROPERTY", !.cur_path = full]
           t == channel.properties
           sys == state.is_system_file
<1>1. pc = "parsing" /\ full \in Prop
  BY DEF HandleProperty, AtStart
<1>2. /\ IsChannel(channel) /\ IsTree(t)
      /\ sys \/ ~channel.locked
  BY <1>1 DEF XmlInv, IsChannel, ParserOK
<1>3. IF SkipLocked(full) THEN Enter(type) /\ state' = down /\ UNCHANGED channel
      ELSE IF type = "INVALID" \/ (HasLock(e) /\ ~state.is_system_file)
      THEN Fail /\ channel' = [channel EXCEPT !.properties = tree]
      ELSE IF type = "NONE"
      THEN Enter(type) /\ state' = down /\ channel' = [channel EXCEPT !.properties = tree]
      ELSE IF ~FromString(type, e.n)
      THEN Fail /\ channel' = [channel EXCEPT !.properties = PutValue(tree, full, Zero(type))]
      ELSE /\ Enter(type)
           /\ state' = IF type = "array" THEN [down EXCEPT !.list_property = full] ELSE down
           /\ channel' = [channel EXCEPT !.properties = PutValue(tree, full, GValue(type, e.n, <<>>))]
  BY DEF HandleProperty
<1> HIDE DEF type
<1>4. CASE SkipLocked(full)
  <2>1. PassedOver(t, sys, full)
    BY <1>4 DEF SkipLocked, PassedOver
  <2>2. channel' = [channel EXCEPT !.properties = t]
    BY <1>2, <1>3, <1>4 DEF IsChannel
  <2>3. OnlyAt(t, t, full) /\ KeepsLocks(t, t)
    BY <1>2 DEF OnlyAt, KeepsLocks
  <2>4. /\ pc' = "parsing" /\ state' = down
        /\ is_array' = Append(is_array, type = "array") /\ (type = "array") \in BOOLEAN
    BY <1>1, <1>3, <1>4 DEF Enter, Advance
  <2>5. PropertyRead(sys, t, t, full)
    BY <2>1, <2>2, <2>3, <2>4 DEF PropertyRead
  <2>6. QED
    BY <1>1, <2>5
<1>5. CASE ~SkipLocked(full)
  <2>1. Placed(t, cleared, sys, full, Unset)
    BY <1>1, <1>2, <1>5, ClearedProperty
  <2> HIDE DEF cleared, lock
  <2>2. Placed(t, tree, sys, full, Unset)
    <3>1. CASE locking
      <4>1. Placed(t, cleared, TRUE, full, Unset)
        BY <2>1, <3>1 DEF Placed
      <4>2. Placed(t, [cleared EXCEPT ![full].locked = lock], TRUE, full, Unset)
        BY <1>1, <4>1, LockedProperty
      <4>3. Placed(t, tree, TRUE, full, Unset)
        BY <3>1, <4>2
      <4>4. QED
        BY <3>1, <4>3 DEF Placed
    <3>2. CASE ~locking
      BY <2>1, <3>2
    <3>3. QED
      BY <3>1, <3>2
  <2> HIDE DEF tree, locking
  <2>3. ASSUME NEW v
        PROVE  Placed(t, PutValue(tree, full, v), sys, full, v)
    BY <1>1, <2>2, GivenProperty
  <2>4. CASE type = "INVALID" \/ (HasLock(e) /\ ~state.is_system_file)
    <3>1. PropertyRead(sys, t, tree, full)
      BY <1>3, <1>5, <2>2, <2>4 DEF PropertyRead, Fail, Placed
    <3>2. QED
      BY <1>1, <3>1
  <2>5. CASE ~(type = "INVALID" \/ (HasLock(e) /\ ~state.is_system_file)) /\ type = "NONE"
    <3>1. Enter(type) /\ state' = down /\ channel' = [channel EXCEPT !.properties = tree]
      BY <1>3, <1>5, <2>5
    <3>2. pc' = "parsing" /\ is_array' = Append(is_array, FALSE)
      BY <1>1, <2>5, <3>1 DEF Enter, Advance
    <3>3. PropertyRead(sys, t, tree, full)
      BY <2>2, <3>1, <3>2 DEF PropertyRead, Placed
    <3>4. QED
      BY <1>1, <3>3
  <2>6. CASE /\ ~(type = "INVALID" \/ (HasLock(e) /\ ~state.is_system_file))
             /\ type # "NONE" /\ ~FromString(type, e.n)
    <3>1. Fail /\ channel' = [channel EXCEPT !.properties = PutValue(tree, full, Zero(type))]
      BY <1>3, <1>5, <2>6
    <3>2. Placed(t, PutValue(tree, full, Zero(type)), sys, full, Zero(type))
      BY <2>3
    <3>3. PropertyRead(sys, t, PutValue(tree, full, Zero(type)), full)
      BY <3>1, <3>2 DEF PropertyRead, Fail, Placed
    <3>4. QED
      BY <1>1, <3>3
  <2>7. CASE /\ ~(type = "INVALID" \/ (HasLock(e) /\ ~state.is_system_file))
             /\ type # "NONE" /\ FromString(type, e.n)
    <3> DEFINE v == GValue(type, e.n, <<>>)
               u == PutValue(tree, full, v)
    <3>1. /\ Enter(type) /\ channel' = [channel EXCEPT !.properties = u]
          /\ state' = IF type = "array" THEN [down EXCEPT !.list_property = full] ELSE down
      BY <1>3, <1>5, <2>7
    <3>2. type = "array" => v = GValue("array", e.n, <<>>)
      OBVIOUS
    <3>3. Placed(t, u, sys, full, v)
      BY <2>3
    <3> HIDE DEF v
    <3>4. pc' = "parsing" /\ is_array' = Append(is_array, type = "array")
      BY <1>1, <3>1 DEF Enter, Advance
    <3> HIDE DEF u
    <3>5. CASE type = "array"
      <4>1. ArrayAt(u, sys, full) /\ IsValue(IF sys THEN u[full].system_value ELSE u[full].value)
        BY <1>1, <3>2, <3>3, <3>5, PlacedArray
      <4>2. state' = [state EXCEPT !.cur_elem = "PROPERTY", !.cur_path = full, !.list_property = full]
        BY <3>1, <3>5
      <4>3. PropertyRead(sys, t, u, full)
        BY <3>1, <3>3, <3>4, <3>5, <4>1, <4>2 DEF PropertyRead, Placed
      <4>4. QED
        BY <1>1, <4>3
    <3>6. CASE type # "array"
      <4>1. is_array' = Append(is_array, FALSE) /\ state' = down
        BY <3>1, <3>4, <3>6
      <4>2. PropertyRead(sys, t, u, full)
        BY <3>1, <3>3, <3>4, <4>1 DEF PropertyRead, Placed
      <4>3. QED
        BY <1>1, <4>2
    <3>7. QED
      BY <3>5, <3>6
  <2>8. QED
    BY <2>4, <2>5, <2>6, <2>7
<1>6. QED
  BY <1>4, <1>5

\* One more item leaves an array an array, and every lock as it was.
LEMMA MoreItems ==
    ASSUME NothingIsNoNode, NEW t, IsTree(t), NEW path, NEW arrays, NEW list,
           path \in Prop \cup {<<>>}, Innermost(t, state.is_system_file, path, arrays, list),
           NEW items
    PROVE  LET v == IF state.is_system_file THEN t[list].system_value ELSE t[list].value
               u == PutValue(t, list, [v EXCEPT !.items = items])
           IN  /\ IsTree(u) /\ Innermost(u, state.is_system_file, path, arrays, list)
               /\ ~state.is_system_file => KeepsLocks(t, u)
<1> DEFINE sys == state.is_system_file
<1>1. PICK v : v = IF sys THEN t[list].system_value ELSE t[list].value
  OBVIOUS
<1>2. PICK w : w = [v EXCEPT !.items = items]
  OBVIOUS
<1>3. list \in Prop /\ t[list] # Absent /\ ArrayAt(t, sys, list) /\ IsValue(v)
  BY <1>1 DEF Innermost
<1>4. /\ v.type = "array" /\ v = [type |-> v.type, n |-> v.n, items |-> v.items]
      /\ ~(~sys /\ t[list].locked)
  BY <1>1, <1>3 DEF ArrayAt, PassedOver, IsValue, GValue
<1>5. w = GValue("array", v.n, items)
  BY <1>2, <1>4 DEF GValue
<1>6. w # Unset /\ w.type = "array" /\ IsValue(w)
  BY <1>5 DEF NothingIsNoNode, IsValue, GValue
<1> DEFINE n == IF sys THEN [value |-> t[list].value, system_value |-> w, locked |-> t[list].locked]
                ELSE [value |-> w, system_value |-> t[list].system_value, locked |-> t[list].locked]
<1>7. PICK u : u = PutValue(t, list, w)
  OBVIOUS
<1>8. Replaces(t, u, list, n)
  <2>1. CASE sys
    <3>1. u = [t EXCEPT ![list].system_value = w]
      BY <1>7, <2>1 DEF PutValue
    <3>2. Replaces(t, u, list, [value |-> t[list].value, system_value |-> w, locked |-> t[list].locked])
      BY <1>3, <3>1, ChangeNode
    <3>3. QED
      BY <2>1, <3>2
  <2>2. CASE ~sys
    <3>1. u = [t EXCEPT ![list].value = w]
      BY <1>7, <2>2 DEF PutValue
    <3>2. Replaces(t, u, list, [value |-> w, system_value |-> t[list].system_value, locked |-> t[list].locked])
      BY <1>3, <3>1, ChangeNode
    <3>3. QED
      BY <2>2, <3>2
  <2>3. QED
    BY <2>1, <2>2
<1>9. IsNode(n)
  BY DEF IsNode
<1>10. /\ n.locked = t[list].locked
       /\ w = IF sys THEN n.system_value ELSE n.value
       /\ ~sys => n.system_value = t[list].system_value
  OBVIOUS
<1> HIDE DEF n
<1>11. IsTree(u) /\ u[list] # Absent /\ u[list] = n /\ \A q \in Prop \ {list} : u[q] = t[q]
  BY <1>3, <1>8, <1>9, PutNode DEF Replaces
<1>12. ArrayAt(u, sys, list) /\ IsValue(IF sys THEN u[list].system_value ELSE u[list].value)
  BY <1>4, <1>6, <1>10, <1>11 DEF ArrayAt, PassedOver
<1>13. ~sys => KeepsLocks(t, u)
  <2>1. SUFFICES ASSUME ~sys, NEW q \in Prop, t[q] # Absent
                 PROVE  /\ u[q] # Absent
                        /\ u[q].locked = t[q].locked /\ u[q].system_value = t[q].system_value
                        /\ t[q].locked => u[q] = t[q]
    BY DEF KeepsLocks
  <2>2. CASE q = list
    BY <1>4, <1>10, <1>11, <2>1, <2>2
  <2>3. CASE q # list
    BY <1>11, <2>1, <2>3
  <2>4. QED
    BY <2>2, <2>3
<1>14. Innermost(u, sys, path, arrays, list)
  <2>1. PICK k \in 1..Len(path) :
          /\ list = SubSeq(path, 1, k) /\ arrays[k]
          /\ \A m \in (k + 1)..Len(path) : arrays[m] => PassedOver(t, sys, SubSeq(path, 1, m))
    BY DEF Innermost
  <2>2. Len(path) \in Nat
    BY XmlPathAssumption, EmptySeq, LenProperties
  <2>3. path \in Prop
    BY <2>1, <2>2, EmptySeq
  <2>4. ASSUME NEW m \in (k + 1)..Len(path), arrays[m]
        PROVE  PassedOver(u, sys, SubSeq(path, 1, m))
    <3>1. m \in 1..Len(path)
      BY <2>1, <2>2, <2>4
    <3>2. SubSeq(path, 1, m) \in Prop
      BY <2>3, <3>1, PrefixIsProp
    <3>3. QED
      BY <1>13, <2>1, <2>4, <3>2, StaysPassedOver
  <2>5. QED
    BY <1>3, <1>11, <1>12, <2>1, <2>4 DEF Innermost
<1>15. QED
  BY <1>1, <1>2, <1>7, <1>11, <1>13, <1>14

\* A <value> is refused, or becomes an item of the innermost array.
LEMMA HandleValueAdds ==
    ASSUME NothingIsNoNode, XmlInv, HandleValue
    PROVE  /\ pc = "parsing" /\ state.cur_elem = "PROPERTY" /\ IsChannel(channel)
           /\ is_array' = is_array
           /\ \/ pc' = "next_file" /\ state' = state /\ channel' = channel
              \/ /\ pc' = "parsing" /\ state' = [state EXCEPT !.cur_elem = "VALUE"]
                 /\ \E u : /\ channel' = [channel EXCEPT !.properties = u]
                           /\ IsTree(u)
                           /\ Innermost(u, state.is_system_file, state.cur_path, is_array,
                                        state.list_property)
                           /\ ~state.is_system_file => KeepsLocks(channel.properties, u)
<1> DEFINE e == Head(input)
           type == GtypeFromString(e.type)
           p == state.list_property
           t == channel.properties
           v == IF state.is_system_file THEN t[p].system_value ELSE t[p].value
           items == Append(v.items, GValue(type, e.n, <<>>))
           u == PutValue(t, p, [v EXCEPT !.items = items])
<1>1. pc = "parsing" /\ state.cur_elem = "PROPERTY" /\ p # <<>>
  BY DEF HandleValue, AtStart, ElementAllowed
<1>2. IsChannel(channel) /\ IsTree(t)
  BY <1>1 DEF XmlInv, IsChannel
<1>3. \/ Fail /\ UNCHANGED channel
      \/ /\ Stay /\ state' = [state EXCEPT !.cur_elem = "VALUE"]
         /\ channel' = [channel EXCEPT !.properties = u]
  BY DEF HandleValue
<1>4. CASE Fail /\ UNCHANGED channel
  BY <1>1, <1>2, <1>4 DEF Fail
<1>5. CASE /\ Stay /\ state' = [state EXCEPT !.cur_elem = "VALUE"]
           /\ channel' = [channel EXCEPT !.properties = u]
  <2>1. Innermost(t, state.is_system_file, state.cur_path, is_array, p) /\ state.cur_path \in Prop \cup {<<>>}
    BY <1>1 DEF XmlInv, ParserOK, StateOK
  <2> HIDE DEF items
  <2>2. /\ IsTree(u) /\ Innermost(u, state.is_system_file, state.cur_path, is_array, p)
        /\ ~state.is_system_file => KeepsLocks(t, u)
    BY <1>2, <2>1, MoreItems
  <2>3. pc' = "parsing" /\ is_array' = is_array
    BY <1>1, <1>5 DEF Stay, Advance
  <2> HIDE DEF u
  <2>4. QED
    BY <1>1, <1>2, <1>5, <2>2, <2>3
<1>6. QED
  BY <1>3, <1>4, <1>5

-----------------------------------------------------------------------------
(* Every step keeps the invariant.                                         *)

LEMMA EmptyIsTree == IsTree(EmptyTree)
<1>1. EmptyTree = [p \in Prop |-> EmptyTree[p]] /\ \A p \in Prop : EmptyTree[p] = Absent
  BY DEF EmptyTree
<1> HIDE DEF EmptyTree
<1>2. QED
  BY <1>1 DEF IsTree, IsFunction, Closed

\* A channel with another tree.
LEMMA OtherTree ==
    ASSUME NEW c, IsChannel(c), NEW u, IsTree(u)
    PROVE  /\ IsChannel([c EXCEPT !.properties = u])
           /\ [c EXCEPT !.properties = u].properties = u
           /\ [c EXCEPT !.properties = u].locked = c.locked
BY DEF IsChannel

LEMMA InitXmlInv ==
    ASSUME Init
    PROVE  XmlInv
<1>1. EtcOK
  BY MtimeAssumption DEF Init, EtcOK
<1>2. StateOK
  BY DEF Init, StateOK, NewState
<1>3. QED
  BY <1>1, <1>2 DEF Init, XmlInv, ParserOK

LEMMA LoadKeepsInv ==
    ASSUME XmlInv, LoadChannel
    PROVE  XmlInv'
<1>1. channel' = [properties |-> EmptyTree, locked |-> FALSE, dirty |-> FALSE] /\ pc' = "next_file"
  BY DEF LoadChannel
<1>2. IsChannel(channel')
  BY <1>1, EmptyIsTree DEF IsChannel
<1>3. UNCHANGED <<system_files, etc_group, state, is_array, node, written>>
  BY DEF LoadChannel, disk, writer
<1>4. QED
  BY <1>1, <1>2, <1>3 DEF XmlInv, EtcOK, StateOK, ParserOK

LEMMA FilesKeepInv ==
    ASSUME XmlInv, MergeFile \/ Loaded \/ EndParse \/ RefuseElement
    PROVE  XmlInv'
<1>1. UNCHANGED <<system_files, etc_group, channel, node, written>> /\ IsChannel(channel)
  BY DEF MergeFile, Loaded, EndParse, RefuseElement, AtStart, disk, writer, XmlInv
<1>2. CASE state' = state /\ is_array' = is_array /\ pc' \in {"idle", "next_file"}
  BY <1>1, <1>2 DEF XmlInv, EtcOK, StateOK, ParserOK
<1>3. CASE /\ \E system : state' = NewState(system) /\ (system \/ ~channel.locked)
           /\ is_array' = <<>> /\ pc' = "parsing"
  <2>1. /\ state'.list_property = <<>> /\ state'.cur_path = <<>> /\ state'.cur_elem = "NONE"
        /\ state'.is_system_file \/ ~channel.locked
        /\ state' = [is_system_file |-> state'.is_system_file, cur_elem |-> state'.cur_elem,
                     cur_path |-> state'.cur_path, list_property |-> state'.list_property]
    BY <1>3 DEF NewState
  <2>2. StateOK'
    BY <1>3, <2>1 DEF StateOK
  <2>3. ParserOK'
    BY <1>1, <2>1 DEF ParserOK
  <2>4. QED
    BY <1>1, <1>3, <2>2, <2>3 DEF XmlInv, EtcOK
<1>4. \/ state' = state /\ is_array' = is_array /\ pc' \in {"idle", "next_file"}
      \/ /\ \E system : state' = NewState(system) /\ (system \/ ~channel.locked)
         /\ is_array' = <<>> /\ pc' = "parsing"
  BY DEF MergeFile, Loaded, EndParse, RefuseElement, Fail, parser
<1>5. QED
  BY <1>2, <1>3, <1>4

LEMMA ChannelKeepsInv ==
    ASSUME XmlInv, HandleChannel
    PROVE  XmlInv'
<1> DEFINE e == Head(input)
<1>1. /\ pc = "parsing" /\ state.cur_elem = "NONE" /\ IsChannel(channel)
      /\ UNCHANGED <<system_files, etc_group, is_array, node, written>>
  BY DEF HandleChannel, AtStart, ElementAllowed, Fail, Stay, disk, writer, XmlInv
<1>2. state.cur_path = <<>> /\ state.list_property = <<>>
  <2>1. state.cur_path = <<>>
    BY <1>1 DEF XmlInv, StateOK
  <2>2. ~Innermost(channel.properties, state.is_system_file, <<>>, is_array, state.list_property)
    BY EmptySeq DEF Innermost
  <2>3. QED
    BY <1>1, <2>1, <2>2 DEF XmlInv, ParserOK
<1>3. \/ Fail /\ UNCHANGED channel
      \/ /\ Stay /\ state' = [state EXCEPT !.cur_elem = "CHANNEL"]
         /\ channel' = IF HasLock(e) /\ ~channel.locked /\ IsLock(e)
                       THEN [channel EXCEPT !.properties = EmptyTree, !.locked = TRUE]
                       ELSE channel
         /\ ~(HasLock(e) /\ (~state.is_system_file \/ (channel.locked /\ ~IsLock(e))))
  BY DEF HandleChannel
<1>4. CASE Fail /\ UNCHANGED channel
  BY <1>1, <1>4 DEF XmlInv, EtcOK, StateOK, ParserOK, Fail
<1>5. CASE /\ Stay /\ state' = [state EXCEPT !.cur_elem = "CHANNEL"]
           /\ channel' = IF HasLock(e) /\ ~channel.locked /\ IsLock(e)
                         THEN [channel EXCEPT !.properties = EmptyTree, !.locked = TRUE]
                         ELSE channel
           /\ ~(HasLock(e) /\ (~state.is_system_file \/ (channel.locked /\ ~IsLock(e))))
  <2>1. pc' = "parsing"
    BY <1>1, <1>5 DEF Stay, Advance
  <2>2. /\ state'.cur_elem = "CHANNEL" /\ state'.cur_path = <<>> /\ state'.list_property = <<>>
        /\ state'.is_system_file = state.is_system_file
        /\ state' = [is_system_file |-> state'.is_system_file, cur_elem |-> state'.cur_elem,
                     cur_path |-> state'.cur_path, list_property |-> state'.list_property]
    BY <1>2, <1>5 DEF XmlInv, StateOK
  <2>3. StateOK'
    BY <1>1, <1>2, <2>2 DEF XmlInv, StateOK
  <2>4. IsChannel(channel') /\ (state.is_system_file \/ ~channel'.locked)
    <3>1. CASE channel' = channel
      BY <1>1, <3>1 DEF XmlInv, ParserOK
    <3>2. CASE HasLock(e) /\ channel' = [channel EXCEPT !.properties = EmptyTree, !.locked = TRUE]
      <4>1. state.is_system_file
        BY <1>5, <3>2
      <4>2. IsChannel(channel')
        BY <1>1, <3>2, EmptyIsTree DEF IsChannel
      <4>3. QED
        BY <4>1, <4>2
    <3>3. QED
      BY <1>5, <3>1, <3>2
  <2>5. QED
    BY <1>1, <2>1, <2>2, <2>3, <2>4 DEF XmlInv, EtcOK, ParserOK
<1>6. QED
  BY <1>3, <1>4, <1>5

LEMMA PropertyKeepsInv ==
    ASSUME NothingIsNoNode, XmlInv, HandleProperty
    PROVE  XmlInv'
<1> DEFINE full == Append(state.cur_path, Head(input).name)
           sys == state.is_system_file
           path == state.cur_path
           list == state.list_property
<1>1. PICK t : t = channel.properties
  OBVIOUS
<1>2. pc = "parsing" /\ full \in Prop /\ \E u : PropertyRead(sys, t, u, full)
  BY <1>1, HandlePropertyReads
<1>3. PICK u : PropertyRead(sys, t, u, full)
  BY <1>2
<1>4. UNCHANGED <<system_files, etc_group, node, written>>
  BY DEF HandleProperty, disk, writer
<1>5. /\ IsChannel(channel) /\ (sys \/ ~channel.locked) /\ path \in Prop \cup {<<>>}
      /\ list = <<>> \/ Innermost(t, sys, path, is_array, list)
      /\ is_array \in Seq(BOOLEAN) /\ Len(is_array) = Len(path)
      /\ state = [is_system_file |-> sys, cur_elem |-> state.cur_elem, cur_path |-> path, list_property |-> list]
  BY <1>1, <1>2 DEF XmlInv, ParserOK, StateOK
<1>6. GoesDown(path, full)
  BY <1>2, <1>5, GoDown
<1>7. full # <<>>
  BY <1>2, XmlPathAssumption
<1> HIDE DEF full
<1>8. IsChannel(channel') /\ channel'.properties = u /\ channel'.locked = channel.locked
  BY <1>3, <1>5, OtherTree DEF PropertyRead, OnlyAt
<1>9. CASE pc' = "next_file" /\ state' = state /\ is_array' = is_array
  BY <1>4, <1>8, <1>9 DEF XmlInv, EtcOK, StateOK, ParserOK
<1>10. CASE /\ pc' = "parsing"
            /\ \E b \in BOOLEAN : is_array' = Append(is_array, b) /\ (b => PassedOver(u, sys, full))
            /\ state' = [state EXCEPT !.cur_elem = "PROPERTY", !.cur_path = full]
  <2>1. /\ state'.cur_elem = "PROPERTY" /\ state'.cur_path = full /\ state'.list_property = list
        /\ state'.is_system_file = sys
        /\ state' = [is_system_file |-> state'.is_system_file, cur_elem |-> state'.cur_elem,
                     cur_path |-> state'.cur_path, list_property |-> state'.list_property]
    BY <1>5, <1>10
  <2>2. PICK b \in BOOLEAN : is_array' = Append(is_array, b) /\ (b => PassedOver(u, sys, full))
    BY <1>10
  <2>3. is_array' \in Seq(BOOLEAN) /\ Len(is_array') = Len(full)
    BY <1>5, <1>6, <2>2 DEF GoesDown
  <2>4. StateOK'
    BY <1>2, <1>7, <2>1, <2>3 DEF StateOK, full
  <2>5. list = <<>> \/ Innermost(u, sys, full, is_array', list)
    <3>1. OnlyAt(t, u, full) /\ (~sys => KeepsLocks(t, u))
      BY <1>3 DEF PropertyRead
    <3>2. QED
      BY <1>5, <1>6, <2>2, <3>1, StaysInnermost
  <2>6. ParserOK'
    BY <1>5, <1>8, <2>1, <2>5 DEF ParserOK
  <2>7. QED
    BY <1>4, <1>8, <1>10, <2>4, <2>6 DEF XmlInv, EtcOK
<1>11. CASE /\ pc' = "parsing" /\ ArrayAt(u, sys, full) /\ u[full] # Absent
            /\ IsValue(IF sys THEN u[full].system_value ELSE u[full].value)
            /\ is_array' = Append(is_array, TRUE)
            /\ state' = [state EXCEPT !.cur_elem = "PROPERTY", !.cur_path = full, !.list_property = full]
  <2>1. /\ state'.cur_elem = "PROPERTY" /\ state'.cur_path = full /\ state'.list_property = full
        /\ state'.is_system_file = sys
        /\ state' = [is_system_file |-> state'.is_system_file, cur_elem |-> state'.cur_elem,
                     cur_path |-> state'.cur_path, list_property |-> state'.list_property]
    BY <1>5, <1>11
  <2>2. StateOK'
    <3>1. is_array' \in Seq(BOOLEAN) /\ Len(is_array') = Len(full)
      BY <1>5, <1>6, <1>11 DEF GoesDown
    <3>2. QED
      BY <1>2, <1>7, <2>1, <3>1 DEF StateOK, full
  <2>3. Innermost(u, sys, full, is_array', full)
    <3>1. PICK n \in Nat : n = Len(full) /\ n >= 1
      BY <1>6 DEF GoesDown
    <3>2. n \in 1..Len(full) /\ full = SubSeq(full, 1, n)
      BY <1>6, <3>1 DEF GoesDown
    <3>3. (n + 1)..Len(full) = {}
      BY <3>1
    <3>4. is_array'[n]
      BY <1>5, <1>6, <1>11, <3>1 DEF GoesDown
    <3>5. QED
      BY <1>2, <1>11, <3>2, <3>3, <3>4 DEF Innermost, full
  <2>4. ParserOK'
    BY <1>5, <1>8, <2>1, <2>3 DEF ParserOK
  <2>5. QED
    BY <1>4, <1>8, <1>11, <2>2, <2>4 DEF XmlInv, EtcOK
<1>12. QED
  BY <1>3, <1>9, <1>10, <1>11 DEF PropertyRead

LEMMA ValueKeepsInv ==
    ASSUME NothingIsNoNode, XmlInv, HandleValue
    PROVE  XmlInv'
<1>1. UNCHANGED <<system_files, etc_group, node, written>>
  BY DEF HandleValue, disk, writer
<1>2. pc = "parsing" /\ state.cur_elem = "PROPERTY" /\ IsChannel(channel) /\ is_array' = is_array
  BY HandleValueAdds
<1>3. CASE pc' = "next_file" /\ state' = state /\ channel' = channel
  BY <1>1, <1>2, <1>3 DEF XmlInv, EtcOK, StateOK, ParserOK
<1>4. CASE /\ pc' = "parsing" /\ state' = [state EXCEPT !.cur_elem = "VALUE"]
           /\ \E u : /\ channel' = [channel EXCEPT !.properties = u]
                     /\ IsTree(u)
                     /\ Innermost(u, state.is_system_file, state.cur_path, is_array, state.list_property)
  <2>1. PICK u : /\ channel' = [channel EXCEPT !.properties = u]
                 /\ IsTree(u)
                 /\ Innermost(u, state.is_system_file, state.cur_path, is_array, state.list_property)
    BY <1>4
  <2>2. IsChannel(channel') /\ channel'.properties = u /\ channel'.locked = channel.locked
    BY <1>2, <2>1, OtherTree
  <2>3. /\ state'.cur_elem = "VALUE" /\ state'.cur_path = state.cur_path
        /\ state'.list_property = state.list_property /\ state'.is_system_file = state.is_system_file
        /\ state' = [is_system_file |-> state'.is_system_file, cur_elem |-> state'.cur_elem,
                     cur_path |-> state'.cur_path, list_property |-> state'.list_property]
    BY <1>4 DEF XmlInv, StateOK
  <2>4. StateOK'
    BY <1>2, <2>3 DEF XmlInv, StateOK
  <2>5. ParserOK'
    BY <1>2, <2>1, <2>2, <2>3 DEF XmlInv, ParserOK
  <2>6. QED
    BY <1>1, <1>4, <2>2, <2>4, <2>5 DEF XmlInv, EtcOK
<1>5. QED
  BY <1>3, <1>4, HandleValueAdds

LEMMA EndKeepsInv ==
    ASSUME XmlInv, EndElem
    PROVE  XmlInv'
<1>1. /\ pc = "parsing" /\ pc' = "parsing" /\ IsChannel(channel)
      /\ UNCHANGED <<system_files, etc_group, node, written, channel>>
  BY DEF EndElem, AtStart, Leave, Advance, disk, writer, XmlInv
<1>2. state' = CASE state.cur_elem = "CHANNEL" -> [state EXCEPT !.cur_elem = "NONE", !.cur_path = <<>>]
                  [] state.cur_elem = "VALUE" -> [state EXCEPT !.cur_elem = "PROPERTY"]
                  [] state.cur_elem = "PROPERTY" ->
                        [state EXCEPT !.list_property = <<>>, !.cur_path = Front(@),
                            !.cur_elem = IF Len(state.cur_path) = 1 THEN "CHANNEL" ELSE "PROPERTY"]
                  [] OTHER -> state
  BY DEF EndElem
<1>3. StateOK /\ ParserOK /\ (state.is_system_file \/ ~channel.locked)
  BY <1>1 DEF XmlInv, ParserOK
<1>4. is_array' = IF state.cur_elem = "PROPERTY" THEN Front(is_array) ELSE is_array
  BY DEF EndElem, Leave
<1> SUFFICES StateOK' /\ ParserOK'
  BY <1>1 DEF XmlInv, EtcOK
<1>5. CASE state.cur_elem = "NONE"
  <2>1. state' = state
    BY <1>2, <1>5
  <2>2. QED
    BY <1>1, <1>3, <1>5, <1>4, <2>1 DEF StateOK, ParserOK
<1>6. CASE state.cur_elem = "CHANNEL"
  <2>1. state.cur_path = <<>>
    BY <1>3, <1>6 DEF StateOK
  <2>2. state' = [state EXCEPT !.cur_elem = "NONE", !.cur_path = <<>>]
    BY <1>2, <1>6
  <2>3. /\ state'.cur_elem = "NONE" /\ state'.cur_path = state.cur_path
        /\ state'.list_property = state.list_property /\ state'.is_system_file = state.is_system_file
        /\ state' = [is_system_file |-> state'.is_system_file, cur_elem |-> state'.cur_elem,
                     cur_path |-> state'.cur_path, list_property |-> state'.list_property]
    BY <1>3, <2>1, <2>2 DEF StateOK
  <2>4. QED
    BY <1>1, <1>3, <1>6, <1>4, <2>1, <2>3 DEF StateOK, ParserOK
<1>7. CASE state.cur_elem = "VALUE"
  <2>1. state' = [state EXCEPT !.cur_elem = "PROPERTY"]
    BY <1>2, <1>7
  <2>2. /\ state'.cur_elem = "PROPERTY" /\ state'.cur_path = state.cur_path
        /\ state'.list_property = state.list_property /\ state'.is_system_file = state.is_system_file
        /\ state' = [is_system_file |-> state'.is_system_file, cur_elem |-> state'.cur_elem,
                     cur_path |-> state'.cur_path, list_property |-> state'.list_property]
    BY <1>3, <2>1 DEF StateOK
  <2>3. QED
    BY <1>1, <1>3, <1>7, <1>4, <2>2 DEF StateOK, ParserOK
<1>8. CASE state.cur_elem = "PROPERTY"
  <2>1. state.cur_path \in Prop
    BY <1>3, <1>8 DEF StateOK
  <2>2. state' = [state EXCEPT !.list_property = <<>>, !.cur_path = Front(@),
                      !.cur_elem = IF Len(state.cur_path) = 1 THEN "CHANNEL" ELSE "PROPERTY"]
    BY <1>2, <1>8
  <2>3. /\ state'.cur_elem = IF Len(state.cur_path) = 1 THEN "CHANNEL" ELSE "PROPERTY"
        /\ state'.cur_path = Front(state.cur_path)
        /\ state'.list_property = <<>> /\ state'.is_system_file = state.is_system_file
        /\ state' = [is_system_file |-> state'.is_system_file, cur_elem |-> state'.cur_elem,
                     cur_path |-> state'.cur_path, list_property |-> state'.list_property]
    BY <1>3, <2>2 DEF StateOK
  <2>4. /\ Len(state.cur_path) = 1 => state'.cur_path = <<>>
        /\ Len(state.cur_path) # 1 => state'.cur_path \in Prop /\ state'.cur_path # <<>>
    BY <2>1, <2>3, FrontIsProp, XmlPathAssumption
  <2>5. is_array' \in Seq(BOOLEAN) /\ Len(is_array') = Len(state'.cur_path)
    <3>1. PICK path : path = state.cur_path /\ path \in Seq(STRING) /\ path # <<>>
      BY <2>1, XmlPathAssumption
    <3>2. Len(path) \in Nat /\ Len(path) >= 1
      BY <3>1, EmptySeq
    <3>3. Len(SubSeq(path, 1, Len(path) - 1)) = Len(path) - 1
      BY <3>1, <3>2
    <3>4. is_array \in Seq(BOOLEAN) /\ Len(is_array) = Len(path)
      BY <1>3, <3>1 DEF StateOK
    <3>5. /\ SubSeq(is_array, 1, Len(is_array) - 1) \in Seq(BOOLEAN)
          /\ Len(SubSeq(is_array, 1, Len(is_array) - 1)) = Len(path) - 1
      BY <3>2, <3>4
    <3>6. QED
      BY <1>8, <1>4, <2>3, <3>1, <3>3, <3>5 DEF Front
  <2>6. StateOK'
    BY <2>3, <2>4, <2>5 DEF StateOK
  <2>7. ParserOK'
    BY <1>1, <1>3, <2>3 DEF ParserOK
  <2>8. QED
    BY <2>7, <2>6
<1>9. QED
  BY <1>3, <1>5, <1>6, <1>7, <1>8 DEF StateOK

\* The tree that clients and the writer leave.
LEMMA ChangedTree ==
    ASSUME NothingIsNoNode, NEW t, IsTree(t), NEW p \in Prop, NEW v
    PROVE  /\ IsTree(AddProperty(t, p, v, FALSE))
           /\ t[p] # Absent => IsTree([t EXCEPT ![p].value = v])
<1>1. IsTree(AddProperty(t, p, v, FALSE))
  BY AddNode
<1>2. ASSUME t[p] # Absent
      PROVE  IsTree([t EXCEPT ![p].value = v])
  <2>1. PICK w : w = [t EXCEPT ![p].value = v]
    OBVIOUS
  <2>2. Replaces(t, w, p, [value |-> v, system_value |-> t[p].system_value, locked |-> t[p].locked])
    BY <1>2, <2>1, ChangeNode
  <2>3. IsTree(w)
    BY <1>2, <2>2, PutNode DEF IsNode
  <2>4. QED
    BY <2>1, <2>3
<1>3. QED
  BY <1>1, <1>2

LEMMA ClientKeepsInv ==
    ASSUME NothingIsNoNode, XmlInv, Change
    PROVE  XmlInv'
<1> DEFINE t == channel.properties
<1>1. PICK p \in Prop : ResetProperty(p) \/ \E v \in GivenValue[p] : Set(p, v)
  BY DEF Change
<1>2. /\ pc = "idle" /\ pc' = "idle" /\ IsChannel(channel)
      /\ UNCHANGED <<system_files, etc_group, state, is_array, node, written>>
  BY <1>1 DEF ResetProperty, Set, MainLoop, disk, parser, writer, XmlInv
<1>3. ASSUME NEW u, IsTree(u), channel' = [channel EXCEPT !.properties = u, !.dirty = TRUE]
      PROVE  XmlInv'
  <2>1. IsChannel(channel')
    BY <1>2, <1>3 DEF IsChannel
  <2>2. QED
    BY <1>2, <2>1 DEF XmlInv, EtcOK, StateOK, ParserOK
<1>4. IsTree(t)
  BY <1>2 DEF IsChannel
<1>5. CASE ResetProperty(p)
  <2>1. PICK u : u = Reset(t, p)
    OBVIOUS
  <2>2. IsTree(u)
    BY <1>4, <1>5, <2>1, ResetLeavesTree DEF ResetProperty
  <2>3. channel' = [channel EXCEPT !.properties = u, !.dirty = TRUE]
    BY <1>5, <2>1 DEF ResetProperty
  <2>4. QED
    BY <1>3, <2>2, <2>3
<1>6. ASSUME NEW v, Set(p, v)
      PROVE  XmlInv'
  <2>1. PICK u : u = IF t[p] = Absent THEN AddProperty(t, p, v, FALSE) ELSE [t EXCEPT ![p].value = v]
    OBVIOUS
  <2>2. IsTree(u)
    BY <1>4, <2>1, ChangedTree
  <2>3. channel' = [channel EXCEPT !.dirty = TRUE, !.properties = u]
    BY <1>6, <2>1 DEF Set
  <2>4. channel' = [channel EXCEPT !.properties = u, !.dirty = TRUE]
    BY <2>3
  <2>5. QED
    BY <1>3, <2>2, <2>4
<1>7. QED
  BY <1>1, <1>5, <1>6

LEMMA WriterKeepsInv ==
    ASSUME NothingIsNoNode, XmlInv, FlushChannel \/ Write
    PROVE  XmlInv'
<1>1. /\ IsChannel(channel) /\ pc \in {"idle", "writing"} /\ pc' \in {"idle", "writing"}
      /\ UNCHANGED <<system_files, etc_group, state, is_array>>
  BY DEF FlushChannel, Write, WriteNode, CloseNode, FlushDone, FlushFails, MainLoop, disk, parser, XmlInv
<1>2. IsChannel(channel')
  <2>1. ASSUME NEW b, channel' = [channel EXCEPT !.dirty = b]
        PROVE  IsChannel(channel')
    BY <1>1, <2>1 DEF IsChannel
  <2>2. ASSUME NEW p \in Prop, WriteNode(p)
        PROVE  IsChannel(channel')
    <3> DEFINE t == channel.properties
    <3>1. t[p] # Absent /\ IsTree(t)
      BY <1>1, <2>2 DEF WriteNode, ChildrenToWrite, IsChannel
    <3>2. PICK u : u = [t EXCEPT ![p].value = Unset]
      OBVIOUS
    <3>3. IsTree(u)
      BY <3>1, <3>2, ChangedTree
    <3>4. channel' = channel \/ channel' = [channel EXCEPT !.properties = u]
      BY <2>2, <3>2 DEF WriteNode
    <3>5. QED
      BY <1>1, <3>3, <3>4, OtherTree
  <2>3. \/ channel' = channel \/ \E b : channel' = [channel EXCEPT !.dirty = b]
        \/ \E p \in Prop : WriteNode(p)
    BY DEF FlushChannel, Write, CloseNode, FlushDone, FlushFails
  <2>4. QED
    BY <1>1, <2>1, <2>2, <2>3
<1>3. node' \in Prop \cup {<<>>} /\ written' \subseteq Prop
  <2>1. node \in Prop \cup {<<>>} /\ written \subseteq Prop
    BY DEF XmlInv
  <2>2. CASE CloseNode
    <3>1. node \in Prop /\ node' = Front(node) /\ written' = written
      BY <2>1, <2>2 DEF CloseNode
    <3>2. QED
      BY <2>1, <3>1, FrontIsProp
  <2>3. CASE FlushChannel \/ (\E p \in Prop : WriteNode(p)) \/ FlushDone \/ FlushFails
    BY <2>1, <2>3 DEF FlushChannel, WriteNode, FlushDone, FlushFails
  <2>4. QED
    BY <2>2, <2>3 DEF Write
<1>4. QED
  BY <1>1, <1>2, <1>3 DEF XmlInv, EtcOK, StateOK, ParserOK

LEMMA OutsideKeepsInv ==
    ASSUME XmlInv, ResetChannel \/ Restart \/ EditGroups
    PROVE  XmlInv'
<1>1. /\ pc = "idle" /\ pc' = "idle" /\ channel' \in {channel, NotLoaded}
      /\ UNCHANGED <<state, is_array, node, written>>
  BY DEF ResetChannel, Restart, EditGroups, MainLoop, parser, writer
<1>2. EtcOK'
  <2>1. CASE ResetChannel \/ Restart
    BY <2>1 DEF ResetChannel, Restart, XmlInv, EtcOK
  <2>2. CASE EditGroups
    <3>1. PICK groups \in SUBSET Group :
             etc_group' = [groups |-> groups, mtime |-> etc_group.mtime + 1]
      BY <2>2 DEF EditGroups
    <3>2. /\ etc_group.mtime \in 1..MaxMtime /\ etc_group.mtime < MaxMtime
          /\ system_files' \in SystemConfigs
      BY <2>2 DEF EditGroups, XmlInv, EtcOK
    <3>3. \A m \in 1..MaxMtime : m < MaxMtime => m + 1 \in 1..MaxMtime
      BY MtimeAssumption
    <3>4. etc_group'.mtime \in 1..MaxMtime
      BY <3>1, <3>2, <3>3
    <3>5. QED
      BY <3>1, <3>2, <3>4 DEF EtcOK
  <2>3. QED
    BY <2>1, <2>2
<1>3. QED
  BY <1>1, <1>2 DEF XmlInv, StateOK, ParserOK

LEMMA NextXmlInv ==
    ASSUME NothingIsNoNode, XmlInv, [Next]_vars
    PROVE  XmlInv'
<1>1. CASE UNCHANGED vars
  BY <1>1 DEF vars, disk, parser, writer, XmlInv, EtcOK, StateOK, ParserOK
<1>2. CASE Next
  BY <1>2, LoadKeepsInv, FilesKeepInv, ChannelKeepsInv, PropertyKeepsInv, ValueKeepsInv, EndKeepsInv,
     ClientKeepsInv, WriterKeepsInv, OutsideKeepsInv DEF Next, Parse
<1>3. QED
  BY <1>1, <1>2

-----------------------------------------------------------------------------
(* The theorems.                                                           *)

LEMMA AlwaysXmlInv ==
    ASSUME NothingIsNoNode
    PROVE  Spec => []XmlInv
BY InitXmlInv, NextXmlInv, PTL DEF Spec

\* The channel of the parser, of the clients and of the writer is a tree whose
\* nodes have their parents, whatever the files hold (blconf_proptree_*).
THEOREM XmlFileTypes ==
    ASSUME NothingIsNoNode
    PROVE  Spec => []TypeOK
<1>1. XmlInv => TypeOK
  BY DEF XmlInv, TypeOK, EtcOK, StateOK, IsChannel, IsTree
<1>2. QED
  BY <1>1, AlwaysXmlInv, PTL

\* With its one list_property the parser finds the innermost array element that
\* is open and not passed over, for every file (blconf_xml_handle_property,
\* blconf_xml_handle_value).
THEOREM ItemsGoHome ==
    ASSUME NothingIsNoNode
    PROVE  Spec => []ValuesGoHome
<1>1. XmlInv => ValuesGoHome
  <2> DEFINE list == state.list_property
             path == state.cur_path
  <2>1. SUFFICES ASSUME XmlInv, AtStart("value"), ElementAllowed("value")
                 PROVE  /\ HoldsArray(list)
                        /\ \E k \in OpenArrays : /\ list = SubSeq(path, 1, k)
                                                  /\ \A j \in OpenArrays : j <= k
    BY DEF ValuesGoHome
  <2>2. Innermost(channel.properties, state.is_system_file, path, is_array, list)
    BY <2>1 DEF XmlInv, ParserOK, AtStart, ElementAllowed
  <2>3. ASSUME NEW p
        PROVE  SkipLocked(p) <=> PassedOver(channel.properties, state.is_system_file, p)
    BY DEF PassedOver, SkipLocked
  <2>4. HoldsArray(list) /\ ~SkipLocked(list)
    BY <2>2, <2>3 DEF Innermost, ArrayAt, HoldsArray, FileValue
  <2>5. PICK n \in Nat : n = Len(path) /\ n = Len(is_array) /\ DOMAIN is_array = 1..n
    BY <2>1 DEF XmlInv, StateOK
  <2>6. PICK k \in 1..n : /\ list = SubSeq(path, 1, k) /\ is_array[k]
                          /\ \A m \in (k + 1)..n : is_array[m] => SkipLocked(SubSeq(path, 1, m))
    BY <2>2, <2>3, <2>5 DEF Innermost
  <2>7. k \in OpenArrays
    BY <2>4, <2>5, <2>6 DEF OpenArrays
  <2>8. ASSUME NEW j \in OpenArrays
        PROVE  j <= k
    <3>1. j \in 1..n /\ is_array[j] /\ ~SkipLocked(SubSeq(path, 1, j))
      BY <2>5, <2>8 DEF OpenArrays
    <3>2. j \notin (k + 1)..n
      BY <2>6, <3>1
    <3>3. QED
      BY <3>1, <3>2
  <2>9. QED
    BY <2>4, <2>6, <2>7, <2>8
<1>2. QED
  BY <1>1, AlwaysXmlInv, PTL

\* Merging the user's file leaves every lock and every system default alone,
\* and a locked property as a whole (blconf_xml_handle_property).
THEOREM LocksBindTheUser ==
    ASSUME NothingIsNoNode
    PROVE  Spec => UserFileKeepsLocks
<1> DEFINE Keeps == pc = "parsing" /\ ~state.is_system_file => KeepsLocks(channel.properties, channel'.properties)
<1>1. ASSUME XmlInv, [Next]_vars
      PROVE  Keeps
  <2>1. SUFFICES ASSUME pc = "parsing", ~state.is_system_file
                 PROVE  KeepsLocks(channel.properties, channel'.properties)
    OBVIOUS
  <2>2. IsChannel(channel)
    BY <1>1, <2>1 DEF XmlInv
  <2>3. CASE channel' = channel
    BY <2>3 DEF KeepsLocks
  <2>4. CASE HandleProperty
    <3>1. PICK u : PropertyRead(state.is_system_file, channel.properties, u,
                                Append(state.cur_path, Head(input).name))
      BY <1>1, <2>4, HandlePropertyReads
    <3>2. QED
      BY <2>1, <2>2, <3>1, OtherTree DEF PropertyRead, OnlyAt
  <2>5. CASE HandleValue
    <3>1. CASE channel' = channel
      BY <2>3, <3>1
    <3>2. CASE \E u : /\ channel' = [channel EXCEPT !.properties = u]
                      /\ IsTree(u) /\ KeepsLocks(channel.properties, u)
      BY <2>2, <3>2, OtherTree
    <3>3. QED
      BY <1>1, <2>1, <2>5, <3>1, <3>2, HandleValueAdds
  <2>6. channel' = channel \/ HandleProperty \/ HandleValue
    BY <1>1, <2>1 DEF Next, vars, LoadChannel, Parse, MergeFile, RefuseElement, HandleChannel, EndElem,
       EndParse, Loaded, Change, ResetProperty, Set, FlushChannel, Write, WriteNode, CloseNode, FlushDone,
       FlushFails, ResetChannel, Restart, EditGroups, MainLoop
  <2>7. QED
    BY <2>3, <2>4, <2>5, <2>6
<1>2. Keeps => (pc = "parsing" /\ ~state.is_system_file =>
        \A p \in Prop : LET n == channel.properties[p]
                             n2 == channel'.properties[p]
                         IN  n # Absent => /\ n2 # Absent
                                           /\ n2.locked = n.locked /\ n2.system_value = n.system_value
                                           /\ n.locked => n2 = n)
  BY DEF KeepsLocks
<1>3. QED
  BY <1>1, <1>2, AlwaysXmlInv, PTL DEF Spec, UserFileKeepsLocks

=============================================================================
