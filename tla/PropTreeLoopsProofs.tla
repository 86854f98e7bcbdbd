------------------------ MODULE PropTreeLoopsProofs -------------------------
(***************************************************************************)
(* Theorems about the loops over GNodes: they implement the closed-form    *)
(* operations of PropTree, for every tree.                                 *)
(***************************************************************************)
EXTENDS PropTreeLoops, PropTreeProofs, SequenceTheorems, WellFoundedInduction

-----------------------------------------------------------------------------
(* Induction: every set of numbers that is not empty has a least one.      *)

LEMMA LeastNumber ==
    ASSUME NEW T \in SUBSET Nat, T # {}
    PROVE  \E n \in T : \A m \in T : n <= m
<1> DEFINE R == OpToRel(<, Nat)
<1>1. IsWellFoundedOn(R, Nat)
  BY NatLessThanWellFounded
<1>2. \A x, y \in Nat : <<y, x>> \in R <=> y < x
  BY DEF OpToRel
<1> HIDE DEF R
<1>3. \E n \in T : \A y \in T : ~ (<<y, n>> \in R)
  BY <1>1, WFMin
<1>4. \A n, y \in T : ~ (<<y, n>> \in R) => n <= y
  <2>1. \A x, y \in Nat : ~ (y < x) => x <= y
    OBVIOUS
  <2>2. QED
    BY <1>2, <2>1
<1>5. QED
  BY <1>3, <1>4

-----------------------------------------------------------------------------
(* Prefixes of a path.                                                     *)

Word == STRING \ {"/"}
Pre(p, k) == SubSeq(p, 1, k)

LEMMA PrefixOf ==
    ASSUME NEW p \in Seq(Word), NEW k \in 0..Len(p)
    PROVE  /\ Pre(p, k) \in Seq(Word) /\ Len(Pre(p, k)) = k
           /\ \A j \in 1..k : Pre(p, k)[j] = p[j]
BY SubSeqProperties DEF Pre

LEMMA WholeAndEmpty ==
    ASSUME NEW p \in Seq(Word)
    PROVE  Pre(p, Len(p)) = p /\ Pre(p, 0) = <<>>
<1>1. Pre(p, Len(p)) = p
  BY SubSeqFull DEF Pre
<1>2. Pre(p, 0) = <<>>
  BY SubSeqEmpty DEF Pre
<1>3. QED
  BY <1>1, <1>2

\* Two paths of the same length with the same components are the same.
LEMMA SamePath ==
    ASSUME NEW p \in Seq(Word), NEW q \in Seq(Word), Len(p) = Len(q),
           \A j \in 1..Len(p) : p[j] = q[j]
    PROVE  p = q
BY SeqEqual

LEMMA PrefixOfPrefix ==
    ASSUME NEW p \in Seq(Word), NEW k \in 0..Len(p), NEW j \in 0..k
    PROVE  Pre(Pre(p, k), j) = Pre(p, j)
<1>1. Pre(p, k) \in Seq(Word) /\ Len(Pre(p, k)) = k /\ j \in 0..Len(p)
  BY PrefixOf
<1>2. /\ Pre(Pre(p, k), j) \in Seq(Word) /\ Len(Pre(Pre(p, k), j)) = j
      /\ Pre(p, j) \in Seq(Word) /\ Len(Pre(p, j)) = j
  BY <1>1, PrefixOf
<1>3. \A i \in 1..j : Pre(Pre(p, k), j)[i] = Pre(p, j)[i]
  BY <1>1, PrefixOf
<1>4. QED
  BY <1>2, <1>3, SamePath

LEMMA OneMore ==
    ASSUME NEW p \in Seq(Word), NEW k \in 1..Len(p)
    PROVE  Pre(p, k) = Append(Pre(p, k - 1), p[k]) /\ p[k] \in Word
<1>1. p[k] \in Word
  BY ElementOfSeq
<1>2. k - 1 \in 0..Len(p)
  OBVIOUS
<1>3. /\ Pre(p, k) \in Seq(Word) /\ Len(Pre(p, k)) = k
      /\ \A j \in 1..k : Pre(p, k)[j] = p[j]
  BY PrefixOf
<1>4. /\ Pre(p, k - 1) \in Seq(Word) /\ Len(Pre(p, k - 1)) = k - 1
      /\ \A j \in 1..(k - 1) : Pre(p, k - 1)[j] = p[j]
  BY <1>2, PrefixOf
<1>5. /\ Append(Pre(p, k - 1), p[k]) \in Seq(Word)
      /\ Len(Append(Pre(p, k - 1), p[k])) = k
      /\ \A j \in 1..(k - 1) : Append(Pre(p, k - 1), p[k])[j] = p[j]
      /\ Append(Pre(p, k - 1), p[k])[k] = p[k]
  BY <1>1, <1>4, AppendProperties
<1>6. QED
  BY <1>1, <1>3, <1>5, SamePath

LEMMA Appended ==
    ASSUME NEW p \in Seq(Word), NEW x \in Word
    PROVE  LET q == Append(p, x) IN
           /\ q \in Seq(Word) /\ Len(q) = Len(p) + 1 /\ q[Len(q)] = x
           /\ \A k \in 0..Len(p) : Pre(q, k) = Pre(p, k)
           /\ Pre(q, Len(p)) = p
<1> DEFINE q == Append(p, x)
<1>1. /\ q \in Seq(Word) /\ Len(q) = Len(p) + 1 /\ q[Len(q)] = x
      /\ \A j \in 1..Len(p) : q[j] = p[j]
  BY AppendProperties
<1>2. ASSUME NEW k \in 0..Len(p)
      PROVE  Pre(q, k) = Pre(p, k)
  <2>1. k \in 0..Len(q)
    BY <1>1
  <2>2. /\ Pre(q, k) \in Seq(Word) /\ Len(Pre(q, k)) = k
        /\ \A j \in 1..k : Pre(q, k)[j] = q[j]
    BY <1>1, <2>1, PrefixOf
  <2>3. /\ Pre(p, k) \in Seq(Word) /\ Len(Pre(p, k)) = k
        /\ \A j \in 1..k : Pre(p, k)[j] = p[j]
    BY PrefixOf
  <2>4. \A j \in 1..k : q[j] = p[j]
    BY <1>1
  <2>5. QED
    BY <2>2, <2>3, <2>4, SamePath
<1>3. Pre(q, Len(p)) = p
  BY <1>2, WholeAndEmpty
<1>4. QED
  BY <1>1, <1>2, <1>3

LEMMA PathsAreWords ==
    ASSUME NEW p \in Prop
    PROVE  /\ p \in Seq(Word) /\ Len(p) \in Nat \ {0}
           /\ \A k \in 1..Len(p) : Pre(p, k) \in Prop
           /\ Above[p] = {Pre(p, k) : k \in 1..(Len(p) - 1)}
<1>1. p \in Seq(Word) /\ p # <<>>
  BY LoopAssumption DEF Word
<1>2. Len(p) \in Nat \ {0}
  BY <1>1, EmptySeq, LenProperties
<1>3. Above[p] = {Pre(p, k) : k \in 1..(Len(p) - 1)}
  BY LoopAssumption DEF Pre
<1>4. \A k \in 1..(Len(p) - 1) : Pre(p, k) \in Prop
  BY <1>3, PathAssumption
<1>5. Pre(p, Len(p)) = p
  BY <1>1, WholeAndEmpty
<1>6. \A k \in 1..Len(p) : k = Len(p) \/ k \in 1..(Len(p) - 1)
  BY <1>2
<1>7. QED
  BY <1>1, <1>2, <1>3, <1>4, <1>5, <1>6

-----------------------------------------------------------------------------
(* What GNodes make a tree of paths: h are the nodes, and pth is the path  *)
(* of each.                                                                *)

Shape(h, pth) ==
    /\ h = [n \in DOMAIN h |-> h[n]]
    /\ DOMAIN h \subseteq GNode
    /\ Root \in DOMAIN h /\ h[Root] = NewNode(NULL, "/", Branch)
    /\ pth[Root] = <<>>
    /\ \A n \in DOMAIN h : h[n] = NewNode(h[n].parent, h[n].name, Data(h[n]))
    /\ \A n \in DOMAIN h : Data(h[n]) \in Node
    /\ \A n \in DOMAIN h \ {Root} :
          /\ h[n].parent \in DOMAIN h /\ h[n].name \in Word
          /\ pth[n] \in Prop /\ pth[n] = Append(pth[h[n].parent], h[n].name)
    /\ \A m, n \in DOMAIN h : pth[m] = pth[n] => m = n

LEMMA PathsOfNodes ==
    ASSUME NEW h, NEW pth, Shape(h, pth), NEW n \in DOMAIN h
    PROVE  /\ pth[n] \in Seq(Word)
           /\ n # Root <=> Len(pth[n]) > 0
           /\ n # Root <=> pth[n] \in Prop
           /\ n # Root <=> h[n].parent # NULL
           /\ n # Root => LET up == h[n].parent IN
                          /\ Len(pth[up]) = Len(pth[n]) - 1
                          /\ pth[up] = Pre(pth[n], Len(pth[n]) - 1)
                          /\ h[n].name = pth[n][Len(pth[n])]
<1>1. CASE n = Root
  <2>1. pth[n] = <<>> /\ h[n].parent = NULL
    BY <1>1 DEF Shape, NewNode
  <2>2. <<>> \in Seq(Word) /\ Len(<<>>) = 0
    BY EmptySeq
  <2>3. <<>> \notin Prop
    BY LoopAssumption
  <2>4. QED
    BY <1>1, <2>1, <2>2, <2>3
<1>2. CASE n # Root
  <2> DEFINE up == h[n].parent
  <2>1. /\ up \in DOMAIN h /\ h[n].name \in Word
        /\ pth[n] \in Prop /\ pth[n] = Append(pth[up], h[n].name)
    BY <1>2 DEF Shape
  <2>2. up # NULL
    BY <2>1, LoopAssumption DEF Shape
  <2>3. pth[up] \in Seq(Word)
    <3>1. CASE up = Root
      <4>1. pth[up] = <<>>
        BY <3>1 DEF Shape
      <4>2. <<>> \in Seq(Word)
        OBVIOUS
      <4>3. QED
        BY <4>1, <4>2
    <3>2. CASE up # Root
      BY <2>1, <3>2, PathsAreWords DEF Shape
    <3>3. QED
      BY <3>1, <3>2
  <2>4. pth[n] \in Seq(Word) /\ Len(pth[n]) \in Nat \ {0}
    BY <2>1, PathsAreWords
  <2>5. /\ Len(pth[n]) = Len(pth[up]) + 1 /\ pth[n][Len(pth[n])] = h[n].name
        /\ Pre(pth[n], Len(pth[up])) = pth[up]
    BY <2>1, <2>3, Appended
  <2>6. Len(pth[up]) \in Nat
    BY <2>3, LenProperties
  <2>7. Len(pth[up]) = Len(pth[n]) - 1
    BY <2>4, <2>5, <2>6
  <2>8. QED
    BY <1>2, <2>1, <2>2, <2>4, <2>5, <2>7
<1>3. QED
  BY <1>1, <1>2

\* All paths above a node are those of nodes.
LEMMA NodesAbove ==
    ASSUME NEW h, NEW pth, Shape(h, pth), NEW n \in DOMAIN h, NEW k \in 0..Len(pth[n])
    PROVE  \E m \in DOMAIN h : pth[m] = Pre(pth[n], k)
<1> DEFINE Short(m) == Len(pth[m]) >= k /\ Pre(pth[m], k) = Pre(pth[n], k)
           T == {Len(pth[m]) : m \in {m \in DOMAIN h : Short(m)}}
<1>1. \A m \in DOMAIN h : pth[m] \in Seq(Word) /\ Len(pth[m]) \in Nat
  BY PathsOfNodes, LenProperties
<1>2. Len(pth[n]) \in T
  BY <1>1
<1>3. T \in SUBSET Nat /\ T # {}
  BY <1>1, <1>2
<1>4. PICK l \in T : \A j \in T : l <= j
  <2> HIDE DEF T
  <2>1. QED
    BY <1>3, LeastNumber
<1>5. PICK m \in DOMAIN h : l = Len(pth[m]) /\ Short(m)
  BY <1>4
<1>6. Len(pth[m]) = k
  <2> SUFFICES ASSUME Len(pth[m]) > k
               PROVE  FALSE
    BY <1>1, <1>5
  <2>1. m # Root
    BY <1>1, PathsOfNodes
  <2> DEFINE up == h[m].parent
  <2>2. up \in DOMAIN h
    BY <2>1 DEF Shape
  <2>3. Len(pth[up]) = Len(pth[m]) - 1 /\ pth[up] = Pre(pth[m], Len(pth[m]) - 1)
    BY <2>1, PathsOfNodes
  <2>4. Len(pth[m]) \in Nat /\ Len(pth[m]) - 1 \in 0..Len(pth[m]) /\ k \in 0..(Len(pth[m]) - 1)
    BY <1>1
  <2>5. Pre(pth[up], k) = Pre(pth[m], k)
    BY <1>1, <2>3, <2>4, PrefixOfPrefix
  <2>6. Short(up)
    BY <1>5, <2>3, <2>4, <2>5
  <2>7. Len(pth[up]) \in T
    BY <2>2, <2>6
  <2> HIDE DEF T, Short, up
  <2>8. l <= Len(pth[up])
    BY <1>4, <2>7
  <2>9. QED
    BY <1>5, <2>3, <2>4, <2>8
<1>7. pth[m] = Pre(pth[n], k)
  BY <1>1, <1>5, <1>6, WholeAndEmpty
<1>8. QED
  BY <1>7

-----------------------------------------------------------------------------
(* The recursive functions.                                                *)

\* The children of a node have different names.
LEMMA ChildIs ==
    ASSUME NEW h, NEW pth, Shape(h, pth), NEW n \in DOMAIN h, NEW name \in Word
    PROVE  LET c == ChildNamed(h, n, name) IN
           /\ c # NULL => c \in DOMAIN h \ {Root} /\ pth[c] = Append(pth[n], name)
           /\ \A m \in DOMAIN h : pth[m] = Append(pth[n], name) => c = m
<1> DEFINE named == {c \in Children(h, n) : h[c].name = name}
           c == ChildNamed(h, n, name)
<1>1. \A m \in DOMAIN h : m # NULL
  BY LoopAssumption DEF Shape
<1>2. ASSUME NEW m \in named
      PROVE  m \in DOMAIN h \ {Root} /\ pth[m] = Append(pth[n], name)
  <2>1. m \in DOMAIN h /\ h[m].parent = n /\ h[m].name = name
    BY DEF Children
  <2>2. m # Root
    BY <1>1, <2>1 DEF Shape, NewNode
  <2>3. QED
    BY <2>1, <2>2 DEF Shape
<1>3. ASSUME NEW m \in DOMAIN h, pth[m] = Append(pth[n], name)
      PROVE  m \in named
  <2>1. pth[n] \in Seq(Word)
    BY PathsOfNodes
  <2>2. Len(pth[m]) = Len(pth[n]) + 1 /\ pth[m][Len(pth[m])] = name /\ Pre(pth[m], Len(pth[n])) = pth[n]
    BY <1>3, <2>1, Appended
  <2>3. Len(pth[n]) \in Nat
    BY <2>1, LenProperties
  <2>4. m # Root
    BY <2>2, <2>3, PathsOfNodes
  <2>5. pth[h[m].parent] = pth[n] /\ h[m].name = name
    BY <2>2, <2>3, <2>4, PathsOfNodes
  <2>6. h[m].parent = n
    BY <2>4, <2>5 DEF Shape
  <2>7. QED
    BY <2>5, <2>6 DEF Children
<1>4. c # NULL => c \in named
  BY DEF ChildNamed
<1>5. named # {} => c \in named
  BY DEF ChildNamed
<1>6. ASSUME NEW m1 \in named, NEW m2 \in named
      PROVE  m1 = m2
  <2>1. m1 \in DOMAIN h /\ m2 \in DOMAIN h /\ pth[m1] = pth[m2]
    BY <1>2
  <2>2. QED
    BY <2>1 DEF Shape
<1> HIDE DEF named, c
<1>7. QED
  BY <1>2, <1>3, <1>4, <1>5, <1>6 DEF c

\* Where the lookup of a path ends, by the paths of the nodes.
NodeAt(h, pth, p) ==
    IF \E n \in DOMAIN h : pth[n] = p THEN CHOOSE n \in DOMAIN h : pth[n] = p ELSE NULL

LEMMA NodeAtIs ==
    ASSUME NEW h, NEW pth, Shape(h, pth), NEW p
    PROVE  /\ \A n \in DOMAIN h : pth[n] = p => NodeAt(h, pth, p) = n
           /\ NodeAt(h, pth, p) # NULL =>
                 NodeAt(h, pth, p) \in DOMAIN h /\ pth[NodeAt(h, pth, p)] = p
BY DEF NodeAt, Shape

\* The lookup, component by component, finds the node of a path.
LEMMA LookupIs ==
    ASSUME NEW h, NEW pth, Shape(h, pth), NEW p \in Seq(Word)
    PROVE  LookupNode(h, p) = NodeAt(h, pth, p)
<1> DEFINE Walk(f) == f = [i \in 0..Len(p) |->
               IF i = 0 THEN Root
               ELSE IF f[i - 1] = NULL THEN NULL ELSE ChildNamed(h, f[i - 1], p[i])]
           w == [i \in 0..Len(p) |-> NodeAt(h, pth, Pre(p, i))]
           f == CHOOSE g : Walk(g)
<1>1. Len(p) \in Nat /\ \A i \in 0..Len(p) : Pre(p, i) \in Seq(Word) /\ Len(Pre(p, i)) = i
  BY PrefixOf, LenProperties
<1>2. NodeAt(h, pth, Pre(p, 0)) = Root
  <2>1. Pre(p, 0) = pth[Root] /\ Root \in DOMAIN h
    BY WholeAndEmpty DEF Shape
  <2>2. QED
    BY <2>1, NodeAtIs
<1>3. ASSUME NEW i \in 1..Len(p)
      PROVE  NodeAt(h, pth, Pre(p, i)) =
                IF NodeAt(h, pth, Pre(p, i - 1)) = NULL THEN NULL
                ELSE ChildNamed(h, NodeAt(h, pth, Pre(p, i - 1)), p[i])
  <2> DEFINE n == NodeAt(h, pth, Pre(p, i))
             up == NodeAt(h, pth, Pre(p, i - 1))
  <2>1. Pre(p, i) = Append(Pre(p, i - 1), p[i]) /\ p[i] \in Word
    BY OneMore
  <2>2. n # NULL => n \in DOMAIN h /\ pth[n] = Pre(p, i)
    BY NodeAtIs
  <2>3. up # NULL => up \in DOMAIN h /\ pth[up] = Pre(p, i - 1)
    BY NodeAtIs
  <2>4. CASE up = NULL
    <3>1. SUFFICES ASSUME n # NULL PROVE FALSE
      BY <2>4
    <3>2. n # Root
      BY <1>1, <2>2, <3>1, PathsOfNodes
    <3>3. h[n].parent \in DOMAIN h /\ pth[h[n].parent] = Pre(Pre(p, i), i - 1)
      <4>1. n \in DOMAIN h /\ pth[n] = Pre(p, i) /\ Len(Pre(p, i)) = i
        BY <1>1, <2>2, <3>1
      <4>2. pth[h[n].parent] = Pre(pth[n], Len(pth[n]) - 1)
        BY <4>1, <3>2, PathsOfNodes
      <4>3. h[n].parent \in DOMAIN h
        BY <4>1, <3>2 DEF Shape
      <4>4. QED
        BY <4>1, <4>2, <4>3
    <3>4. Pre(Pre(p, i), i - 1) = Pre(p, i - 1)
      BY PrefixOfPrefix
    <3>5. up = h[n].parent
      BY <3>3, <3>4, NodeAtIs
    <3>6. QED
      BY <2>4, <3>3, <3>5, LoopAssumption DEF Shape
  <2>5. CASE up # NULL
    <3> DEFINE c == ChildNamed(h, up, p[i])
    <3>1. /\ c # NULL => c \in DOMAIN h \ {Root} /\ pth[c] = Append(pth[up], p[i])
          /\ \A m \in DOMAIN h : pth[m] = Append(pth[up], p[i]) => c = m
      BY <2>1, <2>3, <2>5, ChildIs
    <3>2. c # NULL => n = c
      <4>1. SUFFICES ASSUME c # NULL PROVE n = c
        OBVIOUS
      <4>2. c \in DOMAIN h /\ pth[c] = Pre(p, i)
        BY <2>1, <2>3, <2>5, <3>1, <4>1
      <4>3. QED
        BY <4>2, NodeAtIs
    <3>3. n # NULL => n = c
      BY <2>1, <2>2, <2>3, <2>5, <3>1
    <3>4. n = c
      BY <3>2, <3>3
    <3>5. QED
      BY <2>5, <3>4
  <2>6. QED
    BY <2>4, <2>5
<1> HIDE DEF NodeAt
<1>4. Walk(w)
  <2> SUFFICES ASSUME NEW i \in 0..Len(p)
               PROVE  w[i] = IF i = 0 THEN Root
                             ELSE IF w[i - 1] = NULL THEN NULL ELSE ChildNamed(h, w[i - 1], p[i])
    OBVIOUS
  <2>1. CASE i = 0
    BY <1>2, <2>1
  <2>2. CASE i # 0
    <3>1. i \in 1..Len(p) /\ i - 1 \in 0..Len(p)
      BY <1>1, <2>2
    <3>2. w[i] = NodeAt(h, pth, Pre(p, i)) /\ w[i - 1] = NodeAt(h, pth, Pre(p, i - 1))
      BY <3>1
    <3>3. QED
      BY <1>3, <2>2, <3>1, <3>2
  <2>3. QED
    BY <2>1, <2>2
<1>5. Walk(f)
  <2>1. \E g : Walk(g)
    BY <1>4
  <2> HIDE DEF Walk
  <2>2. QED
    BY <2>1
<1>6. \A i \in 0..Len(p) : f[i] = w[i]
  <2> DEFINE T == {i \in 0..Len(p) : f[i] # w[i]}
  <2> SUFFICES ASSUME T # {}
               PROVE  FALSE
    OBVIOUS
  <2> HIDE DEF f, w
  <2>1. PICK i \in T : \A j \in T : i <= j
    <3>1. T \in SUBSET Nat
      BY <1>1
    <3> HIDE DEF T
    <3>2. QED
      BY <3>1, LeastNumber
  <2>2. f[0] = Root /\ w[0] = Root
    BY <1>1, <1>4, <1>5
  <2>3. i \in 1..Len(p) /\ i - 1 \in 0..Len(p) /\ i - 1 \notin T
    <3>1. i \in 0..Len(p) /\ f[i] # w[i]
      BY <2>1
    <3>2. i # 0
      BY <2>2, <3>1
    <3>3. i \in 1..Len(p) /\ i - 1 \in 0..Len(p)
      BY <1>1, <3>1, <3>2
    <3>4. i - 1 \notin T
      <4> HIDE DEF T
      <4>1. QED
        BY <2>1, <3>3
    <3>5. QED
      BY <3>3, <3>4
  <2>4. f[i - 1] = w[i - 1]
    BY <2>3
  <2>5. /\ f[i] = (IF f[i - 1] = NULL THEN NULL ELSE ChildNamed(h, f[i - 1], p[i]))
        /\ w[i] = (IF w[i - 1] = NULL THEN NULL ELSE ChildNamed(h, w[i - 1], p[i]))
    BY <1>4, <1>5, <2>3
  <2>6. QED
    BY <2>1, <2>4, <2>5
<1>7. LookupNode(h, p) = f[Len(p)]
  BY DEF LookupNode
<1>8. w[Len(p)] = NodeAt(h, pth, p)
  BY <1>1, WholeAndEmpty
<1>9. QED
  BY <1>1, <1>6, <1>7, <1>8

-----------------------------------------------------------------------------
(* The functions that climb from a node to the root.                       *)

\* What holds of the root, and of a node if it does of its parent, holds of
\* every node.
LEMMA FromTheRoot ==
    ASSUME NEW h, NEW pth, Shape(h, pth), NEW S, Root \in S,
           \A n \in DOMAIN h \ {Root} : h[n].parent \in S => n \in S
    PROVE  DOMAIN h \subseteq S
<1> DEFINE T == {Len(pth[n]) : n \in DOMAIN h \ S}
<1>1. \A n \in DOMAIN h : Len(pth[n]) \in Nat
  BY PathsOfNodes, LenProperties
<1> SUFFICES ASSUME T # {}
             PROVE  FALSE
  OBVIOUS
<1>2. PICK l \in T : \A j \in T : l <= j
  <2>1. T \in SUBSET Nat
    BY <1>1
  <2> HIDE DEF T
  <2>2. QED
    BY <2>1, LeastNumber
<1>3. PICK n \in DOMAIN h \ S : l = Len(pth[n])
  BY <1>2
<1>4. n # Root
  BY <1>3
<1>5. h[n].parent \in DOMAIN h \ S
  BY <1>3, <1>4 DEF Shape
<1>6. Len(pth[h[n].parent]) \in T /\ Len(pth[h[n].parent]) = Len(pth[n]) - 1
  BY <1>3, <1>4, <1>5, PathsOfNodes
<1>7. QED
  BY <1>1, <1>2, <1>3, <1>6

LEMMA RootHasNoParent ==
    ASSUME NEW h, NEW pth, Shape(h, pth)
    PROVE  /\ h[Root].parent = NULL /\ h[Root].name = "/" /\ pth[Root] = <<>>
           /\ \A n \in DOMAIN h \ {Root} : h[n].parent \in DOMAIN h /\ h[n].parent # NULL
BY LoopAssumption DEF Shape, NewNode

\* FullName is the path of every node.
LEMMA FullNameIs ==
    ASSUME NEW h, NEW pth, Shape(h, pth)
    PROVE  FullName(h) = [n \in DOMAIN h |-> pth[n]]
<1> DEFINE Is(g) == g = [n \in DOMAIN h |->
               IF h[n].parent = NULL THEN <<>> ELSE Append(g[h[n].parent], h[n].name)]
           f == CHOOSE g : Is(g)
           w == [n \in DOMAIN h |-> pth[n]]
<1>1. Is(w)
  <2>1. \A n \in DOMAIN h :
           pth[n] = IF h[n].parent = NULL THEN <<>> ELSE Append(pth[h[n].parent], h[n].name)
    BY RootHasNoParent DEF Shape
  <2>2. \A n \in DOMAIN h : h[n].parent # NULL => w[h[n].parent] = pth[h[n].parent]
    BY RootHasNoParent
  <2>3. QED
    BY <2>1, <2>2
<1>2. Is(f)
  <2>1. \E g : Is(g)
    BY <1>1
  <2> HIDE DEF Is
  <2>2. QED
    BY <2>1
<1> HIDE DEF f
<1>3. \A n \in DOMAIN h :
         f[n] = IF h[n].parent = NULL THEN <<>> ELSE Append(f[h[n].parent], h[n].name)
  BY <1>2
<1> DEFINE S == {n \in DOMAIN h : f[n] = pth[n]}
<1>4. Root \in S
  BY <1>3, RootHasNoParent DEF Shape
<1>5. ASSUME NEW n \in DOMAIN h \ {Root}, h[n].parent \in S
      PROVE  n \in S
  <2>1. h[n].parent \in DOMAIN h /\ f[h[n].parent] = pth[h[n].parent]
    BY <1>5
  <2>2. f[n] = Append(f[h[n].parent], h[n].name)
    BY <1>3, RootHasNoParent
  <2>3. pth[n] = Append(pth[h[n].parent], h[n].name)
    BY DEF Shape
  <2>4. QED
    BY <2>1, <2>2, <2>3
<1>6. DOMAIN h \subseteq S
  <2> HIDE DEF S
  <2>1. QED
    BY <1>4, <1>5, FromTheRoot
<1>7. f = w
  <2>1. f = [n \in DOMAIN h |-> f[n]]
    BY <1>2
  <2>2. QED
    BY <2>1, <1>6
<1>8. FullName(h) = f
  BY DEF FullName, f
<1>9. QED
  BY <1>7, <1>8

\* q is p or leads to it.
Leads(q, p) == Len(q) <= Len(p) /\ Pre(p, Len(q)) = q

LEMMA LeadsOneMore ==
    ASSUME NEW p \in Seq(Word), NEW x \in Word, NEW q \in Seq(Word)
    PROVE  Leads(q, Append(p, x)) <=> q = Append(p, x) \/ Leads(q, p)
<1> DEFINE r == Append(p, x)
<1>1. /\ r \in Seq(Word) /\ Len(r) = Len(p) + 1
      /\ \A k \in 0..Len(p) : Pre(r, k) = Pre(p, k)
  BY Appended
<1>2. Pre(r, Len(r)) = r
  BY <1>1, WholeAndEmpty
<1>3. Len(p) \in Nat /\ Len(q) \in Nat
  BY LenProperties
<1>4. Len(q) <= Len(p) => Pre(r, Len(q)) = Pre(p, Len(q))
  BY <1>1, <1>3
<1>5. Len(q) <= Len(r) <=> Len(q) <= Len(p) \/ Len(q) = Len(r)
  BY <1>1, <1>3
<1> HIDE DEF r
<1>6. QED
  BY <1>1, <1>2, <1>3, <1>4, <1>5 DEF Leads, r

LEMMA LeadsToEmpty ==
    ASSUME NEW q \in Seq(Word)
    PROVE  Leads(q, <<>>) <=> q = <<>>
<1>1. Len(<<>>) = 0 /\ Len(q) \in Nat
  BY LenProperties
<1>2. Pre(<<>>, 0) = <<>>
  BY DEF Pre
<1>3. Len(q) = 0 => q = <<>>
  BY EmptySeq
<1>4. QED
  BY <1>1, <1>2, <1>3 DEF Leads

\* Upward gives the nodes whose paths lead to that of the node.
LEMMA UpwardIs ==
    ASSUME NEW h, NEW pth, Shape(h, pth), NEW n \in DOMAIN h
    PROVE  Upward(h)[n] = {m \in DOMAIN h : Leads(pth[m], pth[n])}
<1> DEFINE Is(g) == g = [k \in DOMAIN h |->
               IF h[k].parent = NULL THEN {k} ELSE {k} \cup g[h[k].parent]]
           f == CHOOSE g : Is(g)
           w == [k \in DOMAIN h |-> {m \in DOMAIN h : Leads(pth[m], pth[k])}]
<1>1. \A k \in DOMAIN h : pth[k] \in Seq(Word)
  BY PathsOfNodes
<1>2. w[Root] = {Root}
  BY <1>1, LeadsToEmpty DEF Shape
<1>3. ASSUME NEW k \in DOMAIN h \ {Root}
      PROVE  w[k] = {k} \cup w[h[k].parent]
  <2> DEFINE up == h[k].parent
  <2>1. up \in DOMAIN h /\ h[k].name \in Word /\ pth[k] = Append(pth[up], h[k].name)
    BY DEF Shape
  <2>2. \A m \in DOMAIN h : Leads(pth[m], pth[k]) <=> pth[m] = pth[k] \/ Leads(pth[m], pth[up])
    <3> HIDE DEF up
    <3>1. QED
      BY <1>1, <2>1, LeadsOneMore
  <2>3. \A m \in DOMAIN h : pth[m] = pth[k] <=> m = k
    BY DEF Shape
  <2>4. QED
    BY <2>1, <2>2, <2>3
<1>4. Is(w)
  <2> HIDE DEF w
  <2>1. \A k \in DOMAIN h : w[k] = IF h[k].parent = NULL THEN {k} ELSE {k} \cup w[h[k].parent]
    BY <1>2, <1>3, RootHasNoParent
  <2>2. w = [k \in DOMAIN h |-> w[k]]
    BY DEF w
  <2>3. QED
    BY <2>1, <2>2
<1>5. Is(f)
  <2>1. \E g : Is(g)
    BY <1>4
  <2> HIDE DEF Is
  <2>2. QED
    BY <2>1
<1> HIDE DEF f, w
<1>6. \A k \in DOMAIN h :
         /\ f[k] = IF h[k].parent = NULL THEN {k} ELSE {k} \cup f[h[k].parent]
         /\ w[k] = IF h[k].parent = NULL THEN {k} ELSE {k} \cup w[h[k].parent]
  BY <1>4, <1>5
<1> DEFINE S == {k \in DOMAIN h : f[k] = w[k]}
<1>7. Root \in S
  <2>1. Root \in DOMAIN h
    BY DEF Shape
  <2>2. f[Root] = {Root} /\ w[Root] = {Root}
    BY <1>6, <2>1, RootHasNoParent
  <2>3. QED
    BY <2>1, <2>2
<1>8. ASSUME NEW k \in DOMAIN h \ {Root}, h[k].parent \in S
      PROVE  k \in S
  <2>1. f[h[k].parent] = w[h[k].parent]
    BY <1>8
  <2>2. h[k].parent # NULL
    BY RootHasNoParent
  <2>3. f[k] = {k} \cup f[h[k].parent] /\ w[k] = {k} \cup w[h[k].parent]
    BY <1>6, <2>2
  <2>4. QED
    BY <2>1, <2>3
<1>9. DOMAIN h \subseteq S
  <2> HIDE DEF S
  <2>1. QED
    BY <1>7, <1>8, FromTheRoot
<1>10. Upward(h) = f
  BY DEF Upward, f
<1>11. QED
  BY <1>9, <1>10 DEF w

\* What build_propname makes of a path, component by component.
LastShort(p) == Max({0} \cup {i \in 1..Len(p) : p[i] \in ShortNames})

LEMMA LastShortIs ==
    ASSUME NEW p \in Seq(Word), NEW m \in {0} \cup {i \in 1..Len(p) : p[i] \in ShortNames},
           \A i \in 1..Len(p) : p[i] \in ShortNames => i <= m
    PROVE  LastShort(p) = m
<1> DEFINE T == {0} \cup {i \in 1..Len(p) : p[i] \in ShortNames}
<1>1. Len(p) \in Nat
  BY LenProperties
<1>2. T \subseteq Nat /\ m \in T /\ \A y \in T : m >= y
  BY <1>1
<1> HIDE DEF T
<1>3. \A x \in T : (\A y \in T : x >= y) => x = m
  BY <1>2
<1>4. Max(T) = m
  BY <1>2, <1>3 DEF Max
<1>5. QED
  BY <1>4 DEF LastShort, T

LEMMA LastShortExists ==
    ASSUME NEW p \in Seq(Word)
    PROVE  \E m \in {0} \cup {i \in 1..Len(p) : p[i] \in ShortNames} :
              \A i \in 1..Len(p) : p[i] \in ShortNames => i <= m
<1> DEFINE T == {0} \cup {i \in 1..Len(p) : p[i] \in ShortNames}
           U == {Len(p) - i : i \in T}
<1>1. Len(p) \in Nat
  BY LenProperties
<1>2. U \in SUBSET Nat
  BY <1>1
<1>3. U # {}
  OBVIOUS
<1>4. PICK u \in U : \A j \in U : u <= j
  <2> HIDE DEF U
  <2>1. QED
    BY <1>2, <1>3, LeastNumber
<1>5. PICK m \in T : u = Len(p) - m
  BY <1>4
<1>6. ASSUME NEW i \in 1..Len(p), p[i] \in ShortNames
      PROVE  i <= m
  <2>1. i \in T
    BY <1>6
  <2>2. Len(p) - i \in U
    BY <2>1
  <2>3. u <= Len(p) - i
    BY <1>4, <2>2
  <2>4. m \in 0..Len(p)
    BY <1>1
  <2>5. QED
    BY <1>1, <1>5, <2>3, <2>4
<1>7. QED
  BY <1>6

LEMMA AfterShortIs ==
    ASSUME NEW p \in Seq(Word)
    PROVE  /\ LastShort(p) \in 0..Len(p)
           /\ AfterShort(p) = SubSeq(p, 1 + LastShort(p), Len(p))
<1>1. PICK m \in {0} \cup {i \in 1..Len(p) : p[i] \in ShortNames} :
         \A i \in 1..Len(p) : p[i] \in ShortNames => i <= m
  BY LastShortExists
<1>2. LastShort(p) = m
  BY <1>1, LastShortIs
<1>3. m \in 0..Len(p)
  BY LenProperties
<1>4. AfterShort(p) = SubSeq(p, 1 + LastShort(p), Len(p))
  BY DEF AfterShort, LastShort
<1>5. QED
  BY <1>2, <1>3, <1>4

LEMMA AfterShortOfRoot == AfterShort(<<>>) = <<>>
<1>1. <<>> \in Seq(Word) /\ Len(<<>>) = 0
  OBVIOUS
<1>2. LastShort(<<>>) = 0 /\ AfterShort(<<>>) = SubSeq(<<>>, 1 + LastShort(<<>>), 0)
  <2>1. LastShort(<<>>) \in 0..0
    BY <1>1, AfterShortIs
  <2>2. AfterShort(<<>>) = SubSeq(<<>>, 1 + LastShort(<<>>), 0)
    BY <1>1, AfterShortIs
  <2>3. QED
    BY <2>1, <2>2
<1>3. QED
  BY <1>2, SubSeqEmpty

LEMMA AfterShortAppend ==
    ASSUME NEW p \in Seq(Word), NEW x \in Word
    PROVE  AfterShort(Append(p, x)) =
              IF x \in ShortNames THEN <<>> ELSE Append(AfterShort(p), x)
<1> DEFINE r == Append(p, x)
           k == Len(p)
<1>1. /\ r \in Seq(Word) /\ Len(r) = k + 1 /\ r[k + 1] = x /\ k \in Nat
      /\ \A i \in 1..k : r[i] = p[i]
  BY AppendProperties, LenProperties
<1>2. AfterShort(r) = SubSeq(r, 1 + LastShort(r), k + 1) /\ LastShort(r) \in 0..(k + 1)
  <2> HIDE DEF r, k
  <2>1. QED
    BY <1>1, AfterShortIs
<1>3. AfterShort(p) = SubSeq(p, 1 + LastShort(p), k) /\ LastShort(p) \in 0..k
  BY AfterShortIs
<1> HIDE DEF r, k
<1>4. CASE x \in ShortNames
  <2>1. LastShort(r) = k + 1
    BY <1>1, <1>4, LastShortIs
  <2>2. SubSeq(r, 1 + (k + 1), k + 1) = <<>>
    BY <1>1, SubSeqEmpty
  <2>3. QED
    BY <1>2, <1>4, <2>1, <2>2 DEF r, k
<1>5. CASE x \notin ShortNames
  <2>1. PICK m \in {0} \cup {i \in 1..k : p[i] \in ShortNames} :
           \A i \in 1..k : p[i] \in ShortNames => i <= m
    BY LastShortExists DEF k
  <2>2. LastShort(p) = m
    BY <2>1, LastShortIs DEF k
  <2>3. LastShort(r) = m
    <3>1. m \in {0} \cup {i \in 1..Len(r) : r[i] \in ShortNames}
      BY <1>1, <2>1
    <3>2. \A i \in 1..Len(r) : r[i] \in ShortNames => i <= m
      <4>1. \A i \in 1..Len(r) : i = k + 1 \/ i \in 1..k
        BY <1>1
      <4>2. QED
        BY <1>1, <1>5, <2>1, <4>1
    <3>3. QED
      BY <1>1, <3>1, <3>2, LastShortIs
  <2>4. m \in 0..k
    BY <1>3, <2>2
  <2> DEFINE a == SubSeq(p, 1 + m, k)
             b == SubSeq(r, 1 + m, k + 1)
  <2>5. a \in Seq(Word) /\ Len(a) = k - m /\ \A i \in 1..(k - m) : a[i] = p[m + i]
    <3>1. \A i \in (1 + m)..k : p[i] \in Word
      BY <2>4, ElementOfSeq, <1>1 DEF k
    <3>2. /\ a \in Seq(Word) /\ Len(a) = IF 1 + m <= k THEN k - (1 + m) + 1 ELSE 0
          /\ \A i \in 1..(k - (1 + m) + 1) : a[i] = p[(1 + m) + i - 1]
      BY <1>1, <2>4, <3>1, SubSeqProperties
    <3> HIDE DEF a
    <3>3. QED
      BY <1>1, <2>4, <3>2
  <2>6. b \in Seq(Word) /\ Len(b) = k + 1 - m /\ \A i \in 1..(k + 1 - m) : b[i] = r[m + i]
    <3>1. \A i \in (1 + m)..(k + 1) : r[i] \in Word
      BY <2>4, ElementOfSeq, <1>1
    <3>2. /\ b \in Seq(Word) /\ Len(b) = IF 1 + m <= k + 1 THEN (k + 1) - (1 + m) + 1 ELSE 0
          /\ \A i \in 1..((k + 1) - (1 + m) + 1) : b[i] = r[(1 + m) + i - 1]
      BY <1>1, <2>4, <3>1, SubSeqProperties
    <3> HIDE DEF b
    <3>3. \A i \in 1..(k + 1 - m) : i \in 1..((k + 1) - (1 + m) + 1) /\ (1 + m) + i - 1 = m + i
      BY <1>1, <2>4
    <3>4. \A i \in 1..(k + 1 - m) : b[i] = r[m + i]
      BY <3>2, <3>3
    <3>5. Len(b) = k + 1 - m
      BY <1>1, <2>4, <3>2
    <3>6. QED
      BY <3>2, <3>4, <3>5
  <2> HIDE DEF a, b
  <2> DEFINE d == k - m
  <2>11. d \in Nat /\ k + 1 - m = d + 1 /\ k = m + d
    BY <1>1, <2>4
  <2> HIDE DEF d
  <2>7. /\ Append(a, x) \in Seq(Word) /\ Len(Append(a, x)) = d + 1
        /\ \A i \in 1..d : Append(a, x)[i] = a[i]
        /\ Append(a, x)[d + 1] = x
    BY <2>5, AppendProperties DEF d
  <2>8. ASSUME NEW i \in 1..Len(b)
        PROVE  b[i] = Append(a, x)[i]
    <3>1. CASE i \in 1..d
      <4>1. m + i \in 1..k
        BY <1>1, <2>4, <2>11, <3>1
      <4>2. b[i] = p[m + i] /\ a[i] = p[m + i]
        BY <1>1, <2>5, <2>6, <2>11, <3>1, <4>1 DEF d
      <4>3. QED
        BY <2>7, <3>1, <4>2
    <3>2. CASE i = d + 1
      <4>1. b[i] = r[k + 1]
        BY <2>4, <2>6, <2>11, <3>2
      <4>2. QED
        BY <1>1, <2>7, <3>2, <4>1
    <3>3. i \in 1..d \/ i = d + 1
      BY <2>6, <2>11
    <3>4. QED
      BY <3>1, <3>2, <3>3
  <2>9. b = Append(a, x)
    BY <2>6, <2>7, <2>8, <2>11, SamePath
  <2>10. QED
    BY <1>2, <1>3, <1>5, <2>2, <2>3, <2>9 DEF a, b, r, k
<1>6. QED
  BY <1>4, <1>5

LEMMA BuildPropnameIs ==
    ASSUME NEW h, NEW pth, Shape(h, pth), NEW n \in DOMAIN h
    PROVE  BuildPropname(h)[n] = AfterShort(pth[n])
<1> DEFINE Is(g) == g = [k \in DOMAIN h |->
               IF h[k].name \in ShortNames THEN <<>> ELSE Append(g[h[k].parent], h[k].name)]
           f == CHOOSE g : Is(g)
           w == [k \in DOMAIN h |-> AfterShort(pth[k])]
<1>1. \A k \in DOMAIN h : pth[k] \in Seq(Word)
  BY PathsOfNodes
<1>2. ASSUME NEW k \in DOMAIN h
      PROVE  w[k] = IF h[k].name \in ShortNames THEN <<>>
                    ELSE Append(w[h[k].parent], h[k].name)
  <2>1. CASE k = Root
    <3>1. w[k] = <<>>
      BY <2>1, RootHasNoParent, AfterShortOfRoot
    <3>2. h[k].name \in ShortNames
      BY <2>1, RootHasNoParent, LoopAssumption
    <3>3. QED
      BY <3>1, <3>2
  <2>2. CASE k # Root
    <3>1. /\ h[k].parent \in DOMAIN h /\ h[k].name \in Word
          /\ pth[k] = Append(pth[h[k].parent], h[k].name)
      BY <2>2 DEF Shape
    <3>2. AfterShort(pth[k]) = IF h[k].name \in ShortNames THEN <<>>
                               ELSE Append(AfterShort(pth[h[k].parent]), h[k].name)
      BY <1>1, <3>1, AfterShortAppend
    <3>3. QED
      BY <3>1, <3>2
  <2>3. QED
    BY <2>1, <2>2
<1>3. Is(w)
  <2> HIDE DEF w
  <2>1. w = [k \in DOMAIN h |-> w[k]]
    BY DEF w
  <2>2. QED
    BY <1>2, <2>1
<1>4. Is(f)
  <2>1. \E g : Is(g)
    BY <1>3
  <2> HIDE DEF Is
  <2>2. QED
    BY <2>1
<1> HIDE DEF f, w
<1>5. \A k \in DOMAIN h : f[k] = IF h[k].name \in ShortNames THEN <<>>
                                 ELSE Append(f[h[k].parent], h[k].name)
  BY <1>4
<1> DEFINE S == {k \in DOMAIN h : f[k] = w[k]}
<1>6. Root \in S
  <2>1. Root \in DOMAIN h /\ h[Root].name \in ShortNames
    BY RootHasNoParent, LoopAssumption DEF Shape
  <2>2. QED
    BY <1>2, <1>5, <2>1
<1>7. ASSUME NEW k \in DOMAIN h \ {Root}, h[k].parent \in S
      PROVE  k \in S
  <2>1. f[h[k].parent] = w[h[k].parent]
    BY <1>7
  <2>2. f[k] = w[k]
    BY <1>2, <1>5, <2>1
  <2>3. QED
    BY <2>2
<1>8. DOMAIN h \subseteq S
  <2> HIDE DEF S
  <2>1. QED
    BY <1>6, <1>7, FromTheRoot
<1>9. BuildPropname(h) = f
  BY DEF BuildPropname, f
<1>10. QED
  BY <1>8, <1>9 DEF w

-----------------------------------------------------------------------------
(* The map of paths that the nodes stand for.                              *)

LEMMA FlattenIs ==
    ASSUME NEW h, NEW pth, Shape(h, pth)
    PROVE  /\ Flatten(h) = [p \in Prop |-> Flatten(h)[p]]
           /\ \A p \in Prop : Flatten(h)[p] = IF NodeAt(h, pth, p) = NULL THEN Absent
                                              ELSE Data(h[NodeAt(h, pth, p)])
           /\ \A n \in DOMAIN h \ {Root} : Flatten(h)[pth[n]] = Data(h[n])
           /\ \A p \in Prop : Flatten(h)[p] # Absent =>
                 \E n \in DOMAIN h \ {Root} : pth[n] = p
           /\ Flatten(h) \in [Prop -> Node \cup {Absent}]
<1>1. \A p \in Prop : LookupNode(h, p) = NodeAt(h, pth, p)
  BY LookupIs, PathsAreWords
<1>2. \A p \in Prop : Flatten(h)[p] = IF NodeAt(h, pth, p) = NULL THEN Absent
                                      ELSE Data(h[NodeAt(h, pth, p)])
  BY <1>1 DEF Flatten
<1>3. Flatten(h) = [p \in Prop |-> Flatten(h)[p]]
  BY DEF Flatten
<1>4. \A n \in DOMAIN h \ {Root} : pth[n] \in Prop /\ NodeAt(h, pth, pth[n]) = n /\ n # NULL
  <2>1. \A n \in DOMAIN h : NodeAt(h, pth, pth[n]) = n
    BY NodeAtIs
  <2>2. \A n \in DOMAIN h \ {Root} : pth[n] \in Prop /\ n # NULL
    BY LoopAssumption DEF Shape
  <2>3. QED
    BY <2>1, <2>2
<1>5. \A n \in DOMAIN h \ {Root} : Flatten(h)[pth[n]] = Data(h[n])
  BY <1>2, <1>4
<1>6. \A p \in Prop : NodeAt(h, pth, p) # NULL =>
         NodeAt(h, pth, p) \in DOMAIN h \ {Root} /\ pth[NodeAt(h, pth, p)] = p
  <2>1. \A p \in Prop : NodeAt(h, pth, p) # NULL =>
           NodeAt(h, pth, p) \in DOMAIN h /\ pth[NodeAt(h, pth, p)] = p
    BY NodeAtIs
  <2>2. pth[Root] \notin Prop
    BY PathsOfNodes DEF Shape
  <2>3. QED
    BY <2>1, <2>2
<1>7. \A p \in Prop : Flatten(h)[p] # Absent => \E n \in DOMAIN h \ {Root} : pth[n] = p
  BY <1>2, <1>6
<1>8. \A p \in Prop : Flatten(h)[p] \in Node \cup {Absent}
  <2>1. \A n \in DOMAIN h : Data(h[n]) \in Node
    BY DEF Shape
  <2>2. QED
    BY <1>2, <1>6, <2>1
<1>9. QED
  BY <1>2, <1>3, <1>5, <1>7, <1>8

LEMMA LookupOfPath ==
    ASSUME NEW h, NEW pth, Shape(h, pth), NEW p \in Prop
    PROVE  LET n == LookupNode(h, p) IN
           /\ n = NULL <=> Flatten(h)[p] = Absent
           /\ n # NULL => n \in DOMAIN h \ {Root} /\ pth[n] = p /\ Flatten(h)[p] = Data(h[n])
           /\ \A m \in DOMAIN h : pth[m] = p => n = m
<1> DEFINE n == LookupNode(h, p)
<1>1. n = NodeAt(h, pth, p)
  BY LookupIs, PathsAreWords
<1>2. n # NULL => n \in DOMAIN h /\ pth[n] = p
  BY <1>1, NodeAtIs
<1>3. n # NULL => n # Root
  BY <1>2, PathsOfNodes
<1>4. Flatten(h)[p] = IF n = NULL THEN Absent ELSE Data(h[n])
  BY <1>1, FlattenIs
<1>5. n # NULL => Data(h[n]) # Absent
  BY <1>2, ValueAssumption DEF Shape
<1>6. \A m \in DOMAIN h : pth[m] = p => n = m
  BY <1>1, NodeAtIs
<1> HIDE DEF n
<1>7. QED
  BY <1>2, <1>3, <1>4, <1>5, <1>6 DEF n

LEMMA SubtreeIs ==
    ASSUME NEW p \in Prop, NEW q \in Prop
    PROVE  /\ q \in Subtree(p) <=> Leads(p, q)
           /\ q \in Below(p) <=> Leads(p, q) /\ Len(p) < Len(q)
           /\ q \in Below(p) <=> p \in Above[q]
<1>1. /\ p \in Seq(Word) /\ q \in Seq(Word) /\ Len(p) \in Nat \ {0} /\ Len(q) \in Nat \ {0}
      /\ Above[q] = {Pre(q, k) : k \in 1..(Len(q) - 1)}
  BY PathsAreWords
<1>2. q \in Below(p) <=> p \in Above[q]
  BY DEF Below
<1>3. p \in Above[q] => Leads(p, q) /\ Len(p) < Len(q)
  <2> SUFFICES ASSUME p \in Above[q]
               PROVE  Leads(p, q) /\ Len(p) < Len(q)
    OBVIOUS
  <2>1. PICK k \in 1..(Len(q) - 1) : p = Pre(q, k)
    BY <1>1
  <2>2. Len(Pre(q, k)) = k
    BY <1>1, PrefixOf
  <2>3. QED
    BY <1>1, <2>1, <2>2 DEF Leads
<1>4. Leads(p, q) /\ Len(p) < Len(q) => p \in Above[q]
  BY <1>1 DEF Leads
<1>5. Leads(p, q) /\ Len(p) >= Len(q) => p = q
  BY <1>1, WholeAndEmpty DEF Leads
<1>6. Leads(p, p)
  BY <1>1, WholeAndEmpty DEF Leads
<1>7. Leads(p, q) => p = q \/ Len(p) < Len(q)
  BY <1>1, <1>5
<1>8. q \in Subtree(p) <=> q = p \/ q \in Below(p)
  BY DEF Subtree
<1>9. QED
  BY <1>2, <1>3, <1>4, <1>6, <1>7, <1>8

\* Below a node that is not the root, by the paths.
LEMMA UpwardSubtree ==
    ASSUME NEW h, NEW pth, Shape(h, pth), NEW n \in DOMAIN h \ {Root}, NEW m \in DOMAIN h
    PROVE  n \in Upward(h)[m] <=> m # Root /\ pth[m] \in Subtree(pth[n])
<1>1. n \in Upward(h)[m] <=> Leads(pth[n], pth[m])
  BY UpwardIs
<1>2. pth[n] \in Prop /\ pth[n] # <<>> /\ pth[n] \in Seq(Word)
  BY PathsOfNodes, LoopAssumption
<1>3. CASE m = Root
  BY <1>1, <1>2, <1>3, LeadsToEmpty, RootHasNoParent
<1>4. CASE m # Root
  BY <1>1, <1>2, <1>4, PathsOfNodes, SubtreeIs
<1>5. QED
  BY <1>3, <1>4

\* A node without children is above no other node.
LEMMA LeafIsLast ==
    ASSUME NEW h, NEW pth, Shape(h, pth), NEW n \in DOMAIN h, NEW m \in DOMAIN h,
           n \in Upward(h)[m], n # m
    PROVE  \E c \in Children(h, n) : c \in Upward(h)[m]
<1> DEFINE k == Len(pth[n]) + 1
<1>1. Leads(pth[n], pth[m])
  BY UpwardIs
<1>2. /\ pth[n] \in Seq(Word) /\ pth[m] \in Seq(Word)
      /\ Len(pth[n]) \in Nat /\ Len(pth[m]) \in Nat
  BY PathsOfNodes, LenProperties
<1>3. Len(pth[n]) < Len(pth[m])
  <2>1. SUFFICES ASSUME Len(pth[n]) = Len(pth[m]) PROVE FALSE
    BY <1>1, <1>2 DEF Leads
  <2>2. pth[n] = pth[m]
    BY <1>1, <1>2, <2>1, WholeAndEmpty DEF Leads
  <2>3. QED
    BY <2>2 DEF Shape
<1>4. k \in 1..Len(pth[m]) /\ k - 1 = Len(pth[n])
  BY <1>2, <1>3
<1> HIDE DEF k
<1>5. PICK c \in DOMAIN h : pth[c] = Pre(pth[m], k)
  BY <1>4, NodesAbove
<1>6. pth[c] \in Seq(Word) /\ Len(pth[c]) = k
  BY <1>2, <1>4, <1>5, PrefixOf
<1>7. c # Root
  BY <1>4, <1>6, PathsOfNodes
<1>8. pth[h[c].parent] = Pre(Pre(pth[m], k), k - 1)
  BY <1>5, <1>6, <1>7, PathsOfNodes
<1>9. Pre(Pre(pth[m], k), k - 1) = pth[n]
  <2>1. Pre(Pre(pth[m], k), k - 1) = Pre(pth[m], k - 1)
    BY <1>2, <1>4, PrefixOfPrefix
  <2>2. QED
    BY <1>1, <1>4, <2>1 DEF Leads
<1>10. h[c].parent = n
  BY <1>7, <1>8, <1>9 DEF Shape
<1>11. Leads(pth[c], pth[m])
  BY <1>2, <1>4, <1>5, <1>6 DEF Leads
<1>12. QED
  BY <1>10, <1>11, UpwardIs DEF Children

LEMMA ChildrenOf ==
    ASSUME NEW h, NEW pth, Shape(h, pth), NEW n \in DOMAIN h, NEW c \in Children(h, n)
    PROVE  /\ c \in DOMAIN h \ {Root} /\ h[c].parent = n
           /\ pth[c] = Append(pth[n], h[c].name) /\ Len(pth[c]) = Len(pth[n]) + 1
           /\ Pre(pth[c], Len(pth[n])) = pth[n]
<1>1. c \in DOMAIN h /\ h[c].parent = n
  BY DEF Children
<1>2. n # NULL
  BY LoopAssumption DEF Shape
<1>3. c # Root
  BY <1>1, <1>2, RootHasNoParent
<1>4. h[c].name \in Word /\ pth[c] = Append(pth[n], h[c].name)
  BY <1>1, <1>3 DEF Shape
<1>5. pth[n] \in Seq(Word)
  BY PathsOfNodes
<1>6. QED
  BY <1>1, <1>3, <1>4, <1>5, Appended

\* The children of a node, by the map of paths.
LEMMA ChildrenFlat ==
    ASSUME NEW h, NEW pth, Shape(h, pth), NEW n \in DOMAIN h \ {Root}
    PROVE  Children(h, n) = {} <=> ~ HasChildren(Flatten(h), pth[n])
<1>1. pth[n] \in Prop
  BY PathsOfNodes
<1>2. ASSUME NEW c \in Children(h, n)
      PROVE  HasChildren(Flatten(h), pth[n])
  <2>1. c \in DOMAIN h \ {Root} /\ Len(pth[c]) = Len(pth[n]) + 1 /\ Pre(pth[c], Len(pth[n])) = pth[n]
    BY ChildrenOf
  <2>2. pth[c] \in Prop
    BY <2>1, PathsOfNodes
  <2>3. Len(pth[n]) \in Nat
    BY <1>1, PathsAreWords
  <2>4. pth[c] \in Below(pth[n])
    BY <1>1, <2>1, <2>2, <2>3, SubtreeIs DEF Leads
  <2>5. Flatten(h)[pth[c]] = Data(h[c]) /\ Data(h[c]) \in Node
    BY <2>1, FlattenIs DEF Shape
  <2>6. Flatten(h)[pth[c]] # Absent
    BY <2>5, ValueAssumption
  <2>7. QED
    BY <2>4, <2>6 DEF HasChildren
<1>3. ASSUME HasChildren(Flatten(h), pth[n])
      PROVE  Children(h, n) # {}
  <2>1. PICK q \in Below(pth[n]) : Flatten(h)[q] # Absent
    BY <1>3 DEF HasChildren
  <2>2. q \in Prop
    BY DEF Below
  <2>3. PICK m \in DOMAIN h \ {Root} : pth[m] = q
    BY <2>1, <2>2, FlattenIs
  <2>4. pth[m] \in Subtree(pth[n]) /\ m # n
    <3>1. pth[n] \notin Below(pth[n])
      BY <1>1, PathAssumption DEF Below
    <3>2. QED
      BY <2>1, <2>3, <3>1 DEF Subtree
  <2>5. n \in Upward(h)[m]
    BY <2>3, <2>4, UpwardSubtree
  <2>6. QED
    BY <2>4, <2>5, LeafIsLast
<1>4. QED
  BY <1>2, <1>3

\* Every node has its parent in the map.
LEMMA FlattenIsTree ==
    ASSUME NEW h, NEW pth, Shape(h, pth)
    PROVE  Flatten(h) \in Tree
<1>1. ASSUME NEW p \in Prop, Flatten(h)[p] # Absent, NEW q \in Above[p]
      PROVE  Flatten(h)[q] # Absent
  <2>1. PICK n \in DOMAIN h \ {Root} : pth[n] = p
    BY <1>1, FlattenIs
  <2>2. PICK k \in 1..(Len(p) - 1) : q = Pre(p, k)
    BY PathsAreWords
  <2>3. Len(p) \in Nat \ {0} /\ p \in Seq(Word)
    BY PathsAreWords
  <2>4. PICK m \in DOMAIN h : pth[m] = q
    BY <2>1, <2>2, <2>3, NodesAbove
  <2>5. q \in Prop
    BY PathAssumption
  <2>6. m # Root
    BY <2>4, <2>5, PathsOfNodes
  <2>7. Flatten(h)[q] = Data(h[m]) /\ Data(h[m]) \in Node
    BY <2>4, <2>6, FlattenIs DEF Shape
  <2>8. QED
    BY <2>7, ValueAssumption
<1>2. Flatten(h) \in [Prop -> Node \cup {Absent}]
  BY FlattenIs
<1>3. QED
  BY <1>1, <1>2 DEF Tree, Closed

-----------------------------------------------------------------------------
(* What changing, appending and unlinking one node do to the map.          *)

Changed(h, n, d) == [h EXCEPT ![n] = NewNode(h[n].parent, h[n].name, d)]

Extended(h, n, up, name, d) ==
    [m \in DOMAIN h \cup {n} |-> IF m = n THEN NewNode(up, name, d) ELSE h[m]]

IsMap(t) == t = [p \in Prop |-> t[p]]

LEMMA NewNodeIs ==
    ASSUME NEW up, NEW name, NEW d \in Node
    PROVE  /\ NewNode(up, name, d).parent = up /\ NewNode(up, name, d).name = name
           /\ Data(NewNode(up, name, d)) = d
BY DEF NewNode, Data, Node

LEMMA FlattenBy ==
    ASSUME NEW h, NEW pth, Shape(h, pth), NEW t, IsMap(t),
           \A n \in DOMAIN h \ {Root} : t[pth[n]] = Data(h[n]),
           \A p \in Prop : t[p] # Absent => \E n \in DOMAIN h \ {Root} : pth[n] = p
    PROVE  Flatten(h) = t
<1>1. Flatten(h) = [p \in Prop |-> Flatten(h)[p]]
  BY FlattenIs
<1>2. ASSUME NEW p \in Prop
      PROVE  Flatten(h)[p] = t[p]
  <2>1. CASE \E n \in DOMAIN h \ {Root} : pth[n] = p
    <3>1. PICK n \in DOMAIN h \ {Root} : pth[n] = p
      BY <2>1
    <3>2. Flatten(h)[pth[n]] = Data(h[n])
      BY FlattenIs
    <3>3. QED
      BY <3>1, <3>2
  <2>2. CASE ~ \E n \in DOMAIN h \ {Root} : pth[n] = p
    <3>1. t[p] = Absent
      BY <2>2
    <3>2. Flatten(h)[p] = Absent
      <4>1. Flatten(h)[p] # Absent => \E n \in DOMAIN h \ {Root} : pth[n] = p
        BY FlattenIs
      <4>2. QED
        BY <2>2, <4>1
    <3>3. QED
      BY <3>1, <3>2
  <2>3. QED
    BY <2>1, <2>2
<1>3. QED
  BY <1>1, <1>2 DEF IsMap

LEMMA DataChanged ==
    ASSUME NEW h, NEW pth, Shape(h, pth), NEW n \in DOMAIN h \ {Root}, NEW d \in Node,
           NEW h2, h2 = Changed(h, n, d)
    PROVE  /\ Shape(h2, pth) /\ DOMAIN h2 = DOMAIN h
           /\ Flatten(h2) = [Flatten(h) EXCEPT ![pth[n]] = d]
           /\ \A m \in DOMAIN h :
                 /\ h2[m].parent = h[m].parent /\ h2[m].name = h[m].name
                 /\ m # n => h2[m] = h[m]
           /\ \A m : Children(h2, m) = Children(h, m)
           /\ \A m \in DOMAIN h : Upward(h2)[m] = Upward(h)[m]
<1>1. DOMAIN h2 = DOMAIN h
  BY DEF Changed
<1>2. h2[n] = NewNode(h[n].parent, h[n].name, d) /\ \A m \in DOMAIN h \ {n} : h2[m] = h[m]
  BY DEF Changed
<1>3. h2[n].parent = h[n].parent /\ h2[n].name = h[n].name /\ Data(h2[n]) = d
  BY <1>2, NewNodeIs
<1>4. \A m \in DOMAIN h : h2[m].parent = h[m].parent /\ h2[m].name = h[m].name
  BY <1>2, <1>3
<1>5. Shape(h2, pth)
  <2>1. h2 = [m \in DOMAIN h2 |-> h2[m]]
    BY DEF Changed
  <2>2. DOMAIN h2 \subseteq GNode /\ Root \in DOMAIN h2 /\ h2[Root] = NewNode(NULL, "/", Branch)
        /\ pth[Root] = <<>>
    BY <1>1, <1>2 DEF Shape
  <2>3. \A m \in DOMAIN h2 : h2[m] = NewNode(h2[m].parent, h2[m].name, Data(h2[m]))
    <3>1. h2[n] = NewNode(h2[n].parent, h2[n].name, Data(h2[n]))
      BY <1>2, <1>3
    <3>2. \A m \in DOMAIN h : h[m] = NewNode(h[m].parent, h[m].name, Data(h[m]))
      BY DEF Shape
    <3>3. QED
      BY <1>1, <1>2, <3>1, <3>2
  <2>4. \A m \in DOMAIN h2 : Data(h2[m]) \in Node
    <3>1. \A m \in DOMAIN h : Data(h[m]) \in Node
      BY DEF Shape
    <3>2. QED
      BY <1>1, <1>2, <1>3, <3>1
  <2>5. \A m \in DOMAIN h2 \ {Root} :
          /\ h2[m].parent \in DOMAIN h2 /\ h2[m].name \in Word
          /\ pth[m] \in Prop /\ pth[m] = Append(pth[h2[m].parent], h2[m].name)
    <3>1. \A m \in DOMAIN h \ {Root} :
          /\ h[m].parent \in DOMAIN h /\ h[m].name \in Word
          /\ pth[m] \in Prop /\ pth[m] = Append(pth[h[m].parent], h[m].name)
      BY DEF Shape
    <3>2. QED
      BY <1>1, <1>4, <3>1
  <2>6. \A m, k \in DOMAIN h2 : pth[m] = pth[k] => m = k
    BY <1>1 DEF Shape
  <2>7. QED
    BY <2>1, <2>2, <2>3, <2>4, <2>5, <2>6 DEF Shape
<1>6. Flatten(h2) = [Flatten(h) EXCEPT ![pth[n]] = d]
  <2> DEFINE t == [Flatten(h) EXCEPT ![pth[n]] = d]
  <2>1. pth[n] \in Prop /\ Flatten(h) = [p \in Prop |-> Flatten(h)[p]]
    BY PathsOfNodes, FlattenIs
  <2>2. IsMap(t) /\ t[pth[n]] = d /\ \A p \in Prop \ {pth[n]} : t[p] = Flatten(h)[p]
    BY <2>1 DEF IsMap
  <2> HIDE DEF t
  <2>3. ASSUME NEW m \in DOMAIN h2 \ {Root}
        PROVE  t[pth[m]] = Data(h2[m])
    <3>1. CASE m = n
      BY <1>3, <2>2, <3>1
    <3>2. CASE m # n
      <4>1. pth[m] \in Prop \ {pth[n]}
        BY <1>1, <3>2 DEF Shape
      <4>2. Flatten(h)[pth[m]] = Data(h[m])
        BY <1>1, FlattenIs
      <4>3. QED
        BY <1>1, <1>2, <2>2, <3>2, <4>1, <4>2
    <3>3. QED
      BY <3>1, <3>2
  <2>4. \A p \in Prop : t[p] # Absent => \E m \in DOMAIN h2 \ {Root} : pth[m] = p
    <3>1. \A p \in Prop : Flatten(h)[p] # Absent => \E m \in DOMAIN h \ {Root} : pth[m] = p
      BY FlattenIs
    <3>2. QED
      BY <1>1, <2>2, <3>1
  <2>5. Flatten(h2) = t
    BY <1>5, <2>2, <2>3, <2>4, FlattenBy
  <2>6. QED
    BY <2>5 DEF t
<1>7. \A m : Children(h2, m) = Children(h, m)
  BY <1>1, <1>4 DEF Children
<1>8. ASSUME NEW m \in DOMAIN h
      PROVE  Upward(h2)[m] = Upward(h)[m]
  <2>1. Upward(h)[m] = {k \in DOMAIN h : Leads(pth[k], pth[m])}
    BY UpwardIs
  <2>2. Upward(h2)[m] = {k \in DOMAIN h2 : Leads(pth[k], pth[m])}
    BY <1>1, <1>5, UpwardIs
  <2>3. QED
    BY <1>1, <2>1, <2>2
<1>9. QED
  BY <1>1, <1>2, <1>4, <1>5, <1>6, <1>7, <1>8

Appends(h, pth, n, up, name, p, d, h2) ==
    /\ Shape(h, pth) /\ n \in GNode \ DOMAIN h /\ up \in DOMAIN h
    /\ name \in Word /\ p \in Prop /\ p = Append(pth[up], name)
    /\ d \in Node /\ Flatten(h)[p] = Absent /\ h2 = Extended(h, n, up, name, d)

LEMMA NodeAppended ==
    ASSUME NEW h, NEW pth, NEW n, NEW up, NEW name, NEW p, NEW d, NEW h2,
           Appends(h, pth, n, up, name, p, d, h2)
    PROVE  \E pth2 : /\ Shape(h2, pth2) /\ n \in DOMAIN h2 /\ pth2[n] = p
                     /\ Flatten(h2) = [Flatten(h) EXCEPT ![p] = d]
<1>9. /\ Shape(h, pth) /\ n \in GNode \ DOMAIN h /\ up \in DOMAIN h
      /\ name \in Word /\ p \in Prop /\ p = Append(pth[up], name)
      /\ d \in Node /\ Flatten(h)[p] = Absent
  BY DEF Appends
<1> DEFINE pth2 == [m \in DOMAIN h \cup {n} |-> IF m = n THEN p ELSE pth[m]]
<1>1. /\ DOMAIN h2 = DOMAIN h \cup {n} /\ h2[n] = NewNode(up, name, d) /\ n \notin DOMAIN h
      /\ \A m \in DOMAIN h : h2[m] = h[m]
  BY <1>9 DEF Extended, Appends
<1>2. pth2[n] = p /\ \A m \in DOMAIN h : pth2[m] = pth[m]
  BY <1>9
<1>3. h2[n].parent = up /\ h2[n].name = name /\ Data(h2[n]) = d
  BY <1>9, <1>1, NewNodeIs
<1> HIDE DEF pth2
<1>8. \A m \in DOMAIN h \ {Root} : Flatten(h)[pth[m]] = Data(h[m])
  BY <1>9, FlattenIs
<1>4. \A m \in DOMAIN h : pth[m] # p
  <2> SUFFICES ASSUME NEW m \in DOMAIN h, pth[m] = p
               PROVE  FALSE
    OBVIOUS
  <2>1. m # Root
    BY <1>9, PathsOfNodes
  <2>2. Flatten(h)[pth[m]] = Data(h[m]) /\ Data(h[m]) \in Node
    <3>1. Data(h[m]) \in Node
      BY <1>9 DEF Shape
    <3>2. Flatten(h)[pth[m]] = Data(h[m])
      BY <1>9, <1>8, <2>1
    <3>3. QED
      BY <1>9, <3>1, <3>2
  <2>3. QED
    BY <1>9, <2>2, ValueAssumption
<1>5. Shape(h2, pth2)
  <2>1. h2 = [m \in DOMAIN h2 |-> h2[m]]
    BY DEF Extended, Appends
  <2>2. DOMAIN h2 \subseteq GNode /\ Root \in DOMAIN h2 /\ h2[Root] = NewNode(NULL, "/", Branch)
        /\ pth2[Root] = <<>> /\ Root # n
    BY <1>9, <1>1, <1>2 DEF Shape
  <2>3. \A m \in DOMAIN h2 : h2[m] = NewNode(h2[m].parent, h2[m].name, Data(h2[m]))
    <3>1. h2[n] = NewNode(h2[n].parent, h2[n].name, Data(h2[n]))
      BY <1>9, <1>1, <1>3
    <3>2. \A m \in DOMAIN h : h[m] = NewNode(h[m].parent, h[m].name, Data(h[m]))
      BY <1>9 DEF Shape
    <3>3. QED
      BY <1>9, <1>1, <3>1, <3>2
  <2>4. \A m \in DOMAIN h2 : Data(h2[m]) \in Node
    <3>1. \A m \in DOMAIN h : Data(h[m]) \in Node
      BY <1>9 DEF Shape
    <3>2. QED
      BY <1>9, <1>1, <1>3, <3>1
  <2>5. ASSUME NEW m \in DOMAIN h2 \ {Root}
        PROVE  /\ h2[m].parent \in DOMAIN h2 /\ h2[m].name \in Word
               /\ pth2[m] \in Prop /\ pth2[m] = Append(pth2[h2[m].parent], h2[m].name)
    <3>1. CASE m = n
      BY <1>9, <1>1, <1>2, <1>3, <3>1
    <3>2. CASE m # n
      <4>1. m \in DOMAIN h \ {Root}
        BY <1>9, <1>1, <3>2
      <4>2. /\ h[m].parent \in DOMAIN h /\ h[m].name \in Word
            /\ pth[m] \in Prop /\ pth[m] = Append(pth[h[m].parent], h[m].name)
        BY <1>9, <4>1 DEF Shape
      <4>3. QED
        BY <1>9, <1>1, <1>2, <4>1, <4>2
    <3>3. QED
      BY <1>9, <3>1, <3>2
  <2>6. \A m, k \in DOMAIN h2 : pth2[m] = pth2[k] => m = k
    <3>1. \A m, k \in DOMAIN h : pth[m] = pth[k] => m = k
      BY <1>9 DEF Shape
    <3>2. QED
      BY <1>9, <1>1, <1>2, <1>4, <3>1
  <2>7. QED
    BY <1>9, <2>1, <2>2, <2>3, <2>4, <2>5, <2>6 DEF Shape
<1>6. Flatten(h2) = [Flatten(h) EXCEPT ![p] = d]
  <2> DEFINE t == [Flatten(h) EXCEPT ![p] = d]
  <2>1. Flatten(h) = [q \in Prop |-> Flatten(h)[q]]
    BY <1>9, FlattenIs
  <2>2. IsMap(t) /\ t[p] = d /\ \A q \in Prop \ {p} : t[q] = Flatten(h)[q]
    BY <1>9, <2>1 DEF IsMap
  <2> HIDE DEF t
  <2>3. ASSUME NEW m \in DOMAIN h2 \ {Root}
        PROVE  t[pth2[m]] = Data(h2[m])
    <3>1. CASE m = n
      BY <1>9, <1>2, <1>3, <2>2, <3>1
    <3>2. CASE m # n
      <4>1. m \in DOMAIN h \ {Root}
        BY <1>9, <1>1, <3>2
      <4>2. pth[m] \in Prop \ {p} /\ Flatten(h)[pth[m]] = Data(h[m])
        BY <1>9, <1>4, <4>1, FlattenIs, PathsOfNodes
      <4>3. QED
        BY <1>9, <1>1, <1>2, <2>2, <4>1, <4>2
    <3>3. QED
      BY <1>9, <3>1, <3>2
  <2>4. ASSUME NEW q \in Prop, t[q] # Absent
        PROVE  \E m \in DOMAIN h2 \ {Root} : pth2[m] = q
    <3>1. CASE q = p
      <4>1. n # Root
        BY <1>9, <1>1 DEF Shape
      <4>2. QED
        BY <1>9, <1>1, <1>2, <3>1, <4>1
    <3>2. CASE q # p
      <4>1. PICK m \in DOMAIN h \ {Root} : pth[m] = q
        BY <1>9, <2>2, <2>4, <3>2, FlattenIs
      <4>2. QED
        BY <1>9, <1>1, <1>2, <4>1
    <3>3. QED
      BY <1>9, <3>1, <3>2
  <2>5. Flatten(h2) = t
    BY <1>9, <1>5, <2>2, <2>3, <2>4, FlattenBy
  <2>6. QED
    BY <1>9, <2>5 DEF t
<1>7. QED
  BY <1>9, <1>1, <1>2, <1>5, <1>6

PutAt(t, q, d) == [t EXCEPT ![q] = d]

Loses(h, pth, n, h2) ==
    Shape(h, pth) /\ n \in DOMAIN h \ {Root} /\ Children(h, n) = {} /\ h2 = Unlink(h, n)

Lost(h, pth, n, h2) ==
    /\ Shape(h2, pth) /\ DOMAIN h2 = DOMAIN h \ {n}
    /\ Flatten(h2) = PutAt(Flatten(h), pth[n], Absent)
    /\ \A m \in DOMAIN h2 : h2[m] = h[m] /\ Upward(h2)[m] = Upward(h)[m]
    /\ \A m : Children(h2, m) = Children(h, m) \ {n}

LEMMA LeafUnlinked ==
    ASSUME NEW h, NEW pth, NEW n, NEW h2, Loses(h, pth, n, h2)
    PROVE  Lost(h, pth, n, h2)
<1>9. Shape(h, pth) /\ n \in DOMAIN h \ {Root} /\ Children(h, n) = {} /\ h2 = Unlink(h, n)
  BY DEF Loses
<1>1. \A m \in DOMAIN h : n \in Upward(h)[m] <=> m = n
  <2>1. \A m \in DOMAIN h : n \in Upward(h)[m] => m = n
    BY <1>9, LeafIsLast
  <2>2. pth[n] \in Seq(Word)
    BY <1>9, PathsOfNodes
  <2>3. Leads(pth[n], pth[n])
    BY <1>9, <2>2, WholeAndEmpty, LenProperties DEF Leads
  <2>4. n \in Upward(h)[n]
    BY <1>9, <2>3, UpwardIs
  <2>5. QED
    BY <1>9, <2>1, <2>4
<1>2. DOMAIN h2 = DOMAIN h \ {n} /\ \A m \in DOMAIN h2 : h2[m] = h[m]
  BY <1>9, <1>1 DEF Unlink
<1>3. Shape(h2, pth)
  <2>1. h2 = [m \in DOMAIN h2 |-> h2[m]]
    BY <1>9 DEF Unlink
  <2>2. DOMAIN h2 \subseteq GNode /\ Root \in DOMAIN h2 /\ h2[Root] = NewNode(NULL, "/", Branch)
        /\ pth[Root] = <<>>
    BY <1>9, <1>2 DEF Shape
  <2>3. \A m \in DOMAIN h2 : h2[m] = NewNode(h2[m].parent, h2[m].name, Data(h2[m]))
    <3>1. \A m \in DOMAIN h : h[m] = NewNode(h[m].parent, h[m].name, Data(h[m]))
      BY <1>9 DEF Shape
    <3>2. QED
      BY <1>9, <1>2, <3>1
  <2>4. \A m \in DOMAIN h2 : Data(h2[m]) \in Node
    <3>1. \A m \in DOMAIN h : Data(h[m]) \in Node
      BY <1>9 DEF Shape
    <3>2. QED
      BY <1>9, <1>2, <3>1
  <2>5. ASSUME NEW m \in DOMAIN h2 \ {Root}
        PROVE  /\ h2[m].parent \in DOMAIN h2 /\ h2[m].name \in Word
               /\ pth[m] \in Prop /\ pth[m] = Append(pth[h2[m].parent], h2[m].name)
    <3>1. m \in DOMAIN h \ {Root} /\ h2[m] = h[m]
      BY <1>9, <1>2
    <3>2. /\ h[m].parent \in DOMAIN h /\ h[m].name \in Word
          /\ pth[m] \in Prop /\ pth[m] = Append(pth[h[m].parent], h[m].name)
      BY <1>9, <3>1 DEF Shape
    <3>3. h[m].parent # n
      BY <1>9, <3>1 DEF Children
    <3>4. QED
      BY <1>9, <1>2, <3>1, <3>2, <3>3
  <2>6. \A m, k \in DOMAIN h2 : pth[m] = pth[k] => m = k
    BY <1>9, <1>2 DEF Shape
  <2>7. QED
    BY <1>9, <2>1, <2>2, <2>3, <2>4, <2>5, <2>6 DEF Shape
<1>4. Flatten(h2) = [Flatten(h) EXCEPT ![pth[n]] = Absent]
  <2> DEFINE t == [Flatten(h) EXCEPT ![pth[n]] = Absent]
  <2>1. pth[n] \in Prop /\ Flatten(h) = [q \in Prop |-> Flatten(h)[q]]
    BY <1>9, FlattenIs, PathsOfNodes
  <2>2. IsMap(t) /\ t[pth[n]] = Absent /\ \A q \in Prop \ {pth[n]} : t[q] = Flatten(h)[q]
    BY <1>9, <2>1 DEF IsMap
  <2> HIDE DEF t
  <2>3. ASSUME NEW m \in DOMAIN h2 \ {Root}
        PROVE  t[pth[m]] = Data(h2[m])
    <3>1. m \in DOMAIN h \ {Root} /\ m # n /\ h2[m] = h[m]
      BY <1>9, <1>2
    <3>2. pth[m] \in Prop \ {pth[n]}
      BY <1>9, <3>1 DEF Shape
    <3>3. Flatten(h)[pth[m]] = Data(h[m])
      BY <1>9, <3>1, FlattenIs
    <3>4. QED
      BY <1>9, <2>2, <3>1, <3>2, <3>3
  <2>4. ASSUME NEW q \in Prop, t[q] # Absent
        PROVE  \E m \in DOMAIN h2 \ {Root} : pth[m] = q
    <3>1. q # pth[n] /\ Flatten(h)[q] # Absent
      BY <1>9, <2>2, <2>4
    <3>2. PICK m \in DOMAIN h \ {Root} : pth[m] = q
      BY <1>9, <3>1, FlattenIs
    <3>3. QED
      BY <1>9, <1>2, <3>1, <3>2
  <2>5. Flatten(h2) = t
    BY <1>9, <1>3, <2>2, <2>3, <2>4, FlattenBy
  <2>6. QED
    BY <1>9, <2>5 DEF t
<1>5. ASSUME NEW m \in DOMAIN h2
      PROVE  Upward(h2)[m] = Upward(h)[m]
  <2>1. Upward(h)[m] = {k \in DOMAIN h : Leads(pth[k], pth[m])}
    BY <1>9, <1>2, UpwardIs
  <2>2. Upward(h2)[m] = {k \in DOMAIN h2 : Leads(pth[k], pth[m])}
    BY <1>9, <1>3, UpwardIs
  <2>3. n \notin Upward(h)[m]
    BY <1>9, <1>1, <1>2
  <2>4. QED
    BY <1>9, <1>2, <2>1, <2>2, <2>3
<1>6. ASSUME NEW m
      PROVE  Children(h2, m) = Children(h, m) \ {n}
  BY <1>9, <1>2 DEF Children
<1>7. QED
  BY <1>9, <1>2, <1>3, <1>4, <1>5, <1>6 DEF PutAt, Lost

-----------------------------------------------------------------------------
(***************************************************************************)
(* The inductive invariant: the GNodes are a tree of paths at every step,  *)
(* and each loop has done a definite part of its request.                  *)
(***************************************************************************)
Path == FullName(gnode)

Tidy == Shape(gnode, Path) /\ tree \in Tree

BetweenRequests == pc = "idle" => tree = Flatten(gnode)

AddRequest ==
    /\ request.path \in Prop /\ request.data \in Node
    /\ \/ /\ phase = "loading" /\ request.names = {} /\ request.data.value = Unset
       \/ /\ phase = "running" /\ request.names = {request.path}
          /\ \E v \in Val : request.data = [value |-> v, system_value |-> Unset, locked |-> FALSE]

\* On the way down nothing is changed, and what is looked for is not there.
WhileAdding ==
    pc = "adding" =>
        /\ AddRequest
        /\ depth \in 1..Len(request.path)
        /\ tree = Flatten(gnode)
        /\ tree[Pre(request.path, depth)] = Absent

\* t with the missing nodes above the d-th component of p.
Branched(t, p, d) ==
    [q \in Prop |-> IF t[q] = Absent /\ (\E k \in 1..(d - 1) : q = Pre(p, k)) THEN Branch ELSE t[q]]

\* On the way back the nodes above the one to append are there.
WhileAppending ==
    pc = "appending" =>
        /\ AddRequest
        /\ depth \in 1..Len(request.path)
        /\ parent \in DOMAIN gnode /\ Path[parent] = Pre(request.path, depth - 1)
        /\ \A k \in depth..Len(request.path) : tree[Pre(request.path, k)] = Absent
        /\ Flatten(gnode) = Branched(tree, request.path, depth)

\* t without p and the nodes above it from the (d+1)st component on.
Cut(t, p, d) == Destroy(t, {Pre(p, k) : k \in (d + 1)..Len(p)})

\* The nodes from the property up to the parent, exclusive, have collapsed.
WhileClimbing ==
    pc = "climbing" =>
        LET p == request.path IN
        /\ phase = "running" /\ p \in Prop
        /\ CanReset(tree, p) /\ ~ KeepsNode(tree, p)
        /\ parent \in DOMAIN gnode
        /\ \E d \in 0..(Len(p) - 1) :
              /\ Path[parent] = Pre(p, d)
              /\ Flatten(gnode) = Cut(tree, p, d)
              /\ \A k \in (d + 1)..(Len(p) - 1) : Collapses(tree, p, Pre(p, k))

\* A traversal: the nodes on the stack are a path, and each call has still to
\* go to children of its node other than the one it is in.
Frame(h) == [node : DOMAIN h, todo : SUBSET DOMAIN h]

Walking(h, st, top) ==
    /\ st \in Seq(Frame(h)) /\ Len(st) > 0
    /\ st[Len(st)].node = top
    /\ \A i \in 1..Len(st) : st[i].todo \subseteq Children(h, st[i].node)
    /\ \A i \in 1..(Len(st) - 1) :
          h[st[i].node].parent = st[i + 1].node /\ st[i].node \notin st[i + 1].todo

\* The nodes no call has been made for yet.
Ahead(h, st) ==
    {n \in DOMAIN h : \E i \in 1..Len(st) : \E c \in st[i].todo : c \in Upward(h)[n]}

Pending(h, st) == Ahead(h, st) \cup {st[i].node : i \in 1..Len(st)}

\* The properties below p whose nodes a post-order traversal has done.
Done(t, p, h, st) ==
    {q \in Subtree(p) : t[q] # Absent /\ ~ \E n \in Pending(h, st) : FullName(h)[n] = q}

SubtreeRequest ==
    /\ phase = "running" /\ request.path \in Prop
    /\ tree[request.path] # Absent
    /\ \E top \in DOMAIN gnode : Path[top] = request.path /\ Walking(gnode, stack, top)

WhileBlanking ==
    pc = "blanking" =>
        LET done == Done(tree, request.path, gnode, stack) IN
        /\ SubtreeRequest
        /\ Flatten(gnode) = BlankUserValues(tree, done)
        /\ reported = Reported(UserSet(tree, done))

\* The node of q and all below it hold nothing worth keeping.
Gone(t, q) == \A r \in Subtree(q) : t[r] # Absent => Dangling(t[r])

WhileCleaning ==
    pc = "cleaning" =>
        LET blank == BlankUserValues(tree, Subtree(request.path)) IN
        /\ SubtreeRequest
        /\ Flatten(gnode) =
              Destroy(blank, {q \in Done(tree, request.path, gnode, stack) : Gone(blank, q)})
        /\ reported = Reported(UserSet(tree, Subtree(request.path)))

\* The properties a listing covers, the base <<>> standing for the root.
Under(base) == IF base = <<>> THEN Prop ELSE Subtree(base)

WhileListing ==
    pc = "listing" =>
        /\ tree = Flatten(gnode)
        /\ request.path \in Prop \cup {<<>>}
        /\ table = {<<p, Visible(tree, p)>> : p \in
                       {q \in Under(request.path) :
                           /\ Visible(tree, q) # Unset
                           /\ ~ \E n \in Ahead(gnode, stack) : Path[n] = q}}
        /\ stack # <<>> =>
              /\ \E top \in DOMAIN gnode : Path[top] = request.path /\ Walking(gnode, stack, top)
              /\ LET n == Head(stack).node IN
                 cur_path = IF n = Root \/ Children(gnode, n) # {} THEN Path[n] ELSE Front(Path[n])

LoopInv ==
    /\ Tidy
    /\ BetweenRequests
    /\ WhileAdding
    /\ WhileAppending
    /\ WhileClimbing
    /\ WhileBlanking
    /\ WhileCleaning
    /\ WhileListing

-----------------------------------------------------------------------------
(* The initial state, and steps that stay in or enter one loop.            *)

LEMMA FullNameShape ==
    ASSUME NEW h, NEW pth, Shape(h, pth)
    PROVE  /\ Shape(h, FullName(h))
           /\ \A n \in DOMAIN h : FullName(h)[n] = pth[n]
<1> DEFINE w == FullName(h)
<1>1. \A n \in DOMAIN h : w[n] = pth[n]
  BY FullNameIs
<1> HIDE DEF w
<1>2. Shape(h, w)
  <2>1. \A n \in DOMAIN h \ {Root} :
          /\ h[n].parent \in DOMAIN h /\ h[n].name \in Word
          /\ w[n] \in Prop /\ w[n] = Append(w[h[n].parent], h[n].name)
    <3>1. \A n \in DOMAIN h \ {Root} :
          /\ h[n].parent \in DOMAIN h /\ h[n].name \in Word
          /\ pth[n] \in Prop /\ pth[n] = Append(pth[h[n].parent], h[n].name)
      BY DEF Shape
    <3>2. QED
      BY <1>1, <3>1
  <2>2. w[Root] = <<>>
    BY <1>1 DEF Shape
  <2>3. \A m, n \in DOMAIN h : w[m] = w[n] => m = n
    BY <1>1 DEF Shape
  <2>4. QED
    BY <2>1, <2>2, <2>3 DEF Shape
<1>3. QED
  BY <1>1, <1>2 DEF w

LEMMA BranchIsNode == Branch \in Node /\ Branch # Absent /\ Absent \notin Node
<1>1. Branch \in Node
  BY DEF Branch, Node
<1>2. QED
  BY <1>1, ValueAssumption

LEMMA InitInv ==
    ASSUME Init
    PROVE  LoopInv /\ Channel!TreeInit
<1> DEFINE pth == [n \in {Root} |-> <<>>]
<1>1. DOMAIN gnode = {Root} /\ gnode[Root] = NewNode(NULL, "/", Branch)
  BY DEF Init
<1>2. Data(NewNode(NULL, "/", Branch)) = Branch /\ NewNode(NULL, "/", Branch).parent = NULL
      /\ NewNode(NULL, "/", Branch).name = "/"
  BY BranchIsNode, NewNodeIs
<1>3. Shape(gnode, pth)
  <2>1. gnode = [n \in DOMAIN gnode |-> gnode[n]]
    BY DEF Init
  <2>2. pth[Root] = <<>>
    OBVIOUS
  <2> HIDE DEF pth
  <2>3. QED
    BY <1>1, <1>2, <2>1, <2>2, BranchIsNode, LoopAssumption DEF Shape
<1> HIDE DEF pth
<1>4. Shape(gnode, Path)
  BY <1>3, FullNameShape DEF Path
<1>5. IsMap(EmptyTree) /\ \A p \in Prop : EmptyTree[p] = Absent
  BY DEF IsMap, EmptyTree
<1>6. Flatten(gnode) = EmptyTree
  BY <1>1, <1>4, <1>5, FlattenBy
<1>7. tree = EmptyTree /\ pc = "idle" /\ phase = "loading" /\ changed = {}
  BY DEF Init
<1>8. tree \in Tree
  BY <1>4, <1>6, <1>7, FlattenIsTree
<1>9. LoopInv
  BY <1>4, <1>6, <1>7, <1>8 DEF LoopInv, Tidy, BetweenRequests, WhileAdding, WhileAppending,
     WhileClimbing, WhileBlanking, WhileCleaning, WhileListing
<1>10. QED
  BY <1>7, <1>9 DEF Channel!TreeInit, Channel!EmptyTree, EmptyTree

\* With no loop in progress the nodes stand for the tree, and that is all.
LEMMA IdleInv ==
    ASSUME Shape(gnode, Path)', pc' = "idle", tree' = Flatten(gnode')
    PROVE  LoopInv'
<1>1. tree' \in Tree
  BY FlattenIsTree DEF Path
<1>2. QED
  BY <1>1 DEF LoopInv, Tidy, BetweenRequests, WhileAdding, WhileAppending,
     WhileClimbing, WhileBlanking, WhileCleaning, WhileListing

\* A step that is not seen from outside.
LEMMA GoesIs ==
    ASSUME NEW loop, Goes(loop)
    PROVE  /\ pc' = loop /\ tree' = tree /\ phase' = phase /\ changed' = changed
           /\ UNCHANGED Channel!treeVars
BY DEF Goes, Channel!treeVars

-----------------------------------------------------------------------------
(* Setting a property.                                                     *)

\* A lookup, in a state where the invariant holds.
LEMMA Lookup ==
    ASSUME LoopInv, NEW p \in Prop
    PROVE  LET n == LookupNode(gnode, p) IN
           /\ n = NULL <=> Flatten(gnode)[p] = Absent
           /\ n # NULL => /\ n \in DOMAIN gnode \ {Root} /\ Path[n] = p
                          /\ Flatten(gnode)[p] = Data(gnode[n]) /\ Data(gnode[n]) \in Node
<1>1. Shape(gnode, Path)
  BY DEF LoopInv, Tidy
<1>2. \A n \in DOMAIN gnode : Data(gnode[n]) \in Node
  BY <1>1 DEF Shape
<1> HIDE DEF Path
<1>3. QED
  BY <1>1, <1>2, LookupOfPath

LEMMA BeginAddStep ==
    ASSUME LoopInv, NEW p \in Prop, NEW data \in Node, NEW names, pc = "idle",
           BeginAdd(p, data, names), LookupNode(gnode, p) = NULL,
           \/ /\ phase = "loading" /\ names = {} /\ data.value = Unset
           \/ /\ phase = "running" /\ names = {p}
              /\ \E v \in Val : data = [value |-> v, system_value |-> Unset, locked |-> FALSE]
    PROVE  LoopInv' /\ UNCHANGED Channel!treeVars
<1>1. /\ pc' = "adding" /\ tree' = tree /\ phase' = phase /\ UNCHANGED Channel!treeVars
      /\ gnode' = gnode /\ depth' = Len(p)
      /\ request'.path = p /\ request'.data = data /\ request'.names = names
  BY GoesIs DEF BeginAdd
<1>2. tree = Flatten(gnode) /\ Tidy
  BY DEF LoopInv, BetweenRequests
<1>3. tree[p] = Absent
  BY <1>2, Lookup
<1>4. p \in Seq(Word) /\ Len(p) \in Nat \ {0} /\ Pre(p, Len(p)) = p
  BY PathsAreWords, WholeAndEmpty
<1>5. Tidy'
  BY <1>1, <1>2 DEF Tidy, Path
<1>6. AddRequest'
  BY <1>1 DEF AddRequest
<1>7. WhileAdding'
  BY <1>1, <1>2, <1>3, <1>4, <1>6 DEF WhileAdding
<1>8. QED
  BY <1>1, <1>5, <1>7 DEF LoopInv, BetweenRequests, WhileAppending,
     WhileClimbing, WhileBlanking, WhileCleaning, WhileListing

LEMMA OverwriteStep ==
    ASSUME LoopInv, NEW n \in DOMAIN gnode \ {Root}, NEW data \in Node, NEW names,
           Overwrite(n, data, names)
    PROVE  /\ LoopInv' /\ tree' = [Flatten(gnode) EXCEPT ![Path[n]] = data]
           /\ changed' = names /\ phase' = phase
<1>1. /\ pc' = "idle" /\ tree' = Flatten(gnode') /\ changed' = names /\ phase' = phase
  BY DEF Overwrite, Ends
<1>2. gnode' = Changed(gnode, n, data)
  BY DEF Overwrite, Changed
<1>3. Shape(gnode, Path)
  BY DEF LoopInv, Tidy
<1> DEFINE pth == Path
<1>4. Shape(gnode', pth) /\ Flatten(gnode') = [Flatten(gnode) EXCEPT ![pth[n]] = data]
  <2> HIDE DEF pth
  <2>1. Shape(gnode, pth)
    BY <1>3 DEF pth
  <2>2. QED
    BY <1>2, <2>1, DataChanged
<1>5. Shape(gnode, Path)'
  BY <1>4, FullNameShape DEF Path
<1>6. QED
  BY <1>1, <1>4, <1>5, IdleInv

LEMMA MergeSystemStep ==
    ASSUME LoopInv, NEW p \in Prop, NEW v \in Val \cup {Unset}, NEW lock \in BOOLEAN,
           MergeSystem(p, v, lock)
    PROVE  LoopInv' /\ (Channel!MergeSystem(p, v, lock) \/ UNCHANGED Channel!treeVars)
<1> DEFINE n == LookupNode(gnode, p)
           data == [value |-> Unset, system_value |-> v, locked |-> lock]
<1>1. /\ pc = "idle" /\ phase = "loading"
      /\ IF n = NULL THEN BeginAdd(p, data, {}) ELSE Overwrite(n, data, {})
  BY DEF MergeSystem
<1>2. data \in Node /\ data.value = Unset
  BY DEF Node
<1>3. tree = Flatten(gnode) /\ tree \in Tree
  BY <1>1 DEF LoopInv, BetweenRequests, Tidy
<1>4. /\ n = NULL <=> tree[p] = Absent
      /\ n # NULL => n \in DOMAIN gnode \ {Root} /\ Path[n] = p
  BY <1>3, Lookup
<1>5. CASE n = NULL
  <2> HIDE DEF data
  <2>1. QED
    BY <1>1, <1>2, <1>5, BeginAddStep
<1>6. CASE n # NULL
  <2>1. /\ LoopInv' /\ tree' = [tree EXCEPT ![p] = data] /\ changed' = {} /\ phase' = phase
    <3> HIDE DEF n, data
    <3>1. QED
      BY <1>1, <1>2, <1>3, <1>4, <1>6, OverwriteStep
  <2>2. tree[p] # Absent
    BY <1>4, <1>6
  <2>3. Channel!MergeSystem(p, v, lock)
    BY <1>1, <2>1, <2>2 DEF Channel!MergeSystem
  <2>4. QED
    BY <2>1, <2>3
<1>7. QED
  BY <1>5, <1>6

LEMMA SetStep ==
    ASSUME LoopInv, NEW p \in Prop, NEW v \in Val, Set(p, v)
    PROVE  LoopInv' /\ (Channel!SetProperty(p, v) \/ UNCHANGED Channel!treeVars)
<1> DEFINE n == LookupNode(gnode, p)
           new == [value |-> v, system_value |-> Unset, locked |-> FALSE]
           data == [Data(gnode[n]) EXCEPT !.value = v]
<1>1. /\ pc = "idle" /\ phase = "running"
      /\ IF n = NULL THEN BeginAdd(p, new, {p})
         ELSE ~ gnode[n].locked /\ ValueToGet(gnode[n]) # v /\ Overwrite(n, data, {p})
  BY DEF Set
<1>2. new \in Node
  BY DEF Node
<1>3. tree = Flatten(gnode) /\ tree \in Tree
  BY <1>1 DEF LoopInv, BetweenRequests, Tidy
<1>4. /\ n = NULL <=> tree[p] = Absent
      /\ n # NULL => /\ n \in DOMAIN gnode \ {Root} /\ Path[n] = p
                     /\ tree[p] = Data(gnode[n]) /\ Data(gnode[n]) \in Node
  BY <1>3, Lookup
<1>5. CASE n = NULL
  <2>1. \E w \in Val : new = [value |-> w, system_value |-> Unset, locked |-> FALSE]
    OBVIOUS
  <2> HIDE DEF new
  <2>2. QED
    BY <1>1, <1>2, <1>5, <2>1, BeginAddStep
<1>6. CASE n # NULL
  <2> HIDE DEF n
  <2>1. data \in Node
    BY <1>4, <1>6 DEF Node
  <2>2. /\ LoopInv' /\ tree' = [tree EXCEPT ![p] = data] /\ changed' = {p} /\ phase' = phase
    <3> HIDE DEF data
    <3>1. QED
      BY <1>1, <1>3, <1>4, <1>6, <2>1, OverwriteStep
  <2>3. ~ tree[p].locked /\ ValueToGet(tree[p]) # v /\ tree[p] # Absent
    BY <1>1, <1>4, <1>6 DEF Data, ValueToGet
  <2>4. tree' = [tree EXCEPT ![p].value = v]
    BY <1>3, <1>4, <1>6, <2>2
  <2>5. Channel!Visible(tree, p) # v
    BY <2>3 DEF Channel!Visible, Channel!ValueToGet, ValueToGet
  <2>6. Channel!SetProperty(p, v)
    BY <1>1, <2>2, <2>3, <2>4, <2>5 DEF Channel!SetProperty
  <2>7. QED
    BY <2>2, <2>6
<1>7. QED
  BY <1>5, <1>6

LEMMA LoadedStep ==
    ASSUME LoopInv, Loaded
    PROVE  LoopInv' /\ Channel!Loaded
<1>1. /\ pc' = "idle" /\ gnode' = gnode /\ tree' = tree /\ phase = "loading"
      /\ phase' = "running" /\ changed' = {} /\ pc = "idle"
  BY DEF Loaded
<1>2. tree' = Flatten(gnode') /\ Shape(gnode, Path)'
  BY <1>1 DEF LoopInv, Tidy, BetweenRequests, Path
<1>3. LoopInv'
  BY <1>1, <1>2, IdleInv
<1>4. QED
  BY <1>1, <1>3 DEF Channel!Loaded

LEMMA PrefixesOfPath ==
    ASSUME NEW p \in Prop, NEW j \in 1..Len(p), NEW k \in 1..Len(p)
    PROVE  /\ Pre(p, j) \in Prop /\ Pre(p, k) \in Prop /\ Pre(p, k) \in Seq(Word)
           /\ Pre(p, j) = Pre(p, k) => j = k
           /\ j < k => Pre(p, j) \in Above[Pre(p, k)]
           /\ Pre(p, k) = p <=> k = Len(p)
           /\ k # Len(p) <=> Pre(p, k) \in Above[p]
<1>1. p \in Seq(Word) /\ Len(p) \in Nat \ {0} /\ Pre(p, Len(p)) = p
  BY PathsAreWords, WholeAndEmpty
<1>2. Pre(p, j) \in Prop /\ Pre(p, k) \in Prop
  BY PathsAreWords
<1>3. Len(Pre(p, j)) = j /\ Len(Pre(p, k)) = k /\ Pre(p, k) \in Seq(Word)
  BY <1>1, PrefixOf
<1>4. ASSUME j < k
      PROVE  Pre(p, j) \in Above[Pre(p, k)]
  <2>1. Pre(Pre(p, k), j) = Pre(p, j)
    BY <1>1, <1>4, PrefixOfPrefix
  <2>2. Leads(Pre(p, j), Pre(p, k)) /\ Len(Pre(p, j)) < Len(Pre(p, k))
    BY <1>3, <1>4, <2>1 DEF Leads
  <2>3. QED
    BY <1>2, <2>2, SubtreeIs
<1>5. Pre(p, k) = p <=> k = Len(p)
  BY <1>1, <1>3
<1>6. k # Len(p) => Pre(p, k) \in Above[p]
  BY <1>1, PathsAreWords
<1>7. Pre(p, k) \in Above[p] => k # Len(p)
  BY <1>5, PathAssumption
<1>8. QED
  BY <1>2, <1>3, <1>4, <1>5, <1>6, <1>7

LEMMA PrefixAbsent ==
    ASSUME NEW t \in Tree, NEW p \in Prop, NEW d \in 1..Len(p), t[Pre(p, d)] = Absent,
           NEW k \in d..Len(p)
    PROVE  t[Pre(p, k)] = Absent
<1>1. Len(p) \in Nat
  BY PathsAreWords
<1>2. k \in 1..Len(p)
  BY <1>1
<1>3. CASE k = d
  BY <1>3
<1>4. CASE k # d
  <2>1. d < k
    BY <1>1, <1>4
  <2>2. Pre(p, d) \in Above[Pre(p, k)] /\ Pre(p, k) \in Prop
    BY <1>2, <2>1, PrefixesOfPath
  <2>3. QED
    BY <2>2 DEF Tree, Closed
<1>5. QED
  BY <1>3, <1>4

\* What add_property does, node by node and in closed form.
LEMMA BranchedIs ==
    ASSUME NEW t \in Tree, NEW p \in Prop, NEW d \in 1..Len(p),
           \A k \in d..Len(p) : t[Pre(p, k)] = Absent
    PROVE  /\ Branched(t, p, d)[Pre(p, d)] = Absent
           /\ d = Len(p) => \A data : [Branched(t, p, d) EXCEPT ![p] = data] =
                 [q \in Prop |-> IF q = p THEN data
                                 ELSE IF q \in Above[p] /\ t[q] = Absent THEN Branch ELSE t[q]]
           /\ d # Len(p) => [Branched(t, p, d) EXCEPT ![Pre(p, d)] = Branch] = Branched(t, p, d + 1)
<1>1. Len(p) \in Nat \ {0} /\ Above[p] = {Pre(p, k) : k \in 1..(Len(p) - 1)}
  BY PathsAreWords
<1>2. d \in d..Len(p) /\ t[Pre(p, d)] = Absent
  BY <1>1
<1>3. \A k \in 1..(d - 1) : Pre(p, k) # Pre(p, d)
  <2> SUFFICES ASSUME NEW k \in 1..(d - 1)
               PROVE  Pre(p, k) # Pre(p, d)
    OBVIOUS
  <2>1. k \in 1..Len(p) /\ k # d
    BY <1>1
  <2>2. QED
    BY <2>1, PrefixesOfPath
<1>4. Pre(p, d) \in Prop
  BY PrefixesOfPath
<1>5. Branched(t, p, d)[Pre(p, d)] = Absent
  BY <1>2, <1>3, <1>4 DEF Branched
<1>6. ASSUME d = Len(p), NEW data
      PROVE  [Branched(t, p, d) EXCEPT ![p] = data] =
                 [q \in Prop |-> IF q = p THEN data
                                 ELSE IF q \in Above[p] /\ t[q] = Absent THEN Branch ELSE t[q]]
  <2>1. \A q \in Prop : q \in Above[p] <=> \E k \in 1..(d - 1) : q = Pre(p, k)
    BY <1>1, <1>6
  <2>2. QED
    BY <2>1 DEF Branched
<1>7. ASSUME d # Len(p)
      PROVE  [Branched(t, p, d) EXCEPT ![Pre(p, d)] = Branch] = Branched(t, p, d + 1)
  <2>1. \A k : k \in 1..((d + 1) - 1) <=> k \in 1..(d - 1) \/ k = d
    BY <1>1
  <2>2. \A q \in Prop : (\E k \in 1..((d + 1) - 1) : q = Pre(p, k))
                           <=> (\E k \in 1..(d - 1) : q = Pre(p, k)) \/ q = Pre(p, d)
    BY <2>1
  <2>3. ASSUME NEW q \in Prop
        PROVE  [Branched(t, p, d) EXCEPT ![Pre(p, d)] = Branch][q] = Branched(t, p, d + 1)[q]
    <3>1. CASE q = Pre(p, d)
      BY <1>2, <1>4, <2>2, <3>1 DEF Branched
    <3>2. CASE q # Pre(p, d)
      BY <1>4, <2>2, <3>2 DEF Branched
    <3>3. QED
      BY <3>1, <3>2
  <2>4. [Branched(t, p, d) EXCEPT ![Pre(p, d)] = Branch] =
           [q \in Prop |-> [Branched(t, p, d) EXCEPT ![Pre(p, d)] = Branch][q]]
    BY <1>4 DEF Branched
  <2>5. Branched(t, p, d + 1) = [q \in Prop |-> Branched(t, p, d + 1)[q]]
    BY DEF Branched
  <2>6. QED
    BY <2>3, <2>4, <2>5
<1>8. QED
  BY <1>5, <1>6, <1>7

LEMMA LookupParentStep ==
    ASSUME LoopInv, LookupParent
    PROVE  LoopInv' /\ UNCHANGED Channel!treeVars
<1> DEFINE p == request.path
           up == IF depth = 1 THEN Root ELSE LookupNode(gnode, SubSeq(request.path, 1, depth - 1))
<1>1. /\ pc = "adding"
      /\ IF up = NULL THEN Goes("adding") /\ depth' = depth - 1 /\ UNCHANGED parent
         ELSE Goes("appending") /\ parent' = up /\ UNCHANGED depth
      /\ gnode' = gnode /\ request' = request
  BY DEF LookupParent
<1>2. /\ AddRequest /\ depth \in 1..Len(p) /\ tree = Flatten(gnode)
      /\ tree[Pre(p, depth)] = Absent /\ Tidy
  BY <1>1 DEF LoopInv, WhileAdding
<1>3. p \in Prop /\ Len(p) \in Nat \ {0} /\ p \in Seq(Word)
  BY <1>2, PathsAreWords DEF AddRequest
<1>4. tree' = tree /\ phase' = phase /\ UNCHANGED Channel!treeVars
  BY <1>1, GoesIs
<1>5. Tidy' /\ AddRequest' /\ tree' = Flatten(gnode')
  <2>1. Tidy'
    BY <1>1, <1>2, <1>4 DEF Tidy, Path
  <2>2. AddRequest'
    BY <1>1, <1>2, <1>4 DEF AddRequest
  <2>3. QED
    BY <1>1, <1>2, <1>4, <2>1, <2>2
<1>6. depth # 1 => LET q == Pre(p, depth - 1) IN
         /\ depth - 1 \in 1..Len(p) /\ q \in Prop /\ up = LookupNode(gnode, q)
         /\ up = NULL <=> tree[q] = Absent
         /\ up # NULL => up \in DOMAIN gnode /\ Path[up] = q
  <2>1. SUFFICES ASSUME depth # 1
                 PROVE  LET q == Pre(p, depth - 1) IN
         /\ depth - 1 \in 1..Len(p) /\ q \in Prop /\ up = LookupNode(gnode, q)
         /\ up = NULL <=> tree[q] = Absent
         /\ up # NULL => up \in DOMAIN gnode /\ Path[up] = q
    OBVIOUS
  <2> DEFINE q == Pre(p, depth - 1)
  <2>2. depth - 1 \in 1..Len(p)
    BY <1>2, <1>3, <2>1
  <2>3. q \in Prop
    BY <1>3, <2>2, PrefixesOfPath
  <2>4. up = LookupNode(gnode, q)
    BY <2>1 DEF Pre
  <2> HIDE DEF up, q
  <2>5. /\ up = NULL <=> tree[q] = Absent
        /\ up # NULL => up \in DOMAIN gnode /\ Path[up] = q
    BY <1>2, <2>3, <2>4, Lookup
  <2>6. QED
    BY <2>2, <2>3, <2>4, <2>5 DEF q
<1>7. depth = 1 => up = Root /\ up # NULL /\ up \in DOMAIN gnode /\ Path[up] = Pre(p, depth - 1)
  <2>1. Root # NULL /\ Root \in DOMAIN gnode /\ Path[Root] = <<>>
    BY <1>2, LoopAssumption DEF Tidy, Shape
  <2>2. Pre(p, 0) = <<>>
    BY <1>3, WholeAndEmpty
  <2>3. QED
    BY <2>1, <2>2
<1> HIDE DEF p, up
<1>8. CASE up = NULL
  <2>1. pc' = "adding" /\ depth' = depth - 1
    BY <1>1, <1>8 DEF Goes
  <2>2. depth' \in 1..Len(request'.path) /\ tree'[Pre(request'.path, depth')] = Absent
    BY <1>1, <1>4, <1>6, <1>7, <1>8, <2>1 DEF p
  <2>3. WhileAdding'
    BY <1>5, <2>2 DEF WhileAdding
  <2>4. LoopInv'
    BY <1>5, <2>1, <2>3 DEF LoopInv, BetweenRequests, WhileAppending,
       WhileClimbing, WhileBlanking, WhileCleaning, WhileListing
  <2>5. QED
    BY <1>4, <2>4
<1>9. CASE up # NULL
  <2>1. pc' = "appending" /\ depth' = depth /\ parent' = up
    BY <1>1, <1>9 DEF Goes
  <2>2. up \in DOMAIN gnode /\ Path[up] = Pre(p, depth - 1)
    BY <1>6, <1>7, <1>9
  <2>3. parent' \in DOMAIN gnode' /\ Path'[parent'] = Pre(request'.path, depth' - 1)
    BY <1>1, <2>1, <2>2 DEF Path, p
  <2>4. \A k \in depth..Len(p) : tree[Pre(p, k)] = Absent
    BY <1>2, <1>3, PrefixAbsent DEF Tidy
  <2>5. \A k \in 1..(depth - 1) : tree[Pre(p, k)] # Absent
    <3> SUFFICES ASSUME NEW k \in 1..(depth - 1), tree[Pre(p, k)] = Absent
                 PROVE  FALSE
      OBVIOUS
    <3>1. depth # 1 /\ k \in 1..Len(p) /\ depth - 1 \in k..Len(p)
      BY <1>2, <1>3
    <3>2. tree[Pre(p, depth - 1)] = Absent
      BY <1>2, <1>3, <3>1, PrefixAbsent DEF Tidy
    <3>3. QED
      BY <1>6, <1>9, <3>1, <3>2
  <2>6. tree = Branched(tree, p, depth)
    <3>1. tree = [q \in Prop |-> tree[q]]
      BY <1>2 DEF Tidy, Tree
    <3>2. Branched(tree, p, depth) = [q \in Prop |-> tree[q]]
      BY <2>5 DEF Branched
    <3>3. QED
      BY <3>1, <3>2
  <2>7. /\ depth' \in 1..Len(request'.path)
        /\ \A k \in depth'..Len(request'.path) : tree'[Pre(request'.path, k)] = Absent
        /\ Flatten(gnode') = Branched(tree', request'.path, depth')
    BY <1>1, <1>2, <1>4, <2>1, <2>4, <2>6 DEF p
  <2>8. WhileAppending'
    BY <1>5, <2>3, <2>7 DEF WhileAppending
  <2>9. LoopInv'
    BY <1>5, <2>1, <2>8 DEF LoopInv, BetweenRequests, WhileAdding,
       WhileClimbing, WhileBlanking, WhileCleaning, WhileListing
  <2>10. QED
    BY <1>4, <2>9
<1>10. QED
  BY <1>8, <1>9

LEMMA AppendNodeStep ==
    ASSUME LoopInv, AppendNode
    PROVE  /\ LoopInv'
           /\ \/ UNCHANGED Channel!treeVars
              \/ \E p \in Prop, v \in Val \cup {Unset}, lock \in BOOLEAN :
                    Channel!MergeSystem(p, v, lock)
              \/ \E p \in Prop, v \in Val : Channel!SetProperty(p, v)
<1> DEFINE p == request.path
           q == Pre(p, depth)
           last == depth = Len(p)
           data == IF last THEN request.data ELSE Branch
<1>1. PICK n \in GNode \ DOMAIN gnode :
        /\ gnode' = [m \in DOMAIN gnode \cup {n} |->
                        IF m = n THEN NewNode(parent, p[depth], data) ELSE gnode[m]]
        /\ IF last THEN Ends(request.names)
           ELSE Goes("appending") /\ parent' = n /\ depth' = depth + 1 /\ UNCHANGED request
  BY DEF AppendNode
<1>2. /\ AddRequest /\ depth \in 1..Len(p)
      /\ parent \in DOMAIN gnode /\ Path[parent] = Pre(p, depth - 1)
      /\ \A k \in depth..Len(p) : tree[Pre(p, k)] = Absent
      /\ Flatten(gnode) = Branched(tree, p, depth)
      /\ Shape(gnode, Path) /\ tree \in Tree
  BY DEF AppendNode, LoopInv, WhileAppending, Tidy
<1>3. p \in Prop /\ Len(p) \in Nat \ {0} /\ p \in Seq(Word) /\ request.data \in Node
  BY <1>2, PathsAreWords DEF AddRequest
<1>4. gnode' = Extended(gnode, n, parent, p[depth], data)
  BY <1>1 DEF Extended
<1>5. q = Append(Path[parent], p[depth]) /\ p[depth] \in Word /\ q \in Prop
  BY <1>2, <1>3, OneMore, PathsAreWords
<1>6. data \in Node
  BY <1>3, BranchIsNode
<1>7. /\ Branched(tree, p, depth)[q] = Absent
      /\ last => \A d : [Branched(tree, p, depth) EXCEPT ![p] = d] =
                 [r \in Prop |-> IF r = p THEN d
                                 ELSE IF r \in Above[p] /\ tree[r] = Absent THEN Branch ELSE tree[r]]
      /\ ~ last => [Branched(tree, p, depth) EXCEPT ![q] = Branch] = Branched(tree, p, depth + 1)
  BY <1>2, <1>3, BranchedIs
<1>8. PICK pth : /\ Shape(gnode', pth) /\ n \in DOMAIN gnode' /\ pth[n] = q
                 /\ Flatten(gnode') = [Flatten(gnode) EXCEPT ![q] = data]
  <2> DEFINE old == Path
             h2 == gnode'
             name == p[depth]
  <2>1. /\ Shape(gnode, old) /\ Flatten(gnode)[q] = Absent /\ q = Append(old[parent], name)
        /\ h2 = Extended(gnode, n, parent, name, data) /\ name \in Word
        /\ parent \in DOMAIN gnode /\ q \in Prop /\ data \in Node
    BY <1>2, <1>4, <1>5, <1>6, <1>7
  <2> HIDE DEF old, q, data, h2, name
  <2>2. \E pth : /\ Shape(h2, pth) /\ n \in DOMAIN h2 /\ pth[n] = q
                 /\ Flatten(h2) = [Flatten(gnode) EXCEPT ![q] = data]
    <3>1. Appends(gnode, old, n, parent, name, q, data, h2)
      BY <2>1 DEF Appends
    <3>2. QED
      BY <3>1, NodeAppended
  <2>3. QED
    BY <2>2 DEF h2
<1>9. Shape(gnode', FullName(gnode')) /\ FullName(gnode')[n] = q
  BY <1>8, FullNameShape
<1>10. CASE ~ last
  <2>1. /\ pc' = "appending" /\ tree' = tree /\ phase' = phase /\ UNCHANGED Channel!treeVars
        /\ parent' = n /\ depth' = depth + 1 /\ request' = request
    BY <1>1, <1>10, GoesIs
  <2>2. Tidy'
    BY <1>2, <1>9, <2>1 DEF Tidy, Path
  <2>3. AddRequest'
    BY <1>2, <2>1 DEF AddRequest
  <2>4. depth + 1 \in 1..Len(p) /\ (depth + 1) - 1 = depth
    BY <1>2, <1>3, <1>10
  <2>5. parent' \in DOMAIN gnode' /\ Path'[parent'] = Pre(request'.path, depth' - 1)
    BY <1>8, <1>9, <2>1, <2>4 DEF Path
  <2>6. Flatten(gnode') = Branched(tree, p, depth + 1)
    BY <1>2, <1>7, <1>8, <1>10
  <2>7. \A k \in (depth + 1)..Len(p) : tree[Pre(p, k)] = Absent
    BY <1>2, <1>3
  <2>8. WhileAppending'
    BY <2>1, <2>3, <2>4, <2>5, <2>6, <2>7 DEF WhileAppending
  <2>9. LoopInv'
    BY <2>1, <2>2, <2>8 DEF LoopInv, BetweenRequests, WhileAdding,
       WhileClimbing, WhileBlanking, WhileCleaning, WhileListing
  <2>10. QED
    BY <2>1, <2>9
<1>11. CASE last
  <2>1. /\ pc' = "idle" /\ tree' = Flatten(gnode') /\ changed' = request.names /\ phase' = phase
    BY <1>1, <1>11 DEF Ends
  <2>2. LoopInv'
    BY <1>9, <2>1, IdleInv DEF Path
  <2>3. q = p /\ data = request.data /\ tree[p] = Absent
    <3>1. q = p
      BY <1>3, <1>11, WholeAndEmpty
    <3>2. depth \in depth..Len(p)
      BY <1>2, <1>3
    <3>3. QED
      BY <1>2, <1>11, <3>1, <3>2
  <2>4. tree' = [r \in Prop |-> IF r = p THEN request.data
                     ELSE IF r \in Above[p] /\ tree[r] = Absent THEN Branch ELSE tree[r]]
    <3>1. tree' = [Branched(tree, p, depth) EXCEPT ![p] = request.data]
      BY <1>2, <1>8, <2>1, <2>3
    <3>2. QED
      BY <1>7, <1>11, <3>1
  <2>5. CASE phase = "loading" /\ request.names = {} /\ request.data.value = Unset
    <3> DEFINE v == request.data.system_value
               lock == request.data.locked
    <3>1. v \in Val \cup {Unset} /\ lock \in BOOLEAN
          /\ request.data = [value |-> Unset, system_value |-> v, locked |-> lock]
      BY <1>3, <2>5 DEF Node
    <3> HIDE DEF v, lock
    <3>2. tree' = [Channel!AddProperty(tree, p, Unset, FALSE)
                      EXCEPT ![p] = [value |-> Unset, system_value |-> v, locked |-> lock]]
      BY <1>3, <2>4, <3>1 DEF Channel!AddProperty, Channel!Branch, Branch
    <3>3. Channel!MergeSystem(p, v, lock)
      BY <2>1, <2>3, <2>5, <3>2 DEF Channel!MergeSystem
    <3>4. QED
      BY <1>3, <2>2, <3>1, <3>3
  <2>6. CASE phase = "running" /\ request.names = {p}
                /\ \E v \in Val : request.data = [value |-> v, system_value |-> Unset, locked |-> FALSE]
    <3>1. PICK v \in Val : request.data = [value |-> v, system_value |-> Unset, locked |-> FALSE]
      BY <2>6
    <3>2. tree' = Channel!AddProperty(tree, p, v, FALSE)
      BY <2>4, <3>1 DEF Channel!AddProperty, Channel!Branch, Branch
    <3>3. Channel!SetProperty(p, v)
      BY <2>1, <2>3, <2>6, <3>2 DEF Channel!SetProperty
    <3>4. QED
      BY <1>3, <2>2, <3>3
  <2>7. QED
    BY <1>2, <2>5, <2>6 DEF AddRequest
<1>12. QED
  BY <1>10, <1>11

-----------------------------------------------------------------------------
(* Resetting one property.                                                 *)

LEMMA CutAt ==
    ASSUME NEW t, NEW p, NEW d, NEW q \in Prop
    PROVE  /\ Cut(t, p, d)[q] = Absent \/ Cut(t, p, d)[q] = t[q]
           /\ Cut(t, p, d)[q] # t[q] => \E k \in (d + 1)..Len(p) : q = Pre(p, k)
           /\ (\E k \in (d + 1)..Len(p) : q = Pre(p, k)) => Cut(t, p, d)[q] = Absent
BY DEF Cut, Destroy

LEMMA CutIs ==
    ASSUME NEW t \in Tree, NEW p \in Prop, NEW d \in 0..(Len(p) - 1)
    PROVE  /\ \A q \in Prop : Cut(t, p, d)[q] =
                 IF \E k \in (d + 1)..Len(p) : q = Pre(p, k) THEN Absent ELSE t[q]
           /\ IsMap(Cut(t, p, d))
           /\ d # 0 => /\ Cut(t, p, d)[Pre(p, d)] = t[Pre(p, d)]
                       /\ [Cut(t, p, d) EXCEPT ![Pre(p, d)] = Absent] = Cut(t, p, d - 1)
<1>1. Len(p) \in Nat \ {0}
  BY PathsAreWords
<1>2. \A q \in Prop : Cut(t, p, d)[q] =
                 IF \E k \in (d + 1)..Len(p) : q = Pre(p, k) THEN Absent ELSE t[q]
  BY DEF Cut, Destroy
<1>3. Cut(t, p, d) = [q \in Prop |-> Cut(t, p, d)[q]]
  BY DEF Cut, Destroy
<1>4. ASSUME d # 0
      PROVE  /\ Cut(t, p, d)[Pre(p, d)] = t[Pre(p, d)]
             /\ [Cut(t, p, d) EXCEPT ![Pre(p, d)] = Absent] = Cut(t, p, d - 1)
  <2>1. d \in 1..Len(p) /\ Pre(p, d) \in Prop
    BY <1>1, <1>4, PathsAreWords
  <2>2. \A k \in (d + 1)..Len(p) : Pre(p, k) # Pre(p, d)
    <3> SUFFICES ASSUME NEW k \in (d + 1)..Len(p)
                 PROVE  Pre(p, k) # Pre(p, d)
      OBVIOUS
    <3>1. k \in 1..Len(p) /\ k # d
      BY <1>1
    <3>2. QED
      BY <2>1, <3>1, PrefixesOfPath
  <2>3. Cut(t, p, d)[Pre(p, d)] = t[Pre(p, d)]
    BY <1>2, <2>1, <2>2
  <2>4. \A k : k \in ((d - 1) + 1)..Len(p) <=> k \in (d + 1)..Len(p) \/ k = d
    BY <1>1, <2>1
  <2>5. \A q \in Prop : Cut(t, p, d - 1)[q] =
           IF \E k \in ((d - 1) + 1)..Len(p) : q = Pre(p, k) THEN Absent ELSE t[q]
    BY DEF Cut, Destroy
  <2>6. \A q \in Prop : Cut(t, p, d - 1)[q] = IF q = Pre(p, d) THEN Absent ELSE Cut(t, p, d)[q]
    BY <1>2, <2>4, <2>5
  <2>7. Cut(t, p, d - 1) = [q \in Prop |-> Cut(t, p, d - 1)[q]]
    BY DEF Cut, Destroy
  <2> DEFINE u == Cut(t, p, d)
             w == Cut(t, p, d - 1)
             r == Pre(p, d)
  <2> HIDE DEF u, w, r
  <2>8. [u EXCEPT ![r] = Absent] = w
    BY <1>3, <2>1, <2>6, <2>7 DEF u, w, r
  <2>9. QED
    BY <2>3, <2>8 DEF u, w, r
<1>5. QED
  BY <1>2, <1>3, <1>4 DEF IsMap

Climbed(t, p, d) ==
    /\ t \in Tree /\ p \in Prop /\ d \in 0..(Len(p) - 1)
    /\ CanReset(t, p) /\ ~ KeepsNode(t, p)
    /\ \A k \in (d + 1)..(Len(p) - 1) : Collapses(t, p, Pre(p, k))

\* A parent without values, and with no children but those that are gone.
LEMMA ClimbGoesOn ==
    ASSUME NEW t, NEW p, NEW d, Climbed(t, p, d), d # 0,
           Valueless(t[Pre(p, d)]), ~ HasChildren(Cut(t, p, d), Pre(p, d))
    PROVE  Climbed(t, p, d - 1)
<1> DEFINE q == Pre(p, d)
<1>1. /\ t \in Tree /\ p \in Prop /\ d \in 0..(Len(p) - 1)
      /\ \A k \in (d + 1)..(Len(p) - 1) : Collapses(t, p, Pre(p, k))
  BY DEF Climbed
<1>2. Len(p) \in Nat \ {0} /\ Above[p] = {Pre(p, k) : k \in 1..(Len(p) - 1)}
  BY <1>1, PathsAreWords
<1>3. d \in 1..Len(p) /\ q \in Prop
  BY <1>1, <1>2, PathsAreWords
<1>4. \A r \in Below(q) \cap Above[p] : Valueless(t[r])
  <2> SUFFICES ASSUME NEW r \in Below(q) \cap Above[p]
               PROVE  Valueless(t[r])
    OBVIOUS
  <2>1. PICK k \in 1..(Len(p) - 1) : r = Pre(p, k)
    BY <1>2
  <2>2. k > d
    <3>1. k \in 1..Len(p)
      BY <1>2
    <3>2. Len(r) = k /\ Len(q) = d
      <4>1. p \in Seq(Word) /\ k \in 0..Len(p) /\ d \in 0..Len(p)
        BY <1>1, <1>2, PathsAreWords
      <4>2. QED
        BY <2>1, <4>1, PrefixOf
    <3>3. Len(q) < Len(r)
      BY <1>3, SubtreeIs DEF Below
    <3>4. QED
      BY <3>2, <3>3
  <2>3. k \in (d + 1)..(Len(p) - 1)
    BY <1>1, <1>2, <2>2
  <2>4. Collapses(t, p, r)
    BY <1>1, <2>1, <2>3
  <2>5. QED
    BY <2>4 DEF Collapses
<1>5. \A r \in Below(q) : t[r] # Absent => r \in Subtree(p) \cup Above[p]
  <2> SUFFICES ASSUME NEW r \in Below(q), t[r] # Absent
               PROVE  r \in Subtree(p) \cup Above[p]
    OBVIOUS
  <2>1. Cut(t, p, d)[r] = Absent /\ r \in Prop
    BY DEF HasChildren, Below
  <2>2. PICK k \in (d + 1)..Len(p) : r = Pre(p, k)
    BY <2>1, CutAt
  <2>3. k \in 1..Len(p)
    BY <1>1, <1>2
  <2>4. r = p \/ r \in Above[p]
    BY <1>1, <2>2, <2>3, PrefixesOfPath
  <2>5. QED
    BY <2>4 DEF Subtree
<1>6. Collapses(t, p, q)
  BY <1>4, <1>5 DEF Collapses
<1>7. \A k : k \in ((d - 1) + 1)..(Len(p) - 1) => k \in (d + 1)..(Len(p) - 1) \/ k = d
  BY <1>1, <1>2
<1>8. d - 1 \in 0..(Len(p) - 1)
  BY <1>1, <1>2
<1>9. QED
  BY <1>1, <1>6, <1>7, <1>8 DEF Climbed

\* A parent that stays ends the climb, and what is left is the closed form.
LEMMA ClimbStops ==
    ASSUME NEW t, NEW p, NEW d, Climbed(t, p, d),
           d # 0 => ~ Valueless(t[Pre(p, d)]) \/ HasChildren(Cut(t, p, d), Pre(p, d))
    PROVE  Cut(t, p, d) = Reset(t, p)
<1> DEFINE S == Subtree(p) \cup {q \in Above[p] : Collapses(t, p, q)}
<1>1. /\ t \in Tree /\ p \in Prop /\ d \in 0..(Len(p) - 1) /\ ~ KeepsNode(t, p)
      /\ \A k \in (d + 1)..(Len(p) - 1) : Collapses(t, p, Pre(p, k))
  BY DEF Climbed
<1>2. Len(p) \in Nat \ {0} /\ Above[p] = {Pre(p, k) : k \in 1..(Len(p) - 1)}
  BY <1>1, PathsAreWords
<1>3. \A r \in Below(p) : t[r] = Absent
  BY <1>1 DEF KeepsNode, HasChildren
<1>4. Reset(t, p) = Destroy(t, S)
  BY <1>1 DEF Reset
<1>5. ASSUME NEW k \in (d + 1)..Len(p)
      PROVE  Pre(p, k) \in S
  <2>1. k \in 1..Len(p)
    BY <1>1, <1>2
  <2>2. CASE k = Len(p)
    BY <1>1, <2>1, <2>2, PrefixesOfPath DEF Subtree
  <2>3. CASE k # Len(p)
    <3>1. k \in (d + 1)..(Len(p) - 1)
      BY <1>1, <1>2, <2>3
    <3>2. Pre(p, k) \in Above[p]
      BY <1>1, <2>1, <2>3, PrefixesOfPath
    <3>3. QED
      BY <1>1, <3>1, <3>2
  <2>4. QED
    BY <2>2, <2>3
<1>6. ASSUME NEW r \in Above[p], Collapses(t, p, r)
      PROVE  \E k \in (d + 1)..Len(p) : r = Pre(p, k)
  <2>1. PICK j \in 1..(Len(p) - 1) : r = Pre(p, j)
    BY <1>2
  <2>2. SUFFICES ASSUME j <= d
                 PROVE  FALSE
    <3>1. j > d => j \in (d + 1)..Len(p)
      BY <1>1, <1>2
    <3>2. QED
      BY <1>1, <1>2, <2>1, <3>1
  <2> DEFINE q == Pre(p, d)
  <2>3. d \in 1..Len(p) /\ d # Len(p) /\ j \in 1..Len(p) /\ d # 0
    BY <1>1, <1>2, <2>2
  <2>4. q \in Above[p] /\ q \in Prop
    BY <1>1, <2>3, PrefixesOfPath
  <2>5. q = r \/ q \in Below(r)
    <3>1. j < d => r \in Above[q]
      BY <1>1, <2>1, <2>3, PrefixesOfPath
    <3>2. r \in Prop
      BY <1>1, <2>1, <2>3, PrefixesOfPath
    <3>3. j < d => q \in Below(r)
      BY <2>4, <3>1, <3>2 DEF Below
    <3>4. j = d \/ j < d
      BY <2>2, <2>3
    <3>5. QED
      BY <2>1, <3>3, <3>4
  <2>6. Valueless(t[q])
    BY <1>6, <2>4, <2>5 DEF Collapses
  <2>7. PICK s \in Below(q) : Cut(t, p, d)[s] # Absent
    BY <2>3, <2>6 DEF HasChildren
  <2>8. s \in Prop /\ t[s] # Absent /\ \A k \in (d + 1)..Len(p) : s # Pre(p, k)
    <3>1. s \in Prop
      BY DEF Below
    <3>2. QED
      BY <2>7, <3>1, CutAt
  <2>9. s \in Below(r)
    <3>1. r \in Prop
      BY <1>1, <2>1, <2>3, PrefixesOfPath
    <3>2. q \in Below(r) => s \in Below(r)
      BY <2>4, <3>1, PathAssumption DEF Below
    <3>3. QED
      BY <2>5, <3>2
  <2>10. s \in Subtree(p) \cup Above[p]
    BY <1>6, <2>8, <2>9 DEF Collapses
  <2>11. s # p
    <3>1. Len(p) \in (d + 1)..Len(p) /\ Pre(p, Len(p)) = p
      BY <1>1, <1>2, WholeAndEmpty, PathsAreWords
    <3>2. QED
      BY <2>8, <3>1
  <2>12. s \notin Below(p)
    BY <1>3, <2>8
  <2>13. PICK m \in 1..(Len(p) - 1) : s = Pre(p, m)
    BY <1>2, <2>10, <2>11, <2>12 DEF Subtree
  <2>14. m > d
    <3>1. p \in Seq(Word) /\ m \in 0..Len(p) /\ d \in 0..Len(p)
      BY <1>1, <1>2, PathsAreWords
    <3>2. Len(s) = m /\ Len(q) = d
      BY <2>13, <3>1, PrefixOf
    <3>3. Len(q) < Len(s)
      BY <2>4, <2>7, <2>8, SubtreeIs
    <3>4. QED
      BY <3>2, <3>3
  <2>15. m \in (d + 1)..Len(p)
    BY <1>1, <1>2, <2>14
  <2>16. QED
    BY <2>8, <2>13, <2>15
<1>7. ASSUME NEW q \in Prop
      PROVE  Cut(t, p, d)[q] = Destroy(t, S)[q]
  <2>1. Destroy(t, S)[q] = IF q \in S THEN Absent ELSE t[q]
    BY DEF Destroy
  <2>2. Cut(t, p, d)[q] = IF \E k \in (d + 1)..Len(p) : q = Pre(p, k) THEN Absent ELSE t[q]
    BY DEF Cut, Destroy
  <2>3. q \in S /\ t[q] # Absent => \E k \in (d + 1)..Len(p) : q = Pre(p, k)
    <3>1. CASE q = p
      <4>1. Len(p) \in (d + 1)..Len(p) /\ Pre(p, Len(p)) = p
        BY <1>1, <1>2, WholeAndEmpty, PathsAreWords
      <4>2. QED
        BY <3>1, <4>1
    <3>2. CASE q \in Below(p)
      BY <1>3, <3>2
    <3>3. CASE q \in Above[p] /\ Collapses(t, p, q)
      BY <1>6, <3>3
    <3>4. QED
      BY <3>1, <3>2, <3>3 DEF Subtree
  <2>4. (\E k \in (d + 1)..Len(p) : q = Pre(p, k)) => q \in S
    BY <1>5
  <2> HIDE DEF S
  <2>5. QED
    BY <2>1, <2>2, <2>3, <2>4
<1>8. Destroy(t, S) = [q \in Prop |-> Destroy(t, S)[q]]
  BY DEF Destroy
<1>9. IsMap(Cut(t, p, d))
  BY <1>1, CutIs
<1> HIDE DEF S
<1>10. QED
  BY <1>4, <1>7, <1>8, <1>9 DEF IsMap

\* Blanking the user's value of one node.
LEMMA BlankNode ==
    ASSUME NEW h, NEW pth, Shape(h, pth), NEW n \in DOMAIN h
    PROVE  LET d == [Data(h[n]) EXCEPT !.value = Unset] IN
           /\ [h EXCEPT ![n].value = Unset] = Changed(h, n, d)
           /\ d \in Node
<1> DEFINE d == [Data(h[n]) EXCEPT !.value = Unset]
<1>1. h[n] = NewNode(h[n].parent, h[n].name, Data(h[n])) /\ Data(h[n]) \in Node
  BY DEF Shape
<1>2. d \in Node
  BY <1>1 DEF Node
<1>3. [h[n] EXCEPT !.value = Unset] = NewNode(h[n].parent, h[n].name, d)
  <2> DEFINE up == h[n].parent
             name == h[n].name
             old == Data(h[n])
  <2>1. h[n] = NewNode(up, name, old) /\ old \in Node
    BY <1>1
  <2> HIDE DEF up, name, old
  <2>2. [NewNode(up, name, old) EXCEPT !.value = Unset] = NewNode(up, name, [old EXCEPT !.value = Unset])
    BY <2>1 DEF NewNode, Node
  <2>3. QED
    BY <2>1, <2>2 DEF up, name, old
<1>4. [h EXCEPT ![n].value = Unset] = [h EXCEPT ![n] = [h[n] EXCEPT !.value = Unset]]
  OBVIOUS
<1>5. QED
  BY <1>2, <1>3, <1>4 DEF Changed

LEMMA ResetOneStep ==
    ASSUME LoopInv, NEW p \in Prop, ResetOne(p)
    PROVE  LoopInv' /\ (Channel!ResetProperty(p) \/ UNCHANGED Channel!treeVars)
<1> DEFINE n == LookupNode(gnode, p)
           stays == Children(gnode, n) # {} \/ gnode[n].system_value # Unset
           blank == [Data(gnode[n]) EXCEPT !.value = Unset]
           pth == Path
<1>1. /\ pc = "idle" /\ phase = "running" /\ n # NULL /\ gnode[n].value # Unset
      /\ IF stays
         THEN gnode' = [gnode EXCEPT ![n].value = Unset] /\ Ends({p})
         ELSE /\ gnode' = Unlink(gnode, n) /\ parent' = gnode[n].parent
              /\ Goes("climbing") /\ request' = [path |-> p]
  BY DEF ResetOne
<1>2. tree = Flatten(gnode) /\ tree \in Tree /\ Shape(gnode, pth)
  BY <1>1 DEF LoopInv, BetweenRequests, Tidy
<1>3. /\ n \in DOMAIN gnode \ {Root} /\ pth[n] = p
      /\ tree[p] = Data(gnode[n]) /\ Data(gnode[n]) \in Node /\ tree[p] # Absent
  BY <1>1, <1>2, Lookup
<1> HIDE DEF n, pth
<1>4. tree[p].value = gnode[n].value /\ tree[p].system_value = gnode[n].system_value
  BY <1>3 DEF Data
<1>5. CanReset(tree, p)
  BY <1>1, <1>3, <1>4 DEF CanReset
<1>6. stays <=> KeepsNode(tree, p)
  <2>1. Children(gnode, n) = {} <=> ~ HasChildren(Flatten(gnode), pth[n])
    BY <1>2, <1>3, ChildrenFlat
  <2>2. QED
    BY <1>2, <1>3, <1>4, <2>1 DEF KeepsNode
<1>7. CASE stays
  <2>1. /\ pc' = "idle" /\ tree' = Flatten(gnode') /\ changed' = {p} /\ phase' = phase
    BY <1>1, <1>7 DEF Ends
  <2>2. gnode' = Changed(gnode, n, blank) /\ blank \in Node
    BY <1>1, <1>2, <1>3, <1>7, BlankNode
  <2> HIDE DEF blank
  <2>3. Shape(gnode', pth) /\ Flatten(gnode') = [Flatten(gnode) EXCEPT ![pth[n]] = blank]
    BY <1>2, <1>3, <2>2, DataChanged
  <2>4. Shape(gnode, Path)'
    BY <2>3, FullNameShape DEF Path
  <2>5. tree' = [tree EXCEPT ![p] = [tree[p] EXCEPT !.value = Unset]]
    BY <1>2, <1>3, <2>1, <2>3 DEF blank
  <2>6. tree' = Reset(tree, p)
    BY <1>2, <1>6, <1>7, <2>5 DEF Reset
  <2>7. Channel!ResetProperty(p)
    BY <1>1, <1>5, <2>1, <2>6 DEF Channel!ResetProperty, Channel!CanReset, CanReset,
       Channel!Reset, Reset, Channel!KeepsNode, KeepsNode, Channel!HasChildren, HasChildren,
       Channel!Below, Below, Channel!Destroy, Destroy, Channel!Subtree, Subtree,
       Channel!Collapses, Collapses, Channel!Valueless, Valueless
  <2>8. QED
    BY <2>1, <2>4, <2>7, IdleInv
<1>8. CASE ~ stays
  <2>1. /\ gnode' = Unlink(gnode, n) /\ parent' = gnode[n].parent /\ request'.path = p
        /\ pc' = "climbing" /\ tree' = tree /\ phase' = phase /\ UNCHANGED Channel!treeVars
    BY <1>1, <1>8, GoesIs
  <2>2. Children(gnode, n) = {}
    BY <1>8
  <2>3. /\ Shape(gnode', pth) /\ DOMAIN gnode' = DOMAIN gnode \ {n}
        /\ Flatten(gnode') = PutAt(Flatten(gnode), pth[n], Absent)
    <3>1. Loses(gnode, pth, n, gnode')
      BY <1>2, <1>3, <2>1, <2>2 DEF Loses
    <3>2. Lost(gnode, pth, n, gnode')
      BY <3>1, LeafUnlinked
    <3>3. QED
      BY <3>2 DEF Lost
  <2>4. Shape(gnode', FullName(gnode')) /\ \A m \in DOMAIN gnode' : FullName(gnode')[m] = pth[m]
    BY <2>3, FullNameShape
  <2>5. Tidy'
    BY <1>2, <2>1, <2>4 DEF Tidy, Path
  <2>6. parent' \in DOMAIN gnode' /\ Path'[parent'] = Pre(p, Len(p) - 1)
    <3>1. parent' \in DOMAIN gnode /\ pth[parent'] = Pre(pth[n], Len(pth[n]) - 1)
          /\ Len(pth[parent']) = Len(pth[n]) - 1
      <4>1. gnode[n].parent \in DOMAIN gnode
        BY <1>2, <1>3, RootHasNoParent
      <4>2. QED
        BY <1>2, <1>3, <2>1, <4>1, PathsOfNodes
    <3>2. parent' # n
      BY <1>3, <3>1, PathsAreWords
    <3>3. QED
      BY <1>3, <2>3, <2>4, <3>1, <3>2 DEF Path
  <2>7. Len(p) \in Nat \ {0} /\ Pre(p, Len(p)) = p
    BY PathsAreWords, WholeAndEmpty
  <2>8. Climbed(tree, p, Len(p) - 1)
    <3>1. \A k \in ((Len(p) - 1) + 1)..(Len(p) - 1) : Collapses(tree, p, Pre(p, k))
      BY <2>7
    <3>2. Len(p) - 1 \in 0..(Len(p) - 1)
      BY <2>7
    <3>3. QED
      BY <1>2, <1>5, <1>6, <1>8, <3>1, <3>2 DEF Climbed
  <2>9. Flatten(gnode') = Cut(tree, p, Len(p) - 1)
    <3>1. (Len(p) - 1) + 1 = Len(p) /\ \A k : k \in Len(p)..Len(p) <=> k = Len(p)
      BY <2>7
    <3>2. {Pre(p, k) : k \in ((Len(p) - 1) + 1)..Len(p)} = {p}
      BY <2>7, <3>1
    <3>3. Cut(tree, p, Len(p) - 1) = [q \in Prop |-> IF q = p THEN Absent ELSE tree[q]]
      BY <3>2 DEF Cut, Destroy
    <3>4. tree = [q \in Prop |-> tree[q]]
      BY <1>2 DEF Tree
    <3>5. [tree EXCEPT ![p] = Absent] = [q \in Prop |-> IF q = p THEN Absent ELSE tree[q]]
      BY <3>4
    <3>6. QED
      BY <1>2, <1>3, <2>3, <3>3, <3>5 DEF PutAt
  <2>10. WhileClimbing'
    <3> DEFINE d == Len(p) - 1
    <3>1. d \in 0..(Len(p) - 1) /\ Path'[parent'] = Pre(p, d) /\ Flatten(gnode') = Cut(tree, p, d)
          /\ \A k \in (d + 1)..(Len(p) - 1) : Collapses(tree, p, Pre(p, k))
      BY <2>6, <2>8, <2>9 DEF Climbed
    <3> HIDE DEF d
    <3>2. QED
      BY <1>1, <1>5, <1>6, <1>8, <2>1, <2>6, <3>1 DEF WhileClimbing
  <2>11. LoopInv'
    BY <2>1, <2>5, <2>10 DEF LoopInv, BetweenRequests, WhileAdding, WhileAppending,
       WhileBlanking, WhileCleaning, WhileListing
  <2>12. QED
    BY <2>1, <2>11
<1>9. QED
  BY <1>7, <1>8

LEMMA ClimbStep ==
    ASSUME LoopInv, Climb
    PROVE  /\ LoopInv'
           /\ UNCHANGED Channel!treeVars \/ \E p \in Prop : Channel!ResetProperty(p)
<1> DEFINE p == request.path
           goes == /\ Valueless(gnode[parent]) /\ Children(gnode, parent) = {}
                   /\ gnode[parent].name # "/"
           pth == Path
<1>1. /\ pc = "climbing"
      /\ IF goes
         THEN /\ gnode' = Unlink(gnode, parent) /\ parent' = gnode[parent].parent
              /\ Goes("climbing") /\ request' = request
         ELSE gnode' = gnode /\ Ends({p})
  BY DEF Climb
<1>2. PICK d \in 0..(Len(p) - 1) :
        /\ pth[parent] = Pre(p, d) /\ Flatten(gnode) = Cut(tree, p, d)
        /\ \A k \in (d + 1)..(Len(p) - 1) : Collapses(tree, p, Pre(p, k))
  BY <1>1 DEF LoopInv, WhileClimbing
<1>3. /\ phase = "running" /\ p \in Prop /\ CanReset(tree, p) /\ ~ KeepsNode(tree, p)
      /\ parent \in DOMAIN gnode /\ Shape(gnode, pth) /\ tree \in Tree
  BY <1>1 DEF LoopInv, WhileClimbing, Tidy
<1>4. Climbed(tree, p, d)
  BY <1>2, <1>3 DEF Climbed
<1>5. Len(p) \in Nat \ {0} /\ p \in Seq(Word)
  BY <1>3, PathsAreWords
<1> HIDE DEF p, pth
<1>6. Len(pth[parent]) = d
  <2>1. d \in 0..Len(p)
    BY <1>5
  <2>2. QED
    BY <1>2, <1>5, <2>1, PrefixOf
<1>7. parent = Root <=> d = 0
  BY <1>3, <1>6, PathsOfNodes
<1>8. gnode[parent].name = "/" <=> parent = Root
  <2>1. parent # Root => gnode[parent].name \in Word
    BY <1>3 DEF Shape
  <2>2. gnode[Root].name = "/"
    BY <1>3, RootHasNoParent
  <2>3. QED
    BY <2>1, <2>2 DEF Word
<1>9. d # 0 => /\ Pre(p, d) \in Prop
               /\ tree[Pre(p, d)] = Data(gnode[parent])
               /\ Children(gnode, parent) = {} <=> ~ HasChildren(Cut(tree, p, d), Pre(p, d))
  <2>1. SUFFICES ASSUME d # 0
                 PROVE  /\ Pre(p, d) \in Prop
                        /\ tree[Pre(p, d)] = Data(gnode[parent])
                        /\ Children(gnode, parent) = {} <=> ~ HasChildren(Cut(tree, p, d), Pre(p, d))
    OBVIOUS
  <2>2. Children(gnode, parent) = {} <=> ~ HasChildren(Flatten(gnode), pth[parent])
    BY <1>3, <1>7, <2>1, ChildrenFlat
  <2>3. Flatten(gnode)[pth[parent]] = Data(gnode[parent])
    BY <1>3, <1>7, <2>1, FlattenIs
  <2>4. Cut(tree, p, d)[Pre(p, d)] = tree[Pre(p, d)]
    BY <1>3, <2>1, CutIs
  <2>5. d \in 1..Len(p)
    BY <1>5, <2>1
  <2>6. QED
    BY <1>2, <1>3, <2>2, <2>3, <2>4, <2>5, PathsAreWords
<1>10. Valueless(gnode[parent]) <=> Valueless(Data(gnode[parent]))
  BY DEF Valueless, Data
<1>11. CASE goes
  <2>1. /\ gnode' = Unlink(gnode, parent) /\ parent' = gnode[parent].parent /\ request'.path = p
        /\ pc' = "climbing" /\ tree' = tree /\ phase' = phase /\ UNCHANGED Channel!treeVars
    BY <1>1, <1>11, GoesIs DEF p
  <2>2. d # 0 /\ parent # Root /\ Children(gnode, parent) = {}
    BY <1>7, <1>8, <1>11
  <2>3. /\ Shape(gnode', pth) /\ DOMAIN gnode' = DOMAIN gnode \ {parent}
        /\ Flatten(gnode') = PutAt(Flatten(gnode), pth[parent], Absent)
    <3>1. Loses(gnode, pth, parent, gnode')
      BY <1>3, <2>1, <2>2 DEF Loses
    <3>2. Lost(gnode, pth, parent, gnode')
      BY <3>1, LeafUnlinked
    <3>3. QED
      BY <3>2 DEF Lost
  <2>4. Shape(gnode', FullName(gnode')) /\ \A m \in DOMAIN gnode' : FullName(gnode')[m] = pth[m]
    BY <2>3, FullNameShape
  <2>5. Tidy'
    BY <1>3, <2>1, <2>4 DEF Tidy, Path
  <2>6. Climbed(tree, p, d - 1)
    BY <1>4, <1>9, <1>10, <1>11, <2>2, ClimbGoesOn
  <2>7. Flatten(gnode') = Cut(tree, p, d - 1)
    <3>1. [Cut(tree, p, d) EXCEPT ![Pre(p, d)] = Absent] = Cut(tree, p, d - 1)
      BY <1>3, <2>2, CutIs
    <3>2. QED
      BY <1>2, <2>3, <3>1 DEF PutAt
  <2>8. parent' \in DOMAIN gnode' /\ Path'[parent'] = Pre(p, d - 1)
    <3>1. gnode[parent].parent \in DOMAIN gnode
      BY <1>3, <2>2, RootHasNoParent
    <3>2. /\ pth[gnode[parent].parent] = Pre(pth[parent], d - 1)
          /\ Len(pth[gnode[parent].parent]) = d - 1
      BY <1>3, <1>6, <2>2, PathsOfNodes
    <3>3. gnode[parent].parent # parent
      BY <1>2, <1>6, <3>2
    <3>4. Pre(Pre(p, d), d - 1) = Pre(p, d - 1)
      <4>1. d \in 0..Len(p) /\ d - 1 \in 0..d
        BY <1>5, <2>2
      <4>2. QED
        BY <1>5, <4>1, PrefixOfPrefix
    <3>5. QED
      BY <1>2, <2>1, <2>3, <2>4, <3>1, <3>2, <3>3, <3>4 DEF Path
  <2>9. WhileClimbing'
    <3> DEFINE e == d - 1
    <3>1. e \in 0..(Len(p) - 1) /\ Path'[parent'] = Pre(p, e) /\ Flatten(gnode') = Cut(tree, p, e)
          /\ \A k \in (e + 1)..(Len(p) - 1) : Collapses(tree, p, Pre(p, k))
      BY <2>6, <2>7, <2>8 DEF Climbed
    <3> HIDE DEF e
    <3>2. QED
      BY <1>3, <2>1, <2>8, <3>1 DEF WhileClimbing
  <2>10. LoopInv'
    BY <2>1, <2>5, <2>9 DEF LoopInv, BetweenRequests, WhileAdding, WhileAppending,
       WhileBlanking, WhileCleaning, WhileListing
  <2>11. QED
    BY <2>1, <2>10
<1>12. CASE ~ goes
  <2>1. /\ gnode' = gnode /\ pc' = "idle" /\ tree' = Flatten(gnode')
        /\ changed' = {p} /\ phase' = phase
    BY <1>1, <1>12 DEF Ends
  <2>2. d # 0 => ~ Valueless(tree[Pre(p, d)]) \/ HasChildren(Cut(tree, p, d), Pre(p, d))
    BY <1>7, <1>8, <1>9, <1>10, <1>12
  <2>3. tree' = Reset(tree, p)
    BY <1>2, <1>4, <2>1, <2>2, ClimbStops
  <2>4. Shape(gnode, Path)'
    BY <1>3, <2>1 DEF Path, pth
  <2>5. Channel!ResetProperty(p)
    BY <1>3, <2>1, <2>3 DEF Channel!ResetProperty, Channel!CanReset, CanReset,
       Channel!Reset, Reset, Channel!KeepsNode, KeepsNode, Channel!HasChildren, HasChildren,
       Channel!Below, Below, Channel!Destroy, Destroy, Channel!Subtree, Subtree,
       Channel!Collapses, Collapses, Channel!Valueless, Valueless
  <2>6. QED
    BY <1>3, <2>1, <2>4, <2>5, IdleInv
<1>13. QED
  BY <1>11, <1>12

-----------------------------------------------------------------------------
(* Traversals.                                                             *)

Walk(h, pth, st, top) == Shape(h, pth) /\ top \in DOMAIN h /\ Walking(h, st, top)

LEMMA WalkFrames ==
    ASSUME NEW h, NEW pth, NEW st, NEW top, Walk(h, pth, st, top)
    PROVE  /\ Shape(h, pth) /\ Len(st) \in Nat \ {0} /\ st \in Seq(Frame(h)) /\ st # <<>>
           /\ st[Len(st)].node = top
           /\ \A i \in 1..Len(st) : /\ st[i] \in Frame(h) /\ st[i].node \in DOMAIN h
                                    /\ st[i].todo \subseteq Children(h, st[i].node)
           /\ \A i \in 1..(Len(st) - 1) :
                 /\ st[i].node # Root /\ h[st[i].node].parent = st[i + 1].node
                 /\ st[i].node \notin st[i + 1].todo
           /\ Head(st) = st[1]
<1>1. /\ Shape(h, pth) /\ st \in Seq(Frame(h)) /\ Len(st) > 0 /\ st[Len(st)].node = top
      /\ \A i \in 1..Len(st) : st[i].todo \subseteq Children(h, st[i].node)
      /\ \A i \in 1..(Len(st) - 1) :
            h[st[i].node].parent = st[i + 1].node /\ st[i].node \notin st[i + 1].todo
  BY DEF Walk, Walking
<1>2. Len(st) \in Nat \ {0} /\ st # <<>>
  BY <1>1
<1>3. \A i \in 1..Len(st) : st[i] \in Frame(h)
  BY <1>1, ElementOfSeq
<1>4. \A i \in 1..Len(st) : st[i].node \in DOMAIN h
  BY <1>3 DEF Frame
<1>5. \A i \in 1..(Len(st) - 1) : st[i].node # Root
  <2>1. h[Root].parent = NULL /\ NULL \notin DOMAIN h
    BY <1>1, RootHasNoParent, LoopAssumption DEF Shape
  <2>2. \A i \in 1..(Len(st) - 1) : i + 1 \in 1..Len(st)
    BY <1>2
  <2>3. QED
    BY <1>1, <1>4, <2>1, <2>2
<1>6. Head(st) = st[1]
  BY <1>1, <1>2
<1>7. QED
  BY <1>1, <1>2, <1>3, <1>4, <1>5, <1>6

\* The nodes of the stack are those above the innermost one, in order.
LEMMA WalkPaths ==
    ASSUME NEW h, NEW pth, NEW st, NEW top, Walk(h, pth, st, top), NEW i \in 1..Len(st)
    PROVE  LET p == pth[st[1].node] IN
           /\ p \in Seq(Word) /\ Len(p) \in Nat /\ Len(p) - (i - 1) \in 0..Len(p)
           /\ Len(pth[st[i].node]) = Len(p) - (i - 1)
           /\ pth[st[i].node] = Pre(p, Len(p) - (i - 1))
<1> DEFINE p == pth[st[1].node]
           Is(j) == /\ Len(p) - (j - 1) \in 0..Len(p)
                    /\ Len(pth[st[j].node]) = Len(p) - (j - 1)
                    /\ pth[st[j].node] = Pre(p, Len(p) - (j - 1))
           T == {j \in 1..Len(st) : ~ Is(j)}
<1>1. /\ Shape(h, pth) /\ Len(st) \in Nat \ {0}
      /\ \A j \in 1..Len(st) : st[j].node \in DOMAIN h
      /\ \A j \in 1..(Len(st) - 1) : st[j].node # Root /\ h[st[j].node].parent = st[j + 1].node
  BY WalkFrames
<1>2. p \in Seq(Word) /\ Len(p) \in Nat
  BY <1>1, PathsOfNodes, LenProperties
<1> HIDE DEF p
<1>3. Is(1)
  BY <1>2, WholeAndEmpty DEF p
<1>4. ASSUME NEW j \in 1..(Len(st) - 1), Is(j)
      PROVE  Is(j + 1)
  <2> DEFINE n == st[j].node
             up == st[j + 1].node
             k == Len(p) - (j - 1)
  <2>1. n \in DOMAIN h /\ n # Root /\ h[n].parent = up
    BY <1>1
  <2>2. k \in 0..Len(p) /\ Len(pth[n]) = k /\ pth[n] = Pre(p, k)
    BY <1>4
  <2>3. Len(p) - ((j + 1) - 1) = k - 1
    BY <1>1, <1>2
  <2> HIDE DEF n, up, k
  <2>4. Len(pth[up]) = Len(pth[n]) - 1 /\ pth[up] = Pre(pth[n], Len(pth[n]) - 1) /\ Len(pth[n]) > 0
    BY <1>1, <2>1, PathsOfNodes
  <2>5. k - 1 \in 0..k /\ k - 1 \in 0..Len(p)
    BY <1>2, <2>2, <2>4
  <2>6. Pre(Pre(p, k), k - 1) = Pre(p, k - 1)
    BY <1>2, <2>2, <2>5, PrefixOfPrefix
  <2>7. Len(pth[up]) = k - 1 /\ pth[up] = Pre(p, k - 1)
    BY <2>2, <2>4, <2>6
  <2>8. QED
    BY <2>3, <2>5, <2>7 DEF up
<1> HIDE DEF Is
<1>5. T = {}
  <2> SUFFICES ASSUME T # {}
               PROVE  FALSE
    OBVIOUS
  <2>1. PICK j \in T : \A m \in T : j <= m
    <3>1. T \in SUBSET Nat
      BY <1>1
    <3> HIDE DEF T
    <3>2. QED
      BY <3>1, LeastNumber
  <2>2. j \in 1..Len(st) /\ ~ Is(j)
    BY <2>1
  <2>3. j # 1
    BY <1>3, <2>2
  <2>4. j - 1 \in 1..(Len(st) - 1) /\ j - 1 \in 1..Len(st) /\ (j - 1) + 1 = j
    BY <1>1, <2>2, <2>3
  <2>5. j - 1 \notin T
    <3> HIDE DEF T
    <3>1. QED
      BY <2>1, <2>4
  <2>6. Is(j - 1)
    BY <2>4, <2>5
  <2>7. Is((j - 1) + 1)
    BY <1>4, <2>4, <2>6
  <2>8. QED
    BY <2>2, <2>4, <2>7
<1>6. Is(i)
  BY <1>5
<1>7. QED
  BY <1>2, <1>6 DEF Is, p

\* No call is still to be made for a node of the stack.
LEMMA WalkDisjoint ==
    ASSUME NEW h, NEW pth, NEW st, NEW top, Walk(h, pth, st, top), NEW i \in 1..Len(st)
    PROVE  st[i].node \notin Ahead(h, st)
<1> DEFINE n == st[i].node
           p == pth[st[1].node]
<1> SUFFICES ASSUME n \in Ahead(h, st)
             PROVE  FALSE
  OBVIOUS
<1>1. /\ Shape(h, pth) /\ Len(st) \in Nat \ {0}
      /\ \A j \in 1..Len(st) : st[j].node \in DOMAIN h /\ st[j].todo \subseteq Children(h, st[j].node)
      /\ \A j \in 1..(Len(st) - 1) : st[j].node \notin st[j + 1].todo
  BY WalkFrames
<1>2. n \in DOMAIN h
  BY <1>1
<1>3. PICK j \in 1..Len(st) : \E c \in st[j].todo : c \in Upward(h)[n]
  BY DEF Ahead
<1>4. PICK c \in st[j].todo : c \in Upward(h)[n]
  BY <1>3
<1>5. c \in DOMAIN h /\ Len(pth[c]) = Len(pth[st[j].node]) + 1
  BY <1>1, ChildrenOf
<1>6. /\ p \in Seq(Word) /\ Len(p) \in Nat
      /\ Len(pth[n]) = Len(p) - (i - 1) /\ pth[n] = Pre(p, Len(p) - (i - 1))
      /\ Len(p) - (i - 1) \in 0..Len(p)
  BY WalkPaths
<1>7. Len(pth[st[j].node]) = Len(p) - (j - 1)
  BY WalkPaths
<1>8. Leads(pth[c], pth[n])
  BY <1>1, <1>2, <1>4, UpwardIs
<1> HIDE DEF n, p
<1>9. Len(pth[c]) = Len(p) - (j - 1) + 1 /\ Len(pth[c]) <= Len(p) - (i - 1)
  BY <1>5, <1>6, <1>7, <1>8 DEF Leads
<1>10. j - 1 \in 1..(Len(st) - 1) /\ j - 1 \in 1..Len(st) /\ (j - 1) + 1 = j
  BY <1>1, <1>6, <1>9
<1>11. pth[st[j - 1].node] = Pre(p, Len(p) - ((j - 1) - 1)) /\ Len(p) - ((j - 1) - 1) \in 0..Len(p)
  <2>1. \A k \in 1..Len(st) :
           pth[st[k].node] = Pre(p, Len(p) - (k - 1)) /\ Len(p) - (k - 1) \in 0..Len(p)
    BY WalkPaths DEF p
  <2>2. QED
    BY <1>10, <2>1
<1>12. Len(p) - ((j - 1) - 1) = Len(pth[c])
  BY <1>6, <1>9
<1>13. Pre(pth[n], Len(pth[c])) = Pre(p, Len(pth[c]))
  <2>1. Len(pth[c]) \in 0..(Len(p) - (i - 1))
    BY <1>6, <1>9, <1>11, <1>12
  <2>2. QED
    BY <1>6, <2>1, PrefixOfPrefix
<1>14. pth[c] = pth[st[j - 1].node]
  BY <1>8, <1>11, <1>12, <1>13 DEF Leads
<1>15. c = st[j - 1].node
  BY <1>1, <1>5, <1>10, <1>14 DEF Shape
<1>16. QED
  BY <1>1, <1>4, <1>10, <1>15

LEMMA WalkDistinct ==
    ASSUME NEW h, NEW pth, NEW st, NEW top, Walk(h, pth, st, top),
           NEW i \in 1..Len(st), NEW j \in 1..Len(st), st[i].node = st[j].node
    PROVE  i = j
<1>1. /\ Len(pth[st[1].node]) \in Nat
      /\ Len(pth[st[i].node]) = Len(pth[st[1].node]) - (i - 1)
      /\ Len(pth[st[j].node]) = Len(pth[st[1].node]) - (j - 1)
  <2>1. \A k \in 1..Len(st) : /\ Len(pth[st[1].node]) \in Nat
                               /\ Len(pth[st[k].node]) = Len(pth[st[1].node]) - (k - 1)
    BY WalkPaths
  <2>2. QED
    BY <2>1
<1>2. i \in Nat /\ j \in Nat
  OBVIOUS
<1>3. QED
  BY <1>1, <1>2

\* When the call for a node is about to return, all below it are done.
LEMMA WalkBelow ==
    ASSUME NEW h, NEW pth, NEW st, NEW top, Walk(h, pth, st, top), st[1].todo = {},
           NEW m \in DOMAIN h, st[1].node \in Upward(h)[m], m # st[1].node
    PROVE  m \notin Pending(h, st)
<1> DEFINE n == st[1].node
           p == pth[n]
<1>1. /\ Shape(h, pth) /\ Len(st) \in Nat \ {0} /\ 1 \in 1..Len(st)
      /\ \A j \in 1..Len(st) : st[j].node \in DOMAIN h /\ st[j].todo \subseteq Children(h, st[j].node)
  BY WalkFrames
<1>2. n \in DOMAIN h
  BY <1>1
<1>3. Leads(p, pth[m]) /\ p \in Seq(Word) /\ pth[m] \in Seq(Word) /\ Len(p) \in Nat /\ Len(pth[m]) \in Nat
  BY <1>1, <1>2, UpwardIs, PathsOfNodes, LenProperties
<1>4. Len(p) < Len(pth[m])
  <2>1. SUFFICES ASSUME Len(p) = Len(pth[m]) PROVE FALSE
    BY <1>3 DEF Leads
  <2>2. p = pth[m]
    BY <1>3, <2>1, WholeAndEmpty DEF Leads
  <2>3. QED
    BY <1>1, <1>2, <2>2 DEF Shape
<1>5. ASSUME NEW i \in 1..Len(st), m = st[i].node
      PROVE  FALSE
  <2>1. Len(pth[m]) = Len(p) - (i - 1)
    BY <1>5, WalkPaths
  <2>2. QED
    BY <1>1, <1>3, <1>4, <2>1
<1>6. ASSUME NEW j \in 1..Len(st), NEW c \in st[j].todo, c \in Upward(h)[m]
      PROVE  FALSE
  <2>1. c \in DOMAIN h /\ Len(pth[c]) = Len(pth[st[j].node]) + 1
    BY <1>1, ChildrenOf
  <2>2. Len(pth[st[j].node]) = Len(p) - (j - 1) /\ j # 1
    BY <1>6, WalkPaths
  <2>3. Leads(pth[c], pth[m]) /\ pth[c] \in Seq(Word) /\ Len(pth[c]) \in Nat
    BY <1>1, <1>6, <2>1, UpwardIs, PathsOfNodes, LenProperties
  <2> HIDE DEF p
  <2>4. Len(pth[c]) \in 0..Len(p) /\ Len(p) \in 0..Len(pth[m])
    BY <1>1, <1>3, <2>1, <2>2, <2>3, <1>4
  <2>5. Pre(Pre(pth[m], Len(p)), Len(pth[c])) = Pre(pth[m], Len(pth[c]))
    BY <1>3, <2>4, PrefixOfPrefix
  <2>6. Leads(pth[c], p)
    BY <1>3, <2>3, <2>4, <2>5 DEF Leads
  <2>7. c \in Upward(h)[n]
    BY <1>1, <1>2, <2>1, <2>6, UpwardIs DEF p
  <2>8. n \in Ahead(h, st)
    BY <1>2, <1>6, <2>7 DEF Ahead
  <2>9. QED
    BY <1>1, <2>8, WalkDisjoint
<1>7. QED
  BY <1>5, <1>6 DEF Pending, Ahead

LEMMA TopReplaced ==
    ASSUME NEW S, NEW st \in Seq(S), Len(st) \in Nat \ {0}, NEW f \in S, NEW g \in S
    PROVE  LET st2 == <<f, g>> \o Tail(st) IN
           /\ st2 \in Seq(S) /\ Len(st2) = Len(st) + 1 /\ st2 # <<>>
           /\ st2[1] = f /\ st2[2] = g /\ \A i \in 3..(Len(st) + 1) : st2[i] = st[i - 1]
<1>1. Tail(st) \in Seq(S) /\ Len(Tail(st)) = Len(st) - 1
      /\ \A i \in 1..(Len(st) - 1) : Tail(st)[i] = st[i + 1]
  <2>1. st # <<>>
    OBVIOUS
  <2>2. QED
    BY <2>1, HeadTailProperties
<1> DEFINE u == Tail(st)
           v == <<f, g>>
           k == Len(st)
<1>2. v \in Seq(S) /\ Len(v) = 2 /\ v[1] = f /\ v[2] = g
  OBVIOUS
<1>3. u \in Seq(S) /\ Len(u) = k - 1 /\ k \in Nat \ {0} /\ \A i \in 1..(k - 1) : u[i] = st[i + 1]
  BY <1>1
<1> HIDE DEF u, v, k
<1>4. /\ v \o u \in Seq(S) /\ Len(v \o u) = Len(v) + Len(u)
      /\ \A i \in 1..(Len(v) + Len(u)) :
            (v \o u)[i] = IF i <= Len(v) THEN v[i] ELSE u[i - Len(v)]
  BY <1>2, <1>3, ConcatProperties
<1>5. Len(v \o u) = k + 1 /\ v \o u # <<>>
  BY <1>2, <1>3, <1>4
<1>6. (v \o u)[1] = f /\ (v \o u)[2] = g
  BY <1>2, <1>3, <1>4
<1>7. ASSUME NEW i \in 3..(k + 1)
      PROVE  (v \o u)[i] = st[i - 1]
  <2>1. i - 2 \in 1..(k - 1) /\ i \in 1..(2 + (k - 1)) /\ ~ (i <= 2) /\ (i - 2) + 1 = i - 1
    BY <1>3
  <2>2. (v \o u)[i] = u[i - 2]
    BY <1>2, <1>3, <1>4, <2>1
  <2>3. u[i - 2] = st[(i - 2) + 1]
    BY <1>3, <2>1
  <2>4. QED
    BY <2>1, <2>2, <2>3
<1>8. QED
  BY <1>4, <1>5, <1>6, <1>7 DEF u, v, k

LEMMA UpwardFacts ==
    ASSUME NEW h, NEW pth, Shape(h, pth), NEW n \in DOMAIN h
    PROVE  /\ n \in Upward(h)[n]
           /\ \A c \in Children(h, n) : \A m \in DOMAIN h : c \in Upward(h)[m] => n \in Upward(h)[m]
           /\ \A c \in Children(h, n) : n \notin Upward(h)[c] \/ n # c
<1>1. pth[n] \in Seq(Word) /\ Len(pth[n]) \in Nat /\ Pre(pth[n], Len(pth[n])) = pth[n]
  BY PathsOfNodes, LenProperties, WholeAndEmpty
<1>2. Leads(pth[n], pth[n])
  BY <1>1 DEF Leads
<1>3. n \in Upward(h)[n]
  BY <1>2, UpwardIs
<1>4. ASSUME NEW c \in Children(h, n), NEW m \in DOMAIN h, c \in Upward(h)[m]
      PROVE  n \in Upward(h)[m]
  <2>1. /\ c \in DOMAIN h /\ Len(pth[c]) = Len(pth[n]) + 1 /\ Pre(pth[c], Len(pth[n])) = pth[n]
    BY ChildrenOf
  <2>2. Leads(pth[c], pth[m]) /\ pth[m] \in Seq(Word) /\ Len(pth[m]) \in Nat
    BY <1>4, UpwardIs, PathsOfNodes, LenProperties
  <2>3. Len(pth[c]) \in 0..Len(pth[m]) /\ Len(pth[n]) \in 0..Len(pth[c])
    BY <1>1, <2>1, <2>2 DEF Leads
  <2>4. Pre(Pre(pth[m], Len(pth[c])), Len(pth[n])) = Pre(pth[m], Len(pth[n]))
    BY <2>2, <2>3, PrefixOfPrefix
  <2>5. Leads(pth[n], pth[m])
    BY <1>1, <2>1, <2>2, <2>3, <2>4 DEF Leads
  <2>6. QED
    BY <2>5, UpwardIs
<1>5. ASSUME NEW c \in Children(h, n)
      PROVE  n # c
  <2>1. Len(pth[c]) = Len(pth[n]) + 1
    BY ChildrenOf
  <2>2. QED
    BY <1>1, <2>1
<1>6. QED
  BY <1>3, <1>4, <1>5

CallOf(h, n) == [node |-> n, todo |-> Children(h, n)]

LEMMA CallIs ==
    ASSUME NEW h, NEW n \in DOMAIN h
    PROVE  CallOf(h, n) \in Frame(h) /\ CallOf(h, n).node = n /\ CallOf(h, n).todo = Children(h, n)
BY DEF CallOf, Frame, Children

LEMMA WalkStart ==
    ASSUME NEW h, NEW pth, Shape(h, pth), NEW n \in DOMAIN h
    PROVE  LET st == <<CallOf(h, n)>> IN
           /\ Walk(h, pth, st, n) /\ st # <<>> /\ st[1] = CallOf(h, n) /\ Len(st) = 1
           /\ Ahead(h, st) = {m \in DOMAIN h : n \in Upward(h)[m]} \ {n}
           /\ Pending(h, st) = {m \in DOMAIN h : n \in Upward(h)[m]}
<1> DEFINE st == <<CallOf(h, n)>>
<1>1. CallOf(h, n) \in Frame(h) /\ CallOf(h, n).node = n /\ CallOf(h, n).todo = Children(h, n)
  BY CallIs
<1>2. st \in Seq(Frame(h)) /\ Len(st) = 1 /\ st[1] = CallOf(h, n) /\ st # <<>>
  BY <1>1
<1> HIDE DEF st
<1>3. \A i : i \in 1..Len(st) <=> i = 1
  BY <1>2
<1>4. Walking(h, st, n)
  BY <1>1, <1>2, <1>3 DEF Walking
<1>5. Walk(h, pth, st, n)
  BY <1>4 DEF Walk
<1>6. \A m \in DOMAIN h : m \in Ahead(h, st) <=> \E c \in Children(h, n) : c \in Upward(h)[m]
  BY <1>1, <1>2, <1>3 DEF Ahead
<1>7. ASSUME NEW m \in DOMAIN h
      PROVE  m \in Ahead(h, st) <=> n \in Upward(h)[m] /\ m # n
  <2>1. m \in Ahead(h, st) => n \in Upward(h)[m]
    BY <1>6, UpwardFacts
  <2>2. n \notin Ahead(h, st)
    BY <1>1, <1>2, <1>3, <1>5, WalkDisjoint
  <2>3. n \in Upward(h)[m] /\ m # n => m \in Ahead(h, st)
    BY <1>6, LeafIsLast
  <2>4. QED
    BY <2>1, <2>2, <2>3
<1>8. Ahead(h, st) = {m \in DOMAIN h : n \in Upward(h)[m]} \ {n}
  BY <1>7 DEF Ahead
<1>9. {st[i].node : i \in 1..Len(st)} = {n}
  BY <1>1, <1>2, <1>3
<1>10. n \in Upward(h)[n]
  BY UpwardFacts
<1>11. Pending(h, st) = {m \in DOMAIN h : n \in Upward(h)[m]}
  BY <1>8, <1>9, <1>10 DEF Pending
<1>12. QED
  BY <1>2, <1>5, <1>8, <1>11 DEF st

IntoCall(h, st, c) == <<CallOf(h, c), [st[1] EXCEPT !.todo = @ \ {c}]>> \o Tail(st)

LEMMA WalkInto ==
    ASSUME NEW h, NEW pth, NEW st, NEW top, Walk(h, pth, st, top), NEW c \in st[1].todo
    PROVE  LET st2 == IntoCall(h, st, c) IN
           /\ Walk(h, pth, st2, top) /\ st2 # <<>> /\ st2[1] = CallOf(h, c)
           /\ c \in Ahead(h, st) /\ c \in Children(h, st[1].node)
           /\ Ahead(h, st2) = Ahead(h, st) \ {c}
           /\ Pending(h, st2) = Pending(h, st)
<1> DEFINE st2 == IntoCall(h, st, c)
           f == CallOf(h, c)
           g == [st[1] EXCEPT !.todo = @ \ {c}]
           k == Len(st)
<1>1. /\ Shape(h, pth) /\ k \in Nat \ {0} /\ st \in Seq(Frame(h)) /\ st[k].node = top
      /\ \A i \in 1..k : /\ st[i] \in Frame(h) /\ st[i].node \in DOMAIN h
                         /\ st[i].todo \subseteq Children(h, st[i].node)
      /\ \A i \in 1..(k - 1) :
            /\ h[st[i].node].parent = st[i + 1].node /\ st[i].node \notin st[i + 1].todo
  BY WalkFrames
<1>2. 1 \in 1..k
  BY <1>1
<1>3. c \in Children(h, st[1].node) /\ c \in DOMAIN h \ {Root} /\ h[c].parent = st[1].node
  <2>1. c \in Children(h, st[1].node) /\ st[1].node \in DOMAIN h
    BY <1>1, <1>2
  <2>2. QED
    BY <1>1, <2>1, ChildrenOf
<1>4. f \in Frame(h) /\ f.node = c /\ f.todo = Children(h, c)
  BY <1>3, CallIs
<1>5. g \in Frame(h) /\ g.node = st[1].node /\ g.todo = st[1].todo \ {c}
  BY <1>1, <1>2 DEF Frame
<1> HIDE DEF f, g
<1>6. /\ st2 \in Seq(Frame(h)) /\ Len(st2) = k + 1 /\ st2 # <<>>
      /\ st2[1] = f /\ st2[2] = g /\ \A i \in 3..(k + 1) : st2[i] = st[i - 1]
  <2>1. st2 = <<f, g>> \o Tail(st)
    BY DEF IntoCall, f, g
  <2> HIDE DEF st2
  <2>2. QED
    BY <1>1, <1>4, <1>5, <2>1, TopReplaced
<1> HIDE DEF st2, k
<1>7. \A i \in 2..(k + 1) : i - 1 \in 1..k /\ st2[i].node = st[i - 1].node /\ st2[i].todo = st[i - 1].todo \ {c}
  <2> SUFFICES ASSUME NEW i \in 2..(k + 1)
               PROVE  i - 1 \in 1..k /\ st2[i].node = st[i - 1].node /\ st2[i].todo = st[i - 1].todo \ {c}
    OBVIOUS
  <2>1. i - 1 \in 1..k
    BY <1>1
  <2>2. CASE i = 2
    BY <1>5, <1>6, <2>1, <2>2
  <2>3. CASE i # 2
    <3>1. i \in 3..(k + 1) /\ i - 1 # 1
      BY <1>1, <2>3
    <3>2. st2[i] = st[i - 1]
      BY <1>6, <3>1
    <3>3. c \notin st[i - 1].todo
      <4>1. SUFFICES ASSUME c \in st[i - 1].todo PROVE FALSE
        OBVIOUS
      <4>2. h[c].parent = st[i - 1].node
        BY <1>1, <2>1, <4>1 DEF Children
      <4>3. QED
        BY <1>2, <1>3, <2>1, <3>1, <4>2, WalkDistinct DEF k
    <3>4. QED
      BY <2>1, <3>2, <3>3
  <2>4. QED
    BY <2>2, <2>3
<1>8. Walking(h, st2, top)
  <2>1. st2[Len(st2)].node = top
    <3>1. k + 1 \in 2..(k + 1) /\ (k + 1) - 1 = k
      BY <1>1
    <3>2. QED
      BY <1>1, <1>6, <1>7, <3>1
  <2>2. ASSUME NEW i \in 1..Len(st2)
        PROVE  st2[i].todo \subseteq Children(h, st2[i].node)
    <3>1. CASE i = 1
      BY <1>4, <1>6, <3>1
    <3>2. CASE i # 1
      <4>1. i \in 2..(k + 1)
        BY <1>1, <1>6, <3>2
      <4>2. QED
        BY <1>1, <1>7, <4>1
    <3>3. QED
      BY <3>1, <3>2
  <2>3. ASSUME NEW i \in 1..(Len(st2) - 1)
        PROVE  h[st2[i].node].parent = st2[i + 1].node /\ st2[i].node \notin st2[i + 1].todo
    <3>1. CASE i = 1
      <4>1. 2 \in 2..(k + 1) /\ 2 - 1 = 1
        BY <1>1
      <4>2. QED
        BY <1>3, <1>4, <1>6, <1>7, <3>1, <4>1
    <3>2. CASE i # 1
      <4>1. i \in 2..(k + 1) /\ i + 1 \in 2..(k + 1) /\ i - 1 \in 1..(k - 1)
            /\ (i + 1) - 1 = (i - 1) + 1
        BY <1>1, <1>6, <3>2
      <4>2. /\ h[st[i - 1].node].parent = st[(i - 1) + 1].node
            /\ st[i - 1].node \notin st[(i - 1) + 1].todo
        BY <1>1, <4>1
      <4>3. /\ st2[i].node = st[i - 1].node /\ st2[i + 1].node = st[(i - 1) + 1].node
            /\ st2[i + 1].todo = st[(i - 1) + 1].todo \ {c}
        BY <1>7, <4>1
      <4>4. QED
        BY <4>2, <4>3
    <3>3. QED
      BY <3>1, <3>2
  <2>4. Len(st2) > 0
    BY <1>1, <1>6
  <2>5. QED
    BY <1>6, <2>1, <2>2, <2>3, <2>4 DEF Walking
<1>9. Walk(h, pth, st2, top)
  BY <1>8 DEF Walk
<1>10. c \in Ahead(h, st)
  <2>1. c \in Upward(h)[c]
    BY <1>1, <1>3, UpwardFacts
  <2>2. QED
    BY <1>2, <1>3, <2>1 DEF Ahead, k
<1>11. c \notin Ahead(h, st2)
  <2>1. 1 \in 1..Len(st2)
    BY <1>1, <1>6
  <2>2. QED
    BY <1>4, <1>6, <1>9, <2>1, WalkDisjoint
<1>12. ASSUME NEW m \in Ahead(h, st2)
       PROVE  m \in Ahead(h, st)
  <2>1. m \in DOMAIN h
    BY DEF Ahead
  <2>2. PICK i \in 1..Len(st2) : \E d \in st2[i].todo : d \in Upward(h)[m]
    BY DEF Ahead
  <2>3. PICK d \in st2[i].todo : d \in Upward(h)[m]
    BY <2>2
  <2>4. CASE i = 1
    <3>1. d \in Children(h, c)
      BY <1>4, <1>6, <2>4
    <3>2. c \in Upward(h)[m]
      BY <1>1, <1>3, <2>1, <2>3, <3>1, UpwardFacts
    <3>3. QED
      BY <1>2, <2>1, <3>2 DEF Ahead, k
  <2>5. CASE i # 1
    <3>1. i \in 2..(k + 1)
      BY <1>1, <1>6, <2>5
    <3>2. i - 1 \in 1..Len(st) /\ d \in st[i - 1].todo
      BY <1>7, <3>1 DEF k
    <3>3. QED
      BY <2>1, <2>3, <3>2 DEF Ahead
  <2>6. QED
    BY <2>4, <2>5
<1>13. ASSUME NEW m \in Ahead(h, st), m # c
       PROVE  m \in Ahead(h, st2)
  <2>1. m \in DOMAIN h
    BY DEF Ahead
  <2>2. PICK i \in 1..k : \E d \in st[i].todo : d \in Upward(h)[m]
    BY DEF Ahead, k
  <2>3. PICK d \in st[i].todo : d \in Upward(h)[m]
    BY <2>2
  <2>4. CASE d = c
    <3>1. PICK e \in Children(h, c) : e \in Upward(h)[m]
      BY <1>1, <1>3, <1>13, <2>1, <2>3, <2>4, LeafIsLast
    <3>2. 1 \in 1..Len(st2) /\ e \in st2[1].todo
      BY <1>1, <1>4, <1>6, <3>1
    <3>3. QED
      BY <2>1, <3>1, <3>2 DEF Ahead
  <2>5. CASE d # c
    <3>1. i + 1 \in 2..(k + 1) /\ i + 1 \in 1..Len(st2) /\ (i + 1) - 1 = i
      BY <1>1, <1>6
    <3>2. d \in st2[i + 1].todo
      BY <1>7, <2>3, <2>5, <3>1
    <3>3. QED
      BY <2>1, <2>3, <3>1, <3>2 DEF Ahead
  <2>6. QED
    BY <2>4, <2>5
<1>14. Ahead(h, st2) = Ahead(h, st) \ {c}
  BY <1>11, <1>12, <1>13
<1>15. {st2[i].node : i \in 1..Len(st2)} = {c} \cup {st[i].node : i \in 1..Len(st)}
  <2>1. ASSUME NEW i \in 1..Len(st2)
        PROVE  st2[i].node = c \/ \E j \in 1..Len(st) : st2[i].node = st[j].node
    <3>1. CASE i = 1
      BY <1>4, <1>6, <3>1
    <3>2. CASE i # 1
      <4>1. i \in 2..(k + 1)
        BY <1>1, <1>6, <3>2
      <4>2. QED
        BY <1>7, <4>1 DEF k
    <3>3. QED
      BY <3>1, <3>2
  <2>2. ASSUME NEW i \in 1..Len(st)
        PROVE  \E j \in 1..Len(st2) : st[i].node = st2[j].node
    <3>1. i + 1 \in 2..(k + 1) /\ i + 1 \in 1..Len(st2) /\ (i + 1) - 1 = i
      BY <1>1, <1>6 DEF k
    <3>2. QED
      BY <1>7, <3>1
  <2>3. \E j \in 1..Len(st2) : c = st2[j].node
    <3>1. 1 \in 1..Len(st2)
      BY <1>1, <1>6
    <3>2. QED
      BY <1>4, <1>6, <3>1
  <2> DEFINE A == {st2[i].node : i \in 1..Len(st2)}
             B == {st[i].node : i \in 1..Len(st)}
  <2>4. \A x \in A : x = c \/ x \in B
    BY <2>1
  <2>5. c \in A /\ \A x \in B : x \in A
    BY <2>2, <2>3
  <2> HIDE DEF A, B
  <2>6. A = {c} \cup B
    BY <2>4, <2>5
  <2>7. QED
    BY <2>6 DEF A, B
<1>16. Pending(h, st2) = Pending(h, st)
  BY <1>10, <1>14, <1>15 DEF Pending
<1>17. QED
  BY <1>3, <1>6, <1>9, <1>10, <1>14, <1>16 DEF st2, f

LEMMA WalkBack ==
    ASSUME NEW h, NEW pth, NEW st, NEW top, Walk(h, pth, st, top), st[1].todo = {}, Len(st) # 1
    PROVE  LET st2 == Tail(st) IN
           /\ Walk(h, pth, st2, top) /\ st2 # <<>>
           /\ st[1].node # Root /\ st2[1].node = h[st[1].node].parent
           /\ st[1].node \notin Ahead(h, st)
           /\ Ahead(h, st2) = Ahead(h, st)
           /\ Pending(h, st2) = Pending(h, st) \ {st[1].node}
<1> DEFINE st2 == Tail(st)
           k == Len(st)
           n == st[1].node
<1>1. /\ Shape(h, pth) /\ k \in Nat \ {0} /\ st \in Seq(Frame(h)) /\ st[k].node = top /\ st # <<>>
      /\ \A i \in 1..k : /\ st[i] \in Frame(h) /\ st[i].node \in DOMAIN h
                         /\ st[i].todo \subseteq Children(h, st[i].node)
      /\ \A i \in 1..(k - 1) :
            /\ st[i].node # Root /\ h[st[i].node].parent = st[i + 1].node
            /\ st[i].node \notin st[i + 1].todo
  BY WalkFrames
<1>2. 1 \in 1..k /\ 1 \in 1..(k - 1) /\ k - 1 \in Nat \ {0} /\ k \in Nat \ {0}
  <2>1. k \in Nat \ {0} /\ k # 1
    BY <1>1
  <2> HIDE DEF k
  <2>2. QED
    BY <2>1
<1>3. st2 \in Seq(Frame(h)) /\ Len(st2) = k - 1 /\ \A i \in 1..(k - 1) : st2[i] = st[i + 1]
  BY <1>1, HeadTailProperties
<1>4. st2 # <<>>
  BY <1>2, <1>3
<1> HIDE DEF st2, k
<1>5. Walking(h, st2, top)
  <2>1. st2[Len(st2)].node = top
    BY <1>1, <1>2, <1>3
  <2>2. \A i \in 1..Len(st2) : st2[i].todo \subseteq Children(h, st2[i].node)
    <3>1. \A i \in 1..(k - 1) : i + 1 \in 1..k
      BY <1>2
    <3>2. QED
      BY <1>1, <1>3, <3>1
  <2>3. \A i \in 1..(Len(st2) - 1) :
          h[st2[i].node].parent = st2[i + 1].node /\ st2[i].node \notin st2[i + 1].todo
    <3>1. \A i \in 1..((k - 1) - 1) : i \in 1..(k - 1) /\ i + 1 \in 1..(k - 1)
      BY <1>2
    <3>2. QED
      BY <1>1, <1>3, <3>1
  <2>4. QED
    BY <1>2, <1>3, <2>1, <2>2, <2>3 DEF Walking
<1>6. Walk(h, pth, st2, top)
  BY <1>5 DEF Walk
<1>7. st[1].node # Root /\ st2[1].node = h[st[1].node].parent
  BY <1>1, <1>2, <1>3
<1>8. n \notin Ahead(h, st)
  BY <1>2, WalkDisjoint DEF k
<1>9. \A m \in DOMAIN h : m \in Ahead(h, st2) <=> m \in Ahead(h, st)
  <2> SUFFICES ASSUME NEW m \in DOMAIN h
               PROVE  m \in Ahead(h, st2) <=> m \in Ahead(h, st)
    OBVIOUS
  <2>1. ASSUME NEW i \in 1..(k - 1), NEW c \in st2[i].todo
        PROVE  i + 1 \in 1..k /\ c \in st[i + 1].todo
    BY <1>2, <1>3
  <2>2. ASSUME NEW i \in 1..k, NEW c \in st[i].todo
        PROVE  i - 1 \in 1..(k - 1) /\ c \in st2[i - 1].todo
    <3>1. i # 1
      OBVIOUS
    <3>2. i - 1 \in 1..(k - 1) /\ (i - 1) + 1 = i
      BY <1>2, <3>1
    <3>3. QED
      BY <1>3, <3>2
  <2>3. m \in Ahead(h, st2) => m \in Ahead(h, st)
    BY <1>3, <2>1 DEF Ahead, k
  <2>4. m \in Ahead(h, st) => m \in Ahead(h, st2)
    BY <1>3, <2>2 DEF Ahead, k
  <2>5. QED
    BY <2>3, <2>4
<1>10. Ahead(h, st2) = Ahead(h, st)
  BY <1>9 DEF Ahead
<1> DEFINE A == {st[i].node : i \in 1..Len(st)}
           B == {st2[i].node : i \in 1..Len(st2)}
<1>11. B = A \ {n}
  <2>1. ASSUME NEW i \in 1..Len(st2)
        PROVE  st2[i].node \in A /\ st2[i].node # n
    <3>1. i + 1 \in 1..k /\ i + 1 # 1 /\ st2[i] = st[i + 1]
      BY <1>2, <1>3
    <3>2. st[i + 1].node # n
      BY <1>2, <3>1, WalkDistinct DEF k
    <3>3. QED
      BY <3>1, <3>2 DEF k
  <2>2. ASSUME NEW i \in 1..Len(st), st[i].node # n
        PROVE  st[i].node \in B
    <3>1. i # 1
      BY <2>2
    <3>2. i - 1 \in 1..(k - 1) /\ (i - 1) + 1 = i
      BY <1>2, <3>1 DEF k
    <3>3. st2[i - 1] = st[i] /\ i - 1 \in 1..Len(st2)
      BY <1>3, <3>2
    <3>4. QED
      BY <3>3
  <2>3. \A x \in B : x \in A /\ x # n
    BY <2>1
  <2>4. \A x \in A : x # n => x \in B
    BY <2>2
  <2> HIDE DEF A, B, n
  <2>5. QED
    BY <2>3, <2>4
<1> HIDE DEF A, B
<1>12. Pending(h, st2) = Ahead(h, st2) \cup B /\ Pending(h, st) = Ahead(h, st) \cup A
  BY DEF Pending, A, B
<1>13. Pending(h, st2) = Pending(h, st) \ {n}
  BY <1>8, <1>10, <1>11, <1>12
<1>14. QED
  BY <1>4, <1>6, <1>7, <1>8, <1>10, <1>13 DEF st2

\* The last call returns when everything is done.
LEMMA WalkEnd ==
    ASSUME NEW h, NEW pth, NEW st, NEW top, Walk(h, pth, st, top), st[1].todo = {}, Len(st) = 1
    PROVE  /\ st[1].node = top /\ Ahead(h, st) = {} /\ Pending(h, st) = {top}
           /\ Tail(st) = <<>> /\ Ahead(h, <<>>) = {}
<1>1. st \in Seq(Frame(h)) /\ st[1].node = top
  BY WalkFrames
<1>2. \A i : i \in 1..Len(st) <=> i = 1
  OBVIOUS
<1>3. Ahead(h, st) = {}
  BY <1>2 DEF Ahead
<1>4. {st[i].node : i \in 1..Len(st)} = {top}
  BY <1>1, <1>2
<1>5. Pending(h, st) = {top}
  BY <1>3, <1>4 DEF Pending
<1>6. Tail(st) = <<>>
  <2>1. Tail(st) \in Seq(Frame(h)) /\ Len(Tail(st)) = 0
    <3>1. st # <<>>
      OBVIOUS
    <3>2. QED
      BY <1>1, <3>1, HeadTailProperties
  <2>2. QED
    BY <2>1, EmptySeq
<1>7. Ahead(h, <<>>) = {}
  BY DEF Ahead
<1>8. QED
  BY <1>1, <1>3, <1>5, <1>6, <1>7

\* A traversal is not disturbed by a change of data.
LEMMA WalkSame ==
    ASSUME NEW h, NEW pth, NEW st, NEW top, Walk(h, pth, st, top), NEW h2, Shape(h2, pth),
           DOMAIN h2 = DOMAIN h,
           \A m \in DOMAIN h : h2[m].parent = h[m].parent /\ Upward(h2)[m] = Upward(h)[m],
           \A m : Children(h2, m) = Children(h, m)
    PROVE  /\ Walk(h2, pth, st, top)
           /\ Ahead(h2, st) = Ahead(h, st) /\ Pending(h2, st) = Pending(h, st)
<1>1. \A i \in 1..Len(st) : st[i].node \in DOMAIN h
  BY WalkFrames
<1>2. Frame(h2) = Frame(h)
  BY DEF Frame
<1>3. Len(st) \in Nat
  BY WalkFrames
<1>4. Walking(h2, st, top)
  <2>1. Walking(h, st, top)
    BY DEF Walk
  <2>2. \A i \in 1..(Len(st) - 1) : h2[st[i].node].parent = h[st[i].node].parent
    BY <1>1, <1>3
  <2>3. QED
    BY <1>2, <2>1, <2>2 DEF Walking
<1>5. Ahead(h2, st) = Ahead(h, st)
  BY DEF Ahead
<1>6. QED
  BY <1>4, <1>5 DEF Walk, Pending

\* ... nor by the removal of the node of the innermost call as it returns.
LEMMA WalkLost ==
    ASSUME NEW h, NEW pth, NEW st, NEW top, Walk(h, pth, st, top), st[1].todo = {}, Len(st) # 1,
           NEW h2, Lost(h, pth, st[1].node, h2)
    PROVE  LET st2 == Tail(st) IN
           /\ Walk(h2, pth, st2, top)
           /\ Ahead(h2, st2) = Ahead(h, st)
           /\ Pending(h2, st2) = Pending(h, st) \ {st[1].node}
<1> DEFINE st2 == Tail(st)
           n == st[1].node
<1>1. /\ Walk(h, pth, st2, top) /\ st2 # <<>> /\ n \notin Ahead(h, st)
      /\ Ahead(h, st2) = Ahead(h, st) /\ Pending(h, st2) = Pending(h, st) \ {n}
  BY WalkBack
<1>2. /\ Shape(h2, pth) /\ DOMAIN h2 = DOMAIN h \ {n}
      /\ \A m \in DOMAIN h2 : h2[m] = h[m] /\ Upward(h2)[m] = Upward(h)[m]
      /\ \A m : Children(h2, m) = Children(h, m) \ {n}
  BY DEF Lost
<1> HIDE DEF st2, n
<1>3. /\ Shape(h, pth) /\ Len(st2) \in Nat \ {0} /\ st2 \in Seq(Frame(h)) /\ st2[Len(st2)].node = top
      /\ \A i \in 1..Len(st2) : /\ st2[i] \in Frame(h) /\ st2[i].node \in DOMAIN h
                                /\ st2[i].todo \subseteq Children(h, st2[i].node)
      /\ \A i \in 1..(Len(st2) - 1) :
            h[st2[i].node].parent = st2[i + 1].node /\ st2[i].node \notin st2[i + 1].todo
  BY <1>1, WalkFrames
<1>4. \A i \in 1..Len(st2) : st2[i].node \in Pending(h, st2)
  BY DEF Pending
<1>5. \A i \in 1..Len(st2) : st2[i].node \in DOMAIN h2
  BY <1>1, <1>2, <1>3, <1>4
<1>6. \A i \in 1..Len(st2) : n \notin st2[i].todo
  <2> SUFFICES ASSUME NEW i \in 1..Len(st2), n \in st2[i].todo
               PROVE  FALSE
    OBVIOUS
  <2>1. n \in DOMAIN h
    BY <1>3 DEF Children
  <2>2. n \in Upward(h)[n]
    BY <1>3, <2>1, UpwardFacts
  <2>3. n \in Ahead(h, st2)
    BY <2>1, <2>2 DEF Ahead
  <2>4. QED
    BY <1>1, <2>3
<1>7. \A i \in 1..Len(st2) : st2[i].todo \subseteq Children(h2, st2[i].node)
  BY <1>2, <1>3, <1>6
<1>8. ASSUME NEW i \in 1..Len(st2)
      PROVE  st2[i] \in Frame(h2)
  <2> DEFINE a == st2[i]
  <2>1. a.todo \subseteq DOMAIN h2
    BY <1>7 DEF Children
  <2>2. a \in Frame(h) /\ a.node \in DOMAIN h2
    BY <1>3, <1>5
  <2> HIDE DEF a
  <2>3. a \in Frame(h2)
    BY <2>1, <2>2 DEF Frame
  <2>4. QED
    BY <2>3 DEF a
<1>9. st2 \in Seq(Frame(h2))
  <2>1. st2 = [i \in 1..Len(st2) |-> st2[i]] /\ Len(st2) \in Nat
    BY <1>3, SeqDef
  <2>2. QED
    BY <1>8, <2>1, IsASeq
<1>10. \A i \in 1..(Len(st2) - 1) : h2[st2[i].node].parent = h[st2[i].node].parent
  BY <1>2, <1>3, <1>5
<1>11. Walking(h2, st2, top)
  BY <1>3, <1>7, <1>9, <1>10 DEF Walking
<1>12. top \in DOMAIN h2
  BY <1>3, <1>5
<1>13. Walk(h2, pth, st2, top)
  BY <1>2, <1>11, <1>12 DEF Walk
<1>14. \A m \in DOMAIN h2 : m \in Ahead(h2, st2) <=> m \in Ahead(h, st2)
  BY <1>2 DEF Ahead
<1>15. Ahead(h2, st2) \subseteq DOMAIN h2 /\ Ahead(h, st2) \subseteq DOMAIN h
  BY DEF Ahead
<1>16. Ahead(h2, st2) = Ahead(h, st2)
  BY <1>1, <1>2, <1>14, <1>15
<1>17. Pending(h2, st2) = Pending(h, st2)
  BY <1>16 DEF Pending
<1>18. QED
  BY <1>1, <1>13, <1>16, <1>17 DEF st2, n

-----------------------------------------------------------------------------
(* What a traversal has done, as a set of paths.                           *)

DoneBy(t, p, pth, S) == {q \in Subtree(p) : t[q] # Absent /\ ~ \E n \in S : pth[n] = q}

LEMMA DoneIs ==
    ASSUME NEW t, NEW p, NEW h, NEW pth, NEW st, \A n \in Pending(h, st) : FullName(h)[n] = pth[n]
    PROVE  Done(t, p, h, st) = DoneBy(t, p, pth, Pending(h, st))
BY DEF Done, DoneBy

LEMMA DoneOneMore ==
    ASSUME NEW t, NEW p, NEW pth, NEW S, NEW n \in S, pth[n] \in Subtree(p), t[pth[n]] # Absent,
           \A m \in S : pth[m] = pth[n] => m = n
    PROVE  /\ DoneBy(t, p, pth, S \ {n}) = DoneBy(t, p, pth, S) \cup {pth[n]}
           /\ pth[n] \notin DoneBy(t, p, pth, S)
BY DEF DoneBy

LEMMA PendingNodes ==
    ASSUME NEW h, NEW pth, NEW st, NEW top, Walk(h, pth, st, top)
    PROVE  /\ Pending(h, st) \subseteq DOMAIN h
           /\ st[1].node \in Pending(h, st)
<1>1. \A i \in 1..Len(st) : st[i].node \in DOMAIN h
  BY WalkFrames
<1>2. 1 \in 1..Len(st)
  <2>1. Len(st) \in Nat \ {0}
    BY WalkFrames
  <2>2. QED
    BY <2>1
<1>3. QED
  BY <1>1, <1>2 DEF Pending, Ahead

LEMMA MoreThanOne ==
    ASSUME NEW h, NEW pth, NEW st, NEW top, Walk(h, pth, st, top)
    PROVE  Len(st) > 1 <=> Len(st) # 1
<1>1. \A k \in Nat \ {0} : k > 1 <=> k # 1
  OBVIOUS
<1>2. Len(st) \in Nat \ {0}
  BY WalkFrames
<1>3. QED
  BY <1>1, <1>2

\* The node a call is for, in the traversal of the subtree of p.
LEMMA Visited ==
    ASSUME NEW h, NEW pth, NEW st, NEW top, Walk(h, pth, st, top), NEW p \in Prop, pth[top] = p
    PROVE  LET n == st[1].node IN
           /\ n \in DOMAIN h \ {Root} /\ pth[n] \in Subtree(p) /\ pth[n] \in Prop
           /\ Flatten(h)[pth[n]] = Data(h[n]) /\ Data(h[n]) \in Node /\ Flatten(h)[pth[n]] # Absent
           /\ \A m \in DOMAIN h : pth[m] = pth[n] => m = n
<1> DEFINE n == st[1].node
           q == pth[n]
           k == Len(st)
<1>1. /\ Shape(h, pth) /\ k \in Nat \ {0} /\ st[k].node = top
      /\ \A i \in 1..k : st[i].node \in DOMAIN h
  BY WalkFrames
<1>2. 1 \in 1..k /\ k \in 1..k
  <2> HIDE DEF k
  <2>1. QED
    BY <1>1
<1>3. n \in DOMAIN h
  BY <1>1, <1>2
<1>4. /\ q \in Seq(Word) /\ Len(q) \in Nat /\ Len(q) - (k - 1) \in 0..Len(q)
      /\ p = Pre(q, Len(q) - (k - 1)) /\ Len(p) = Len(q) - (k - 1)
  <2>1. \A i \in 1..k : /\ q \in Seq(Word) /\ Len(q) \in Nat /\ Len(q) - (i - 1) \in 0..Len(q)
                         /\ Len(pth[st[i].node]) = Len(q) - (i - 1)
                         /\ pth[st[i].node] = Pre(q, Len(q) - (i - 1))
    BY WalkPaths
  <2> HIDE DEF q, k
  <2>2. QED
    BY <1>1, <1>2, <2>1
<1>5. p \in Seq(Word) /\ Len(p) \in Nat \ {0}
  BY PathsAreWords
<1> HIDE DEF n, q, k
<1>6. Leads(p, q) /\ Len(q) # 0
  BY <1>4, <1>5 DEF Leads
<1>7. n # Root
  <2>1. Len(<<>>) = 0
    OBVIOUS
  <2>2. QED
    BY <1>1, <1>6, <2>1, RootHasNoParent DEF q
<1>8. q \in Prop
  BY <1>1, <1>3, <1>7 DEF Shape, q
<1>9. q \in Subtree(p)
  BY <1>6, <1>8, SubtreeIs
<1>10. Flatten(h)[q] = Data(h[n]) /\ Data(h[n]) \in Node
  BY <1>1, <1>3, <1>7, FlattenIs DEF Shape, q
<1>11. \A m \in DOMAIN h : pth[m] = q => m = n
  BY <1>1, <1>3 DEF Shape, q
<1>12. QED
  BY <1>3, <1>7, <1>8, <1>9, <1>10, <1>11, ValueAssumption DEF n, q

\* Before the first node is visited nothing is done.
LEMMA NoneDone ==
    ASSUME NEW h, NEW pth, Shape(h, pth), NEW n \in DOMAIN h \ {Root}, NEW p \in Prop, pth[n] = p,
           NEW t, \A q \in Prop : t[q] # Absent => Flatten(h)[q] # Absent
    PROVE  DoneBy(t, p, pth, Pending(h, <<CallOf(h, n)>>)) = {}
<1> DEFINE S == Pending(h, <<CallOf(h, n)>>)
<1>1. S = {m \in DOMAIN h : n \in Upward(h)[m]}
  BY WalkStart
<1> HIDE DEF S
<1>2. ASSUME NEW q \in Subtree(p), t[q] # Absent
      PROVE  \E m \in S : pth[m] = q
  <2>1. q \in Prop
    BY <1>2 DEF Subtree, Below
  <2>2. PICK m \in DOMAIN h \ {Root} : pth[m] = q
    BY <1>2, <2>1, FlattenIs
  <2>3. n \in Upward(h)[m]
    BY <1>2, <2>2, UpwardSubtree
  <2>4. QED
    BY <1>1, <2>2, <2>3
<1>3. QED
  BY <1>2 DEF DoneBy, S

BlanksOneMore(t, D, q) ==
    /\ t[q] \in Node /\ BlankUserValues(t, D)[q] = t[q]
    /\ BlankUserValues(t, D \cup {q}) =
          [BlankUserValues(t, D) EXCEPT ![q] = [t[q] EXCEPT !.value = Unset]]
    /\ Reported(UserSet(t, D \cup {q})) =
          IF t[q].value = Unset THEN Reported(UserSet(t, D))
          ELSE Reported(UserSet(t, D)) \cup {Propname[q]}

LEMMA BlankOneMore ==
    ASSUME NEW t \in Tree, NEW D, NEW q \in Prop, q \notin D, t[q] # Absent
    PROVE  BlanksOneMore(t, D, q)
<1> DEFINE d == [t[q] EXCEPT !.value = Unset]
           u == BlankUserValues(t, D)
           w == BlankUserValues(t, D \cup {q})
<1>1. t[q] \in Node
  BY DEF Tree
<1>2. t[q].value = Unset => d = t[q]
  BY <1>1 DEF Node
<1>3. UserSet(t, D \cup {q}) = IF t[q].value = Unset THEN UserSet(t, D) ELSE UserSet(t, D) \cup {q}
  BY DEF UserSet
<1>4. u[q] = t[q]
  BY DEF BlankUserValues, UserSet
<1> HIDE DEF d
<1>5. \A r \in Prop : w[r] = IF r = q THEN d ELSE u[r]
  BY <1>2, <1>3, <1>4 DEF BlankUserValues, UserSet, d
<1>6. u = [r \in Prop |-> u[r]] /\ w = [r \in Prop |-> w[r]]
  BY DEF BlankUserValues
<1> HIDE DEF u, w
<1>7. w = [u EXCEPT ![q] = d]
  BY <1>5, <1>6
<1>8. QED
  BY <1>1, <1>3, <1>4, <1>7 DEF Reported, d, u, w, BlanksOneMore

LEMMA BlankPresent ==
    ASSUME NEW t \in Tree, NEW D
    PROVE  /\ \A q \in Prop : BlankUserValues(t, D)[q] = Absent <=> t[q] = Absent
           /\ IsMap(BlankUserValues(t, D))
           /\ BlankUserValues(t, {}) = t /\ UserSet(t, {}) = {} /\ Reported({}) = {}
<1>1. \A q \in Prop : BlankUserValues(t, D)[q] = Absent <=> t[q] = Absent
  <2> SUFFICES ASSUME NEW q \in Prop
               PROVE  BlankUserValues(t, D)[q] = Absent <=> t[q] = Absent
    OBVIOUS
  <2>1. CASE q \in UserSet(t, D)
    <3>1. t[q] # Absent /\ t[q] \in Node
      BY <2>1 DEF UserSet, Tree
    <3>2. [t[q] EXCEPT !.value = Unset] \in Node
      BY <3>1 DEF Node
    <3>3. QED
      BY <2>1, <3>1, <3>2, ValueAssumption DEF BlankUserValues
  <2>2. CASE q \notin UserSet(t, D)
    BY <2>2 DEF BlankUserValues
  <2>3. QED
    BY <2>1, <2>2
<1>2. UserSet(t, {}) = {} /\ Reported({}) = {}
  BY DEF UserSet, Reported
<1>3. t = [q \in Prop |-> t[q]]
  BY DEF Tree
<1>4. BlankUserValues(t, {}) = [q \in Prop |-> t[q]]
  BY <1>2 DEF BlankUserValues
<1>5. IsMap(BlankUserValues(t, D))
  BY DEF IsMap, BlankUserValues
<1>6. QED
  BY <1>1, <1>2, <1>3, <1>4, <1>5

-----------------------------------------------------------------------------
(* Resetting a subtree.                                                    *)

LEMMA InSubtree ==
    ASSUME LoopInv, SubtreeRequest
    PROVE  /\ phase = "running" /\ request.path \in Prop /\ tree[request.path] # Absent /\ tree \in Tree
           /\ Shape(gnode, Path) /\ Head(stack) = stack[1]
           /\ \E top \in DOMAIN gnode : Path[top] = request.path /\ Walk(gnode, Path, stack, top)
<1>1. Shape(gnode, Path) /\ tree \in Tree
  BY DEF LoopInv, Tidy
<1>2. PICK top \in DOMAIN gnode : Path[top] = request.path /\ Walking(gnode, stack, top)
  BY DEF SubtreeRequest
<1>3. Walk(gnode, Path, stack, top)
  BY <1>1, <1>2 DEF Walk
<1>4. Head(stack) = stack[1]
  BY <1>3, WalkFrames
<1>5. QED
  BY <1>1, <1>2, <1>3, <1>4 DEF SubtreeRequest

LEMMA ResetRecursiveStep ==
    ASSUME LoopInv, NEW p \in Prop, ResetRecursive(p)
    PROVE  LoopInv' /\ UNCHANGED Channel!treeVars
<1> DEFINE top == LookupNode(gnode, p)
           pth == Path
<1>1. /\ pc = "idle" /\ phase = "running" /\ top # NULL /\ gnode' = gnode
      /\ pc' = "blanking" /\ tree' = tree /\ phase' = phase /\ UNCHANGED Channel!treeVars
      /\ request'.path = p /\ stack' = <<CallOf(gnode, top)>> /\ reported' = {}
  BY GoesIs DEF ResetRecursive, Call, CallOf
<1>2. tree = Flatten(gnode) /\ tree \in Tree /\ Shape(gnode, pth)
  BY <1>1 DEF LoopInv, BetweenRequests, Tidy
<1>3. top \in DOMAIN gnode \ {Root} /\ pth[top] = p /\ tree[p] # Absent
  BY <1>1, <1>2, Lookup
<1> HIDE DEF top
<1>4. Walk(gnode, pth, stack', top)
  <2> HIDE DEF pth
  <2>1. QED
    BY <1>1, <1>2, <1>3, WalkStart
<1>5. Path' = pth
  BY <1>1 DEF Path
<1>6. Done(tree, p, gnode, stack') = {}
  <2>1. Done(tree, p, gnode, stack') = DoneBy(tree, p, pth, Pending(gnode, stack'))
    BY DoneIs DEF Path
  <2> HIDE DEF pth
  <2>2. \A q \in Prop : tree[q] # Absent => Flatten(gnode)[q] # Absent
    BY <1>2
  <2>3. DoneBy(tree, p, pth, Pending(gnode, <<CallOf(gnode, top)>>)) = {}
    BY <1>2, <1>3, <2>2, NoneDone
  <2>4. QED
    BY <1>1, <2>1, <2>3
<1>7. SubtreeRequest'
  BY <1>1, <1>3, <1>4, <1>5 DEF SubtreeRequest, Walk
<1>8. WhileBlanking'
  <2>1. tree = BlankUserValues(tree, {}) /\ {} = Reported(UserSet(tree, {}))
    BY <1>2, BlankPresent
  <2>2. QED
    BY <1>1, <1>2, <1>6, <1>7, <2>1 DEF WhileBlanking
<1>9. Tidy'
  BY <1>1, <1>2 DEF Tidy, Path
<1>10. QED
  BY <1>1, <1>8, <1>9 DEF LoopInv, BetweenRequests, WhileAdding, WhileAppending,
     WhileClimbing, WhileCleaning, WhileListing

LEMMA DescendStep ==
    ASSUME LoopInv, Descend
    PROVE  LoopInv' /\ UNCHANGED Channel!treeVars
<1>1. SubtreeRequest
  BY DEF Descend, LoopInv, WhileBlanking, WhileCleaning
<1>2. PICK top \in DOMAIN gnode : Path[top] = request.path /\ Walk(gnode, Path, stack, top)
  BY <1>1, InSubtree
<1>3. Head(stack) = stack[1] /\ Shape(gnode, Path)
  BY <1>1, InSubtree
<1>4. PICK c \in stack[1].todo : stack' = IntoCall(gnode, stack, c)
  BY <1>3 DEF Descend, Into, IntoCall, Top, Call, CallOf
<1>5. /\ pc \in {"blanking", "cleaning"} /\ pc' = pc /\ tree' = tree /\ phase' = phase
      /\ UNCHANGED Channel!treeVars
      /\ gnode' = gnode /\ request' = request /\ reported' = reported
  <2>1. Goes(pc) /\ pc \in {"blanking", "cleaning"} /\ UNCHANGED <<gnode, request, reported>>
    BY DEF Descend
  <2>2. QED
    BY <2>1, GoesIs
<1> DEFINE pth == Path
<1>6. Walk(gnode, pth, stack', top) /\ Pending(gnode, stack') = Pending(gnode, stack)
  <2> HIDE DEF pth
  <2>1. Walk(gnode, pth, stack, top)
    BY <1>2 DEF pth
  <2>2. QED
    BY <1>4, <2>1, WalkInto
<1>7. Path' = Path
  BY <1>5 DEF Path
<1>8. Done(tree, request.path, gnode, stack') = Done(tree, request.path, gnode, stack)
  BY <1>6 DEF Done
<1>9. SubtreeRequest'
  BY <1>1, <1>2, <1>5, <1>6, <1>7 DEF SubtreeRequest, Walk
<1>10. WhileBlanking'
  BY <1>5, <1>8, <1>9 DEF LoopInv, WhileBlanking
<1>11. WhileCleaning'
  BY <1>5, <1>8, <1>9 DEF LoopInv, WhileCleaning
<1>12. Tidy'
  BY <1>5, <1>7 DEF LoopInv, Tidy
<1>13. QED
  BY <1>5, <1>10, <1>11, <1>12 DEF LoopInv, BetweenRequests, WhileAdding, WhileAppending,
     WhileClimbing, WhileListing

\* What the two traversals have in common when the innermost call returns: t is
\* the tree before, D the paths of the nodes visited so far, n the node of the
\* call and q its path.
Visits(t, p, h, pth, st, top) ==
    /\ Walk(h, pth, st, top) /\ st[1].todo = {}
    /\ p \in Prop /\ pth[top] = p
    /\ t \in Tree /\ \A q \in Prop : Flatten(h)[q] # Absent => t[q] # Absent

Visiting(t, p, h, pth, st, top, n, q, D) ==
    /\ n \in DOMAIN h \ {Root} /\ q \in Subtree(p) /\ q \in Prop
    /\ Flatten(h)[q] = Data(h[n]) /\ Data(h[n]) \in Node /\ t[q] # Absent
    /\ DoneBy(t, p, pth, Pending(h, st) \ {n}) = D \cup {q} /\ q \notin D
    /\ Len(st) = 1 => n = top /\ D \cup {q} = {r \in Subtree(p) : t[r] # Absent}

LEMMA VisitIs ==
    ASSUME NEW t, NEW p, NEW h, NEW pth, NEW st, NEW top, Visits(t, p, h, pth, st, top)
    PROVE  Visiting(t, p, h, pth, st, top, st[1].node, pth[st[1].node],
                    DoneBy(t, p, pth, Pending(h, st)))
<1> DEFINE n == st[1].node
           q == pth[n]
           S == Pending(h, st)
<1>1. /\ n \in DOMAIN h \ {Root} /\ q \in Subtree(p) /\ q \in Prop
      /\ Flatten(h)[q] = Data(h[n]) /\ Data(h[n]) \in Node /\ Flatten(h)[q] # Absent
      /\ \A m \in DOMAIN h : pth[m] = q => m = n
  BY Visited DEF Visits
<1>2. S \subseteq DOMAIN h /\ n \in S
  BY PendingNodes DEF Visits
<1>3. t[q] # Absent
  BY <1>1 DEF Visits
<1>4. Len(st) = 1 => n = top /\ S = {top}
  BY WalkEnd DEF Visits
<1>5. pth[top] = p
  BY DEF Visits
<1> HIDE DEF n, S
<1>6. DoneBy(t, p, pth, S \ {n}) = DoneBy(t, p, pth, S) \cup {q} /\ q \notin DoneBy(t, p, pth, S)
  BY <1>1, <1>2, <1>3, DoneOneMore
<1>7. Len(st) = 1 => DoneBy(t, p, pth, S) \cup {q} = {r \in Subtree(p) : t[r] # Absent}
  <2> SUFFICES ASSUME Len(st) = 1
               PROVE  DoneBy(t, p, pth, S) \cup {q} = {r \in Subtree(p) : t[r] # Absent}
    OBVIOUS
  <2>1. n = top /\ S = {n} /\ q = p
    BY <1>4, <1>5
  <2>2. pth[n] = p /\ t[p] # Absent
    BY <1>3, <2>1
  <2>3. \A r : r \in DoneBy(t, p, pth, {n}) <=> r \in Subtree(p) /\ t[r] # Absent /\ r # p
    BY <2>2 DEF DoneBy
  <2>4. p \in Subtree(p)
    BY DEF Subtree
  <2>5. DoneBy(t, p, pth, {n}) \cup {p} = {r \in Subtree(p) : t[r] # Absent}
    BY <2>2, <2>3, <2>4
  <2>6. QED
    BY <2>1, <2>5
<1>8. QED
  BY <1>1, <1>3, <1>4, <1>6, <1>7 DEF n, S, Visiting

LEMMA DoPropResetStep ==
    ASSUME LoopInv, DoPropReset
    PROVE  LoopInv' /\ UNCHANGED Channel!treeVars
<1> DEFINE pth == Path
           p == request.path
           n == Top.node
           q == pth[n]
           D == DoneBy(tree, p, pth, Pending(gnode, stack))
           blank == [Data(gnode[n]) EXCEPT !.value = Unset]
<1>1. /\ pc = "blanking" /\ Top.todo = {} /\ gnode' = [gnode EXCEPT ![n].value = Unset]
      /\ reported' = IF gnode[n].value = Unset THEN reported
                     ELSE reported \cup {BuildPropname(gnode)[n]}
      /\ IF Len(stack) > 1 THEN Goes("blanking") /\ stack' = Tail(stack)
         ELSE Goes("cleaning") /\ stack' = <<Call(n)>>
      /\ request' = request
  BY DEF DoPropReset
<1>2. SubtreeRequest /\ Flatten(gnode) = BlankUserValues(tree, Done(tree, p, gnode, stack))
      /\ reported = Reported(UserSet(tree, Done(tree, p, gnode, stack)))
  BY <1>1 DEF LoopInv, WhileBlanking
<1>3. PICK top \in DOMAIN gnode : pth[top] = p /\ Walk(gnode, pth, stack, top)
  BY <1>2, InSubtree
<1>4. /\ Head(stack) = stack[1] /\ Shape(gnode, pth) /\ tree \in Tree /\ phase = "running"
      /\ p \in Prop /\ tree[p] # Absent
  BY <1>2, InSubtree
<1>5. Done(tree, p, gnode, stack) = D
  <2>1. \A m \in Pending(gnode, stack) : FullName(gnode)[m] = pth[m]
    BY DEF Path
  <2> HIDE DEF pth, p
  <2>2. QED
    BY <2>1, DoneIs
<1>6. n = stack[1].node /\ stack[1].todo = {}
  BY <1>1, <1>4 DEF Top
<1>7. \A m \in DOMAIN gnode : FullName(gnode)[m] = pth[m]
  BY DEF Path
<1> HIDE DEF pth, n, p
<1>8. /\ IsMap(Flatten(gnode)) /\ \A r \in Prop : Flatten(gnode)[r] # Absent => tree[r] # Absent
  BY <1>2, <1>4, BlankPresent
<1>9. Visits(tree, p, gnode, pth, stack, top)
  BY <1>3, <1>4, <1>6, <1>8 DEF Visits
<1>10. /\ n \in DOMAIN gnode \ {Root} /\ q \in Subtree(p) /\ q \in Prop
       /\ Flatten(gnode)[q] = Data(gnode[n]) /\ Data(gnode[n]) \in Node /\ tree[q] # Absent
       /\ DoneBy(tree, p, pth, Pending(gnode, stack) \ {n}) = D \cup {q} /\ q \notin D
       /\ Len(stack) = 1 => n = top /\ D \cup {q} = {r \in Subtree(p) : tree[r] # Absent}
  <2>1. Visiting(tree, p, gnode, pth, stack, top, stack[1].node, pth[stack[1].node], D)
    BY <1>9, VisitIs
  <2>2. Visiting(tree, p, gnode, pth, stack, top, n, q, D)
    BY <1>6, <2>1
  <2> HIDE DEF q, D
  <2>3. QED
    BY <2>2 DEF Visiting
<1> HIDE DEF D
<1>11. /\ tree[q] = Data(gnode[n])
       /\ BlankUserValues(tree, D \cup {q}) =
             [BlankUserValues(tree, D) EXCEPT ![q] = [tree[q] EXCEPT !.value = Unset]]
       /\ Reported(UserSet(tree, D \cup {q})) =
             IF tree[q].value = Unset THEN Reported(UserSet(tree, D))
             ELSE Reported(UserSet(tree, D)) \cup {Propname[q]}
  <2>1. Flatten(gnode)[q] = BlankUserValues(tree, D)[q]
    BY <1>2, <1>5
  <2>2. q \in Prop /\ q \notin D /\ tree[q] # Absent /\ Flatten(gnode)[q] = Data(gnode[n])
    BY <1>10
  <2> HIDE DEF q
  <2>3. BlanksOneMore(tree, D, q)
    BY <1>4, <2>2, BlankOneMore
  <2>4. QED
    BY <2>1, <2>2, <2>3 DEF BlanksOneMore
<1>12. gnode' = Changed(gnode, n, blank) /\ blank \in Node
  BY <1>1, <1>4, <1>10, BlankNode
<1>13. blank = [tree[q] EXCEPT !.value = Unset] /\ gnode[n].value = tree[q].value
  BY <1>11 DEF Data
<1> HIDE DEF blank
<1>14. /\ Shape(gnode', pth) /\ DOMAIN gnode' = DOMAIN gnode
       /\ Flatten(gnode') = [Flatten(gnode) EXCEPT ![q] = blank]
       /\ \A m \in DOMAIN gnode : gnode'[m].parent = gnode[m].parent
       /\ \A m : Children(gnode', m) = Children(gnode, m)
  BY <1>4, <1>10, <1>12, DataChanged
<1>15. \A m \in DOMAIN gnode : Upward(gnode')[m] = Upward(gnode)[m]
  <2> SUFFICES ASSUME NEW m \in DOMAIN gnode
               PROVE  Upward(gnode')[m] = Upward(gnode)[m]
    OBVIOUS
  <2>1. Upward(gnode)[m] = {k \in DOMAIN gnode : Leads(pth[k], pth[m])}
    BY <1>4, UpwardIs
  <2>2. Upward(gnode')[m] = {k \in DOMAIN gnode' : Leads(pth[k], pth[m])}
    BY <1>14, UpwardIs
  <2>3. QED
    BY <1>14, <2>1, <2>2
<1>16. Flatten(gnode') = BlankUserValues(tree, D \cup {q})
  BY <1>2, <1>5, <1>11, <1>13, <1>14
<1>17. reported' = Reported(UserSet(tree, D \cup {q}))
  <2>1. BuildPropname(gnode)[n] = AfterShort(q)
    BY <1>4, <1>10, BuildPropnameIs
  <2>2. Propname[q] = AfterShort(q)
    BY <1>10, LoopAssumption
  <2>3. QED
    BY <1>1, <1>2, <1>5, <1>11, <1>13, <2>1, <2>2
<1>18. Shape(gnode', FullName(gnode')) /\ \A m \in DOMAIN gnode' : FullName(gnode')[m] = pth[m]
  BY <1>14, FullNameShape
<1>19. pc' \in {"blanking", "cleaning"} /\ tree' = tree /\ phase' = phase /\ UNCHANGED Channel!treeVars
  BY <1>1, GoesIs
<1>20. Tidy'
  BY <1>4, <1>18, <1>19 DEF Tidy, Path
<1>21. CASE Len(stack) > 1
  <2>1. pc' = "blanking" /\ stack' = Tail(stack)
    BY <1>1, <1>21, GoesIs
  <2>2. Walk(gnode, pth, stack', top) /\ Pending(gnode, stack') = Pending(gnode, stack) \ {n}
    <3>1. Len(stack) # 1
      BY <1>3, <1>21, MoreThanOne
    <3>2. QED
      BY <1>3, <1>6, <2>1, <3>1, WalkBack
  <2>3. Walk(gnode', pth, stack', top) /\ Pending(gnode', stack') = Pending(gnode, stack')
    BY <1>14, <1>15, <2>2, WalkSame
  <2>4. Done(tree, p, gnode', stack') = D \cup {q}
    <3>1. \A m \in Pending(gnode', stack') : FullName(gnode')[m] = pth[m]
      BY <1>18, <2>3, PendingNodes
    <3>2. Done(tree, p, gnode', stack') = DoneBy(tree, p, pth, Pending(gnode', stack'))
      BY <3>1, DoneIs
    <3>3. QED
      BY <1>10, <2>2, <2>3, <3>2
  <2>5. SubtreeRequest'
    <3>1. top \in DOMAIN gnode' /\ Path'[top] = p /\ Walking(gnode', stack', top)
      BY <1>3, <1>14, <1>18, <2>3 DEF Path, Walk
    <3>2. QED
      BY <1>1, <1>4, <1>19, <3>1 DEF SubtreeRequest, p
  <2>6. WhileBlanking'
    BY <1>1, <1>16, <1>17, <1>19, <2>4, <2>5 DEF WhileBlanking, p
  <2>7. QED
    BY <1>19, <1>20, <2>1, <2>6 DEF LoopInv, BetweenRequests, WhileAdding, WhileAppending,
       WhileClimbing, WhileCleaning, WhileListing
<1>22. CASE ~ (Len(stack) > 1)
  <2>1. pc' = "cleaning" /\ stack' = <<CallOf(gnode, n)>>
    BY <1>1, <1>22, GoesIs DEF Call, CallOf
  <2>2. CallOf(gnode, n) = CallOf(gnode', n)
    BY <1>14 DEF CallOf
  <2>3. Len(stack) = 1
    BY <1>3, <1>22, MoreThanOne
  <2>4. n = top /\ D \cup {q} = {r \in Subtree(p) : tree[r] # Absent}
    BY <1>10, <2>3
  <2>5. UserSet(tree, D \cup {q}) = UserSet(tree, Subtree(p))
    BY <2>4 DEF UserSet
  <2>6. Flatten(gnode') = BlankUserValues(tree, Subtree(p))
        /\ reported' = Reported(UserSet(tree, Subtree(p)))
    BY <1>16, <1>17, <2>5 DEF BlankUserValues
  <2>7. Walk(gnode', pth, stack', n)
    BY <1>10, <1>14, <2>1, <2>2, WalkStart
  <2>8. Done(tree, p, gnode', stack') = {}
    <3>1. \A m \in Pending(gnode', stack') : FullName(gnode')[m] = pth[m]
      BY <1>18, <2>7, PendingNodes
    <3>2. Done(tree, p, gnode', stack') = DoneBy(tree, p, pth, Pending(gnode', stack'))
      BY <3>1, DoneIs
    <3>3. \A r \in Prop : tree[r] # Absent => Flatten(gnode')[r] # Absent
      BY <1>4, <2>6, BlankPresent
    <3>4. n \in DOMAIN gnode' \ {Root} /\ pth[n] = p
      BY <1>3, <1>10, <1>14, <2>4
    <3>5. DoneBy(tree, p, pth, Pending(gnode', <<CallOf(gnode', n)>>)) = {}
      BY <1>4, <1>14, <3>3, <3>4, NoneDone
    <3>6. QED
      BY <2>1, <2>2, <3>2, <3>5
  <2>9. SubtreeRequest'
    <3>1. top \in DOMAIN gnode' /\ Path'[top] = p /\ Walking(gnode', stack', top)
      BY <1>3, <1>14, <1>18, <2>4, <2>7 DEF Path, Walk
    <3>2. QED
      BY <1>1, <1>4, <1>19, <3>1 DEF SubtreeRequest, p
  <2>10. WhileCleaning'
    <3> DEFINE b == BlankUserValues(tree, Subtree(p))
    <3>1. IsMap(b)
      BY <1>4, BlankPresent
    <3> HIDE DEF b
    <3>2. b = Destroy(b, {r \in {} : Gone(b, r)})
      BY <3>1 DEF IsMap, Destroy
    <3>3. QED
      BY <1>1, <1>19, <2>6, <2>8, <2>9, <3>2 DEF WhileCleaning, p, b
  <2>11. QED
    BY <1>19, <1>20, <2>1, <2>10 DEF LoopInv, BetweenRequests, WhileAdding, WhileAppending,
       WhileClimbing, WhileBlanking, WhileListing
<1>23. QED
  BY <1>19, <1>21, <1>22

LEMMA Nested ==
    ASSUME NEW p \in Prop, NEW q \in Subtree(p)
    PROVE  q \in Prop /\ Subtree(q) \subseteq Subtree(p) /\ q \in Subtree(q)
<1>1. q \in Prop
  BY DEF Subtree, Below
<1>2. ASSUME NEW r \in Below(q)
      PROVE  r \in Subtree(p)
  <2>1. r \in Prop /\ q \in Above[r]
    BY DEF Below
  <2>2. Above[q] \subseteq Above[r]
    BY <2>1, PathAssumption
  <2>3. QED
    BY <2>1, <2>2 DEF Subtree, Below
<1>3. QED
  BY <1>1, <1>2 DEF Subtree

\* The map of the nodes when those in D are cleaned up.
Cleaned(b, D) == Destroy(b, {q \in D : Gone(b, q)})

\* Whether a node goes shows in what is left below it.
LEMMA GoneIs ==
    ASSUME NEW b, NEW D, NEW q \in Prop, b[q] # Absent, q \notin D,
           \A r \in Below(q) : b[r] # Absent => r \in D
    PROVE  /\ Cleaned(b, D)[q] = b[q]
           /\ ~ HasChildren(Cleaned(b, D), q) /\ Dangling(b[q]) <=> Gone(b, q)
<1> DEFINE f == Cleaned(b, D)
<1>1. \A r \in Prop : f[r] = IF r \in D /\ Gone(b, r) THEN Absent ELSE b[r]
  BY DEF Cleaned, Destroy
<1>2. \A r \in Below(q) : r \in Prop /\ r \in Subtree(q) /\ Subtree(r) \subseteq Subtree(q) /\ r \in Subtree(r)
  <2>1. \A r \in Below(q) : r \in Subtree(q)
    BY DEF Subtree
  <2>2. QED
    BY <2>1, Nested
<1>3. q \in Subtree(q) /\ \A r \in Subtree(q) : r = q \/ r \in Below(q)
  BY DEF Subtree
<1> HIDE DEF f
<1>4. HasChildren(f, q) <=> \E r \in Below(q) : b[r] # Absent /\ ~ Gone(b, r)
  <2>1. \A r \in Below(q) : f[r] # Absent <=> b[r] # Absent /\ ~ Gone(b, r)
    BY <1>1, <1>2
  <2>2. QED
    BY <2>1 DEF HasChildren
<1>5. ASSUME Gone(b, q)
      PROVE  ~ HasChildren(f, q) /\ Dangling(b[q])
  <2>1. \A r \in Below(q) : Gone(b, r)
    BY <1>2, <1>5 DEF Gone
  <2>2. Dangling(b[q])
    BY <1>3, <1>5 DEF Gone
  <2>3. QED
    BY <1>4, <2>1, <2>2
<1>6. ASSUME ~ HasChildren(f, q), Dangling(b[q])
      PROVE  Gone(b, q)
  <2>1. \A r \in Below(q) : b[r] # Absent => Gone(b, r)
    BY <1>4, <1>6
  <2>2. \A r \in Below(q) : b[r] # Absent => Dangling(b[r])
    BY <1>2, <2>1 DEF Gone
  <2>3. QED
    BY <1>3, <1>6, <2>2 DEF Gone
<1>7. f[q] = b[q]
  BY <1>1
<1>8. QED
  BY <1>5, <1>6, <1>7 DEF f

LEMMA CleanedOneMore ==
    ASSUME NEW b, NEW D, NEW q \in Prop
    PROVE  Cleaned(b, D \cup {q}) =
              IF Gone(b, q) THEN PutAt(Cleaned(b, D), q, Absent) ELSE Cleaned(b, D)
<1> DEFINE f == Cleaned(b, D)
           g == Cleaned(b, D \cup {q})
<1>1. f = [r \in Prop |-> f[r]] /\ g = [r \in Prop |-> g[r]]
  BY DEF Cleaned, Destroy
<1>2. \A r \in Prop : /\ f[r] = IF r \in D /\ Gone(b, r) THEN Absent ELSE b[r]
                      /\ g[r] = IF (r \in D \/ r = q) /\ Gone(b, r) THEN Absent ELSE b[r]
  BY DEF Cleaned, Destroy
<1> HIDE DEF f, g
<1>3. CASE Gone(b, q)
  <2>1. \A r \in Prop : g[r] = IF r = q THEN Absent ELSE f[r]
    BY <1>2, <1>3
  <2>2. g = PutAt(f, q, Absent)
    BY <1>1, <2>1 DEF PutAt
  <2>3. QED
    BY <1>3, <2>2 DEF f, g
<1>4. CASE ~ Gone(b, q)
  <2>1. \A r \in Prop : g[r] = f[r]
    BY <1>2, <1>4
  <2>2. g = f
    BY <1>1, <2>1
  <2>3. QED
    BY <1>4, <2>2 DEF f, g
<1>5. QED
  BY <1>3, <1>4

LEMMA CleanedUp ==
    ASSUME NEW b, NEW S
    PROVE  Cleaned(b, {q \in S : b[q] # Absent}) = CleanUp(b, S)
<1> DEFINE f == Cleaned(b, {q \in S : b[q] # Absent})
           g == CleanUp(b, S)
<1>1. f = [r \in Prop |-> f[r]] /\ g = [r \in Prop |-> g[r]]
  BY DEF Cleaned, CleanUp, Destroy
<1>2. \A r \in Prop : f[r] = g[r]
  BY DEF Cleaned, CleanUp, Destroy, Gone
<1> HIDE DEF f, g
<1>3. f = g
  BY <1>1, <1>2
<1>4. QED
  BY <1>3 DEF f, g

\* All below the node of a returning call is done.
LEMMA VisitedBelow ==
    ASSUME NEW t, NEW p, NEW h, NEW pth, NEW st, NEW top, Visits(t, p, h, pth, st, top),
           NEW r \in Below(pth[st[1].node]), t[r] # Absent
    PROVE  r \in DoneBy(t, p, pth, Pending(h, st))
<1> DEFINE n == st[1].node
           S == Pending(h, st)
<1>1. n \in DOMAIN h \ {Root} /\ pth[n] \in Subtree(p) /\ pth[n] \in Prop
  <2>1. Visiting(t, p, h, pth, st, top, n, pth[n], DoneBy(t, p, pth, Pending(h, st)))
    BY VisitIs
  <2>2. QED
    BY <2>1 DEF Visiting
<1>2. p \in Prop /\ Shape(h, pth) /\ Walk(h, pth, st, top) /\ st[1].todo = {}
  BY DEF Visits, Walk
<1>3. r \in Subtree(p) /\ r \in Prop /\ r \in Subtree(pth[n]) /\ r # pth[n]
  <2>1. r \in Subtree(pth[n])
    BY DEF Subtree
  <2>2. r # pth[n]
    BY <1>1, PathAssumption DEF Below
  <2>3. QED
    BY <1>1, <1>2, <2>1, <2>2, Nested
<1>4. S \subseteq DOMAIN h
  BY <1>2, PendingNodes
<1>5. ASSUME NEW m \in S, pth[m] = r
      PROVE  FALSE
  <2>1. m \in DOMAIN h /\ m # n
    BY <1>3, <1>4, <1>5
  <2>2. m # Root
    BY <1>2, <1>3, <1>5, RootHasNoParent, LoopAssumption
  <2>3. n \in Upward(h)[m]
    BY <1>1, <1>2, <1>3, <1>5, <2>1, <2>2, UpwardSubtree
  <2>4. m \notin S
    BY <1>2, <2>1, <2>3, WalkBelow
  <2>5. QED
    BY <2>4
<1>6. QED
  BY <1>3, <1>5 DEF DoneBy

LEMMA CleanUpNodeStep ==
    ASSUME LoopInv, CleanUpNode
    PROVE  /\ LoopInv'
           /\ UNCHANGED Channel!treeVars \/ \E p \in Prop : Channel!ResetBelow(p)
<1> DEFINE pth == Path
           p == request.path
           n == Top.node
           q == pth[n]
           D == DoneBy(tree, p, pth, Pending(gnode, stack))
           b == BlankUserValues(tree, Subtree(p))
           goes == Children(gnode, n) = {} /\ Dangling(gnode[n])
<1>1. /\ pc = "cleaning" /\ Top.todo = {}
      /\ gnode' = IF goes THEN Unlink(gnode, n) ELSE gnode
      /\ IF Len(stack) = 1 THEN Ends(reported)
         ELSE /\ Goes("cleaning") /\ stack' = Tail(stack)
              /\ request' = request /\ reported' = reported
  BY DEF CleanUpNode
<1>2. SubtreeRequest /\ Flatten(gnode) = Cleaned(b, Done(tree, p, gnode, stack))
      /\ reported = Reported(UserSet(tree, Subtree(p)))
  BY <1>1 DEF LoopInv, WhileCleaning, Cleaned
<1>3. PICK top \in DOMAIN gnode : pth[top] = p /\ Walk(gnode, pth, stack, top)
  BY <1>2, InSubtree
<1>4. /\ Head(stack) = stack[1] /\ Shape(gnode, pth) /\ tree \in Tree /\ phase = "running"
      /\ p \in Prop /\ tree[p] # Absent
  BY <1>2, InSubtree
<1>5. \A m \in DOMAIN gnode : FullName(gnode)[m] = pth[m]
  BY DEF Path
<1> HIDE DEF pth, p
<1>6. Done(tree, p, gnode, stack) = D
  <2>1. \A m \in Pending(gnode, stack) : FullName(gnode)[m] = pth[m]
    BY <1>3, <1>5, PendingNodes
  <2>2. QED
    BY <2>1, DoneIs
<1>7. n = stack[1].node /\ stack[1].todo = {}
  BY <1>1, <1>4 DEF Top
<1> HIDE DEF n
<1>8. \A r \in Prop : b[r] = Absent <=> tree[r] = Absent
  BY <1>4, BlankPresent
<1>9. \A r \in Prop : Flatten(gnode)[r] # Absent => tree[r] # Absent
  BY <1>2, <1>8 DEF Cleaned, Destroy
<1>10. Visits(tree, p, gnode, pth, stack, top)
  BY <1>3, <1>4, <1>7, <1>9 DEF Visits
<1>11. /\ n \in DOMAIN gnode \ {Root} /\ q \in Subtree(p) /\ q \in Prop
       /\ Flatten(gnode)[q] = Data(gnode[n]) /\ Data(gnode[n]) \in Node /\ tree[q] # Absent
       /\ DoneBy(tree, p, pth, Pending(gnode, stack) \ {n}) = D \cup {q} /\ q \notin D
       /\ Len(stack) = 1 => n = top /\ D \cup {q} = {r \in Subtree(p) : tree[r] # Absent}
  <2>1. Visiting(tree, p, gnode, pth, stack, top, stack[1].node, pth[stack[1].node], D)
    BY <1>10, VisitIs
  <2>2. Visiting(tree, p, gnode, pth, stack, top, n, q, D)
    BY <1>7, <2>1
  <2> HIDE DEF q, D
  <2>3. QED
    BY <2>2 DEF Visiting
<1>12. \A r \in Below(q) : b[r] # Absent => r \in D
  <2>1. \A r \in Below(pth[stack[1].node]) : tree[r] # Absent => r \in D
    BY <1>10, VisitedBelow
  <2>2. \A r \in Below(q) : r \in Prop
    BY DEF Below
  <2>3. QED
    BY <1>7, <1>8, <2>1, <2>2
<1>13. b[q] # Absent
  BY <1>8, <1>11
<1> HIDE DEF D, b
<1>14. Children(gnode, n) = {} <=> ~ HasChildren(Flatten(gnode), q)
  BY <1>4, <1>11, ChildrenFlat
<1>15. Flatten(gnode) = Cleaned(b, D)
  BY <1>2, <1>6
<1>16. Cleaned(b, D)[q] = b[q] /\ (~ HasChildren(Cleaned(b, D), q) /\ Dangling(b[q]) <=> Gone(b, q))
  BY <1>11, <1>12, <1>13, GoneIs
<1>17. goes <=> Gone(b, q)
  <2>1. Dangling(gnode[n]) <=> Dangling(Data(gnode[n]))
    BY DEF Dangling, Valueless, Data
  <2>2. Data(gnode[n]) = b[q]
    BY <1>11, <1>15, <1>16
  <2>3. QED
    BY <1>14, <1>15, <1>16, <2>1, <2>2
<1>18. Cleaned(b, D \cup {q}) =
          IF Gone(b, q) THEN PutAt(Cleaned(b, D), q, Absent) ELSE Cleaned(b, D)
  BY <1>11, CleanedOneMore
<1>19. /\ Shape(gnode', pth) /\ Flatten(gnode') = Cleaned(b, D \cup {q})
       /\ Len(stack) # 1 => /\ Walk(gnode', pth, Tail(stack), top)
                            /\ Pending(gnode', Tail(stack)) = Pending(gnode, stack) \ {n}
  <2>1. CASE goes
    <3>1. Loses(gnode, pth, n, gnode')
      BY <1>1, <1>4, <1>11, <2>1 DEF Loses
    <3>2. Lost(gnode, pth, n, gnode')
      BY <3>1, LeafUnlinked
    <3>3. Shape(gnode', pth) /\ Flatten(gnode') = PutAt(Flatten(gnode), q, Absent)
      BY <3>2 DEF Lost
    <3>4. Lost(gnode, pth, stack[1].node, gnode')
      BY <1>7, <3>2
    <3>5. Len(stack) # 1 => /\ Walk(gnode', pth, Tail(stack), top)
                            /\ Pending(gnode', Tail(stack)) = Pending(gnode, stack) \ {stack[1].node}
      BY <1>3, <1>7, <3>4, WalkLost
    <3>6. QED
      BY <1>7, <1>15, <1>17, <1>18, <2>1, <3>3, <3>5
  <2>2. CASE ~ goes
    <3>1. gnode' = gnode
      BY <1>1, <2>2
    <3>2. Len(stack) # 1 => /\ Walk(gnode, pth, Tail(stack), top)
                            /\ Pending(gnode, Tail(stack)) = Pending(gnode, stack) \ {stack[1].node}
      BY <1>3, <1>7, WalkBack
    <3>3. QED
      BY <1>4, <1>7, <1>15, <1>17, <1>18, <2>2, <3>1, <3>2
  <2>3. QED
    BY <2>1, <2>2
<1>20. Shape(gnode', FullName(gnode')) /\ \A m \in DOMAIN gnode' : FullName(gnode')[m] = pth[m]
  BY <1>19, FullNameShape
<1> HIDE DEF goes
<1>21. CASE Len(stack) = 1
  <2>1. pc' = "idle" /\ tree' = Flatten(gnode') /\ changed' = reported /\ phase' = phase
    BY <1>1, <1>21 DEF Ends
  <2>2. LoopInv'
    <3>1. Shape(gnode, Path)'
      BY <1>20 DEF Path
    <3>2. QED
      BY <2>1, <3>1, IdleInv
  <2>3. D \cup {q} = {r \in Subtree(p) : b[r] # Absent}
    <3>1. D \cup {q} = {r \in Subtree(p) : tree[r] # Absent}
      BY <1>11, <1>21
    <3>2. \A r \in Subtree(p) : b[r] # Absent <=> tree[r] # Absent
      BY <1>4, <1>8 DEF Subtree, Below
    <3>3. QED
      BY <3>1, <3>2
  <2>4. tree' = CleanUp(b, Subtree(p))
    <3>1. Cleaned(b, {r \in Subtree(p) : b[r] # Absent}) = CleanUp(b, Subtree(p))
      BY CleanedUp
    <3>2. QED
      BY <1>19, <2>1, <2>3, <3>1
  <2>5. changed' = Reported(UserSet(tree, Subtree(p)))
    BY <1>2, <2>1
  <2>6. Channel!ResetBelow(p)
    BY <1>4, <2>1, <2>4, <2>5 DEF b, Channel!ResetBelow, Channel!CleanUp, CleanUp,
       Channel!BlankUserValues, BlankUserValues, Channel!Subtree, Subtree, Channel!Below, Below,
       Channel!UserSet, UserSet, Channel!Reported, Reported, Channel!Destroy, Destroy,
       Channel!Dangling, Dangling, Channel!Valueless, Valueless
  <2>7. QED
    BY <1>4, <2>2, <2>6
<1>22. CASE Len(stack) # 1
  <2>1. /\ pc' = "cleaning" /\ tree' = tree /\ phase' = phase /\ UNCHANGED Channel!treeVars
        /\ stack' = Tail(stack) /\ request' = request /\ reported' = reported
    BY <1>1, <1>22, GoesIs
  <2>2. Walk(gnode', pth, stack', top) /\ Pending(gnode', stack') = Pending(gnode, stack) \ {n}
    BY <1>19, <1>22, <2>1
  <2>3. Done(tree, p, gnode', stack') = D \cup {q}
    <3>1. \A m \in Pending(gnode', stack') : FullName(gnode')[m] = pth[m]
      BY <1>20, <2>2, PendingNodes
    <3>2. Done(tree, p, gnode', stack') = DoneBy(tree, p, pth, Pending(gnode', stack'))
      BY <3>1, DoneIs
    <3>3. QED
      BY <1>11, <2>2, <3>2
  <2>4. SubtreeRequest'
    <3>1. top \in DOMAIN gnode' /\ Walking(gnode', stack', top)
      BY <2>2 DEF Walk
    <3>2. Path'[top] = p
      BY <1>3, <1>20, <3>1 DEF Path
    <3>3. QED
      BY <1>4, <2>1, <3>1, <3>2 DEF SubtreeRequest, p
  <2>5. WhileCleaning'
    BY <1>2, <1>19, <2>1, <2>3, <2>4 DEF WhileCleaning, p, b, Cleaned
  <2>6. Tidy'
    BY <1>4, <1>20, <2>1 DEF Tidy, Path
  <2>7. QED
    BY <2>1, <2>5, <2>6 DEF LoopInv, BetweenRequests, WhileAdding, WhileAppending,
       WhileClimbing, WhileBlanking, WhileListing
<1>23. QED
  BY <1>21, <1>22

-----------------------------------------------------------------------------
(* Listing a subtree.                                                      *)

\* The properties a listing has come to, with the nodes of S still ahead.
ListedBy(t, base, pth, S) ==
    {q \in Under(base) : Visible(t, q) # Unset /\ ~ \E n \in S : pth[n] = q}

Entries(t, X) == {<<p, Visible(t, p)>> : p \in X}

ListsOneMore(t, base, pth, S, n) ==
    Entries(t, ListedBy(t, base, pth, S \ {n})) =
       IF Visible(t, pth[n]) = Unset THEN Entries(t, ListedBy(t, base, pth, S))
       ELSE Entries(t, ListedBy(t, base, pth, S)) \cup {<<pth[n], Visible(t, pth[n])>>}

LEMMA ListOneMore ==
    ASSUME NEW t, NEW base, NEW pth, NEW S, NEW n \in S, pth[n] \in Under(base),
           \A m \in S : pth[m] = pth[n] => m = n
    PROVE  ListsOneMore(t, base, pth, S, n)
<1> DEFINE X == ListedBy(t, base, pth, S)
           Y == ListedBy(t, base, pth, S \ {n})
           q == pth[n]
<1>1. Y = IF Visible(t, q) = Unset THEN X ELSE X \cup {q}
  BY DEF ListedBy
<1> HIDE DEF X, Y, q
<1>2. Entries(t, X \cup {q}) = Entries(t, X) \cup {<<q, Visible(t, q)>>}
  BY DEF Entries
<1>3. QED
  BY <1>1, <1>2 DEF X, Y, q, ListsOneMore

\* What is read at a node is what is visible under its path.
LEMMA VisibleAt ==
    ASSUME NEW h, NEW pth, Shape(h, pth)
    PROVE  /\ \A n \in DOMAIN h \ {Root} : Visible(Flatten(h), pth[n]) = ValueToGet(h[n])
           /\ ValueToGet(h[Root]) = Unset
           /\ \A q \in Prop : Visible(Flatten(h), q) # Unset => \E n \in DOMAIN h \ {Root} : pth[n] = q
<1>1. ASSUME NEW n \in DOMAIN h \ {Root}
      PROVE  Visible(Flatten(h), pth[n]) = ValueToGet(h[n])
  <2>1. Flatten(h)[pth[n]] = Data(h[n]) /\ Data(h[n]) \in Node
    BY FlattenIs DEF Shape
  <2>2. Flatten(h)[pth[n]] # Absent
    BY <2>1, ValueAssumption
  <2>3. ValueToGet(Data(h[n])) = ValueToGet(h[n])
    BY DEF ValueToGet, Data
  <2>4. QED
    BY <2>1, <2>2, <2>3 DEF Visible
<1>2. ValueToGet(h[Root]) = Unset
  <2>1. h[Root] = NewNode(NULL, "/", Branch)
    BY DEF Shape
  <2>2. QED
    BY <2>1 DEF NewNode, Branch, ValueToGet
<1>3. ASSUME NEW q \in Prop, Visible(Flatten(h), q) # Unset
      PROVE  \E n \in DOMAIN h \ {Root} : pth[n] = q
  <2>1. Flatten(h)[q] # Absent
    BY <1>3 DEF Visible
  <2>2. QED
    BY <2>1, FlattenIs
<1>4. QED
  BY <1>1, <1>2, <1>3

\* All nodes below the base, by their paths.
LEMMA UnderBase ==
    ASSUME NEW h, NEW pth, Shape(h, pth), NEW n \in DOMAIN h, NEW base, pth[n] = base,
           NEW m \in DOMAIN h
    PROVE  n \in Upward(h)[m] <=> pth[m] \in Under(base) \/ m = n
<1>1. CASE n = Root
  <2>1. base = <<>> /\ pth[m] \in Seq(Word)
    BY <1>1, RootHasNoParent, PathsOfNodes
  <2>2. Leads(<<>>, pth[m])
    <3>1. Len(<<>>) = 0 /\ Len(pth[m]) \in Nat /\ Pre(pth[m], 0) = <<>>
      BY <2>1, LenProperties, WholeAndEmpty
    <3>2. QED
      BY <3>1 DEF Leads
  <2>3. n \in Upward(h)[m]
    BY <1>1, <2>1, <2>2, UpwardIs
  <2>4. m # Root => pth[m] \in Prop
    BY PathsOfNodes
  <2>5. QED
    BY <1>1, <2>1, <2>3, <2>4 DEF Under
<1>2. CASE n # Root
  <2>1. base \in Prop /\ base # <<>>
    BY <1>2, PathsOfNodes, LoopAssumption
  <2>2. n \in Upward(h)[m] <=> m # Root /\ pth[m] \in Subtree(pth[n])
    BY <1>2, UpwardSubtree
  <2>3. Under(base) = Subtree(base) /\ base \in Subtree(base) /\ Subtree(base) \subseteq Prop
    BY <2>1 DEF Under, Subtree, Below
  <2>4. m = Root => pth[m] \notin Prop
    BY PathsOfNodes
  <2>5. QED
    BY <1>2, <2>2, <2>3, <2>4
<1>3. QED
  BY <1>1, <1>2

LEMMA NoneListed ==
    ASSUME NEW h, NEW pth, Shape(h, pth), NEW n \in DOMAIN h, NEW base, pth[n] = base
    PROVE  /\ ListedBy(Flatten(h), base, pth, Pending(h, <<CallOf(h, n)>>)) = {}
           /\ Ahead(h, <<CallOf(h, n)>>) = Pending(h, <<CallOf(h, n)>>) \ {n}
           /\ n \in Pending(h, <<CallOf(h, n)>>)
<1> DEFINE S == Pending(h, <<CallOf(h, n)>>)
<1>1. S = {m \in DOMAIN h : n \in Upward(h)[m]} /\ Ahead(h, <<CallOf(h, n)>>) = S \ {n}
  BY WalkStart
<1>2. n \in S
  BY <1>1, UpwardFacts
<1> HIDE DEF S
<1>3. ASSUME NEW q \in Under(base), Visible(Flatten(h), q) # Unset
      PROVE  \E m \in S : pth[m] = q
  <2>1. q \in Prop
    <3>1. base \in Prop \/ base = <<>>
      BY RootHasNoParent, PathsOfNodes
    <3>2. QED
      BY <1>3, <3>1 DEF Under, Subtree, Below
  <2>2. PICK m \in DOMAIN h \ {Root} : pth[m] = q
    BY <1>3, <2>1, VisibleAt
  <2>3. n \in Upward(h)[m]
    BY <1>3, <2>2, UnderBase
  <2>4. QED
    BY <1>1, <2>2, <2>3
<1>4. ListedBy(Flatten(h), base, pth, S) = {}
  BY <1>3 DEF ListedBy
<1>5. QED
  BY <1>1, <1>2, <1>4 DEF S

SameCalls(f, g, u) == <<f>> \o (<<g>> \o u) = <<f, g>> \o u

LEMMA OneCallMore ==
    ASSUME NEW S, NEW f \in S, NEW g \in S, NEW u \in Seq(S)
    PROVE  SameCalls(f, g, u)
<1>1. <<f>> \in Seq(S) /\ <<g>> \in Seq(S) /\ <<f>> \o <<g>> = <<f, g>>
  <2>1. <<f>> \in Seq(S) /\ <<g>> \in Seq(S)
    OBVIOUS
  <2> DEFINE a == <<f>>
             b == <<g>>
             c == <<f, g>>
  <2>2. Len(a) = 1 /\ Len(b) = 1 /\ a[1] = f /\ b[1] = g
    OBVIOUS
  <2>3. c \in Seq(S) /\ Len(c) = 2 /\ c[1] = f /\ c[2] = g
    OBVIOUS
  <2>4. a \in Seq(S) /\ b \in Seq(S)
    OBVIOUS
  <2> HIDE DEF a, b, c
  <2>5. /\ a \o b \in Seq(S) /\ Len(a \o b) = Len(a) + Len(b)
        /\ \A i \in 1..(Len(a) + Len(b)) :
              (a \o b)[i] = IF i <= Len(a) THEN a[i] ELSE b[i - Len(a)]
    BY <2>4, ConcatProperties
  <2>6. Len(a \o b) = 2 /\ (a \o b)[1] = f /\ (a \o b)[2] = g
    BY <2>2, <2>5
  <2>7. \A i \in 1..2 : (a \o b)[i] = c[i]
    BY <2>3, <2>6
  <2>8. a \o b = c
    BY <2>3, <2>5, <2>6, <2>7, SeqEqual
  <2>9. QED
    BY <2>1, <2>8 DEF a, b, c
<1>2. (<<f>> \o <<g>>) \o u = <<f>> \o (<<g>> \o u)
  BY <1>1, ConcatAssociative
<1>3. QED
  BY <1>1, <1>2 DEF SameCalls

\* The path of a node from that of its parent, and back.
LEMMA UpAndDown ==
    ASSUME NEW h, NEW pth, Shape(h, pth), NEW n \in DOMAIN h \ {Root}
    PROVE  /\ Append(pth[h[n].parent], h[n].name) = pth[n]
           /\ Front(pth[n]) = pth[h[n].parent]
           /\ h[n].name # "/" /\ pth[n] # <<>> /\ pth[n] \in Prop
<1>1. Append(pth[h[n].parent], h[n].name) = pth[n] /\ h[n].name # "/" /\ pth[n] \in Prop
  BY DEF Shape, Word
<1>2. pth[h[n].parent] = Pre(pth[n], Len(pth[n]) - 1)
  BY PathsOfNodes
<1>3. QED
  BY <1>1, <1>2, LoopAssumption DEF Front, Pre

\* What a listing has done when it is to go on at the calls st.
Listing(h, pth, base, st, entries, path) ==
    /\ entries = Entries(Flatten(h), ListedBy(Flatten(h), base, pth, Ahead(h, st)))
    /\ st # <<>> =>
          /\ \E top \in DOMAIN h : pth[top] = base /\ Walk(h, pth, st, top)
          /\ path = IF st[1].node = Root \/ Children(h, st[1].node) # {} THEN pth[st[1].node]
                    ELSE Front(pth[st[1].node])

LEMMA ListingIs ==
    ASSUME LoopInv, pc = "listing"
    PROVE  /\ tree = Flatten(gnode) /\ tree \in Tree /\ Shape(gnode, Path)
           /\ request.path \in Prop \cup {<<>>}
           /\ Listing(gnode, Path, request.path, stack, table, cur_path)
           /\ stack # <<>> => Top = stack[1]
<1>1. /\ tree = Flatten(gnode) /\ tree \in Tree /\ Shape(gnode, Path)
      /\ request.path \in Prop \cup {<<>>}
      /\ table = Entries(tree, ListedBy(tree, request.path, Path, Ahead(gnode, stack)))
      /\ stack # <<>> =>
            /\ \E top \in DOMAIN gnode : Path[top] = request.path /\ Walking(gnode, stack, top)
            /\ LET n == Head(stack).node IN
               cur_path = IF n = Root \/ Children(gnode, n) # {} THEN Path[n] ELSE Front(Path[n])
  BY DEF LoopInv, Tidy, WhileListing, Entries, ListedBy
<1>2. stack # <<>> => \E top \in DOMAIN gnode : Path[top] = request.path /\ Walk(gnode, Path, stack, top)
  BY <1>1 DEF Walk
<1>3. stack # <<>> => Head(stack) = stack[1]
  BY <1>2, WalkFrames
<1> DEFINE pth == Path
<1> HIDE DEF pth
<1>4. Listing(gnode, pth, request.path, stack, table, cur_path)
  BY <1>1, <1>2, <1>3 DEF Listing, pth
<1>5. QED
  BY <1>1, <1>3, <1>4 DEF Top, pth

\* ... and conversely, after a step that leaves the nodes as they are.
LEMMA ListingAgain ==
    ASSUME LoopInv, gnode' = gnode, tree = Flatten(gnode), Goes("listing"),
           request'.path \in Prop \cup {<<>>},
           Listing(gnode, Path, request'.path, stack', table', cur_path')
    PROVE  LoopInv' /\ UNCHANGED Channel!treeVars
<1> DEFINE pth == Path
<1>1. pc' = "listing" /\ tree' = tree /\ phase' = phase /\ UNCHANGED Channel!treeVars
  BY GoesIs
<1>2. Path' = pth
  BY DEF Path
<1>3. Tidy'
  BY <1>1 DEF LoopInv, Tidy, Path
<1>4. Listing(gnode, pth, request'.path, stack', table', cur_path')
  OBVIOUS
<1> HIDE DEF pth
<1>5. table' = Entries(tree, ListedBy(tree, request'.path, pth, Ahead(gnode, stack')))
  BY <1>4 DEF Listing
<1>6. ASSUME stack' # <<>>
      PROVE  /\ \E top \in DOMAIN gnode : pth[top] = request'.path /\ Walking(gnode, stack', top)
             /\ LET n == Head(stack').node IN
                cur_path' = IF n = Root \/ Children(gnode, n) # {} THEN pth[n] ELSE Front(pth[n])
  <2>1. PICK top \in DOMAIN gnode : pth[top] = request'.path /\ Walk(gnode, pth, stack', top)
    BY <1>4, <1>6 DEF Listing
  <2>2. Head(stack') = stack'[1]
    BY <2>1, WalkFrames
  <2>3. QED
    BY <1>4, <1>6, <2>1, <2>2 DEF Listing, Walk
<1>7. WhileListing'
  BY <1>1, <1>2, <1>5, <1>6 DEF WhileListing, Entries, ListedBy
<1>8. QED
  BY <1>1, <1>3, <1>7 DEF LoopInv, BetweenRequests, WhileAdding, WhileAppending,
     WhileClimbing, WhileBlanking, WhileCleaning

LEMMA GetAllStep ==
    ASSUME LoopInv, NEW base \in Prop \cup {<<>>}, GetAll(base)
    PROVE  LoopInv' /\ UNCHANGED Channel!treeVars
<1> DEFINE n == IF base = <<>> THEN Root ELSE LookupNode(gnode, base)
           path == IF base = <<>> THEN <<>> ELSE Front(base)
           pth == Path
           st == <<CallOf(gnode, n)>>
<1>1. /\ pc = "idle" /\ n # NULL /\ Goes("listing") /\ request'.path = base /\ gnode' = gnode
      /\ Enter(n, <<>>, path, {})
  BY DEF GetAll
<1>2. tree = Flatten(gnode) /\ tree \in Tree /\ Shape(gnode, pth)
  BY <1>1 DEF LoopInv, BetweenRequests, Tidy
<1>3. n \in DOMAIN gnode /\ pth[n] = base
  <2>1. CASE base = <<>>
    BY <1>2, <2>1, RootHasNoParent DEF Shape
  <2>2. CASE base # <<>>
    BY <1>1, <1>2, <2>2, Lookup
  <2>3. QED
    BY <2>1, <2>2
<1>4. n = Root <=> base = <<>>
  <2>1. n # Root <=> pth[n] \in Prop
    BY <1>2, <1>3, PathsOfNodes
  <2>2. <<>> \notin Prop
    BY LoopAssumption
  <2> HIDE DEF n, pth
  <2>3. QED
    BY <1>3, <2>1, <2>2
<1>5. stack' = st
  <2>1. stack' = <<CallOf(gnode, n)>> \o <<>>
    BY <1>1 DEF Enter, Call, CallOf
  <2>2. CallOf(gnode, n) \in Frame(gnode)
    BY <1>3, CallIs
  <2> HIDE DEF n
  <2>3. <<CallOf(gnode, n)>> \o <<>> = <<CallOf(gnode, n)>>
    <3>1. <<CallOf(gnode, n)>> \in Seq(Frame(gnode))
      BY <2>2
    <3>2. QED
      BY <3>1, ConcatEmptySeq
  <2>4. QED
    BY <2>1, <2>3
<1>6. /\ table' = IF ValueToGet(gnode[n]) = Unset THEN {}
                  ELSE {<<Append(path, gnode[n].name), ValueToGet(gnode[n])>>}
      /\ cur_path' = IF Children(gnode, n) # {} /\ gnode[n].name # "/"
                     THEN Append(path, gnode[n].name) ELSE path
  BY <1>1 DEF Enter
<1>7. n # Root => Append(path, gnode[n].name) = base /\ gnode[n].name # "/" /\ path = Front(base)
  <2>1. n # Root => path = Front(base)
    BY <1>4
  <2> HIDE DEF n, pth, path
  <2>2. QED
    BY <1>2, <1>3, <2>1, UpAndDown
<1>8. n = Root => path = <<>> /\ gnode[n].name = "/"
  BY <1>2, <1>4, RootHasNoParent
<1> HIDE DEF n, pth, path
<1>9. /\ ListedBy(tree, base, pth, Pending(gnode, st)) = {}
      /\ Ahead(gnode, st) = Pending(gnode, st) \ {n} /\ n \in Pending(gnode, st)
  BY <1>2, <1>3, NoneListed
<1>10. Walk(gnode, pth, st, n) /\ st # <<>> /\ st[1] = CallOf(gnode, n)
  BY <1>2, <1>3, WalkStart
<1>11. st[1].node = n
  BY <1>10 DEF CallOf
<1> HIDE DEF st
<1>12. table' = Entries(tree, ListedBy(tree, base, pth, Ahead(gnode, st)))
  <2>1. CASE n = Root
    <3>1. ListedBy(tree, base, pth, Pending(gnode, st) \ {n}) = {}
      <4>1. \A q \in Under(base) : q # pth[n]
        BY <1>3, <1>4, <2>1, LoopAssumption DEF Under
      <4>2. ListedBy(tree, base, pth, Pending(gnode, st) \ {n})
               \subseteq ListedBy(tree, base, pth, Pending(gnode, st))
        BY <4>1 DEF ListedBy
      <4>3. QED
        BY <1>9, <4>2
    <3>2. ValueToGet(gnode[n]) = Unset
      BY <1>2, <2>1, VisibleAt
    <3>3. Entries(tree, {}) = {}
      BY DEF Entries
    <3>4. QED
      BY <1>6, <1>9, <3>1, <3>2, <3>3
  <2>2. CASE n # Root
    <3>1. pth[n] \in Under(base)
      BY <1>3, <1>4, <2>2 DEF Under, Subtree
    <3>2. \A m \in Pending(gnode, st) : pth[m] = pth[n] => m = n
      <4>1. Pending(gnode, st) \subseteq DOMAIN gnode
        BY <1>10, PendingNodes
      <4>2. QED
        BY <1>2, <1>3, <4>1 DEF Shape
    <3>3. ListsOneMore(tree, base, pth, Pending(gnode, st), n)
      BY <1>9, <3>1, <3>2, ListOneMore
    <3>4. Visible(tree, pth[n]) = ValueToGet(gnode[n])
      BY <1>2, <1>3, <2>2, VisibleAt
    <3>5. Entries(tree, {}) = {}
      BY DEF Entries
    <3>6. QED
      BY <1>3, <1>6, <1>7, <1>9, <2>2, <3>3, <3>4, <3>5 DEF ListsOneMore
  <2>3. QED
    BY <2>1, <2>2
<1>13. cur_path' = IF n = Root \/ Children(gnode, n) # {} THEN pth[n] ELSE Front(pth[n])
  BY <1>3, <1>4, <1>6, <1>7, <1>8
<1>14. Listing(gnode, pth, base, st, table', cur_path')
  BY <1>2, <1>3, <1>10, <1>11, <1>12, <1>13 DEF Listing
<1>15. Listing(gnode, Path, request'.path, stack', table', cur_path')
  BY <1>1, <1>5, <1>14 DEF pth
<1>16. QED
  BY <1>1, <1>2, <1>15, ListingAgain

\* The outermost call is for a node above that of the innermost one.
LEMMA OnStackBelow ==
    ASSUME NEW h, NEW pth, NEW st, NEW top, Walk(h, pth, st, top)
    PROVE  top \in Upward(h)[st[1].node]
<1> DEFINE n == st[1].node
           q == pth[n]
           k == Len(st)
<1>1. /\ Shape(h, pth) /\ k \in Nat \ {0} /\ st[k].node = top
      /\ \A i \in 1..k : st[i].node \in DOMAIN h
  BY WalkFrames
<1>2. \A i \in 1..k : /\ q \in Seq(Word) /\ Len(q) \in Nat /\ Len(q) - (i - 1) \in 0..Len(q)
                       /\ Len(pth[st[i].node]) = Len(q) - (i - 1)
                       /\ pth[st[i].node] = Pre(q, Len(q) - (i - 1))
  <2> SUFFICES ASSUME NEW i \in 1..k
               PROVE  /\ q \in Seq(Word) /\ Len(q) \in Nat /\ Len(q) - (i - 1) \in 0..Len(q)
                      /\ Len(pth[st[i].node]) = Len(q) - (i - 1)
                      /\ pth[st[i].node] = Pre(q, Len(q) - (i - 1))
    OBVIOUS
  <2>1. QED
    BY WalkPaths
<1> HIDE DEF q, k
<1>3. 1 \in 1..k /\ k \in 1..k
  BY <1>1
<1>4. Leads(pth[top], q)
  BY <1>1, <1>2, <1>3 DEF Leads
<1>5. n \in DOMAIN h /\ top \in DOMAIN h
  BY <1>1, <1>3
<1>6. QED
  BY <1>1, <1>4, <1>5, UpwardIs DEF q

LEMMA ListChildStep ==
    ASSUME LoopInv, ListChild
    PROVE  LoopInv' /\ UNCHANGED Channel!treeVars
<1> DEFINE pth == Path
           base == request.path
           up == stack[1].node
           S == Ahead(gnode, stack)
<1>1. pc = "listing" /\ stack # <<>> /\ Goes("listing") /\ gnode' = gnode /\ request' = request
  BY DEF ListChild
<1>2. /\ tree = Flatten(gnode) /\ tree \in Tree /\ Shape(gnode, pth)
      /\ base \in Prop \cup {<<>>} /\ Listing(gnode, pth, base, stack, table, cur_path)
      /\ Top = stack[1]
  BY <1>1, ListingIs
<1>3. PICK c \in stack[1].todo :
         Enter(c, <<[stack[1] EXCEPT !.todo = @ \ {c}]>> \o Tail(stack), cur_path, table)
  BY <1>2 DEF ListChild
<1> DEFINE q == pth[c]
           v == ValueToGet(gnode[c])
           path == Append(cur_path, gnode[c].name)
           st == IntoCall(gnode, stack, c)
<1>4. /\ table' = IF v = Unset THEN table ELSE table \cup {<<path, v>>}
      /\ cur_path' = IF Children(gnode, c) # {} /\ gnode[c].name # "/" THEN path ELSE cur_path
      /\ stack' = <<CallOf(gnode, c)>> \o (<<[stack[1] EXCEPT !.todo = @ \ {c}]>> \o Tail(stack))
  BY <1>3 DEF Enter, Call, CallOf
<1> HIDE DEF pth, base
<1>5. PICK top \in DOMAIN gnode : pth[top] = base /\ Walk(gnode, pth, stack, top)
  BY <1>1, <1>2 DEF Listing
<1>6. /\ cur_path = IF up = Root \/ Children(gnode, up) # {} THEN pth[up] ELSE Front(pth[up])
      /\ table = Entries(tree, ListedBy(tree, base, pth, S))
  BY <1>1, <1>2 DEF Listing
<1>7. /\ Len(stack) \in Nat \ {0} /\ stack \in Seq(Frame(gnode)) /\ stack # <<>>
      /\ \A i \in 1..Len(stack) : stack[i] \in Frame(gnode) /\ stack[i].node \in DOMAIN gnode
  BY <1>5, WalkFrames
<1>8. stack[1] \in Frame(gnode) /\ up \in DOMAIN gnode
  <2>1. 1 \in 1..Len(stack)
    BY <1>7
  <2>2. QED
    BY <1>7, <2>1
<1>9. /\ Walk(gnode, pth, st, top) /\ st # <<>> /\ st[1] = CallOf(gnode, c)
      /\ c \in S /\ c \in Children(gnode, up) /\ Ahead(gnode, st) = S \ {c}
  BY <1>5, WalkInto
<1>10. stack' = st
  <2> DEFINE f == CallOf(gnode, c)
             g == [stack[1] EXCEPT !.todo = @ \ {c}]
  <2>1. c \in DOMAIN gnode
    BY <1>9 DEF Children
  <2>2. f \in Frame(gnode)
    BY <2>1, CallIs
  <2>3. g \in Frame(gnode)
    BY <1>8 DEF Frame
  <2>4. Tail(stack) \in Seq(Frame(gnode))
    BY <1>7, HeadTailProperties
  <2>5. stack' = <<f>> \o (<<g>> \o Tail(stack)) /\ st = <<f, g>> \o Tail(stack)
    BY <1>4 DEF IntoCall
  <2> DEFINE u == Tail(stack)
             F == Frame(gnode)
  <2>6. u \in Seq(F) /\ f \in F /\ g \in F
    BY <2>2, <2>3, <2>4
  <2> HIDE DEF f, g, u, F
  <2>7. SameCalls(f, g, u)
    BY <2>6, OneCallMore
  <2>8. QED
    BY <2>5, <2>7 DEF u, SameCalls
<1> HIDE DEF st, S
<1>11. c \in DOMAIN gnode \ {Root} /\ gnode[c].parent = up
  BY <1>2, <1>8, <1>9, ChildrenOf
<1>12. /\ Append(pth[up], gnode[c].name) = q /\ Front(q) = pth[up] /\ gnode[c].name # "/"
       /\ q \in Prop
  BY <1>2, <1>11, UpAndDown
<1>13. cur_path = pth[up] /\ path = q
  BY <1>6, <1>9, <1>12
<1>14. st[1].node = c
  BY <1>9 DEF CallOf
<1>15. cur_path' = IF c = Root \/ Children(gnode, c) # {} THEN pth[c] ELSE Front(pth[c])
  BY <1>4, <1>11, <1>12, <1>13
<1>16. table' = Entries(tree, ListedBy(tree, base, pth, S \ {c}))
  <2>1. q \in Under(base)
    <3>1. top \in Upward(gnode)[c]
      <4>1. c \in Pending(gnode, st)
        BY <1>9, <1>14, PendingNodes
      <4>2. QED
        BY <1>9, <1>14, OnStackBelow
    <3>2. q \in Under(base) \/ c = top
      BY <1>2, <1>5, <1>11, <3>1, UnderBase
    <3>3. c = top => q \in Under(base)
      BY <1>5, <1>12, LoopAssumption DEF Under, Subtree
    <3>4. QED
      BY <3>2, <3>3
  <2>2. \A m \in S : pth[m] = pth[c] => m = c
    <3>1. S \subseteq DOMAIN gnode
      BY DEF Ahead, S
    <3>2. QED
      BY <1>2, <1>11, <3>1 DEF Shape
  <2>3. ListsOneMore(tree, base, pth, S, c)
    BY <1>9, <2>1, <2>2, ListOneMore
  <2>4. Visible(tree, pth[c]) = v
    BY <1>2, <1>11, VisibleAt
  <2>5. QED
    BY <1>4, <1>6, <1>13, <2>3, <2>4 DEF ListsOneMore
<1>17. Listing(gnode, pth, base, st, table', cur_path')
  BY <1>2, <1>5, <1>9, <1>14, <1>15, <1>16 DEF Listing
<1>18. Listing(gnode, Path, request'.path, stack', table', cur_path')
  BY <1>1, <1>10, <1>17 DEF pth, base
<1>19. request'.path \in Prop \cup {<<>>}
  BY <1>1, <1>2 DEF base
<1>20. QED
  BY <1>1, <1>2, <1>18, <1>19, ListingAgain

LEMMA ListReturnStep ==
    ASSUME LoopInv, ListReturn
    PROVE  LoopInv' /\ UNCHANGED Channel!treeVars
<1> DEFINE pth == Path
           base == request.path
           n == stack[1].node
<1>1. /\ pc = "listing" /\ stack # <<>> /\ Goes("listing") /\ gnode' = gnode /\ request' = request
      /\ stack' = Tail(stack) /\ table' = table /\ Top.todo = {}
      /\ cur_path' = IF Children(gnode, Top.node) # {} /\ cur_path # <<>>
                     THEN Front(cur_path) ELSE cur_path
  BY DEF ListReturn
<1>2. /\ tree = Flatten(gnode) /\ tree \in Tree /\ Shape(gnode, pth)
      /\ base \in Prop \cup {<<>>} /\ Listing(gnode, pth, base, stack, table, cur_path)
      /\ Top = stack[1]
  BY <1>1, ListingIs
<1> HIDE DEF pth, base
<1>3. PICK top \in DOMAIN gnode : pth[top] = base /\ Walk(gnode, pth, stack, top)
  BY <1>1, <1>2 DEF Listing
<1>4. /\ cur_path = IF n = Root \/ Children(gnode, n) # {} THEN pth[n] ELSE Front(pth[n])
      /\ table = Entries(tree, ListedBy(tree, base, pth, Ahead(gnode, stack)))
  BY <1>1, <1>2 DEF Listing
<1>5. Listing(gnode, pth, base, stack', table', cur_path')
  <2>1. CASE Len(stack) = 1
    <3>1. Tail(stack) = <<>> /\ Ahead(gnode, <<>>) = {} /\ Ahead(gnode, stack) = {}
      BY <1>1, <1>2, <1>3, <2>1, WalkEnd
    <3>2. QED
      BY <1>1, <1>2, <1>4, <3>1 DEF Listing
  <2>2. CASE Len(stack) # 1
    <3>1. /\ Walk(gnode, pth, stack', top) /\ stack' # <<>>
          /\ n # Root /\ stack'[1].node = gnode[n].parent
          /\ Ahead(gnode, stack') = Ahead(gnode, stack)
      BY <1>1, <1>2, <1>3, <2>2, WalkBack
    <3>2. n \in DOMAIN gnode
      <4>1. n \in Pending(gnode, stack) /\ Pending(gnode, stack) \subseteq DOMAIN gnode
        BY <1>3, PendingNodes
      <4>2. QED
        BY <4>1
    <3> DEFINE up == stack'[1].node
    <3>3. n \in Children(gnode, up)
      BY <3>1, <3>2 DEF Children
    <3>4. Front(pth[n]) = pth[up] /\ pth[n] # <<>>
      BY <1>2, <3>1, <3>2, UpAndDown
    <3>5. cur_path' = pth[up]
      BY <1>1, <1>2, <1>4, <3>1, <3>4
    <3>6. cur_path' = IF up = Root \/ Children(gnode, up) # {} THEN pth[up] ELSE Front(pth[up])
      BY <3>3, <3>5
    <3>7. QED
      BY <1>1, <1>2, <1>3, <1>4, <3>1, <3>6 DEF Listing
  <2>3. QED
    BY <2>1, <2>2
<1>6. Listing(gnode, Path, request'.path, stack', table', cur_path')
  BY <1>1, <1>5 DEF pth, base
<1>7. request'.path \in Prop \cup {<<>>}
  BY <1>1, <1>2 DEF base
<1>8. QED
  BY <1>1, <1>2, <1>6, <1>7, ListingAgain

LEMMA ListedStep ==
    ASSUME LoopInv, Listed
    PROVE  LoopInv' /\ UNCHANGED Channel!treeVars
<1>1. /\ pc = "listing" /\ pc' = "idle" /\ gnode' = gnode /\ tree' = tree
      /\ UNCHANGED Channel!treeVars
  BY GoesIs DEF Listed
<1>2. tree' = Flatten(gnode')
  BY <1>1, ListingIs
<1>3. Shape(gnode, Path)'
  BY <1>1 DEF LoopInv, Tidy, Path
<1>4. QED
  BY <1>1, <1>2, <1>3, IdleInv

-----------------------------------------------------------------------------
(***************************************************************************)
(* Theorems.                                                               *)
(***************************************************************************)

\* Every request, loop round and call keeps the invariant and is a step of
\* the abstract tree, or none.
LEMMA StepInv ==
    ASSUME LoopInv, [Next]_vars
    PROVE  LoopInv' /\ [Channel!TreeNext]_(Channel!treeVars)
<1>1. ASSUME NEW p \in Prop, NEW v \in Val \cup {Unset}, NEW lock \in BOOLEAN, MergeSystem(p, v, lock)
      PROVE  LoopInv' /\ [Channel!TreeNext]_(Channel!treeVars)
  BY <1>1, MergeSystemStep DEF Channel!TreeNext
<1>2. ASSUME Loaded
      PROVE  LoopInv' /\ [Channel!TreeNext]_(Channel!treeVars)
  BY <1>2, LoadedStep DEF Channel!TreeNext
<1>3. ASSUME NEW p \in Prop, NEW v \in Val, Set(p, v)
      PROVE  LoopInv' /\ [Channel!TreeNext]_(Channel!treeVars)
  BY <1>3, SetStep DEF Channel!TreeNext
<1>4. ASSUME NEW p \in Prop, ResetOne(p)
      PROVE  LoopInv' /\ [Channel!TreeNext]_(Channel!treeVars)
  BY <1>4, ResetOneStep DEF Channel!TreeNext
<1>5. ASSUME NEW p \in Prop, ResetRecursive(p)
      PROVE  LoopInv' /\ [Channel!TreeNext]_(Channel!treeVars)
  BY <1>5, ResetRecursiveStep
<1>6. ASSUME NEW base \in Prop \cup {<<>>}, GetAll(base)
      PROVE  LoopInv' /\ [Channel!TreeNext]_(Channel!treeVars)
  BY <1>6, GetAllStep
<1>7. ASSUME LookupParent
      PROVE  LoopInv' /\ [Channel!TreeNext]_(Channel!treeVars)
  BY <1>7, LookupParentStep
<1>8. ASSUME AppendNode
      PROVE  LoopInv' /\ [Channel!TreeNext]_(Channel!treeVars)
  BY <1>8, AppendNodeStep DEF Channel!TreeNext
<1>9. ASSUME Climb
      PROVE  LoopInv' /\ [Channel!TreeNext]_(Channel!treeVars)
  BY <1>9, ClimbStep DEF Channel!TreeNext
<1>10. ASSUME Descend
       PROVE  LoopInv' /\ [Channel!TreeNext]_(Channel!treeVars)
  BY <1>10, DescendStep
<1>11. ASSUME DoPropReset
       PROVE  LoopInv' /\ [Channel!TreeNext]_(Channel!treeVars)
  BY <1>11, DoPropResetStep
<1>12. ASSUME CleanUpNode
       PROVE  LoopInv' /\ [Channel!TreeNext]_(Channel!treeVars)
  BY <1>12, CleanUpNodeStep DEF Channel!TreeNext
<1>13. ASSUME ListChild
       PROVE  LoopInv' /\ [Channel!TreeNext]_(Channel!treeVars)
  BY <1>13, ListChildStep
<1>14. ASSUME ListReturn
       PROVE  LoopInv' /\ [Channel!TreeNext]_(Channel!treeVars)
  BY <1>14, ListReturnStep
<1>15. ASSUME Listed
       PROVE  LoopInv' /\ [Channel!TreeNext]_(Channel!treeVars)
  BY <1>15, ListedStep
<1>16. ASSUME UNCHANGED vars
       PROVE  LoopInv' /\ [Channel!TreeNext]_(Channel!treeVars)
  <2>1. /\ gnode' = gnode /\ tree' = tree /\ phase' = phase /\ changed' = changed /\ pc' = pc
        /\ request' = request /\ depth' = depth /\ parent' = parent /\ stack' = stack
        /\ reported' = reported /\ table' = table /\ cur_path' = cur_path
    BY <1>16 DEF vars, locals, upVars, downVars, listVars
  <2>2. Path' = Path
    BY <2>1 DEF Path
  <2>3. AddRequest' = AddRequest /\ SubtreeRequest' = SubtreeRequest
    BY <2>1, <2>2 DEF AddRequest, SubtreeRequest
  <2>4. Tidy' /\ BetweenRequests' /\ WhileAdding' /\ WhileAppending'
    BY <2>1, <2>2, <2>3 DEF LoopInv, Tidy, BetweenRequests, WhileAdding, WhileAppending
  <2>5. WhileClimbing' /\ WhileBlanking' /\ WhileCleaning' /\ WhileListing'
    BY <2>1, <2>2, <2>3 DEF LoopInv, WhileClimbing, WhileBlanking, WhileCleaning, WhileListing
  <2>6. QED
    BY <2>1, <2>4, <2>5 DEF LoopInv, Channel!treeVars
<1>17. QED
  BY <1>1, <1>2, <1>3, <1>4, <1>5, <1>6, <1>7, <1>8, <1>9, <1>10, <1>11, <1>12, <1>13, <1>14,
     <1>15, <1>16 DEF Next, Request, Loop

\* LoopInv holds in every state: the GNodes are a tree in which no two nodes
\* have the same path, and every loop has done just the part of its request
\* that its locals say.
THEOREM LoopInvariant == Spec => []LoopInv
<1>1. Init => LoopInv
  BY InitInv
<1>2. LoopInv /\ [Next]_vars => LoopInv'
  BY StepInv
<1>3. QED
  BY <1>1, <1>2, PTL DEF Spec

\* Looking up the name of a node leads back to that node, at every step of
\* add_property, reset and the two traversals, for all paths and nodes.
THEOREM NodesAreFound == Spec => []EveryNodeIsFound
<1>1. LoopInv => EveryNodeIsFound
  <2> SUFFICES ASSUME LoopInv, NEW n \in DOMAIN gnode \ {Root}
               PROVE  LookupNode(gnode, FullName(gnode)[n]) = n
    BY DEF EveryNodeIsFound
  <2> DEFINE pth == FullName(gnode)
  <2>1. Shape(gnode, pth)
    BY DEF LoopInv, Tidy, Path
  <2> HIDE DEF pth
  <2>2. pth[n] \in Prop
    BY <2>1, PathsOfNodes
  <2>3. \A m \in DOMAIN gnode : pth[m] = pth[n] => LookupNode(gnode, pth[n]) = m
    BY <2>1, <2>2, LookupOfPath
  <2>4. LookupNode(gnode, pth[n]) = n
    BY <2>3
  <2>5. QED
    BY <2>4 DEF pth
<1>2. QED
  BY <1>1, LoopInvariant, PTL

\* When get_all has returned from all its calls, its table holds what a get
\* would return below the base, under the full names.
THEOREM ListingIsComplete == Spec => []GetAllListsSubtree
<1>1. LoopInv => GetAllListsSubtree
  <2> SUFFICES ASSUME LoopInv, pc = "listing", stack = <<>>
               PROVE  table = {<<p, Visible(tree, p)>> : p \in
                         IF request.path = <<>> THEN {q \in Prop : Visible(tree, q) # Unset}
                         ELSE AllBelow(tree, request.path)}
    BY DEF GetAllListsSubtree
  <2> DEFINE base == request.path
             X == IF base = <<>> THEN {q \in Prop : Visible(tree, q) # Unset}
                  ELSE AllBelow(tree, base)
  <2>1. tree = Flatten(gnode) /\ Listing(gnode, Path, base, stack, table, cur_path)
    BY ListingIs
  <2>2. Ahead(gnode, stack) = {}
    BY DEF Ahead
  <2> HIDE DEF base
  <2>3. table = Entries(tree, ListedBy(tree, base, Path, {}))
    <3> DEFINE pth == Path
    <3> HIDE DEF pth
    <3>1. Listing(gnode, pth, base, stack, table, cur_path)
      BY <2>1 DEF pth
    <3>2. table = Entries(tree, ListedBy(tree, base, pth, {}))
      BY <2>1, <2>2, <3>1 DEF Listing
    <3>3. QED
      BY <3>2 DEF pth
  <2>4. ListedBy(tree, base, Path, {}) = X
    BY DEF ListedBy, Under, AllBelow
  <2> HIDE DEF X
  <2>5. table = {<<p, Visible(tree, p)>> : p \in X}
    BY <2>3, <2>4 DEF Entries
  <2>6. QED
    BY <2>5 DEF X, base
<1>2. QED
  BY <1>1, LoopInvariant, PTL

\* The loops over GNodes implement the one-step operations of ChannelTree, for
\* every tree, every channel and whatever g_node_new returns.
THEOREM LoopsImplementTree == Spec => ImplementsChannelTree
<1>1. Init => Channel!TreeInit
  BY InitInv
<1>2. LoopInv /\ [Next]_vars => [Channel!TreeNext]_(Channel!treeVars)
  BY StepInv
<1>3. QED
  BY <1>1, <1>2, LoopInvariant, PTL DEF Spec, ImplementsChannelTree, Channel!TreeSpec

=============================================================================
