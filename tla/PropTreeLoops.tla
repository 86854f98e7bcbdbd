--------------------------- MODULE PropTreeLoops ----------------------------
(***************************************************************************)
(* The loops behind the property tree, over the GNodes it is made of: the  *)
(* component-by-component lookup, the creation of missing parents, the     *)
(* climb after a reset, the two post-order traversals of a recursive       *)
(* reset, and the listing of a subtree.                                    *)
(*                                                                         *)
(* A loop goes one round a step, a recursion one call a step.  Requests do *)
(* not overlap: blconfd has one thread.  A path is the sequence of name    *)
(* components that g_strsplit yields.  The order of siblings is left open. *)
(***************************************************************************)
EXTENDS PropTree, Integers, SequencesExt

CONSTANTS
    ShortNames, \* names of one character, "/" of the root among them
    GNode,      \* what g_node_new may return
    Root,       \* the GNode of "/"
    NULL

\* A path is the names from the root down; build_propname makes of it what
\* comes after the last name of one character.
AfterShort(p) ==
    SubSeq(p, 1 + Max({0} \cup {i \in 1..Len(p) : p[i] \in ShortNames}), Len(p))

ASSUME LoopAssumption ==
    /\ Prop \subseteq Seq(STRING \ {"/"}) \ {<<>>}
    /\ \A p \in Prop : Above[p] = {SubSeq(p, 1, k) : k \in 1..(Len(p) - 1)}
    /\ \A p \in Prop : Propname[p] = AfterShort(p)
    /\ "/" \in ShortNames
    /\ Root \in GNode /\ NULL \notin GNode

VARIABLES
    gnode,      \* the GNodes there are, with their BlconfProperty
    tree,       \* what the nodes stood for when the last request ended
    phase,      \* "loading" or "running"
    changed,    \* properties reported as changed by the last request
    pc,         \* the loop in progress, "idle" for none
    request,    \* the property it is about, and what an add puts there
    depth,      \* add_property: components of the name being looked up or made
    parent,     \* add_property and reset: the local of that name
    stack,      \* g_node_traverse and get_all: calls, the innermost one first
    reported,   \* names nodes_do_prop_reset has reported so far
    table,      \* get_all: the hash table
    cur_path    \* get_all: the buffer

upVars == <<depth, parent>>
downVars == <<stack, reported>>
listVars == <<table, cur_path>>
locals == <<request, upVars, downVars, listVars>>
vars == <<gnode, tree, phase, changed, pc, locals>>

NewNode(up, name, data) ==
    [parent |-> up, name |-> name, value |-> data.value,
     system_value |-> data.system_value, locked |-> data.locked]

Data(n) == [value |-> n.value, system_value |-> n.system_value, locked |-> n.locked]

Children(h, n) == {c \in DOMAIN h : h[c].parent = n}

\* A node and those above it.
Upward(h) ==
    LET up[n \in DOMAIN h] == IF h[n].parent = NULL THEN {n} ELSE {n} \cup up[h[n].parent]
    IN  up

\* g_node_unlink and destroy of n, with everything below it.
Unlink(h, n) == [m \in {k \in DOMAIN h : n \notin Upward(h)[k]} |-> h[m]]

-----------------------------------------------------------------------------
(***************************************************************************)
(* blconf_proptree_lookup_node: at each component a child of that name     *)
(* becomes the parent for the next; NULL as soon as there is none.         *)
(***************************************************************************)
ChildNamed(h, n, name) ==
    LET named == {c \in Children(h, n) : h[c].name = name}
    IN  IF named = {} THEN NULL ELSE CHOOSE c \in named : TRUE

LookupNode(h, parts) ==
    LET node[i \in 0..Len(parts)] ==
            IF i = 0 THEN Root
            ELSE IF node[i - 1] = NULL THEN NULL ELSE ChildNamed(h, node[i - 1], parts[i])
    IN  node[Len(parts)]

\* blconf_proptree_lookup of every property: the map the nodes stand for.
Flatten(h) ==
    [p \in Prop |-> LET n == LookupNode(h, p) IN IF n = NULL THEN Absent ELSE Data(h[n])]

\* blconf_proptree_build_propname: names are collected on the way up, until
\* one has a single character, as the "/" of the root has.
BuildPropname(h) ==
    LET components[n \in DOMAIN h] ==
            IF h[n].name \in ShortNames THEN <<>>
            ELSE Append(components[h[n].parent], h[n].name)
    IN  components

-----------------------------------------------------------------------------
(* Setting a property, by a client or by a system file.                    *)

ClearLocals ==
    /\ request' = [path |-> <<>>] /\ depth' = 0 /\ parent' = NULL
    /\ stack' = <<>> /\ reported' = {} /\ table' = {} /\ cur_path' = <<>>

\* Nothing is seen of a request before it ends.
Goes(loop) == pc' = loop /\ UNCHANGED <<tree, phase, changed>>
Ends(names) ==
    /\ pc' = "idle" /\ ClearLocals
    /\ tree' = Flatten(gnode') /\ changed' = names
    /\ UNCHANGED phase

BeginAdd(p, data, names) ==
    /\ Goes("adding") /\ UNCHANGED gnode
    /\ request' = [path |-> p, data |-> data, names |-> names]
    /\ depth' = Len(p)
    /\ UNCHANGED <<parent, downVars, listVars>>

Overwrite(n, data, names) ==
    /\ gnode' = [gnode EXCEPT ![n] = NewNode(@.parent, @.name, data)]
    /\ Ends(names)

\* A <property> element of a system file, merged into an unlocked channel.
MergeSystem(p, v, lock) ==
    LET n == LookupNode(gnode, p)
        data == [value |-> Unset, system_value |-> v, locked |-> lock]
    IN  /\ pc = "idle" /\ phase = "loading"
        /\ IF n = NULL THEN BeginAdd(p, data, {}) ELSE Overwrite(n, data, {})

Loaded ==
    /\ pc = "idle" /\ phase = "loading"
    /\ phase' = "running" /\ changed' = {}
    /\ UNCHANGED <<gnode, tree, pc, locals>>

\* blconf_backend_perchannel_xml_set of a value that is not there yet.
Set(p, v) ==
    LET n == LookupNode(gnode, p)
    IN  /\ pc = "idle" /\ phase = "running"
        /\ IF n = NULL
           THEN BeginAdd(p, [value |-> v, system_value |-> Unset, locked |-> FALSE], {p})
           ELSE /\ ~gnode[n].locked /\ ValueToGet(gnode[n]) # v
                /\ Overwrite(n, [Data(gnode[n]) EXCEPT !.value = v], {p})

\* Faulty: the lookup of the parent starts one component too high.
LookupParentTooHigh ==
    LET up == IF depth < 3 THEN Root ELSE LookupNode(gnode, SubSeq(request.path, 1, depth - 2))
    IN  /\ pc = "adding"
        /\ IF up = NULL
           THEN Goes("adding") /\ depth' = depth - 1 /\ UNCHANGED parent
           ELSE Goes("appending") /\ parent' = up /\ UNCHANGED depth
        /\ UNCHANGED <<gnode, request, downVars, listVars>>

(***************************************************************************)
(* blconf_proptree_add_property on its way down the recursion: the parent  *)
(* of the node to make is looked up, and if there is none it has to be     *)
(* made first, one component less.                                         *)
(***************************************************************************)
LookupParent ==
    LET up == IF depth = 1 THEN Root ELSE LookupNode(gnode, SubSeq(request.path, 1, depth - 1))
    IN  /\ pc = "adding"
        /\ IF up = NULL
           THEN Goes("adding") /\ depth' = depth - 1 /\ UNCHANGED parent
           ELSE Goes("appending") /\ parent' = up /\ UNCHANGED depth
        /\ UNCHANGED <<gnode, request, downVars, listVars>>

\* ... and on its way back: each call appends its node below the one that the
\* call before has made.
AppendNode ==
    LET last == depth = Len(request.path)
    IN  /\ pc = "appending"
        /\ \E n \in GNode \ DOMAIN gnode :
              /\ gnode' = [m \in DOMAIN gnode \cup {n} |->
                    IF m = n THEN NewNode(parent, request.path[depth],
                                          IF last THEN request.data ELSE Branch)
                    ELSE gnode[m]]
              /\ IF last THEN Ends(request.names)
                 ELSE /\ Goes("appending") /\ parent' = n /\ depth' = depth + 1
                      /\ UNCHANGED <<request, downVars, listVars>>

-----------------------------------------------------------------------------
(* Resetting one property.                                                 *)

\* blconf_proptree_reset of a node that holds a value.
ResetOne(p) ==
    LET n == LookupNode(gnode, p)
    IN  /\ pc = "idle" /\ phase = "running"
        /\ n # NULL /\ gnode[n].value # Unset
        /\ IF Children(gnode, n) # {} \/ gnode[n].system_value # Unset
           THEN gnode' = [gnode EXCEPT ![n].value = Unset] /\ Ends({p})
           ELSE /\ gnode' = Unlink(gnode, n)
                /\ parent' = gnode[n].parent
                /\ Goes("climbing") /\ request' = [path |-> p]
                /\ UNCHANGED <<depth, downVars, listVars>>

\* Faulty: the climb does not look at parent->children.
ClimbToValue ==
    /\ pc = "climbing"
    /\ IF Valueless(gnode[parent]) /\ gnode[parent].name # "/"
       THEN /\ gnode' = Unlink(gnode, parent) /\ parent' = gnode[parent].parent
            /\ Goes("climbing") /\ UNCHANGED <<request, depth, downVars, listVars>>
       ELSE UNCHANGED gnode /\ Ends({request.path})

\* Its while(parent) loop.
Climb ==
    /\ pc = "climbing"
    /\ IF /\ Valueless(gnode[parent]) /\ Children(gnode, parent) = {}
          /\ gnode[parent].name # "/"
       THEN /\ gnode' = Unlink(gnode, parent) /\ parent' = gnode[parent].parent
            /\ Goes("climbing") /\ UNCHANGED <<request, depth, downVars, listVars>>
       ELSE UNCHANGED gnode /\ Ends({request.path})

-----------------------------------------------------------------------------
(* Resetting a subtree: two times g_node_traverse in G_POST_ORDER.         *)

\* A call for node n, with the children it has still to go to.
Call(n) == [node |-> n, todo |-> Children(gnode, n)]
Top == Head(stack)
Into(c) == <<Call(c), [Top EXCEPT !.todo = @ \ {c}]>> \o Tail(stack)

ResetRecursive(p) ==
    LET top == LookupNode(gnode, p)
    IN  /\ pc = "idle" /\ phase = "running"
        /\ top # NULL
        /\ Goes("blanking") /\ request' = [path |-> p, top |-> top]
        /\ stack' = <<Call(top)>> /\ reported' = {}
        /\ UNCHANGED <<gnode, upVars, listVars>>

Descend ==
    /\ pc \in {"blanking", "cleaning"}
    /\ \E c \in Top.todo : stack' = Into(c)
    /\ Goes(pc) /\ UNCHANGED <<gnode, request, upVars, reported, listVars>>

\* nodes_do_prop_reset.
DoPropReset ==
    LET n == Top.node
    IN  /\ pc = "blanking" /\ Top.todo = {}
        /\ gnode' = [gnode EXCEPT ![n].value = Unset]
        /\ reported' = IF gnode[n].value = Unset THEN reported
                       ELSE reported \cup {BuildPropname(gnode)[n]}
        /\ IF Len(stack) > 1 THEN Goes("blanking") /\ stack' = Tail(stack)
           ELSE Goes("cleaning") /\ stack' = <<Call(n)>>
        /\ UNCHANGED <<request, upVars, listVars>>

\* nodes_clean_up: unlinking the node that is visited does not disturb the
\* traversal, which has read its next sibling before.
CleanUpNode ==
    LET n == Top.node
    IN  /\ pc = "cleaning" /\ Top.todo = {}
        /\ gnode' = IF Children(gnode, n) = {} /\ Dangling(gnode[n])
                    THEN Unlink(gnode, n) ELSE gnode
        /\ IF Len(stack) = 1 THEN Ends(reported)
           ELSE /\ Goes("cleaning") /\ stack' = Tail(stack)
                /\ UNCHANGED <<request, upVars, reported, listVars>>

-----------------------------------------------------------------------------
(* get_all, and blconf_proptree_node_to_hash_table.                        *)

\* The part of a call before it goes to the children.  A base is <<>> for the
\* root of the channel.
Enter(n, calls, path, entries) ==
    /\ table' = IF ValueToGet(gnode[n]) = Unset THEN entries
                ELSE entries \cup {<<Append(path, gnode[n].name), ValueToGet(gnode[n])>>}
    /\ cur_path' = IF Children(gnode, n) # {} /\ gnode[n].name # "/"
                   THEN Append(path, gnode[n].name) ELSE path
    /\ stack' = <<Call(n)>> \o calls

GetAll(base) ==
    LET n == IF base = <<>> THEN Root ELSE LookupNode(gnode, base)
    IN  /\ pc = "idle" /\ phase = "running"
        /\ n # NULL
        /\ Goes("listing") /\ request' = [path |-> base]
        /\ Enter(n, <<>>, IF base = <<>> THEN <<>> ELSE Front(base), {})
        /\ UNCHANGED <<gnode, upVars, reported>>

ListChild ==
    /\ pc = "listing" /\ stack # <<>>
    /\ \E c \in Top.todo :
          Enter(c, <<[Top EXCEPT !.todo = @ \ {c}]>> \o Tail(stack), cur_path, table)
    /\ Goes(pc) /\ UNCHANGED <<gnode, request, upVars, reported>>

\* Faulty: cur_path is not cut after the children.
ListReturnUncut ==
    /\ pc = "listing" /\ stack # <<>> /\ Top.todo = {}
    /\ stack' = Tail(stack)
    /\ Goes(pc) /\ UNCHANGED <<gnode, request, upVars, reported, listVars>>

\* The buffer, which all calls share, is cut at its last component after the
\* children.
ListReturn ==
    /\ pc = "listing" /\ stack # <<>> /\ Top.todo = {}
    /\ cur_path' = IF Children(gnode, Top.node) # {} /\ cur_path # <<>>
                   THEN Front(cur_path) ELSE cur_path
    /\ stack' = Tail(stack)
    /\ Goes(pc) /\ UNCHANGED <<gnode, request, upVars, reported, table>>

Listed ==
    /\ pc = "listing" /\ stack = <<>>
    /\ Goes("idle") /\ ClearLocals
    /\ UNCHANGED gnode

Init ==
    /\ gnode = [n \in {Root} |-> NewNode(NULL, "/", Branch)]
    /\ tree = EmptyTree
    /\ phase = "loading" /\ changed = {} /\ pc = "idle"
    /\ request = [path |-> <<>>] /\ depth = 0 /\ parent = NULL
    /\ stack = <<>> /\ reported = {} /\ table = {} /\ cur_path = <<>>

Request ==
    \/ \E p \in Prop, v \in Val \cup {Unset}, lock \in BOOLEAN : MergeSystem(p, v, lock)
    \/ Loaded
    \/ \E p \in Prop, v \in Val : Set(p, v)
    \/ \E p \in Prop : ResetOne(p) \/ ResetRecursive(p)
    \/ \E base \in Prop \cup {<<>>} : GetAll(base)

Loop == LookupParent \/ AppendNode \/ Climb \/ Descend \/ DoPropReset \/ CleanUpNode
        \/ ListChild \/ ListReturn \/ Listed

Next == Request \/ Loop

Spec == Init /\ [][Next]_vars

-----------------------------------------------------------------------------
(* Properties.                                                             *)

Channel == INSTANCE ChannelTree

\* The GNode loops implement the closed-form tree operations of PropTree: set,
\* proptree_reset with its climb, and the two traversals with what they
\* report.  A request takes effect when it ends.
ImplementsChannelTree == Channel!TreeSpec

\* The names from the root down to a node.
FullName(h) ==
    LET names[n \in DOMAIN h] ==
            IF h[n].parent = NULL THEN <<>> ELSE Append(names[h[n].parent], h[n].name)
    IN  names

\* Looking up the name of any node in the tree leads back to that node, also
\* in the middle of a request: no sequence of adds and unlinks hides a node
\* behind a sibling of the same name ("here we assume the entry does not
\* already exist", add_property).
EveryNodeIsFound ==
    \A n \in DOMAIN gnode \ {Root} : LookupNode(gnode, FullName(gnode)[n]) = n

\* get_all lists exactly the properties a get would return below the given
\* base, under their full names, although all levels share one path buffer.
GetAllListsSubtree ==
    pc = "listing" /\ stack = <<>> =>
        table = {<<p, Visible(tree, p)>> : p \in
                    IF request.path = <<>> THEN {q \in Prop : Visible(tree, q) # Unset}
                    ELSE AllBelow(tree, request.path)}

=============================================================================
