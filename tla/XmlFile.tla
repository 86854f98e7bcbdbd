------------------------------ MODULE XmlFile -------------------------------
(***************************************************************************)
(* The XML files of one channel: the parser that merges the system files   *)
(* and then the user's file into the property tree, one element at a time, *)
(* the writer that turns the tree into the user's next file, and the lists *)
(* of users and groups that decide what is locked.                         *)
(*                                                                         *)
(* A file is a sequence of the parser's calls: the start of an element, or *)
(* an end.  A path is the sequence of the names open around an element.    *)
(* What PerchannelXml takes as one step, loading a channel or writing its  *)
(* tree, is spelled out here; system calls that fail and crashes are left  *)
(* to PerchannelXml.                                                       *)
(***************************************************************************)
EXTENDS PropTree, GValueFuncs, SequencesExt

CONSTANTS
    Me,             \* g_get_user_name
    Group,          \* groups of /etc/group
    SystemConfigs,  \* what administrators install: the files, in load order
    InitialFiles,   \* the user files a session may start with
    GivenValue,     \* GivenValue[p]: the values clients set p to
    MaxMtime,       \* bound: how often /etc/group is edited
    NotLoaded, NoFile, NoCache

\* A path is the names from the root down; the elements around its own are
\* those of the paths above it.
ASSUME XmlPathAssumption ==
    /\ Prop \subseteq Seq(STRING) \ {<<>>}
    /\ \A p \in Prop : Above[p] = {SubSeq(p, 1, k) : k \in 1..(Len(p) - 1)}

ASSUME MtimeAssumption == MaxMtime \in Nat \ {0}

VARIABLES
    system_files,   \* the channel's files in the system directories
    user_file,      \* the channel's file in the user's directory
    etc_group,      \* /etc/group: the user's groups, and the file's st_mtime
    group_cache,    \* the groups when the cache was built, and etc_group_mtime
    channel,        \* the channel in the table
    pc,             \* "idle", "next_file", "parsing" or "writing"
    files,          \* files still to merge
    input,          \* elements of the file being parsed still to come
    state,          \* the parser's XmlParserState
    is_array,       \* of each <property> that is open, whether its type is array
    out,            \* elements written so far
    node,           \* the path of the node being written
    written         \* nodes that are written already

disk == <<system_files, user_file, etc_group>>
parser == <<files, input, state, is_array>>
writer == <<out, node, written>>
vars == <<disk, group_cache, channel, pc, parser, writer>>

NewState(system) ==
    [is_system_file |-> system, cur_elem |-> "NONE", cur_path |-> <<>>, list_property |-> <<>>]

\* A start tag.  valid: its attributes are known, and name, type and version
\* are there where they must be.  A list is a set of users and groups; {} is
\* an attribute that is not given.
StartTag(kind, name, type, n, locked, unlocked, valid) ==
    [kind |-> kind, name |-> name, type |-> type, n |-> n,
     locked |-> locked, unlocked |-> unlocked, valid |-> valid]
EndTag == StartTag("end", "", "", 0, {}, {}, TRUE)

-----------------------------------------------------------------------------
(* blconf-locking-utils: who a lock is for.                                *)

\* Faulty: the cache is built once and for all.
EnsureGroupCacheOnce == IF group_cache = NoCache THEN etc_group ELSE group_cache

\* blconf_ensure_group_cache: built anew when the file is newer than before.
EnsureGroupCache ==
    IF group_cache = NoCache \/ etc_group.mtime > group_cache.mtime THEN etc_group ELSE group_cache

UserIsInGroup(group) == group \in EnsureGroupCache.groups

UserIsInList(list) == Me \in list \/ \E g \in list \cap Group : UserIsInGroup(g)

\* A list that names a group looks at the cache.
LooksAt(list) ==
    group_cache' = IF list \cap Group # {} THEN EnsureGroupCache ELSE group_cache

\* unlocked is looked at first, and then alone.
List(e) == IF e.unlocked # {} THEN e.unlocked ELSE e.locked
IsLock(e) == IF e.unlocked # {} THEN ~UserIsInList(e.unlocked) ELSE UserIsInList(e.locked)

-----------------------------------------------------------------------------
(* Loading: merge_file of each file, of the user's only in an open channel. *)

LoadChannel ==
    /\ pc = "idle" /\ channel = NotLoaded
    /\ channel' = [properties |-> EmptyTree, locked |-> FALSE, dirty |-> FALSE]
    /\ files' = [i \in DOMAIN system_files |-> [system |-> TRUE, tags |-> system_files[i]]]
                \o (IF user_file = NoFile THEN <<>> ELSE <<[system |-> FALSE, tags |-> user_file]>>)
    /\ pc' = "next_file"
    /\ UNCHANGED <<disk, group_cache, input, state, is_array, writer>>

MergeFile ==
    /\ pc = "next_file" /\ files # <<>>
    /\ LET file == Head(files)
       IN  IF file.system \/ ~channel.locked
           THEN /\ input' = file.tags /\ state' = NewState(file.system) /\ is_array' = <<>>
                /\ pc' = "parsing"
           ELSE UNCHANGED <<input, state, is_array, pc>>
    /\ files' = Tail(files)
    /\ UNCHANGED <<disk, group_cache, channel, writer>>

Loaded ==
    /\ pc = "next_file" /\ files = <<>>
    /\ pc' = "idle"
    /\ UNCHANGED <<disk, group_cache, channel, parser, writer>>

EndParse ==
    /\ pc = "parsing" /\ input = <<>>
    /\ pc' = "next_file"
    /\ UNCHANGED <<disk, group_cache, channel, parser, writer>>

\* An error ends the parse; what was merged so far stays merged.
Fail ==
    /\ pc' = "next_file"
    /\ input' = <<>>
    /\ UNCHANGED <<files, state, is_array>>

Advance ==
    /\ input' = Tail(input)
    /\ UNCHANGED <<pc, files>>

Stay == Advance /\ UNCHANGED is_array

Enter(type) == Advance /\ is_array' = Append(is_array, type = "array")

Leave == Advance /\ is_array' = IF state.cur_elem = "PROPERTY" THEN Front(is_array) ELSE is_array

AtStart(kind) == pc = "parsing" /\ input # <<>> /\ Head(input).kind = kind

ElementAllowed(kind) ==
    \/ kind = "channel" /\ state.cur_elem = "NONE"
    \/ kind = "property" /\ state.cur_elem \in {"CHANNEL", "PROPERTY"}
    \/ kind = "value" /\ state.cur_elem = "PROPERTY" /\ state.list_property # <<>>

\* start_elem: no such element here, or its attributes are wrong.
RefuseElement ==
    /\ \E kind \in {"channel", "property", "value"} :
          AtStart(kind) /\ (~ElementAllowed(kind) \/ ~Head(input).valid)
    /\ Fail
    /\ UNCHANGED <<disk, group_cache, channel, writer>>

HasLock(e) == e.locked # {} \/ e.unlocked # {}

\* Faulty: a file that locks the channel is merged with what was there before.
HandleChannelMerging ==
    LET e == Head(input)
    IN  /\ AtStart("channel") /\ ElementAllowed("channel") /\ e.valid
        /\ IF HasLock(e) /\ state.is_system_file THEN LooksAt(List(e)) ELSE UNCHANGED group_cache
        /\ IF HasLock(e) /\ (~state.is_system_file \/ (channel.locked /\ ~IsLock(e)))
           THEN Fail /\ UNCHANGED channel
           ELSE /\ Stay /\ state' = [state EXCEPT !.cur_elem = "CHANNEL"]
                /\ channel' = IF HasLock(e) /\ ~channel.locked /\ IsLock(e)
                              THEN [channel EXCEPT !.locked = TRUE]
                              ELSE channel
        /\ UNCHANGED <<disk, writer>>

(***************************************************************************)
(* blconf_xml_handle_channel.  Only a system file may lock a channel.  The *)
(* first that does starts the tree anew; a later one that says the channel *)
(* is not locked is not used, one that says nothing is.                    *)
(***************************************************************************)
HandleChannel ==
    LET e == Head(input)
    IN  /\ AtStart("channel") /\ ElementAllowed("channel") /\ e.valid
        /\ IF HasLock(e) /\ state.is_system_file THEN LooksAt(List(e)) ELSE UNCHANGED group_cache
        /\ IF HasLock(e) /\ (~state.is_system_file \/ (channel.locked /\ ~IsLock(e)))
           THEN Fail /\ UNCHANGED channel
           ELSE /\ Stay /\ state' = [state EXCEPT !.cur_elem = "CHANNEL"]
                /\ channel' = IF HasLock(e) /\ ~channel.locked /\ IsLock(e)
                              THEN [channel EXCEPT !.properties = EmptyTree, !.locked = TRUE]
                              ELSE channel
        /\ UNCHANGED <<disk, writer>>

\* The node for a property of the file, its old value gone.  The user's file
\* leaves the system's value alone.
ClearedTree(fullpath) ==
    LET t == channel.properties
    IN  IF t[fullpath] = Absent THEN AddProperty(t, fullpath, Unset, channel.locked)
        ELSE IF state.is_system_file
        THEN [t EXCEPT ![fullpath].value = Unset, ![fullpath].system_value = Unset]
        ELSE [t EXCEPT ![fullpath].value = Unset]

PutValue(t, fullpath, v) ==
    IF state.is_system_file THEN [t EXCEPT ![fullpath].system_value = v]
    ELSE [t EXCEPT ![fullpath].value = v]

\* Faulty: only the user's own locks would be heeded.
SkipNever(fullpath) == FALSE

\* A property of the user's file that a system file locks.
SkipLocked(fullpath) ==
    /\ ~state.is_system_file
    /\ channel.properties[fullpath] # Absent /\ channel.properties[fullpath].locked

(***************************************************************************)
(* blconf_xml_handle_property.  A property of the user's file that a       *)
(* system file locked is passed over: the parser only goes down.  Any      *)
(* other is cleared and set, to its type's zero before the text is read,   *)
(* so that a text that cannot be read leaves the zero behind.  Bound: Prop *)
(* holds the paths that files have.                                        *)
(***************************************************************************)
HandleProperty ==
    LET e == Head(input)
        fullpath == Append(state.cur_path, e.name)
        type == GtypeFromString(e.type)
        cleared == ClearedTree(fullpath)
        locking == HasLock(e) /\ state.is_system_file
        lock == channel.locked \/ IsLock(e)
        tree == IF locking THEN [cleared EXCEPT ![fullpath].locked = lock] ELSE cleared
        down == [state EXCEPT !.cur_elem = "PROPERTY", !.cur_path = fullpath]
    IN  /\ AtStart("property") /\ ElementAllowed("property") /\ e.valid
        /\ fullpath \in Prop
        /\ IF locking /\ ~channel.locked THEN LooksAt(List(e)) ELSE UNCHANGED group_cache
        /\ IF SkipLocked(fullpath) THEN Enter(type) /\ state' = down /\ UNCHANGED channel
           ELSE IF type = "INVALID" \/ (HasLock(e) /\ ~state.is_system_file)
           THEN Fail /\ channel' = [channel EXCEPT !.properties = tree]
           ELSE IF type = "NONE"
           THEN Enter(type) /\ state' = down /\ channel' = [channel EXCEPT !.properties = tree]
           ELSE IF ~FromString(type, e.n)
           THEN Fail /\ channel' = [channel EXCEPT !.properties = PutValue(tree, fullpath, Zero(type))]
           ELSE /\ Enter(type)
                /\ state' = IF type = "array" THEN [down EXCEPT !.list_property = fullpath] ELSE down
                /\ channel' = [channel EXCEPT !.properties =
                                  PutValue(tree, fullpath, GValue(type, e.n, <<>>))]
        /\ UNCHANGED <<disk, writer>>

\* blconf_xml_handle_value: one more item of the open array.
HandleValue ==
    LET e == Head(input)
        type == GtypeFromString(e.type)
        p == state.list_property
        n == channel.properties[p]
        list_value == IF state.is_system_file THEN n.system_value ELSE n.value
    IN  /\ AtStart("value") /\ ElementAllowed("value") /\ e.valid
        /\ IF type \in {"array", "INVALID", "NONE"} \/ ~FromString(type, e.n)
           THEN Fail /\ UNCHANGED channel
           ELSE /\ Stay /\ state' = [state EXCEPT !.cur_elem = "VALUE"]
                /\ channel' = [channel EXCEPT !.properties = PutValue(@, p,
                        [list_value EXCEPT !.items = Append(@, GValue(type, e.n, <<>>))])]
        /\ UNCHANGED <<disk, group_cache, writer>>

\* Faulty: the array stays open when a property ends.
EndElemKeepsList ==
    /\ AtStart("end")
    /\ Leave
    /\ state' = CASE state.cur_elem = "CHANNEL" -> [state EXCEPT !.cur_elem = "NONE", !.cur_path = <<>>]
                  [] state.cur_elem = "VALUE" -> [state EXCEPT !.cur_elem = "PROPERTY"]
                  [] state.cur_elem = "PROPERTY" ->
                        [state EXCEPT !.cur_path = Front(@),
                            !.cur_elem = IF Len(state.cur_path) = 1 THEN "CHANNEL" ELSE "PROPERTY"]
                  [] OTHER -> state
    /\ UNCHANGED <<disk, group_cache, channel, writer>>

\* blconf_backend_perchannel_xml_end_elem.  There is one open array at most,
\* and the end of any property closes it.
EndElem ==
    /\ AtStart("end")
    /\ Leave
    /\ state' = CASE state.cur_elem = "CHANNEL" -> [state EXCEPT !.cur_elem = "NONE", !.cur_path = <<>>]
                  [] state.cur_elem = "VALUE" -> [state EXCEPT !.cur_elem = "PROPERTY"]
                  [] state.cur_elem = "PROPERTY" ->
                        [state EXCEPT !.list_property = <<>>, !.cur_path = Front(@),
                            !.cur_elem = IF Len(state.cur_path) = 1 THEN "CHANNEL" ELSE "PROPERTY"]
                  [] OTHER -> state
    /\ UNCHANGED <<disk, group_cache, channel, writer>>

-----------------------------------------------------------------------------
(* Clients, and the writer: flush_channel and write_node.                  *)

MainLoop == pc = "idle" /\ channel # NotLoaded

Set(p, v) ==
    LET t == channel.properties
    IN  /\ MainLoop
        /\ ~(t[p] # Absent /\ t[p].locked)
        /\ ~(Visible(t, p) # Unset /\ IsEqualGValue(Visible(t, p), v))
        /\ channel' = [channel EXCEPT !.dirty = TRUE, !.properties =
              IF t[p] = Absent THEN AddProperty(t, p, v, FALSE) ELSE [t EXCEPT ![p].value = v]]
        /\ UNCHANGED <<disk, group_cache, pc, parser, writer>>

ResetProperty(p) ==
    /\ MainLoop /\ CanReset(channel.properties, p)
    /\ channel' = [channel EXCEPT !.properties = Reset(@, p), !.dirty = TRUE]
    /\ UNCHANGED <<disk, group_cache, pc, parser, writer>>

ChannelTag == StartTag("channel", "", "", 0, {}, {}, TRUE)

FlushChannel ==
    /\ MainLoop /\ channel.dirty
    /\ pc' = "writing"
    /\ out' = <<ChannelTag>> /\ node' = <<>> /\ written' = {}
    /\ UNCHANGED <<disk, group_cache, channel, parser>>

ChildrenToWrite ==
    {p \in Prop \ written : Front(p) = node /\ channel.properties[p] # Absent}

ValueTags(items) ==
    FlattenSeq([i \in DOMAIN items |->
        <<StartTag("value", "", items[i].type, FormatNumber(items[i]), {}, {}, TRUE), EndTag>>])

\* Faulty: the items of an array are written behind its properties.
FormatXmlTagNoItems(name, v) ==
    IF v = Unset THEN <<StartTag("property", name, "empty", 0, {}, {}, TRUE)>>
    ELSE <<StartTag("property", name, FormatType(v), FormatNumber(v), {}, {}, TRUE)>>

FormatXmlTag(name, v) ==
    IF v = Unset THEN <<StartTag("property", name, "empty", 0, {}, {}, TRUE)>>
    ELSE <<StartTag("property", name, FormatType(v), FormatNumber(v), {}, {}, TRUE)>>
         \o ValueTags(v.items)

(***************************************************************************)
(* The start of write_node, for the next child of the open node.  A value  *)
(* of a type the writer does not know is taken out of the tree there and   *)
(* then; the order of siblings is left open.                               *)
(***************************************************************************)
WriteNode(p) ==
    LET v == channel.properties[p].value
    IN  /\ pc = "writing" /\ p \in ChildrenToWrite
        /\ v # Unset => CanFormat(v)
        /\ out' = out \o FormatXmlTag(Last(p), v)
        /\ node' = p
        /\ written' = written \cup {p}
        /\ channel' = IF v # Unset /\ FormatType(v) = "empty"
                      THEN [channel EXCEPT !.properties[p].value = Unset] ELSE channel
        /\ UNCHANGED <<disk, group_cache, pc, parser>>

CloseNode ==
    /\ pc = "writing" /\ ChildrenToWrite = {} /\ node # <<>>
    /\ out' = Append(out, EndTag)
    /\ node' = Front(node)
    /\ UNCHANGED <<disk, group_cache, channel, pc, parser, written>>

\* The channel's own end, and the rename.
FlushDone ==
    /\ pc = "writing" /\ ChildrenToWrite = {} /\ node = <<>>
    /\ user_file' = Append(out, EndTag)
    /\ channel' = [channel EXCEPT !.dirty = FALSE]
    /\ pc' = "idle" /\ out' = <<>> /\ written' = {}
    /\ UNCHANGED <<system_files, etc_group, group_cache, parser, node>>

\* A value that has no form in the file: nothing of the channel is saved.
FlushFails ==
    /\ pc = "writing"
    /\ \E p \in ChildrenToWrite :
          LET v == channel.properties[p].value IN v # Unset /\ ~CanFormat(v)
    /\ channel' = [channel EXCEPT !.dirty = FALSE]
    /\ pc' = "idle" /\ out' = <<>> /\ node' = <<>> /\ written' = {}
    /\ UNCHANGED <<disk, group_cache, parser>>

-----------------------------------------------------------------------------
(* Around the daemon.                                                      *)

\* do_reset_channel: the file goes, and the channel is loaded anew when asked.
ResetChannel ==
    /\ MainLoop
    /\ channel' = NotLoaded /\ user_file' = NoFile
    /\ UNCHANGED <<system_files, etc_group, group_cache, pc, parser, writer>>

\* Between two runs of the daemon administrators may install other files.
Restart ==
    /\ pc = "idle"
    /\ channel' = NotLoaded /\ group_cache' = NoCache
    /\ system_files' \in SystemConfigs
    /\ UNCHANGED <<user_file, etc_group, pc, parser, writer>>

\* The user joins or leaves groups; two edits are a second apart or more.
EditGroups ==
    /\ pc = "idle" /\ etc_group.mtime < MaxMtime
    /\ \E groups \in SUBSET Group :
          etc_group' = [groups |-> groups, mtime |-> etc_group.mtime + 1]
    /\ UNCHANGED <<system_files, user_file, group_cache, channel, pc, parser, writer>>

Init ==
    /\ system_files \in SystemConfigs /\ user_file \in InitialFiles
    /\ etc_group = [groups |-> {}, mtime |-> 1] /\ group_cache = NoCache
    /\ channel = NotLoaded /\ pc = "idle"
    /\ files = <<>> /\ input = <<>> /\ state = NewState(FALSE) /\ is_array = <<>>
    /\ out = <<>> /\ node = <<>> /\ written = {}

Parse == MergeFile \/ RefuseElement \/ HandleChannel \/ HandleProperty \/ HandleValue
         \/ EndElem \/ EndParse \/ Loaded

Write == (\E p \in Prop : WriteNode(p)) \/ CloseNode \/ FlushDone \/ FlushFails

Change == \E p \in Prop : ResetProperty(p) \/ \E v \in GivenValue[p] : Set(p, v)

Next == LoadChannel \/ Parse \/ Change \/ FlushChannel \/ Write
        \/ ResetChannel \/ Restart \/ EditGroups

Spec == Init /\ [][Next]_vars

-----------------------------------------------------------------------------
(* What the files say, without the parser.                                 *)

\* The elements open at the i-th tag of a file, and the path of the property.
Open(file, i) ==
    FoldLeft(LAMBDA s, e : IF e.kind = "end" THEN Front(s) ELSE Append(s, e), <<>>, SubSeq(file, 1, i))

PathAt(file, i) ==
    LET named == SelectSeq(Open(file, i), LAMBDA e : e.kind = "property")
    IN  [k \in DOMAIN named |-> named[k].name]

NodeAt(p) == IF channel.properties[p] = Absent THEN Branch ELSE channel.properties[p]

Latest(S) == CHOOSE i \in S : \A j \in S : j <= i

\* The property a <value> belongs to: the innermost array around it, if no
\* property has ended since that array started.
Home(file, i) ==
    LET ends == {k \in 2..i : file[k].kind = "end" /\ Last(Open(file, k - 1)).kind = "property"}
        arrays == {k \in 1..i : /\ file[k].kind = "property" /\ file[k].type = "array"
                                /\ \A j \in ends : j < k}
    IN  IF arrays = {} THEN <<>> ELSE PathAt(file, Latest(arrays))

\* What the user's file may not have, but for properties that a system file
\* locks, which are not looked at: a lock, a <value> outside an array, and a
\* float that is not positive, which the daemon itself writes.
Misplaced(file, i) == file[i].kind = "value" /\ Home(file, i) = <<>>
Ignored(file, i) == file[i].kind = "property" /\ NodeAt(PathAt(file, i)).locked
Unreadable(file) ==
    {i \in DOMAIN file : /\ ~Ignored(file, i)
                         /\ \/ file[i].kind = "property" /\ HasLock(file[i])
                            \/ file[i].type = "float" /\ file[i].n <= 0
                            \/ Misplaced(file, i)}

Mentions(file, p) == {i \in DOMAIN file : file[i].kind = "property" /\ PathAt(file, i) = p}

Items(file, p, last) ==
    LET within == [i \in 1..last |-> [tag |-> file[i], path |-> Home(file, i)]]
        mine == SelectSeq(within, LAMBDA x : x.tag.kind = "value" /\ x.path = p)
    IN  [k \in DOMAIN mine |-> GValue(mine[k].tag.type, mine[k].tag.n, <<>>)]

\* The value of p in a file that is read up to its tag last.
Said(file, p, last) ==
    IF Mentions(file, p) = {} THEN Unset
    ELSE LET i == CHOOSE i \in Mentions(file, p) : TRUE
         IN  IF i > last + 1 \/ file[i].type = "empty" \/ (i = last + 1 /\ HasLock(file[i])) THEN Unset
             ELSE IF i = last + 1 THEN Zero(file[i].type)
             ELSE GValue(file[i].type, file[i].n, Items(file, p, last))

ReadTo(file) ==
    IF Unreadable(file) = {} THEN Len(file)
    ELSE (CHOOSE i \in Unreadable(file) : \A j \in Unreadable(file) : i <= j) - 1

\* What a file says of the channel as a whole.
InGroup(list) == Me \in list \/ list \cap etc_group.groups # {}
Locks(e) == IF e.unlocked # {} THEN ~InGroup(e.unlocked) ELSE InGroup(e.locked)
Says(file) ==
    IF ~file[1].valid THEN "invalid" ELSE IF ~HasLock(file[1]) THEN "nothing"
    ELSE IF Locks(file[1]) THEN "locked" ELSE "unlocked"

Lockers == {i \in DOMAIN system_files : Says(system_files[i]) = "locked"}

\* The files that count: all, or in a locked channel those from the first
\* that locks it, except one that says it is not locked.
Counting ==
    {i \in DOMAIN system_files :
        /\ Says(system_files[i]) # "invalid"
        /\ Lockers # {} => /\ Says(system_files[i]) # "unlocked"
                           /\ \E first \in Lockers : first <= i}

Mentioning(p) == {i \in Counting : Mentions(system_files[i], p) # {}}
Locking(p) ==
    {i \in Mentioning(p) : \E k \in Mentions(system_files[i], p) : HasLock(system_files[i][k])}

LockedBySystem(p) ==
    IF Lockers # {} THEN Mentioning(p) # {}
    ELSE /\ Locking(p) # {}
         /\ LET file == system_files[Latest(Locking(p))]
            IN  \E k \in Mentions(file, p) : Locks(file[k])

SystemValue(p) ==
    IF Mentioning(p) = {} THEN Unset
    ELSE LET file == system_files[Latest(Mentioning(p))] IN Said(file, p, Len(file))

-----------------------------------------------------------------------------
(* Properties.                                                             *)

TypeOK ==
    /\ system_files \in SystemConfigs
    /\ etc_group.groups \subseteq Group /\ etc_group.mtime \in 1..MaxMtime
    /\ channel = NotLoaded \/ (Closed(channel.properties) /\ channel.locked \in BOOLEAN)
    /\ pc \in {"idle", "next_file", "parsing", "writing"}
    /\ state.cur_elem \in {"NONE", "CHANNEL", "PROPERTY", "VALUE"}
    /\ node \in Prop \cup {<<>>} /\ written \subseteq Prop

\* The value that the file being parsed gives a property, so far.
FileValue(p) ==
    LET n == channel.properties[p] IN IF state.is_system_file THEN n.system_value ELSE n.value

HoldsArray(p) == FileValue(p) # Unset /\ FileValue(p).type = "array"

\* The elements around a <value> that are arrays and whose properties are not
\* passed over for their lock.
OpenArrays ==
    {k \in DOMAIN is_array : is_array[k] /\ ~SkipLocked(SubSeq(state.cur_path, 1, k))}

\* A <value> is taken for the innermost array element around it that is not
\* passed over, and there is an array in the tree to take it, although the
\* parser has one list_property for elements that nest.  One that is passed
\* over leaves list_property as it was: the items of an array that is locked go
\* to an array around it that is not.
ValuesGoHome ==
    AtStart("value") /\ ElementAllowed("value") =>
        /\ HoldsArray(state.list_property)
        /\ \E k \in OpenArrays : /\ state.list_property = SubSeq(state.cur_path, 1, k)
                                  /\ \A j \in OpenArrays : j <= k

\* Merging the user's file changes no lock and no system default, and nothing
\* at all of a property that is locked, its items included ("not system file,
\* prop already locked, pass on this one").
UserFileKeepsLocks ==
    [][pc = "parsing" /\ ~state.is_system_file =>
        \A p \in Prop : LET n == channel.properties[p]
                             n2 == channel'.properties[p]
                         IN  n # Absent => /\ n2 # Absent
                                           /\ n2.locked = n.locked /\ n2.system_value = n.system_value
                                           /\ n.locked => n2 = n]_vars

GivesBack ==
    \A p \in Prop : NodeAt(p).value =
        IF NodeAt(p).locked THEN Unset ELSE Said(user_file, p, ReadTo(user_file))

LoadsUsers == Loaded /\ user_file # NoFile /\ ~channel.locked

\* Loading gives each property the user's value that the writer put into the
\* file, unless a system file locks it, in which case the user's is ignored
\* and every other property still has its own ("then we ignore this
\* property").  An element the parser refuses costs what follows it, no more.
ReadBack == [][LoadsUsers => GivesBack]_vars

NoLockedArray == \A i \in DOMAIN user_file : Ignored(user_file, i) => user_file[i].type # "array"

\* The same of a user's file without an array that a system file locks.  The
\* items of such an array end the parse, or go to an array around it.
ReadBackButLockedArrays ==
    [][LoadsUsers /\ NoLockedArray => GivesBack]_vars

\* Loading gives each channel and property the lock and the default that the
\* system files say, all of them taken together, for the groups the user is in
\* at that time: whatever the order of the files, the user's file and what was
\* cached when another channel was loaded.
SystemFilesRule ==
    [][Loaded =>
        /\ channel.locked = (Lockers # {})
        /\ \A p \in Prop : /\ NodeAt(p).locked = LockedBySystem(p)
                           /\ NodeAt(p).system_value = SystemValue(p)]_vars

\* A flush writes what the tree holds: each property once, under its own
\* path, with its value in the form the file has for it, and its array items.
SavesTheTree ==
    [][FlushDone => \A p \in Prop :
          /\ (channel.properties[p] = Absent) = (Mentions(user_file', p) = {})
          /\ NodeAt(p).value # Unset => LET v == NodeAt(p).value IN
                Said(user_file', p, Len(user_file')) =
                    GValue(v.type, FormatNumber(v),
                        [i \in DOMAIN v.items |-> GValue(v.items[i].type, FormatNumber(v.items[i]), <<>>)])
      ]_vars

=============================================================================
