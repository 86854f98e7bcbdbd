------------------------ MODULE PerchannelXmlProofs -------------------------
(***************************************************************************)
(* Theorems about the backend, for every set of channels, paths and values *)
(* and every merged system configuration.                                  *)
(***************************************************************************)
EXTENDS PerchannelXml, PropTreeProofs

\* While a flush runs the main loop does not: the channels it has still to write
\* stay loaded, and it writes one of them.
FlushMeetsLoaded ==
    /\ ~flushing => dirty_list = {} /\ fp = NoFile
    /\ \A c \in dirty_list : channels[c] # NotLoaded
    /\ fp # NoFile => fp.channel \in dirty_list

\* The inductive strengthening of TypeOK: a flush reads the tree of the
\* channel it writes, so it must be there.
Inv == TypeOK /\ FlushMeetsLoaded

Stage == {"opened", "written", "synced"}

-----------------------------------------------------------------------------
(* What the helpers return.                                                *)

LEMMA EmptyTreeIsTree == EmptyTree \in Tree /\ EmptyTree \in Image
BY ConfigAssumption DEF EmptyTree, Tree, Image, Closed

LEMMA UserImageType ==
    ASSUME TypeOK, NEW c \in Channel
    PROVE  UserImage(c) \in Image
<1>1. CASE user_file[c] = NoFile \/ c \in LockedChannels
  BY <1>1, EmptyTreeIsTree DEF UserImage
<1>2. CASE ~(user_file[c] = NoFile \/ c \in LockedChannels)
  <2>1. user_file[c].image \in Image \cup {Torn}
    BY <1>2 DEF TypeOK, UserFile
  <2>2. QED
    BY <1>2, <2>1, EmptyTreeIsTree DEF UserImage
<1>3. QED
  BY <1>1, <1>2

\* Merging gives a node where either file has one, and nowhere else.
LEMMA MergedNodeType ==
    ASSUME NEW s \in Node \cup {Absent}, NEW u \in Val \cup {Unset, Absent}
    PROVE  /\ MergedNode(s, u) \in Node \cup {Absent}
           /\ MergedNode(s, u) # Absent <=> s # Absent \/ u # Absent
<1>1. CASE u = Absent
  BY <1>1 DEF MergedNode
<1>2. CASE u # Absent /\ s = Absent
  <2>1. MergedNode(s, u) = [Branch EXCEPT !.value = u]
    BY <1>2 DEF MergedNode
  <2>2. MergedNode(s, u) \in Node
    BY <1>2, <2>1 DEF Node, Branch
  <2>3. QED
    BY <1>2, <2>2, ValueAssumption
<1>3. CASE u # Absent /\ s # Absent
  <2>1. s \in Node /\ [s EXCEPT !.value = u] \in Node
    BY <1>3 DEF Node
  <2>2. MergedNode(s, u) \in Node
    BY <1>3, <2>1 DEF MergedNode
  <2>3. QED
    BY <1>3, <2>2, ValueAssumption
<1>4. QED
  BY <1>1, <1>2, <1>3

\* Loading merges two trees into a tree.
LEMMA LoadTreeIsTree ==
    ASSUME TypeOK, NEW c \in Channel
    PROVE  LoadTree(c) \in Tree
<1> DEFINE s == SystemTree[c]
           u == UserImage(c)
           t == LoadTree(c)
<1>1. s \in Tree /\ u \in Image
  BY ConfigAssumption, UserImageType
<1>2. s \in [Prop -> Node \cup {Absent}] /\ Closed(s)
  BY <1>1 DEF Tree
<1>3. u \in [Prop -> Val \cup {Unset, Absent}] /\ Closed(u)
  BY <1>1 DEF Image
<1>4. \A p \in Prop : t[p] = MergedNode(s[p], u[p])
  BY DEF LoadTree
<1> HIDE DEF s, u, t
<1>5. ASSUME NEW p \in Prop
      PROVE  /\ t[p] \in Node \cup {Absent}
             /\ t[p] # Absent <=> s[p] # Absent \/ u[p] # Absent
  <2>1. s[p] \in Node \cup {Absent} /\ u[p] \in Val \cup {Unset, Absent}
    BY <1>2, <1>3
  <2>2. QED
    BY <1>4, <2>1, MergedNodeType
<1>6. t \in [Prop -> Node \cup {Absent}]
  BY <1>5 DEF LoadTree, t
<1>7. Closed(t)
  BY <1>2, <1>3, <1>5, PathAssumption DEF Closed
<1>8. QED
  BY <1>6, <1>7 DEF Tree, t

LEMMA FoundType ==
    ASSUME TypeOK, NEW c \in Channel
    PROVE  Found(c) \in ChannelState /\ Found(c).properties \in Tree /\ Key(c) \in Channel
<1>1. LoadChannel(c) \in ChannelState
  BY LoadTreeIsTree DEF LoadChannel, ChannelState
<1>2. Found(c) \in ChannelState
  BY <1>1 DEF Found, TypeOK
<1>3. QED
  BY <1>2, ConfigAssumption DEF ChannelState, Key

\* What a save writes is the image of a tree.
LEMMA WrittenType ==
    ASSUME NEW t \in Tree
    PROVE  Written(t) \in Image
<1>1. t \in [Prop -> Node \cup {Absent}] /\ Closed(t)
  BY DEF Tree
<1>2. ASSUME NEW p \in Prop
      PROVE  /\ Written(t)[p] \in Val \cup {Unset, Absent}
             /\ Written(t)[p] = Absent <=> t[p] = Absent
  <2>1. CASE t[p] = Absent
    BY <2>1 DEF Written
  <2>2. CASE t[p] # Absent
    <3>1. t[p].value \in Val \cup {Unset}
      BY <1>1, <2>2 DEF Node
    <3>2. Written(t)[p] = IF t[p].value = Unset THEN Unset ELSE Printed[t[p].value]
      BY <2>2 DEF Written
    <3>3. Written(t)[p] \in Val \cup {Unset}
      BY <3>1, <3>2, ConfigAssumption
    <3>4. QED
      BY <2>2, <3>3, ConfigAssumption
  <2>3. QED
    BY <2>1, <2>2
<1>3. Written(t) \in [Prop -> Val \cup {Unset, Absent}]
  BY <1>2 DEF Written
<1>4. Closed(Written(t))
  BY <1>1, <1>2, PathAssumption DEF Closed
<1>5. QED
  BY <1>3, <1>4 DEF Image

-----------------------------------------------------------------------------
(* Type correctness, one lemma per group of actions.                       *)

\* The part of the state a request leaves alone.
RequestFrame == MainLoop /\ UNCHANGED <<daemon, flushing, dirty_list, fp>>

\* A request runs while no flush does, so only types are at stake.
LEMMA RequestStep ==
    ASSUME Inv, RequestFrame,
           channels' \in [Channel -> ChannelState \cup {NotLoaded}],
           user_file' \in [Channel -> UserFile \cup {NoFile}],
           save_timer' \in {"off", "armed", "due"},
           ret' \in Reply,
           changed' \subseteq Channel \X Name
    PROVE  Inv'
BY DEF Inv, TypeOK, FlushMeetsLoaded, RequestFrame, MainLoop

LEMMA CommitStep ==
    ASSUME Inv, RequestFrame, UNCHANGED user_file,
           NEW c \in Channel, NEW t \in Tree, NEW S \in SUBSET Name, Commit(c, t, S)
    PROVE  Inv'
<1>1. Found(c) \in ChannelState /\ Key(c) \in Channel
  BY FoundType DEF Inv
<1>2. [Found(c) EXCEPT !.properties = t, !.dirty = TRUE] \in ChannelState
  BY <1>1 DEF ChannelState
<1>3. channels' \in [Channel -> ChannelState \cup {NotLoaded}]
  BY <1>1, <1>2 DEF Commit, Keep, Inv, TypeOK
<1>4. changed' \subseteq Channel \X Name
  BY DEF Commit
<1>5. QED
  BY <1>3, <1>4, RequestStep DEF Commit, Reply, Inv, TypeOK

LEMMA RefuseStep ==
    ASSUME Inv, RequestFrame, UNCHANGED user_file,
           NEW c \in Channel, NEW reply \in Reply, Refuse(c, reply)
    PROVE  Inv'
<1>1. Found(c) \in ChannelState /\ Key(c) \in Channel
  BY FoundType DEF Inv
<1>2. channels' \in [Channel -> ChannelState \cup {NotLoaded}]
  BY <1>1 DEF Refuse, Keep, Inv, TypeOK
<1>3. QED
  BY <1>2, RequestStep DEF Refuse, Inv, TypeOK

\* Setting, resetting one and resetting a subtree all commit a tree.
LEMMA ChangeStep ==
    ASSUME Inv, NEW c \in Channel, Change(c)
    PROVE  Inv'
<1> DEFINE t == Found(c).properties
<1>1. Found(c) \in ChannelState /\ t \in Tree /\ Key(c) \in Channel
  BY FoundType DEF Inv
<1>2. \A p \in Prop : /\ {p} \in SUBSET Name
                      /\ Reported(UserSet(t, Subtree(p))) \in SUBSET Name
                      /\ Reported(UserSet(t, Prop)) \in SUBSET Name
  BY NameAssumption DEF Reported, UserSet, Subtree, Below
<1>3. ASSUME NEW p \in Prop, NEW v \in Val, Set(c, p, v)
      PROVE  Inv'
  <2>1. RequestFrame /\ UNCHANGED user_file
    BY <1>3 DEF Set, RequestFrame
  <2>2. CASE \/ Refuse(c, "PermissionDenied")
             \/ Refuse(c, "ok")
    BY <2>1, <2>2, RefuseStep DEF Reply
  <2>3. CASE t[p] # Absent /\ Commit(c, [t EXCEPT ![p].value = v], {p})
    BY <1>1, <1>2, <2>1, <2>3, SetValueTree, CommitStep
  <2>4. CASE t[p] = Absent /\ Commit(c, AddProperty(t, p, v, FALSE), {p})
    BY <1>1, <1>2, <2>1, <2>4, AddPropertyTree, CommitStep
  <2>5. QED
    BY <1>3, <2>2, <2>3, <2>4 DEF Set
<1>4. ASSUME NEW p \in Prop, ResetProperty(c, p)
      PROVE  Inv'
  <2>1. RequestFrame /\ UNCHANGED user_file
    BY <1>4 DEF ResetProperty, RequestFrame
  <2>2. CASE \/ Refuse(c, "ChannelNotFound")
             \/ Refuse(c, "PropertyNotFound")
    BY <2>1, <2>2, RefuseStep DEF Reply
  <2>3. CASE CanReset(t, p) /\ Commit(c, Reset(t, p), {p})
    BY <1>1, <1>2, <2>1, <2>3, ResetIsTree, CommitStep
  <2>4. QED
    BY <1>4, <2>2, <2>3 DEF ResetProperty
<1>5. ASSUME NEW p \in Prop, ResetRecursive(c, p)
      PROVE  Inv'
  <2>1. RequestFrame /\ UNCHANGED user_file
    BY <1>5 DEF ResetRecursive, RequestFrame
  <2>2. CASE \/ Refuse(c, "ChannelNotFound")
             \/ Refuse(c, "PropertyNotFound")
    BY <2>1, <2>2, RefuseStep DEF Reply
  <2>3. CASE Commit(c, CleanUp(BlankUserValues(t, Subtree(p)), Subtree(p)),
                    Reported(UserSet(t, Subtree(p))))
    <3>1. Subtree(p) \in SUBSET Prop
      BY DEF Subtree, Below
    <3>2. CleanUp(BlankUserValues(t, Subtree(p)), Subtree(p)) \in Tree
      BY <1>1, <3>1, BlankIsTree, CleanUpIsTree
    <3>3. QED
      BY <1>2, <2>1, <2>3, <3>2, CommitStep
  <2>4. QED
    BY <1>5, <2>2, <2>3 DEF ResetRecursive
<1>6. ASSUME ResetChannel(c)
      PROVE  Inv'
  <2>1. RequestFrame
    BY <1>6 DEF ResetChannel, RequestFrame
  <2>2. CASE Refuse(c, "ChannelNotFound") /\ UNCHANGED user_file
    BY <2>1, <2>2, RefuseStep DEF Reply
  <2>3. CASE /\ channels' = [channels EXCEPT
                    ![Key(c)] = [Found(c) EXCEPT !.properties = BlankUserValues(t, Prop)],
                    ![c] = NotLoaded]
             /\ changed' = {<<c, x>> : x \in Reported(UserSet(t, Prop))}
             /\ Unlink(c)
             /\ UNCHANGED save_timer
    <3>1. BlankUserValues(t, Prop) \in Tree
      BY <1>1, BlankIsTree
    <3>2. [Found(c) EXCEPT !.properties = BlankUserValues(t, Prop)] \in ChannelState
      BY <1>1, <3>1 DEF ChannelState
    <3>3. channels' \in [Channel -> ChannelState \cup {NotLoaded}]
      BY <1>1, <2>3, <3>2 DEF Inv, TypeOK
    <3>4. changed' \subseteq Channel \X Name
      BY <2>3, NameAssumption DEF Reported, UserSet
    <3>5. user_file' \in [Channel -> UserFile \cup {NoFile}] /\ ret' \in Reply
      BY <2>3 DEF Unlink, Inv, TypeOK, Reply
    <3>6. QED
      BY <2>1, <2>3, <3>3, <3>4, <3>5, RequestStep DEF Inv, TypeOK
  <2>4. QED
    BY <1>6, <2>2, <2>3 DEF ResetChannel
<1>7. QED
  BY <1>3, <1>4, <1>5, <1>6 DEF Change

LEMMA ReadStep ==
    ASSUME Inv, NEW c \in Channel, Read(c)
    PROVE  Inv'
<1>1. PICK p \in Prop : Get(c, p) \/ GetAll(c, p) \/ Exists(c, p) \/ IsPropertyLocked(c, p)
  BY DEF Read
<1>2. RequestFrame /\ UNCHANGED user_file
  BY <1>1 DEF Get, GetAll, Exists, IsPropertyLocked, RequestFrame
<1>3. CASE \E reply \in Reply : Refuse(c, reply)
  BY <1>2, <1>3, RefuseStep
<1>4. CASE ret' = "ok" /\ changed' = {} /\ UNCHANGED <<channels, save_timer>>
  BY <1>2, <1>4, RequestStep DEF Reply, Inv, TypeOK
<1>5. QED
  BY <1>1, <1>3, <1>4 DEF Get, GetAll, Exists, IsPropertyLocked, Reply

\* The end of flush_channel leaves every loaded channel loaded.
LEMMA FlushedChannelStep ==
    ASSUME Inv, flushing, NEW c \in dirty_list, FlushedChannel(c),
           user_file' \in [Channel -> UserFile \cup {NoFile}]
    PROVE  Inv'
<1>1. c \in Channel /\ channels[c] \in ChannelState
  BY DEF Inv, TypeOK, FlushMeetsLoaded
<1>2. [channels[c] EXCEPT !.dirty = FALSE] \in ChannelState
  BY <1>1 DEF ChannelState
<1>3. channels' = [channels EXCEPT ![c] = [channels[c] EXCEPT !.dirty = FALSE]]
  BY DEF FlushedChannel
<1>4. /\ channels' \in [Channel -> ChannelState \cup {NotLoaded}]
      /\ \A d \in dirty_list' : channels'[d] # NotLoaded
  BY <1>1, <1>2, <1>3 DEF FlushedChannel, Inv, TypeOK, FlushMeetsLoaded
<1>5. /\ save_timer' \in {"off", "armed", "due"} /\ ret' \in Reply /\ changed' \subseteq Channel \X Name
      /\ daemon' \in {"up", "exiting", "down"} /\ flushing' \in BOOLEAN /\ dirty_list' \subseteq Channel
      /\ fp' = NoFile /\ flushing'
  BY DEF FlushedChannel, Silent, Inv, TypeOK, Reply
<1>6. QED
  BY <1>4, <1>5 DEF Inv, TypeOK, FlushMeetsLoaded

LEMMA FlushStep ==
    ASSUME Inv, Flush
    PROVE  Inv'
<1>1. ASSUME NEW c \in Channel, OpenFile(c)
      PROVE  Inv'
  BY <1>1, ConfigAssumption DEF OpenFile, Silent, Inv, TypeOK, FlushMeetsLoaded, Reply
<1>2. ASSUME WriteNodes \/ Fdatasync
      PROVE  Inv'
  <2>1. fp \in [channel : Channel, stage : Stage] /\ fp.channel \in dirty_list /\ flushing
    BY <1>2 DEF WriteNodes, Fdatasync, Inv, TypeOK, FlushMeetsLoaded, Stage
  <2>2. fp' \in [channel : Channel, stage : Stage] /\ fp'.channel = fp.channel
    BY <1>2, <2>1 DEF WriteNodes, Fdatasync, Stage
  <2>3. QED
    BY <1>2, <2>1, <2>2 DEF WriteNodes, Fdatasync, Silent, Inv, TypeOK, FlushMeetsLoaded, Reply, Stage
<1>3. ASSUME NEW c \in Channel, WriteFails(c)
      PROVE  Inv'
  BY <1>3, FlushedChannelStep DEF WriteFails, Inv, TypeOK
<1>4. ASSUME Rename
      PROVE  Inv'
  <2>1. flushing /\ fp.channel \in dirty_list /\ fp.channel \in Channel
    BY <1>4 DEF Rename, Inv, TypeOK, FlushMeetsLoaded
  <2>2. channels[fp.channel].properties \in Tree
    BY <2>1 DEF Inv, TypeOK, FlushMeetsLoaded, ChannelState
  <2>3. [image |-> Written(channels[fp.channel].properties), synced |-> fp.stage = "synced"] \in UserFile
    BY <2>2, WrittenType DEF UserFile
  <2>4. user_file' \in [Channel -> UserFile \cup {NoFile}]
    BY <1>4, <2>3 DEF Rename, Inv, TypeOK
  <2>5. QED
    BY <1>4, <2>1, <2>4, FlushedChannelStep DEF Rename
<1>5. ASSUME FlushDone
      PROVE  Inv'
  BY <1>5 DEF FlushDone, Silent, Inv, TypeOK, FlushMeetsLoaded, Reply
<1>6. QED
  BY <1>1, <1>2, <1>3, <1>4, <1>5 DEF Flush

\* Timers, the two ways of leaving the main loop, and a restart.
LEMMA LoopStep ==
    ASSUME Inv, TimerExpires \/ SaveTimeout \/ Finalize \/ HandleDisconnect \/ Start
    PROVE  Inv'
<1>1. CASE TimerExpires \/ Start
  BY <1>1 DEF TimerExpires, Start, Silent, Inv, TypeOK, FlushMeetsLoaded, Reply
<1>2. CASE SaveTimeout \/ Finalize \/ HandleDisconnect
  <2>1. fp = NoFile /\ fp' = NoFile
    BY <1>2 DEF SaveTimeout, Finalize, HandleDisconnect, MainLoop, Inv, FlushMeetsLoaded
  <2>2. \A c \in dirty_list' : channels'[c] # NotLoaded
    BY <1>2 DEF SaveTimeout, Finalize, HandleDisconnect, StartFlush, Dirty
  <2>3. flushing' = TRUE /\ dirty_list' \subseteq Channel
    BY <1>2 DEF SaveTimeout, Finalize, HandleDisconnect, StartFlush
  <2>4. QED
    BY <1>2, <2>1, <2>2, <2>3
    DEF SaveTimeout, Finalize, HandleDisconnect, Silent, Inv, TypeOK, FlushMeetsLoaded, Reply
<1>3. QED
  BY <1>1, <1>2

LEMMA CrashStep ==
    ASSUME Inv, Crash
    PROVE  Inv'
<1>1. PICK lost \in SUBSET Channel :
         user_file' = [c \in Channel |-> IF c \in lost THEN [user_file[c] EXCEPT !.image = Torn]
                                         ELSE user_file[c]]
         /\ \A c \in lost : user_file[c] # NoFile
  BY DEF Crash
<1>2. \A c \in lost : [user_file[c] EXCEPT !.image = Torn] \in UserFile
  BY <1>1 DEF Inv, TypeOK, UserFile
<1>3. user_file' \in [Channel -> UserFile \cup {NoFile}]
  BY <1>1, <1>2 DEF Inv, TypeOK
<1>4. QED
  BY <1>3 DEF Crash, Silent, Inv, TypeOK, FlushMeetsLoaded, Reply

LEMMA InitInv == Init => Inv
<1> SUFFICES ASSUME Init PROVE Inv
  OBVIOUS
<1>1. [image : InitialFile, synced : {TRUE}] \subseteq UserFile
  BY ConfigAssumption DEF UserFile
<1>2. QED
  BY <1>1 DEF Init, Inv, TypeOK, FlushMeetsLoaded, Reply

LEMMA NextInv == Inv /\ [Next]_vars => Inv'
<1> SUFFICES ASSUME Inv, [Next]_vars PROVE Inv'
  OBVIOUS
<1>1. CASE UNCHANGED vars
  BY <1>1 DEF vars, Inv, TypeOK, FlushMeetsLoaded
<1>2. CASE Next
  BY <1>2, ChangeStep, ReadStep, FlushStep, LoopStep, CrashStep DEF Next
<1>3. QED
  BY <1>1, <1>2

\* In every state each variable is in the set it is declared to range over;
\* in particular the channels' property trees never hold a node whose parent
\* is gone, whatever is set, reset, merged from files or destroyed.
THEOREM TypeCorrect == Spec => []TypeOK
<1>1. Spec => []Inv
  BY InitInv, NextInv, PTL DEF Spec
<1>2. Inv => TypeOK
  BY DEF Inv
<1>3. QED
  BY <1>1, <1>2, PTL

-----------------------------------------------------------------------------
(* Files survive power failures.                                           *)

\* Stronger than FilesAreWhole, and inductive: what is not synced may be torn.
AllSynced == \A c \in Channel : user_file[c] # NoFile => /\ user_file[c].image # Torn
                                                       /\ user_file[c].synced

LEMMA NextAllSynced == Inv /\ AllSynced /\ [Next]_vars => AllSynced'
<1> SUFFICES ASSUME Inv, AllSynced, [Next]_vars PROVE AllSynced'
  OBVIOUS
<1>1. CASE UNCHANGED user_file
  BY <1>1 DEF AllSynced
<1>2. ASSUME NEW c \in Channel, ResetChannel(c)
      PROVE  AllSynced'
  <2>1. UNCHANGED user_file \/ user_file' = [user_file EXCEPT ![c] = NoFile]
    BY <1>2 DEF ResetChannel, Unlink
  <2>2. QED
    BY <2>1 DEF AllSynced, Inv, TypeOK
<1>3. CASE Rename
  <2>1. /\ fp.stage = "synced" /\ fp.channel \in Channel
        /\ channels[fp.channel].properties \in Tree
    BY <1>3 DEF Rename, Inv, TypeOK, FlushMeetsLoaded, ChannelState
  <2>2. Written(channels[fp.channel].properties) # Torn
    BY <2>1, WrittenType, ConfigAssumption
  <2>3. user_file' = [user_file EXCEPT ![fp.channel] =
                         [image  |-> Written(channels[fp.channel].properties), synced |-> TRUE]]
    BY <1>3, <2>1 DEF Rename
  <2>4. QED
    BY <2>1, <2>2, <2>3 DEF AllSynced, Inv, TypeOK
<1>4. CASE Crash
  <2>1. {c \in Channel : user_file[c] # NoFile /\ ~user_file[c].synced} = {}
    BY DEF AllSynced
  <2>2. user_file' = [c \in Channel |-> user_file[c]]
    BY <1>4, <2>1 DEF Crash
  <2>3. QED
    BY <2>2 DEF AllSynced
<1>5. CASE \E c \in Channel : \E p \in Prop : ResetProperty(c, p) \/ ResetRecursive(c, p)
  BY <1>1, <1>5 DEF ResetProperty, ResetRecursive
<1>6. CASE \E c \in Channel : \E p \in Prop, v \in Val : Set(c, p, v)
  BY <1>1, <1>6 DEF Set
<1>7. CASE \E c \in Channel : Read(c)
  BY <1>1, <1>7 DEF Read, Get, GetAll, Exists, IsPropertyLocked
<1>8. CASE \/ TimerExpires \/ SaveTimeout \/ Finalize \/ HandleDisconnect \/ Start
           \/ \E c \in Channel : OpenFile(c) \/ WriteFails(c)
           \/ WriteNodes \/ Fdatasync \/ FlushDone
  BY <1>1, <1>8 DEF TimerExpires, SaveTimeout, Finalize, HandleDisconnect, Start,
     OpenFile, WriteFails, WriteNodes, Fdatasync, FlushDone
<1>9. CASE UNCHANGED vars
  BY <1>1, <1>9 DEF vars
<1>10. QED
  BY <1>2, <1>3, <1>4, <1>5, <1>6, <1>7, <1>8, <1>9 DEF Next, Change, Flush

LEMMA InitAllSynced == Init => AllSynced
<1> SUFFICES ASSUME Init, NEW c \in Channel, user_file[c] # NoFile
             PROVE  user_file[c].image # Torn /\ user_file[c].synced
  BY DEF AllSynced
<1>1. user_file[c] \in [image : InitialFile, synced : {TRUE}]
  BY DEF Init
<1>2. QED
  BY <1>1, ConfigAssumption

\* A user's file is never cut short, whatever moment of a flush the process
\* dies or the power fails at: flush_channel syncs the new file before the
\* rename, and nothing else writes a user's file.
THEOREM FilesStayWhole == Spec => []FilesAreWhole
<1>1. Init => AllSynced
  BY InitAllSynced
<1>2. Spec => []Inv
  BY InitInv, NextInv, PTL DEF Spec
<1>3. AllSynced => FilesAreWhole
  BY DEF AllSynced, FilesAreWhole
<1>4. QED
  BY <1>1, <1>2, <1>3, NextAllSynced, PTL DEF Spec

-----------------------------------------------------------------------------
(* Locks hold.                                                             *)

\* The two conditions the configuration must meet.  Clients spell channel
\* names in lower case, and every lock comes with a value.
NamesAreLower == \A c \in Channel : Lower[c] = c

LocksCarryValues ==
    \A c \in Channel : \A p \in LockedBySystem(c) : SystemTree[c][p].system_value # Unset

\* Inductive: a loaded channel holds its locked nodes as the system files
\* gave them.  LocksHold alone is not: it does not see a user's value that
\* equals the system's, nor that locked is still set.
LockedNodesAreSystems ==
    \A c \in Channel : \A p \in LockedBySystem(c) :
        channels[c] # NotLoaded => channels[c].properties[p] = SystemTree[c][p]

LEMMA LockedNodeHasValue ==
    ASSUME LocksCarryValues, NEW c \in Channel, NEW p \in LockedBySystem(c)
    PROVE  p \in Prop /\ LockedWithValue(SystemTree[c][p])
<1>1. p \in Prop /\ SystemTree[c][p] # Absent /\ SystemTree[c][p].locked
  BY DEF LockedBySystem
<1>2. SystemTree[c][p] \in Node
  BY <1>1, ConfigAssumption DEF Tree
<1>3. QED
  BY <1>1, <1>2, ConfigAssumption DEF LockedWithValue, LocksCarryValues

\* Also a channel that is not loaded yet: the user's file does not get through.
LEMMA FoundLocked ==
    ASSUME LockedNodesAreSystems, NEW c \in Channel, NEW p \in LockedBySystem(c)
    PROVE  Found(c).properties[p] = SystemTree[c][p]
<1>1. p \in Prop /\ SystemTree[c][p] # Absent /\ SystemTree[c][p].locked
  BY DEF LockedBySystem
<1>2. LoadTree(c)[p] = SystemTree[c][p]
  BY <1>1 DEF LoadTree, MergedNode
<1>3. QED
  BY <1>2 DEF Found, LoadChannel, LockedNodesAreSystems

\* Putting a channel with the system's locked nodes into the table.
LEMMA KeepLocked ==
    ASSUME TypeOK, LockedNodesAreSystems, NamesAreLower, NEW c \in Channel, NEW ch, Keep(c, ch),
           \A p \in LockedBySystem(c) : ch.properties[p] = SystemTree[c][p]
    PROVE  LockedNodesAreSystems'
<1>1. Key(c) = c
  BY DEF Key, NamesAreLower
<1>2. channels' = [channels EXCEPT ![c] = ch]
  BY <1>1 DEF Keep
<1>3. QED
  BY <1>2 DEF TypeOK, LockedNodesAreSystems

LEMMA CommitLocked ==
    ASSUME Inv, LockedNodesAreSystems, NamesAreLower, NEW c \in Channel, NEW t, NEW S,
           Commit(c, t, S),
           \A p \in LockedBySystem(c) : t[p] = SystemTree[c][p]
    PROVE  LockedNodesAreSystems'
<1> DEFINE ch == [Found(c) EXCEPT !.properties = t, !.dirty = TRUE]
<1>1. Found(c) \in ChannelState
  BY FoundType DEF Inv
<1>2. ch.properties = t
  BY <1>1 DEF ChannelState
<1>3. Keep(c, ch)
  BY DEF Commit
<1> HIDE DEF ch
<1>4. QED
  BY <1>2, <1>3, KeepLocked DEF Inv

LEMMA RefuseLocked ==
    ASSUME Inv, LockedNodesAreSystems, NamesAreLower, NEW c \in Channel, NEW reply,
           Refuse(c, reply)
    PROVE  LockedNodesAreSystems'
<1>1. CASE UNCHANGED channels
  BY <1>1 DEF LockedNodesAreSystems
<1>2. CASE Keep(c, Found(c))
  BY <1>2, FoundLocked, KeepLocked DEF Inv
<1>3. QED
  BY <1>1, <1>2 DEF Refuse

LEMMA ChangeLocked ==
    ASSUME Inv, LockedNodesAreSystems, NamesAreLower, LocksCarryValues,
           NEW c \in Channel, Change(c)
    PROVE  LockedNodesAreSystems'
<1> DEFINE t == Found(c).properties
<1>1. t \in Tree
  BY FoundType DEF Inv
<1>2. \A q \in LockedBySystem(c) : q \in Prop /\ t[q] = SystemTree[c][q] /\ LockedWithValue(t[q])
  BY FoundLocked, LockedNodeHasValue
<1> HIDE DEF t
<1>3. ASSUME NEW p \in Prop, NEW v \in Val, Set(c, p, v)
      PROVE  LockedNodesAreSystems'
  <2>1. CASE \E reply \in Reply : Refuse(c, reply)
    BY <2>1, RefuseLocked
  <2>2. CASE t[p] # Absent /\ ~t[p].locked /\ Commit(c, [t EXCEPT ![p].value = v], {p})
    <3>1. \A q \in LockedBySystem(c) : [t EXCEPT ![p].value = v][q] = SystemTree[c][q]
      <4> SUFFICES ASSUME NEW q \in LockedBySystem(c)
                   PROVE  [t EXCEPT ![p].value = v][q] = SystemTree[c][q]
        OBVIOUS
      <4>1. q # p /\ t \in [Prop -> Node \cup {Absent}]
        BY <1>1, <1>2, <2>2 DEF LockedWithValue, Tree
      <4>2. QED
        BY <1>2, <4>1
    <3>2. QED
      BY <2>2, <3>1, CommitLocked
  <2>3. CASE t[p] = Absent /\ Commit(c, AddProperty(t, p, v, FALSE), {p})
    <3>1. \A q \in LockedBySystem(c) : AddProperty(t, p, v, FALSE)[q] = SystemTree[c][q]
      BY <1>1, <1>2, <2>3, LockedNodeStays
    <3>2. QED
      BY <2>3, <3>1, CommitLocked
  <2>4. QED
    BY <1>3, <2>1, <2>2, <2>3 DEF Set, Reply, t
<1>4. ASSUME NEW p \in Prop, ResetProperty(c, p)
      PROVE  LockedNodesAreSystems'
  <2>1. CASE \E reply \in Reply : Refuse(c, reply)
    BY <2>1, RefuseLocked
  <2>2. CASE CanReset(t, p) /\ Commit(c, Reset(t, p), {p})
    <3>1. \A q \in LockedBySystem(c) : Reset(t, p)[q] = SystemTree[c][q]
      BY <1>1, <1>2, <2>2, LockedNodeStays
    <3>2. QED
      BY <2>2, <3>1, CommitLocked
  <2>3. QED
    BY <1>4, <2>1, <2>2 DEF ResetProperty, Reply, t
<1>5. ASSUME NEW p \in Prop, ResetRecursive(c, p)
      PROVE  LockedNodesAreSystems'
  <2> DEFINE b == BlankUserValues(t, Subtree(p))
             k == CleanUp(b, Subtree(p))
  <2>1. CASE \E reply \in Reply : Refuse(c, reply)
    BY <2>1, RefuseLocked
  <2>2. CASE Commit(c, k, Reported(UserSet(t, Subtree(p))))
    <3>1. Subtree(p) \in SUBSET Prop
      BY DEF Subtree, Below
    <3>2. b \in Tree
      BY <1>1, <3>1, BlankIsTree
    <3>3. \A q \in LockedBySystem(c) : b[q] = t[q]
      BY <1>1, <1>2, <3>1, LockedNodeStays
    <3> HIDE DEF b
    <3>4. \A q \in LockedBySystem(c) : k[q] = SystemTree[c][q]
      <4> SUFFICES ASSUME NEW q \in LockedBySystem(c) PROVE k[q] = SystemTree[c][q]
        OBVIOUS
      <4>1. q \in Prop /\ b[q] = SystemTree[c][q] /\ LockedWithValue(b[q])
        BY <1>2, <3>3
      <4>2. QED
        BY <3>2, <4>1, LockedNodeStays
    <3> HIDE DEF k
    <3>5. QED
      BY <2>2, <3>4, CommitLocked
  <2>3. QED
    BY <1>5, <2>1, <2>2 DEF ResetRecursive, Reply, t
<1>6. ASSUME ResetChannel(c)
      PROVE  LockedNodesAreSystems'
  <2>1. CASE Refuse(c, "ChannelNotFound")
    BY <2>1, RefuseLocked
  <2>2. CASE ~Refuse(c, "ChannelNotFound")
    <3>1. Key(c) = c
      BY DEF Key, NamesAreLower
    <3>2. channels' = [channels EXCEPT
                ![c] = [Found(c) EXCEPT !.properties = BlankUserValues(t, Prop)],
                ![c] = NotLoaded]
      BY <1>6, <2>2, <3>1 DEF ResetChannel, t
    <3>3. \A d \in Channel : channels'[d] = IF d = c THEN NotLoaded ELSE channels[d]
      BY <3>2 DEF Inv, TypeOK
    <3>4. QED
      BY <3>3 DEF LockedNodesAreSystems
  <2>3. QED
    BY <2>1, <2>2
<1>7. QED
  BY <1>3, <1>4, <1>5, <1>6 DEF Change

LEMMA NextLocked ==
    ASSUME NamesAreLower, LocksCarryValues
    PROVE  Inv /\ LockedNodesAreSystems /\ [Next]_vars => LockedNodesAreSystems'
<1> SUFFICES ASSUME Inv, LockedNodesAreSystems, [Next]_vars PROVE LockedNodesAreSystems'
  OBVIOUS
<1>1. CASE UNCHANGED channels
  BY <1>1 DEF LockedNodesAreSystems
<1>2. ASSUME NEW c \in Channel, Read(c)
      PROVE  LockedNodesAreSystems'
  BY <1>1, <1>2, RefuseLocked DEF Read, Get, GetAll, Exists, IsPropertyLocked
<1>3. ASSUME NEW c \in dirty_list, FlushedChannel(c)
      PROVE  LockedNodesAreSystems'
  <2>1. c \in Channel /\ channels[c] \in ChannelState
    BY DEF Inv, TypeOK, FlushMeetsLoaded
  <2>2. channels' = [channels EXCEPT ![c] = [channels[c] EXCEPT !.dirty = FALSE]]
    BY <1>3 DEF FlushedChannel
  <2>3. [channels[c] EXCEPT !.dirty = FALSE].properties = channels[c].properties
    BY <2>1 DEF ChannelState
  <2>4. channels[c] # NotLoaded
    BY DEF Inv, FlushMeetsLoaded
  <2>5. \A d \in Channel : channels'[d] # NotLoaded =>
            channels[d] # NotLoaded /\ channels'[d].properties = channels[d].properties
    BY <2>1, <2>2, <2>3, <2>4 DEF Inv, TypeOK
  <2>6. QED
    BY <2>5 DEF LockedNodesAreSystems
<1>4. CASE channels' = [c \in Channel |-> NotLoaded]
  BY <1>4 DEF LockedNodesAreSystems
<1>5. QED
  BY <1>1, <1>2, <1>3, <1>4, ChangeLocked DEF Next, Flush, vars, TimerExpires, SaveTimeout,
     Finalize, HandleDisconnect, Start, Crash, OpenFile, WriteFails, WriteNodes, Fdatasync,
     Rename, FlushDone, Inv, TypeOK, FlushMeetsLoaded

\* A property that a system file locks and gives a value shows that value at
\* all times, for clients that spell channel names in lower case: no sequence
\* of sets and resets of it, its ancestors or its descendants, no user file,
\* save, failed save, crash or restart lets another value through.
THEOREM LocksAlwaysHold ==
    ASSUME NamesAreLower, LocksCarryValues
    PROVE  Spec => []LocksHold
<1>1. Init => LockedNodesAreSystems
  BY DEF Init, LockedNodesAreSystems
<1>2. Spec => []Inv
  BY InitInv, NextInv, PTL DEF Spec
<1>3. LockedNodesAreSystems => LocksHold
  <2> SUFFICES ASSUME LockedNodesAreSystems, NEW c \in Channel, NEW p \in LockedBySystem(c)
               PROVE  Current(c, p) = SystemTree[c][p].system_value
    BY DEF LocksHold
  <2>1. Found(c).properties[p] = SystemTree[c][p] /\ LockedWithValue(SystemTree[c][p])
    BY FoundLocked, LockedNodeHasValue
  <2>2. QED
    BY <2>1, ValueAssumption DEF Current, Visible, ValueToGet, LockedWithValue
<1>4. QED
  BY <1>1, <1>2, <1>3, NextLocked, PTL DEF Spec

-----------------------------------------------------------------------------
(***************************************************************************)
(* What the backend promises about settings: acknowledged changes reach    *)
(* the disk, every change is reported, and all of it is a ConfigStore.     *)
(*                                                                         *)
(* The proofs share one summary of the requests: a request only loads its  *)
(* channel, or commits a tree that differs in what clients read by one new *)
(* value or by some defaults, or unloads the channel.                      *)
(***************************************************************************)

\* Inductive: no operation loses or invents a system default.
DefaultsHold ==
    \A c \in Channel, p \in Prop : channels[c] # NotLoaded =>
        DefaultAt(channels[c].properties, p) = DefaultAt(SystemTree[c], p)

\* The table after a step that puts ch in it for c.
TableGets(c, ch) ==
    \A d \in Channel : channels'[d] = IF d = c THEN ch ELSE channels[d]

\* A request that changes nothing, although it may load the channel.
Loads(c) ==
    /\ UNCHANGED channels \/ TableGets(c, Found(c))
    /\ changed' = {}
    /\ UNCHANGED <<user_file, save_timer>>

\* What clients read at paths of c, once t is its tree.
PutsOne(c, t, names) ==
    \E p \in Prop, v \in Val :
        /\ Found(c).properties[p] = Absent \/ ~Found(c).properties[p].locked
        /\ \A q \in Prop : Visible(t, q) = IF q = p THEN v ELSE Current(c, q)
        /\ names = {p}

DropsSome(c, t, names) ==
    \E S \in SUBSET Prop :
        /\ \A q \in Prop : Visible(t, q) = IF q \in S THEN DefaultAt(SystemTree[c], q) ELSE Current(c, q)
        /\ names = S \/ names = Reported(S)

Commits(c) ==
    \E ch \in ChannelState, names \in SUBSET Name :
        /\ \A q \in Prop : DefaultAt(ch.properties, q) = DefaultAt(SystemTree[c], q)
        /\ PutsOne(c, ch.properties, names) \/ DropsSome(c, ch.properties, names)
        /\ ch.dirty
        /\ TableGets(c, ch)
        /\ save_timer' = "armed"
        /\ changed' = {<<c, x>> : x \in names}
        /\ UNCHANGED user_file

Unloads(c) ==
    /\ TableGets(c, NotLoaded)
    /\ changed' = {<<c, x>> : x \in Reported(UserSet(Found(c).properties, Prop))}
    /\ Unlink(c)
    /\ UNCHANGED save_timer

-----------------------------------------------------------------------------
(* Loading.                                                                *)

\* Merging the user's file keeps the system's default.
LEMMA LoadTreeDefaults ==
    ASSUME TypeOK, NEW c \in Channel, NEW p \in Prop
    PROVE  DefaultAt(LoadTree(c), p) = DefaultAt(SystemTree[c], p)
<1> DEFINE s == SystemTree[c][p]
           u == UserImage(c)[p]
           n == MergedNode(s, u)
<1>1. s \in Node \cup {Absent} /\ u \in Val \cup {Unset, Absent}
  BY ConfigAssumption, UserImageType DEF Tree, Image
<1>2. n \in Node \cup {Absent} /\ (n # Absent <=> s # Absent \/ u # Absent)
  BY <1>1, MergedNodeType
<1>3. LoadTree(c)[p] = n
  BY DEF LoadTree
<1> HIDE DEF s, u
<1>4. CASE n = s
  BY <1>3, <1>4 DEF DefaultAt, s
<1>5. CASE n # s /\ s = Absent
  <2>1. n = [Branch EXCEPT !.value = u] /\ n # Absent
    BY <1>2, <1>5 DEF MergedNode
  <2>2. n.system_value = Unset
    BY <2>1 DEF Branch
  <2>3. QED
    BY <1>3, <1>5, <2>1, <2>2 DEF DefaultAt, s
<1>6. CASE n # s /\ s # Absent
  <2>1. n = [s EXCEPT !.value = u] /\ n # Absent
    BY <1>2, <1>6 DEF MergedNode
  <2>2. n.system_value = s.system_value
    BY <1>1, <1>6, <2>1 DEF Node
  <2>3. QED
    BY <1>3, <1>6, <2>1, <2>2 DEF DefaultAt, s
<1>7. QED
  BY <1>4, <1>5, <1>6

LEMMA FoundDefaults ==
    ASSUME TypeOK, DefaultsHold, NEW c \in Channel, NEW p \in Prop
    PROVE  DefaultAt(Found(c).properties, p) = DefaultAt(SystemTree[c], p)
BY LoadTreeDefaults DEF Found, LoadChannel, DefaultsHold

\* What clients read depends on the channel in the table and on its file, and
\* on the file only while the channel is not loaded.
LEMMA CurrentStays ==
    ASSUME NEW c \in Channel, NEW p \in Prop, channels'[c] = channels[c],
           user_file'[c] = user_file[c] \/ channels[c] # NotLoaded
    PROVE  Current(c, p)' = Current(c, p)
BY DEF Current, Found, LoadChannel, LoadTree, UserImage

LEMMA AfterRestartStays ==
    ASSUME NEW c \in Channel, NEW p \in Prop, user_file'[c] = user_file[c]
    PROVE  AfterRestart(c, p)' = AfterRestart(c, p)
BY DEF AfterRestart, LoadTree, UserImage

\* A channel in the table shows its own tree.
LEMMA CurrentInTable ==
    ASSUME NEW c \in Channel, NEW p \in Prop, NEW ch \in ChannelState, channels'[c] = ch
    PROVE  Current(c, p)' = Visible(ch.properties, p)
BY ConfigAssumption DEF Current, Found

\* One that is not in the table shows what its files say.
LEMMA CurrentOnDisk ==
    ASSUME NEW c \in Channel, NEW p \in Prop, channels[c] = NotLoaded
    PROVE  Current(c, p) = AfterRestart(c, p)
BY DEF Current, AfterRestart, Found, LoadChannel

\* Without a user's file, the files say the defaults.
LEMMA NothingSaved ==
    ASSUME NEW c \in Channel, NEW p \in Prop, user_file[c] = NoFile \/ c \in LockedChannels
    PROVE  AfterRestart(c, p) = DefaultAt(SystemTree[c], p)
<1>1. UserImage(c)[p] = Absent
  BY DEF UserImage, EmptyTree
<1>2. LoadTree(c)[p] = SystemTree[c][p]
  BY <1>1 DEF LoadTree, MergedNode
<1>3. SystemTree[c][p] # Absent => SystemTree[c][p].value = Unset
  BY ConfigAssumption
<1>4. QED
  BY <1>2, <1>3 DEF AfterRestart, Visible, ValueToGet, DefaultAt

\* Loading changes nothing anybody reads.
LEMMA LoadsNothingNew ==
    ASSUME Inv, NEW c \in Channel, Loads(c), NEW d \in Channel, NEW p \in Prop
    PROVE  Current(d, p)' = Current(d, p) /\ AfterRestart(d, p)' = AfterRestart(d, p)
<1>1. user_file'[d] = user_file[d]
  BY DEF Loads
<1>2. AfterRestart(d, p)' = AfterRestart(d, p)
  BY <1>1, AfterRestartStays
<1>3. CASE channels'[d] = channels[d]
  BY <1>1, <1>2, <1>3, CurrentStays
<1>4. CASE channels'[d] # channels[d]
  <2>1. channels'[d] = Found(d) /\ Found(d) \in ChannelState
    BY <1>4, FoundType DEF Loads, TableGets, Inv
  <2>2. Current(d, p)' = Visible(Found(d).properties, p)
    BY <2>1, CurrentInTable
  <2>3. QED
    BY <1>2, <2>2 DEF Current
<1>5. QED
  BY <1>2, <1>3, <1>4

-----------------------------------------------------------------------------
(* What a request does.                                                    *)

LEMMA RefuseLoads ==
    ASSUME Inv, NamesAreLower, NEW c \in Channel, NEW reply, Refuse(c, reply), UNCHANGED user_file
    PROVE  Loads(c)
<1>1. Key(c) = c
  BY DEF Key, NamesAreLower
<1>2. CASE UNCHANGED channels
  BY <1>2 DEF Refuse, Loads
<1>3. CASE Keep(c, Found(c))
  <2>1. channels' = [channels EXCEPT ![c] = Found(c)]
    BY <1>1, <1>3 DEF Keep
  <2>2. TableGets(c, Found(c))
    BY <2>1 DEF TableGets, Inv, TypeOK
  <2>3. QED
    BY <2>2 DEF Refuse, Loads
<1>4. QED
  BY <1>2, <1>3 DEF Refuse

LEMMA CommitCommits ==
    ASSUME Inv, NamesAreLower, NEW c \in Channel, NEW t \in Tree,
           NEW names \in SUBSET Name, Commit(c, t, names), UNCHANGED user_file,
           \A q \in Prop : DefaultAt(t, q) = DefaultAt(SystemTree[c], q),
           PutsOne(c, t, names) \/ DropsSome(c, t, names)
    PROVE  Commits(c)
<1> DEFINE ch == [Found(c) EXCEPT !.properties = t, !.dirty = TRUE]
<1>1. Key(c) = c
  BY DEF Key, NamesAreLower
<1>2. Found(c) \in ChannelState
  BY FoundType DEF Inv
<1>3. ch \in ChannelState /\ ch.properties = t /\ ch.dirty
  BY <1>2 DEF ChannelState
<1>4. channels' = [channels EXCEPT ![c] = ch]
  BY <1>1 DEF Commit, Keep
<1> HIDE DEF ch
<1>5. TableGets(c, ch)
  BY <1>4 DEF TableGets, Inv, TypeOK
<1>6. QED
  BY <1>3, <1>5 DEF Commit, Commits

LEMMA ReadLoads ==
    ASSUME Inv, NamesAreLower, NEW c \in Channel, Read(c)
    PROVE  RequestFrame /\ Loads(c)
<1>1. PICK p \in Prop : Get(c, p) \/ GetAll(c, p) \/ Exists(c, p) \/ IsPropertyLocked(c, p)
  BY DEF Read
<1>2. RequestFrame /\ UNCHANGED user_file
  BY <1>1 DEF Get, GetAll, Exists, IsPropertyLocked, RequestFrame
<1>3. CASE \E reply \in Reply : Refuse(c, reply)
  BY <1>2, <1>3, RefuseLoads
<1>4. CASE changed' = {} /\ UNCHANGED <<channels, save_timer>>
  BY <1>2, <1>4 DEF Loads
<1>5. QED
  BY <1>1, <1>2, <1>3, <1>4 DEF Get, GetAll, Exists, IsPropertyLocked, Reply

\* The summary of a request, which the theorems below use in place of the
\* actions: it loads, commits or unloads its channel.
LEMMA ChangeOutcome ==
    ASSUME Inv, DefaultsHold, NamesAreLower, NEW c \in Channel, Change(c)
    PROVE  RequestFrame /\ (Loads(c) \/ Commits(c) \/ Unloads(c))
<1> DEFINE t == Found(c).properties
<1>1. t \in Tree /\ \A q \in Prop : DefaultAt(t, q) = DefaultAt(SystemTree[c], q)
  BY FoundType, FoundDefaults DEF Inv
<1>2. \A q \in Prop : Visible(t, q) = Current(c, q)
  BY DEF Current
<1>3. ASSUME NEW reply \in Reply, Refuse(c, reply), UNCHANGED user_file
      PROVE  Loads(c)
  BY <1>3, RefuseLoads
<1>4. ASSUME NEW p \in Prop, NEW v \in Val, Set(c, p, v)
      PROVE  RequestFrame /\ (Loads(c) \/ Commits(c))
  <2>1. RequestFrame /\ UNCHANGED user_file
    BY <1>4 DEF Set, RequestFrame
  <2>2. {p} \in SUBSET Name /\ v # Unset
    BY NameAssumption, ValueAssumption
  <2>3. CASE t[p] # Absent /\ ~t[p].locked /\ Commit(c, [t EXCEPT ![p].value = v], {p})
    <3> DEFINE u == [t EXCEPT ![p].value = v]
    <3>1. u \in Tree
      BY <1>1, <2>3, SetValueTree
    <3>2. ASSUME NEW q \in Prop
          PROVE  /\ Visible(u, q) = IF q = p THEN v ELSE Current(c, q)
                 /\ DefaultAt(u, q) = DefaultAt(SystemTree[c], q)
      BY <1>1, <1>2, <2>2, <2>3, SetValueShows
    <3>3. Commit(c, u, {p})
      BY <2>3
    <3> HIDE DEF u
    <3>4. PutsOne(c, u, {p})
      BY <2>3, <3>2 DEF PutsOne
    <3>5. QED
      BY <2>1, <2>2, <3>1, <3>2, <3>3, <3>4, CommitCommits
  <2>4. CASE t[p] = Absent /\ Commit(c, AddProperty(t, p, v, FALSE), {p})
    <3> DEFINE u == AddProperty(t, p, v, FALSE)
    <3>1. u \in Tree
      BY <1>1, AddPropertyTree
    <3>2. ASSUME NEW q \in Prop
          PROVE  /\ Visible(u, q) = IF q = p THEN v ELSE Current(c, q)
                 /\ DefaultAt(u, q) = DefaultAt(SystemTree[c], q)
      <4>1. t[p] = Absent
        BY <2>4
      <4>2. /\ Visible(u, q) = IF q = p THEN v ELSE Visible(t, q)
            /\ DefaultAt(u, q) = DefaultAt(t, q)
        BY <1>1, <4>1, AddPropertyShows
      <4>3. QED
        BY <1>1, <1>2, <4>2
    <3>3. Commit(c, u, {p})
      BY <2>4
    <3> HIDE DEF u
    <3>4. PutsOne(c, u, {p})
      BY <2>4, <3>2 DEF PutsOne
    <3>5. QED
      BY <2>1, <2>2, <3>1, <3>2, <3>3, <3>4, CommitCommits
  <2>5. QED
    BY <1>3, <1>4, <2>1, <2>3, <2>4 DEF Set, Reply
<1>5. ASSUME NEW p \in Prop, ResetProperty(c, p)
      PROVE  RequestFrame /\ (Loads(c) \/ Commits(c))
  <2>1. RequestFrame /\ UNCHANGED user_file
    BY <1>5 DEF ResetProperty, RequestFrame
  <2>2. CASE CanReset(t, p) /\ Commit(c, Reset(t, p), {p})
    <3>1. {p} \in SUBSET Name
      BY NameAssumption
    <3>2. Reset(t, p) \in Tree
      BY <1>1, <2>2, ResetIsTree
    <3>3. \A q \in Prop : /\ Visible(Reset(t, p), q) = IF q \in {p} THEN DefaultAt(SystemTree[c], q)
                                                       ELSE Current(c, q)
                          /\ DefaultAt(Reset(t, p), q) = DefaultAt(SystemTree[c], q)
      BY <1>1, <1>2, <2>2, ResetShows
    <3>4. DropsSome(c, Reset(t, p), {p})
      BY <3>3 DEF DropsSome
    <3>5. QED
      BY <2>1, <2>2, <3>1, <3>2, <3>3, <3>4, CommitCommits
  <2>3. QED
    BY <1>3, <1>5, <2>1, <2>2 DEF ResetProperty, Reply
<1>6. ASSUME NEW p \in Prop, ResetRecursive(c, p)
      PROVE  RequestFrame /\ (Loads(c) \/ Commits(c))
  <2> DEFINE b == BlankUserValues(t, Subtree(p))
             k == CleanUp(b, Subtree(p))
             S == UserSet(t, Subtree(p))
  <2>1. RequestFrame /\ UNCHANGED user_file
    BY <1>6 DEF ResetRecursive, RequestFrame
  <2>2. CASE Commit(c, k, Reported(S))
    <3>1. Subtree(p) \in SUBSET Prop
      BY DEF Subtree, Below
    <3>2. S \in SUBSET Prop /\ Reported(S) \in SUBSET Name
      BY <3>1, NameAssumption DEF UserSet, Reported
    <3>3. b \in Tree
      BY <1>1, <3>1, BlankIsTree
    <3>4. \A q \in Prop : /\ Visible(b, q) = IF q \in S THEN DefaultAt(SystemTree[c], q)
                                             ELSE Current(c, q)
                          /\ DefaultAt(b, q) = DefaultAt(SystemTree[c], q)
      BY <1>1, <1>2, <3>1, BlankShows
    <3> HIDE DEF b, S
    <3>5. k \in Tree
      BY <3>3, CleanUpIsTree
    <3>6. \A q \in Prop : /\ Visible(k, q) = IF q \in S THEN DefaultAt(SystemTree[c], q)
                                             ELSE Current(c, q)
                          /\ DefaultAt(k, q) = DefaultAt(SystemTree[c], q)
      BY <3>3, <3>4, CleanUpShows
    <3> HIDE DEF k
    <3>7. DropsSome(c, k, Reported(S))
      BY <3>2, <3>6 DEF DropsSome
    <3>8. QED
      BY <2>1, <2>2, <3>2, <3>5, <3>6, <3>7, CommitCommits
  <2>3. QED
    BY <1>3, <1>6, <2>1, <2>2 DEF ResetRecursive, Reply
<1>7. ASSUME ResetChannel(c)
      PROVE  RequestFrame /\ (Loads(c) \/ Unloads(c))
  <2>1. RequestFrame
    BY <1>7 DEF ResetChannel, RequestFrame
  <2>2. CASE Refuse(c, "ChannelNotFound") /\ UNCHANGED user_file
    BY <1>3, <2>1, <2>2 DEF Reply
  <2>3. CASE ~(Refuse(c, "ChannelNotFound") /\ UNCHANGED user_file)
    <3>1. Key(c) = c
      BY DEF Key, NamesAreLower
    <3>2. channels' = [channels EXCEPT
                ![c] = [Found(c) EXCEPT !.properties = BlankUserValues(t, Prop)],
                ![c] = NotLoaded]
      BY <1>7, <2>3, <3>1 DEF ResetChannel
    <3>3. TableGets(c, NotLoaded)
      BY <3>2 DEF TableGets, Inv, TypeOK
    <3>4. QED
      BY <1>7, <2>1, <2>3, <3>3 DEF ResetChannel, Unloads
  <2>4. QED
    BY <2>2, <2>3
<1>8. QED
  BY <1>4, <1>5, <1>6, <1>7 DEF Change

\* Steps that touch neither the table nor the files.
Waits ==
    \/ TimerExpires \/ SaveTimeout \/ Finalize \/ HandleDisconnect \/ Start
    \/ \E c \in Channel : OpenFile(c)
    \/ WriteNodes \/ Fdatasync

\* Any step, with the requests summarised.
LEMMA NextOutcome ==
    ASSUME Inv, DefaultsHold, NamesAreLower, Next
    PROVE  \/ \E c \in Channel : RequestFrame /\ (Loads(c) \/ Commits(c) \/ Unloads(c))
           \/ Waits /\ UNCHANGED <<channels, user_file>>
           \/ Rename \/ \E c \in Channel : WriteFails(c)
           \/ FlushDone \/ Crash
<1>1. ASSUME NEW c \in Channel, Change(c) \/ Read(c)
      PROVE  RequestFrame /\ (Loads(c) \/ Commits(c) \/ Unloads(c))
  BY <1>1, ChangeOutcome, ReadLoads
<1>2. ASSUME Waits PROVE UNCHANGED <<channels, user_file>>
  BY <1>2 DEF Waits, TimerExpires, SaveTimeout, Finalize, HandleDisconnect, Start, OpenFile,
     WriteNodes, Fdatasync
<1>3. CASE TimerExpires \/ SaveTimeout \/ Finalize \/ HandleDisconnect \/ Start
  BY <1>2, <1>3 DEF Waits
<1>4. CASE Flush
  BY <1>2, <1>4 DEF Flush, Waits
<1>5. QED
  BY <1>1, <1>3, <1>4 DEF Next

\* The end of flush_channel leaves the tree, and clears dirty.
LEMMA FlushedTable ==
    ASSUME Inv, flushing, NEW c \in dirty_list, FlushedChannel(c)
    PROVE  /\ c \in Channel /\ channels[c] # NotLoaded /\ channels'[c] # NotLoaded
           /\ channels'[c].properties = channels[c].properties /\ ~channels'[c].dirty
           /\ \A d \in Channel \ {c} : channels'[d] = channels[d]
           /\ dirty_list' = dirty_list \ {c}
<1>1. c \in Channel /\ channels[c] \in ChannelState /\ channels[c] # NotLoaded
  BY DEF Inv, TypeOK, FlushMeetsLoaded
<1> DEFINE ch == [channels[c] EXCEPT !.dirty = FALSE]
<1>2. ch \in ChannelState /\ ch.properties = channels[c].properties /\ ~ch.dirty
  BY <1>1 DEF ChannelState
<1>3. channels' = [channels EXCEPT ![c] = ch]
  BY DEF FlushedChannel
<1> HIDE DEF ch
<1>4. channels'[c] = ch /\ \A d \in Channel \ {c} : channels'[d] = channels[d]
  BY <1>1, <1>3 DEF Inv, TypeOK
<1>5. QED
  BY <1>1, <1>2, <1>4, ConfigAssumption DEF FlushedChannel

\* Rename and WriteFails end one channel of the running flush.
LEMMA FlushEnds ==
    ASSUME Inv
    PROVE  /\ Rename => flushing /\ fp.channel \in dirty_list /\ fp.channel \in Channel
                        /\ FlushedChannel(fp.channel)
           /\ \A c \in Channel : WriteFails(c) => flushing /\ c \in dirty_list /\ FlushedChannel(c)
BY DEF Inv, TypeOK, FlushMeetsLoaded, Rename, WriteFails

LEMMA NextDefaults ==
    ASSUME NamesAreLower
    PROVE  Inv /\ DefaultsHold /\ [Next]_vars => DefaultsHold'
<1> SUFFICES ASSUME Inv, DefaultsHold, [Next]_vars PROVE DefaultsHold'
  OBVIOUS
<1>1. CASE UNCHANGED channels
  BY <1>1 DEF DefaultsHold
<1>2. ASSUME NEW c \in Channel, Loads(c) PROVE DefaultsHold'
  BY <1>1, <1>2, FoundDefaults DEF Loads, TableGets, DefaultsHold, Inv
<1>3. ASSUME NEW c \in Channel, Commits(c) PROVE DefaultsHold'
  BY <1>3 DEF Commits, TableGets, DefaultsHold
<1>4. ASSUME NEW c \in Channel, Unloads(c) PROVE DefaultsHold'
  BY <1>4 DEF Unloads, TableGets, DefaultsHold
<1>5. ASSUME flushing, NEW c \in dirty_list, FlushedChannel(c) PROVE DefaultsHold'
  <2>1. \A d \in Channel : channels'[d] # NotLoaded =>
            channels[d] # NotLoaded /\ channels'[d].properties = channels[d].properties
    BY <1>5, FlushedTable
  <2>2. QED
    BY <2>1 DEF DefaultsHold
<1>6. CASE Rename \/ \E c \in Channel : WriteFails(c)
  BY <1>5, <1>6, FlushEnds
<1>7. CASE FlushDone \/ Crash
  BY <1>1, <1>7 DEF FlushDone, Crash, DefaultsHold
<1>8. CASE UNCHANGED vars
  BY <1>1, <1>8 DEF vars
<1>9. QED
  BY <1>1, <1>2, <1>3, <1>4, <1>6, <1>7, <1>8, NextOutcome

LEMMA InitDefaults == Init => DefaultsHold
BY DEF Init, DefaultsHold

-----------------------------------------------------------------------------
(* Acknowledged changes reach the disk.                                    *)

\* A system call on the user's files never fails.  Where one may, a failed
\* save is not tried again, and SavedOrScheduled does not hold.
CallsSucceed == ~IoErrors

\* Inductive.  SavedOrScheduled is not: it must be known that dirty is set
\* whenever memory and disk differ, and also that a dirty channel is scheduled
\* whether they differ or not, because the next change may find it dirty.
Scheduled ==
    \A c \in Channel \ LockedChannels : channels[c] # NotLoaded =>
        IF channels[c].dirty THEN IF flushing THEN c \in dirty_list ELSE save_timer # "off"
        ELSE Saved(c)

\* What is read back after a save: each value as printed, unless it is a
\* system default, which is not printed at all.
LEMMA WrittenIsRead ==
    ASSUME Inv, DefaultsHold, LockedNodesAreSystems,
           NEW c \in Channel \ LockedChannels, channels[c] # NotLoaded, NEW synced \in BOOLEAN,
           user_file'[c] = [image |-> Written(channels[c].properties), synced |-> synced],
           NEW p \in Prop
    PROVE  AfterRestart(c, p)' \in {Current(c, p), Rounded(Current(c, p))}
<1> DEFINE t == channels[c].properties
           s == SystemTree[c][p]
           n == t[p]
           u == Written(t)[p]
           m == MergedNode(s, u)
<1>1. t \in Tree /\ n \in Node \cup {Absent}
  BY DEF Inv, TypeOK, ChannelState, Tree
<1>2. s \in Node \cup {Absent} /\ (s # Absent => s.value = Unset)
  BY ConfigAssumption DEF Tree
<1>3. Current(c, p) = IF n = Absent THEN Unset ELSE ValueToGet(n)
  BY DEF Current, Found, Visible
<1>4. AfterRestart(c, p)' = IF m = Absent THEN Unset ELSE ValueToGet(m)
  <2>1. user_file'[c].image = Written(t) /\ user_file'[c].image # Torn /\ user_file'[c] # NoFile
    <3>1. user_file'[c].image = Written(t) /\ Written(t) \in Image
      BY <1>1, WrittenType
    <3>2. user_file'[c].image # Torn
      BY <3>1, ConfigAssumption
    <3>3. user_file'[c] \in UserFile
      BY <3>1 DEF UserFile
    <3>4. QED
      BY <3>1, <3>2, <3>3, ConfigAssumption
  <2>2. UserImage(c)' = Written(t)
    BY <2>1 DEF UserImage
  <2>3. LoadTree(c)'[p] = m
    BY <2>2 DEF LoadTree
  <2>4. QED
    BY <2>3 DEF AfterRestart, Visible
<1>5. DefaultAt(t, p) = DefaultAt(SystemTree[c], p)
  BY DEF DefaultsHold
<1>6. (IF n = Absent THEN Unset ELSE n.system_value) = IF s = Absent THEN Unset ELSE s.system_value
  BY <1>5 DEF DefaultAt
<1>7. CASE s # Absent /\ s.locked
  <2>1. n = s /\ m = s
    BY <1>7 DEF LockedNodesAreSystems, LockedBySystem, MergedNode
  <2>2. QED
    BY <1>3, <1>4, <2>1
<1>8. CASE ~(s # Absent /\ s.locked) /\ n = Absent
  <2>1. m = s
    BY <1>8 DEF Written, MergedNode
  <2>2. QED
    BY <1>2, <1>3, <1>4, <1>6, <1>8, <2>1 DEF ValueToGet
<1>9. CASE ~(s # Absent /\ s.locked) /\ n # Absent
  <2>1. u = IF n.value = Unset THEN Unset ELSE Printed[n.value]
    BY <1>9 DEF Written
  <2>2. n.value \in Val \cup {Unset} /\ n.system_value \in Val \cup {Unset}
    BY <1>1, <1>9 DEF Node
  <2>3. u \in Val \cup {Unset} /\ u # Absent /\ (n.value # Unset => u # Unset)
    BY <2>1, <2>2, ConfigAssumption, ValueAssumption
  <2> HIDE DEF u, n, s
  <2>4. m # Absent /\ m.value = u /\ m.system_value = IF s = Absent THEN Unset ELSE s.system_value
    <3>1. m \in Node \cup {Absent} /\ m # Absent
      BY <1>2, <2>3, MergedNodeType
    <3>2. CASE s = Absent
      <4>1. m = [Branch EXCEPT !.value = u]
        BY <2>3, <3>2 DEF MergedNode
      <4>2. QED
        BY <3>1, <3>2, <4>1 DEF Branch
    <3>3. CASE s # Absent
      <4>1. m = [s EXCEPT !.value = u] /\ s \in Node
        BY <1>2, <1>9, <2>3, <3>3 DEF MergedNode
      <4>2. QED
        BY <3>1, <3>3, <4>1 DEF Node
    <3>4. QED
      BY <3>2, <3>3
  <2> HIDE DEF m
  <2>5. CASE n.value = Unset
    BY <1>3, <1>4, <1>6, <1>9, <2>1, <2>4, <2>5 DEF ValueToGet
  <2>6. CASE n.value # Unset
    BY <1>3, <1>4, <1>9, <2>1, <2>3, <2>4, <2>6 DEF ValueToGet, Rounded
  <2>7. QED
    BY <2>5, <2>6
<1>10. QED
  BY <1>7, <1>8, <1>9

\* Saved depends on the channel in the table and on its file only.
LEMMA SavedStays ==
    ASSUME NEW c \in Channel, channels'[c] = channels[c], user_file'[c] = user_file[c]
    PROVE  Saved(c)' = Saved(c)
<1>1. \A p \in Prop : Current(c, p)' = Current(c, p) /\ AfterRestart(c, p)' = AfterRestart(c, p)
  BY CurrentStays, AfterRestartStays
<1>2. QED
  BY <1>1 DEF Saved, Rounded

LEMMA NextScheduled ==
    ASSUME NamesAreLower, LocksCarryValues, CallsSucceed
    PROVE  Inv /\ DefaultsHold /\ LockedNodesAreSystems /\ Scheduled /\ [Next]_vars => Scheduled'
<1> SUFFICES ASSUME Inv, DefaultsHold, LockedNodesAreSystems, Scheduled, [Next]_vars,
                    NEW c \in Channel \ LockedChannels, channels'[c] # NotLoaded
             PROVE  IF channels'[c].dirty
                    THEN IF flushing' THEN c \in dirty_list' ELSE save_timer' # "off"
                    ELSE Saved(c)'
  BY DEF Scheduled
<1> DEFINE Goal == IF channels'[c].dirty
                   THEN IF flushing' THEN c \in dirty_list' ELSE save_timer' # "off"
                   ELSE Saved(c)'
<1>1. ASSUME channels'[c] = channels[c], user_file'[c] = user_file[c],
             channels[c].dirty /\ flushing => flushing' /\ (c \in dirty_list => c \in dirty_list'),
             channels[c].dirty /\ ~flushing =>
                IF flushing' THEN c \in dirty_list' ELSE (save_timer # "off" => save_timer' # "off")
      PROVE  Goal
  BY <1>1, SavedStays DEF Scheduled
<1>2. ASSUME NEW d \in Channel, RequestFrame, Loads(d) \/ Commits(d) \/ Unloads(d)
      PROVE  Goal
  <2>1. ~flushing /\ ~flushing' /\ (save_timer' = save_timer \/ save_timer' = "armed")
    BY <1>2 DEF RequestFrame, MainLoop, Loads, Commits, Unloads
  <2>2. CASE d # c
    <3>1. channels'[c] = channels[c] /\ user_file'[c] = user_file[c]
      BY <1>2, <2>2 DEF Loads, Commits, Unloads, Unlink, TableGets, Inv, TypeOK
    <3>2. QED
      BY <1>1, <2>1, <3>1
  <2>3. CASE d = c /\ Loads(c)
    <3>1. CASE channels'[c] = channels[c]
      BY <1>1, <2>1, <2>3, <3>1 DEF Loads
    <3>2. CASE channels'[c] # channels[c]
      <4>1. channels[c] = NotLoaded /\ channels'[c] = LoadChannel(c)
        BY <2>3, <3>2 DEF Loads, TableGets, Found
      <4>2. ~channels'[c].dirty
        BY <4>1 DEF LoadChannel
      <4>3. \A p \in Prop : Current(c, p)' = AfterRestart(c, p)'
        BY <2>3, <4>1, LoadsNothingNew, CurrentOnDisk
      <4>4. QED
        BY <4>2, <4>3 DEF Saved
    <3>3. QED
      BY <3>1, <3>2
  <2>4. CASE d = c /\ Commits(c)
    BY <2>1, <2>4 DEF Commits, TableGets
  <2>5. CASE d = c /\ Unloads(c)
    BY <2>5 DEF Unloads, TableGets
  <2>6. QED
    BY <1>2, <2>2, <2>3, <2>4, <2>5
<1>3. ASSUME Waits, UNCHANGED <<channels, user_file>>
      PROVE  Goal
  <2>1. CASE SaveTimeout \/ Finalize \/ HandleDisconnect
    <3>1. ~flushing /\ flushing' /\ (channels[c].dirty => c \in dirty_list')
      BY <1>3, <2>1 DEF SaveTimeout, Finalize, HandleDisconnect, MainLoop, StartFlush, Dirty
    <3>2. QED
      BY <1>1, <1>3, <3>1
  <2>2. CASE ~(SaveTimeout \/ Finalize \/ HandleDisconnect)
    <3>1. UNCHANGED <<flushing, dirty_list>> /\ (save_timer' = save_timer \/ save_timer' = "due")
      BY <1>3, <2>2 DEF Waits, TimerExpires, Start, OpenFile, WriteNodes, Fdatasync
    <3>2. QED
      BY <1>1, <1>3, <3>1
  <2>3. QED
    BY <2>1, <2>2
<1>4. CASE Rename
  <2> DEFINE d == fp.channel
  <2>1. flushing /\ d \in dirty_list /\ d \in Channel /\ FlushedChannel(d)
    BY <1>4, FlushEnds
  <2>2. /\ channels[d] # NotLoaded /\ channels'[d] # NotLoaded
        /\ channels'[d].properties = channels[d].properties /\ ~channels'[d].dirty
        /\ \A e \in Channel \ {d} : channels'[e] = channels[e]
        /\ dirty_list' = dirty_list \ {d} /\ flushing'
    BY <2>1, FlushedTable DEF FlushedChannel
  <2>3. /\ user_file'[d] = [image |-> Written(channels[d].properties), synced |-> fp.stage = "synced"]
        /\ \A e \in Channel \ {d} : user_file'[e] = user_file[e]
    BY <1>4, <2>1 DEF Rename, Inv, TypeOK
  <2> HIDE DEF d
  <2>4. CASE c # d
    BY <1>1, <2>1, <2>2, <2>3, <2>4
  <2>5. CASE c = d
    <3>1. \A p \in Prop : AfterRestart(c, p)' \in {Current(c, p), Rounded(Current(c, p))}
      BY <2>2, <2>3, <2>5, WrittenIsRead
    <3>2. \A p \in Prop : Current(c, p)' = Current(c, p)
      BY <2>2, <2>5 DEF Current, Found
    <3>3. Saved(c)'
      BY <3>1, <3>2 DEF Saved, Rounded
    <3>4. QED
      BY <2>2, <2>5, <3>3
  <2>6. QED
    BY <2>4, <2>5
<1>5. ASSUME NEW d \in Channel, WriteFails(d)
      PROVE  Goal
  BY <1>5 DEF WriteFails, CallsSucceed
<1>6. CASE FlushDone
  <2>1. flushing /\ dirty_list = {} /\ UNCHANGED user_file
    BY <1>6 DEF FlushDone
  <2>2. channels'[c] = channels[c]
    BY <1>6 DEF FlushDone
  <2>3. ~channels[c].dirty
    BY <2>1, <2>2 DEF Scheduled
  <2>4. QED
    BY <1>1, <2>1, <2>2, <2>3
<1>7. CASE Crash
  BY <1>7 DEF Crash
<1>8. CASE UNCHANGED vars
  BY <1>1, <1>8 DEF vars
<1>9. QED
  BY <1>2, <1>3, <1>4, <1>5, <1>6, <1>7, <1>8, NextOutcome

\* An acknowledged change is on disk, or its channel is dirty and will be
\* written by the running flush or by the timer, at every moment: no reset,
\* reload, flush or crash ever leaves memory ahead of the disk with nothing
\* scheduled.  Of a configuration as for LocksAlwaysHold, while system calls on
\* the user's files succeed.
THEOREM AcknowledgedIsSavedOrScheduled ==
    ASSUME NamesAreLower, LocksCarryValues, CallsSucceed
    PROVE  Spec => []SavedOrScheduled
<1>1. Init => LockedNodesAreSystems /\ Scheduled
  BY DEF Init, LockedNodesAreSystems, Scheduled
<1>2. Scheduled => SavedOrScheduled
  BY DEF Scheduled, SavedOrScheduled, Dirty
<1>3. QED
  BY <1>1, <1>2, InitInv, NextInv, InitDefaults, NextDefaults, NextLocked, NextScheduled, PTL DEF Spec

-----------------------------------------------------------------------------
(* Changes are reported.                                                   *)

\* Every property is reported under its own name: build_propname meets no name
\* of one character on its way up.
NamesAreWhole == \A p \in Prop : Propname[p] = p

\* In memory a property with no user's value reads as the default.
LEMMA UnsetReadsDefault ==
    ASSUME Inv, DefaultsHold, NEW c \in Channel, NEW p \in Prop,
           p \notin UserSet(Found(c).properties, Prop)
    PROVE  Current(c, p) = DefaultAt(SystemTree[c], p)
<1> DEFINE t == Found(c).properties
<1>1. t[p] = Absent \/ t[p].value = Unset
  BY DEF UserSet
<1>2. DefaultAt(t, p) = DefaultAt(SystemTree[c], p)
  BY FoundDefaults DEF Inv
<1>3. QED
  BY <1>1, <1>2 DEF Current, Visible, ValueToGet, DefaultAt

\* A channel that was unloaded reads as its defaults, its file being gone.
LEMMA UnloadedReadsDefault ==
    ASSUME NEW c \in Channel, Unloads(c), user_file'[c] = NoFile, NEW p \in Prop
    PROVE  Current(c, p)' = DefaultAt(SystemTree[c], p) /\ AfterRestart(c, p)' = Current(c, p)'
<1>1. channels'[c] = NotLoaded
  BY DEF Unloads, TableGets
<1>2. UserImage(c)'[p] = Absent
  BY DEF UserImage, EmptyTree
<1>3. LoadTree(c)'[p] = SystemTree[c][p]
  BY <1>2 DEF LoadTree, MergedNode
<1>4. Current(c, p)' = AfterRestart(c, p)'
  BY <1>1 DEF Current, AfterRestart, Found, LoadChannel
<1>5. SystemTree[c][p] # Absent => SystemTree[c][p].value = Unset
  BY ConfigAssumption
<1>6. QED
  BY <1>3, <1>4, <1>5 DEF AfterRestart, Visible, ValueToGet, DefaultAt

LEMMA RequestReports ==
    ASSUME Inv, DefaultsHold, NamesAreWhole, CallsSucceed, NEW c \in Channel,
           Loads(c) \/ Commits(c) \/ Unloads(c),
           NEW d \in Channel, NEW p \in Prop, Current(d, p)' # Current(d, p)
    PROVE  <<d, p>> \in changed'
<1>1. ~Loads(c)
  BY LoadsNothingNew
<1>2. c = d
  <2>1. ASSUME c # d PROVE channels'[d] = channels[d] /\ user_file'[d] = user_file[d]
    BY <1>1, <2>1 DEF Commits, Unloads, Unlink, TableGets, Inv, TypeOK
  <2>2. QED
    BY <2>1, CurrentStays
<1>3. CASE Commits(c)
  <2>1. PICK ch \in ChannelState, names \in SUBSET Name :
           /\ PutsOne(c, ch.properties, names) \/ DropsSome(c, ch.properties, names)
           /\ channels'[c] = ch
           /\ changed' = {<<c, x>> : x \in names}
    BY <1>3 DEF Commits, TableGets
  <2>2. Visible(ch.properties, p) # Current(c, p)
    BY <1>2, <2>1, CurrentInTable
  <2>3. \A S \in SUBSET Prop : Reported(S) = S
    BY DEF Reported, NamesAreWhole
  <2>4. p \in names
    BY <2>1, <2>2, <2>3 DEF PutsOne, DropsSome
  <2>5. QED
    BY <1>2, <2>1, <2>4
<1>4. CASE Unloads(c)
  <2>1. user_file'[c] = NoFile
    BY <1>4 DEF Unloads, Unlink, CallsSucceed, Inv, TypeOK
  <2>2. p \in UserSet(Found(c).properties, Prop)
    BY <1>2, <1>4, <2>1, UnsetReadsDefault, UnloadedReadsDefault
  <2>3. p \in Reported(UserSet(Found(c).properties, Prop))
    BY <2>2 DEF Reported, NamesAreWhole
  <2>4. QED
    BY <1>2, <1>4, <2>3 DEF Unloads
<1>5. QED
  BY <1>1, <1>3, <1>4

\* Nothing changes under clients but by a request, while the daemon runs.
LEMMA OthersChangeNothing ==
    ASSUME Inv, NEW c \in Channel, NEW p \in Prop,
           \/ Waits /\ UNCHANGED <<channels, user_file>>
           \/ Rename \/ \E d \in Channel : WriteFails(d)
           \/ FlushDone /\ daemon # "exiting"
           \/ UNCHANGED vars
    PROVE  Current(c, p)' = Current(c, p)
<1>1. CASE UNCHANGED <<channels, user_file>>
  BY <1>1, CurrentStays
<1>2. ASSUME flushing, NEW d \in dirty_list, FlushedChannel(d),
             \A e \in Channel \ {d} : user_file'[e] = user_file[e]
      PROVE  Current(c, p)' = Current(c, p)
  <2>1. CASE c = d
    BY <1>2, <2>1, FlushedTable DEF Current, Found
  <2>2. CASE c # d
    BY <1>2, <2>2, FlushedTable, CurrentStays
  <2>3. QED
    BY <2>1, <2>2
<1>3. CASE Rename
  <2>1. \A e \in Channel \ {fp.channel} : user_file'[e] = user_file[e]
    BY <1>3 DEF Rename, Inv, TypeOK
  <2>2. QED
    BY <1>2, <1>3, <2>1, FlushEnds
<1>4. ASSUME NEW d \in Channel, WriteFails(d)
      PROVE  Current(c, p)' = Current(c, p)
  <2>1. UNCHANGED user_file
    BY <1>4 DEF WriteFails
  <2>2. QED
    BY <1>2, <1>4, <2>1, FlushEnds
<1>5. CASE FlushDone /\ daemon # "exiting"
  BY <1>1, <1>5 DEF FlushDone
<1>6. QED
  BY <1>1, <1>3, <1>4, <1>5 DEF vars

\* What a step must report: the step of ChangesAreReported.
Reports ==
    daemon = "up" /\ daemon' = "up" =>
        \A c \in Channel, p \in Prop : Current(c, p)' # Current(c, p) => <<c, p>> \in changed'

LEMMA NextReports ==
    ASSUME NamesAreLower, NamesAreWhole, CallsSucceed
    PROVE  Inv /\ DefaultsHold /\ [Next]_vars => Reports
<1> SUFFICES ASSUME Inv, DefaultsHold, [Next]_vars, daemon = "up", daemon' = "up",
                    NEW c \in Channel, NEW p \in Prop, Current(c, p)' # Current(c, p)
             PROVE  <<c, p>> \in changed'
  BY DEF Reports
<1>1. ~Crash
  BY DEF Crash
<1>2. QED
  BY <1>1, NextOutcome, RequestReports, OthersChangeNothing

\* A client never reads something new of a property without a call of
\* prop_changed_func for it in the same step: every request that changes what a
\* property reads as, the properties below a recursive reset and those of a
\* channel that was reset as a whole included, reports it, and nothing but a
\* request changes it; loading, saving and the climb of a reset do not.
THEOREM EveryChangeIsReported ==
    ASSUME NamesAreLower, NamesAreWhole, CallsSucceed
    PROVE  Spec => ChangesAreReported
<1>1. Inv /\ DefaultsHold /\ [Next]_vars =>
        [daemon = "up" /\ daemon' = "up" =>
            \A c \in Channel, p \in Prop :
                Current(c, p)' # Current(c, p) => <<c, p>> \in changed']_vars
  BY NextReports DEF Reports
<1>2. QED
  BY <1>1, InitInv, NextInv, InitDefaults, NextDefaults, PTL DEF Spec, ChangesAreReported

-----------------------------------------------------------------------------
(* The backend is a configuration store.                                   *)

\* The two variables of ConfigStore, as the refinement mapping gives them.
CurrentMap == [c \in Channel |-> [p \in Prop |-> Current(c, p)]]
SavedMap == [c \in Channel |-> [p \in Prop |-> AfterRestart(c, p)]]
DefaultMap == [c \in Channel |-> [p \in Prop |-> Visible(SystemTree[c], p)]]

\* A step that changes one channel changes one row of a map.
LEMMA OneCurrentRow ==
    ASSUME NEW c \in Channel, NEW f, f = [p \in Prop |-> Current(c, p)'],
           \A d \in Channel \ {c}, p \in Prop : Current(d, p)' = Current(d, p)
    PROVE  CurrentMap' = [CurrentMap EXCEPT ![c] = f]
BY DEF CurrentMap

LEMMA OneSavedRow ==
    ASSUME NEW c \in Channel, NEW f, f = [p \in Prop |-> AfterRestart(c, p)'],
           \A d \in Channel \ {c}, p \in Prop : AfterRestart(d, p)' = AfterRestart(d, p)
    PROVE  SavedMap' = [SavedMap EXCEPT ![c] = f]
BY DEF SavedMap

LEMMA SavedMapStays ==
    ASSUME \A c \in Channel, p \in Prop : AfterRestart(c, p)' = AfterRestart(c, p)
    PROVE  SavedMap' = SavedMap
BY DEF SavedMap

LEMMA CurrentMapStays ==
    ASSUME \A c \in Channel, p \in Prop : Current(c, p)' = Current(c, p)
    PROVE  CurrentMap' = CurrentMap
BY DEF CurrentMap

\* System files have no user's values, so what they show are the defaults.
LEMMA DefaultMapIs ==
    ASSUME NEW c \in Channel, NEW p \in Prop
    PROVE  DefaultMap[c][p] = DefaultAt(SystemTree[c], p)
BY ConfigAssumption DEF DefaultMap, Visible, ValueToGet, DefaultAt

\* The actions of ConfigStore over the maps.
LEMMA StorePut ==
    ASSUME NEW c \in Channel, NEW p \in Prop, NEW v \in Val, p \notin LockedBySystem(c),
           CurrentMap' = [CurrentMap EXCEPT ![c] = [CurrentMap[c] EXCEPT ![p] = v]],
           SavedMap' = SavedMap
    PROVE  Store!StoreNext
<1>1. Store!Put(c, p, v)
  BY DEF Store!Put, CurrentMap, SavedMap
<1>2. QED
  BY <1>1 DEF Store!StoreNext

LEMMA StoreDrop ==
    ASSUME NEW c \in Channel, NEW S \in SUBSET Prop,
           CurrentMap' = [CurrentMap EXCEPT ![c] =
                             [p \in Prop |-> IF p \in S THEN DefaultMap[c][p] ELSE CurrentMap[c][p]]],
           SavedMap' = SavedMap
    PROVE  Store!StoreNext
<1>1. Store!Drop(c, S)
  BY DEF Store!Drop, CurrentMap, SavedMap, DefaultMap
<1>2. QED
  BY <1>1 DEF Store!StoreNext

LEMMA StoreDropAll ==
    ASSUME NEW c \in Channel,
           CurrentMap' = [CurrentMap EXCEPT ![c] = DefaultMap[c]],
           SavedMap' = [SavedMap EXCEPT ![c] = DefaultMap[c]]
    PROVE  Store!StoreNext
<1>1. Store!DropAll(c)
  BY DEF Store!DropAll, CurrentMap, SavedMap, DefaultMap
<1>2. QED
  BY <1>1 DEF Store!StoreNext

LEMMA StoreRevert ==
    ASSUME NEW c \in Channel,
           CurrentMap' = [CurrentMap EXCEPT ![c] = SavedMap[c]], SavedMap' = SavedMap
    PROVE  Store!StoreNext
<1>1. Store!Revert(c)
  BY DEF Store!Revert, CurrentMap, SavedMap
<1>2. QED
  BY <1>1 DEF Store!StoreNext

LEMMA StoreSave ==
    ASSUME NEW c \in Channel, NEW S \in SUBSET Prop,
           SavedMap' = [SavedMap EXCEPT ![c] =
                           [p \in Prop |-> IF p \in S THEN CurrentMap[c][p]
                                           ELSE Rounded(CurrentMap[c][p])]],
           CurrentMap' = CurrentMap
    PROVE  Store!StoreNext
<1>1. Store!Save(c, S)
  BY DEF Store!Save, Store!Rounded, Rounded, CurrentMap, SavedMap
<1>2. QED
  BY <1>1 DEF Store!StoreNext

LEMMA StoreStop ==
    ASSUME CurrentMap' = SavedMap, SavedMap' = SavedMap
    PROVE  Store!StoreNext
<1>1. Store!Stop
  BY DEF Store!Stop, CurrentMap, SavedMap
<1>2. QED
  BY <1>1 DEF Store!StoreNext

LEMMA StoreStutter ==
    ASSUME CurrentMap' = CurrentMap, SavedMap' = SavedMap
    PROVE  UNCHANGED Store!storeVars
BY DEF Store!storeVars, CurrentMap, SavedMap

LEMMA CommitIsStoreStep ==
    ASSUME Inv, LockedNodesAreSystems, NEW c \in Channel, Commits(c)
    PROVE  Store!StoreNext
<1>1. PICK ch \in ChannelState, names \in SUBSET Name :
         /\ PutsOne(c, ch.properties, names) \/ DropsSome(c, ch.properties, names)
         /\ TableGets(c, ch)
         /\ UNCHANGED user_file
  BY DEF Commits
<1>2. /\ \A p \in Prop : Current(c, p)' = Visible(ch.properties, p)
      /\ \A d \in Channel \ {c}, p \in Prop : Current(d, p)' = Current(d, p)
  BY <1>1, CurrentInTable, CurrentStays DEF TableGets
<1>3. SavedMap' = SavedMap
  BY <1>1, AfterRestartStays, SavedMapStays
<1>4. ASSUME NEW p \in Prop, NEW v \in Val,
             Found(c).properties[p] = Absent \/ ~Found(c).properties[p].locked,
             \A q \in Prop : Visible(ch.properties, q) = IF q = p THEN v ELSE Current(c, q)
      PROVE  Store!StoreNext
  <2>1. p \notin LockedBySystem(c)
    <3>1. ASSUME p \in LockedBySystem(c) PROVE FALSE
      BY <1>4, <3>1, FoundLocked DEF LockedBySystem
    <3>2. QED
      BY <3>1
  <2> DEFINE f == [CurrentMap[c] EXCEPT ![p] = v]
  <2>2. CurrentMap[c] = [q \in Prop |-> Current(c, q)]
    BY DEF CurrentMap
  <2>3. f = [q \in Prop |-> Current(c, q)']
    BY <1>2, <1>4, <2>2
  <2> HIDE DEF f
  <2>4. CurrentMap' = [CurrentMap EXCEPT ![c] = f]
    BY <1>2, <2>3, OneCurrentRow
  <2>5. QED
    BY <1>3, <2>1, <2>4, StorePut DEF f
<1>5. ASSUME NEW S \in SUBSET Prop,
             \A q \in Prop : Visible(ch.properties, q) =
                 IF q \in S THEN DefaultAt(SystemTree[c], q) ELSE Current(c, q)
      PROVE  Store!StoreNext
  <2> DEFINE f == [q \in Prop |-> IF q \in S THEN DefaultMap[c][q] ELSE CurrentMap[c][q]]
  <2>1. \A q \in Prop : CurrentMap[c][q] = Current(c, q)
    BY DEF CurrentMap
  <2>2. f = [q \in Prop |-> Current(c, q)']
    BY <1>2, <1>5, <2>1, DefaultMapIs
  <2> HIDE DEF f
  <2>3. CurrentMap' = [CurrentMap EXCEPT ![c] = f]
    BY <1>2, <2>2, OneCurrentRow
  <2>4. QED
    BY <1>3, <2>3, StoreDrop DEF f
<1>6. QED
  BY <1>1, <1>4, <1>5 DEF PutsOne, DropsSome

\* Where unlink fails though there is a file, the saved settings come back.
LEMMA UnloadIsStoreStep ==
    ASSUME Inv, NEW c \in Channel, Unloads(c)
    PROVE  Store!StoreNext
<1>1. /\ channels'[c] = NotLoaded
      /\ \A d \in Channel \ {c} : channels'[d] = channels[d] /\ user_file'[d] = user_file[d]
  BY DEF Unloads, Unlink, TableGets, Inv, TypeOK
<1>2. /\ \A d \in Channel \ {c}, p \in Prop : Current(d, p)' = Current(d, p)
      /\ \A d \in Channel \ {c}, p \in Prop : AfterRestart(d, p)' = AfterRestart(d, p)
  BY <1>1, CurrentStays, AfterRestartStays
<1>3. CASE user_file'[c] = NoFile
  <2> DEFINE f == DefaultMap[c]
  <2>1. \A p \in Prop : f[p] = Current(c, p)' /\ f[p] = AfterRestart(c, p)'
    BY <1>3, UnloadedReadsDefault, DefaultMapIs
  <2>2. f = [p \in Prop |-> Current(c, p)'] /\ f = [p \in Prop |-> AfterRestart(c, p)']
    BY <2>1 DEF DefaultMap
  <2> HIDE DEF f
  <2>3. CurrentMap' = [CurrentMap EXCEPT ![c] = f] /\ SavedMap' = [SavedMap EXCEPT ![c] = f]
    BY <1>2, <2>2, OneCurrentRow, OneSavedRow
  <2>4. QED
    BY <2>3, StoreDropAll DEF f
<1>4. CASE user_file'[c] # NoFile
  <2>1. UNCHANGED user_file
    BY <1>4 DEF Unloads, Unlink, Inv, TypeOK
  <2>2. SavedMap' = SavedMap
    BY <2>1, AfterRestartStays, SavedMapStays
  <2>3. \A p \in Prop : Current(c, p)' = AfterRestart(c, p)'
    BY <1>1 DEF Current, AfterRestart, Found, LoadChannel
  <2>4. \A p \in Prop : AfterRestart(c, p)' = AfterRestart(c, p)
    BY <2>1, AfterRestartStays
  <2> DEFINE f == SavedMap[c]
  <2>5. f = [p \in Prop |-> Current(c, p)']
    BY <2>3, <2>4 DEF SavedMap
  <2> HIDE DEF f
  <2>6. CurrentMap' = [CurrentMap EXCEPT ![c] = f]
    BY <1>2, <2>5, OneCurrentRow
  <2>7. QED
    BY <2>2, <2>6, StoreRevert DEF f
<1>5. QED
  BY <1>3, <1>4

\* The rename saves the channel; of one that a system file locks the user's
\* file is never read, so that nothing changes.
LEMMA RenameIsStoreStep ==
    ASSUME Inv, DefaultsHold, LockedNodesAreSystems, Rename
    PROVE  Store!StoreNext \/ UNCHANGED Store!storeVars
<1>1. PICK c \in Channel : c = fp.channel /\ flushing /\ c \in dirty_list /\ FlushedChannel(c)
  BY FlushEnds
<1> DEFINE S == {p \in Prop : AfterRestart(c, p)' = Current(c, p)}
<1>2. /\ channels[c] # NotLoaded
      /\ user_file'[c] = [image |-> Written(channels[c].properties), synced |-> fp.stage = "synced"]
      /\ \A d \in Channel \ {c} : user_file'[d] = user_file[d]
  BY <1>1, FlushedTable DEF Rename, Inv, TypeOK
<1>3. CurrentMap' = CurrentMap
  BY OthersChangeNothing, CurrentMapStays
<1>4. \A d \in Channel \ {c}, p \in Prop : AfterRestart(d, p)' = AfterRestart(d, p)
  BY <1>2, AfterRestartStays
<1>5. CASE c \in LockedChannels
  <2>1. \A p \in Prop : AfterRestart(c, p)' = AfterRestart(c, p)
    BY <1>5 DEF AfterRestart, LoadTree, UserImage
  <2>2. SavedMap' = SavedMap
    BY <1>4, <2>1, SavedMapStays
  <2>3. QED
    BY <1>3, <2>2, StoreStutter
<1>6. CASE c \notin LockedChannels
  <2> DEFINE f == [p \in Prop |-> IF p \in S THEN CurrentMap[c][p] ELSE Rounded(CurrentMap[c][p])]
  <2>1. \A p \in Prop : AfterRestart(c, p)' \in {Current(c, p), Rounded(Current(c, p))}
    BY <1>1, <1>2, <1>6, WrittenIsRead
  <2>2. \A p \in Prop : CurrentMap[c][p] = Current(c, p)
    BY <1>1 DEF CurrentMap
  <2>3. f = [p \in Prop |-> AfterRestart(c, p)']
    BY <2>1, <2>2
  <2> HIDE DEF f
  <2>4. SavedMap' = [SavedMap EXCEPT ![c] = f]
    BY <1>1, <1>4, <2>3, OneSavedRow
  <2>5. S \in SUBSET Prop
    OBVIOUS
  <2> HIDE DEF S
  <2>6. QED
    BY <1>1, <1>3, <2>4, <2>5, StoreSave DEF f
<1>7. QED
  BY <1>5, <1>6

LEMMA NextIsStoreStep ==
    ASSUME NamesAreLower
    PROVE  Inv /\ DefaultsHold /\ LockedNodesAreSystems /\ AllSynced /\ [Next]_vars
              => [Store!StoreNext]_Store!storeVars
<1> SUFFICES ASSUME Inv, DefaultsHold, LockedNodesAreSystems, AllSynced, [Next]_vars
             PROVE  Store!StoreNext \/ UNCHANGED Store!storeVars
  OBVIOUS
<1>1. ASSUME NEW c \in Channel, Loads(c)
      PROVE  UNCHANGED Store!storeVars
  BY <1>1, LoadsNothingNew, CurrentMapStays, SavedMapStays, StoreStutter
<1>2. ASSUME \/ Waits /\ UNCHANGED <<channels, user_file>>
             \/ \E c \in Channel : WriteFails(c)
             \/ FlushDone /\ daemon # "exiting"
             \/ UNCHANGED vars
      PROVE  UNCHANGED Store!storeVars
  <2>1. UNCHANGED user_file
    BY <1>2 DEF WriteFails, FlushDone, vars
  <2>2. QED
    BY <1>2, <2>1, OthersChangeNothing, AfterRestartStays, CurrentMapStays, SavedMapStays, StoreStutter
<1>3. ASSUME channels' = [c \in Channel |-> NotLoaded],
             \A c \in Channel : user_file'[c] = user_file[c]
      PROVE  Store!StoreNext
  <2>1. \A c \in Channel, p \in Prop : AfterRestart(c, p)' = AfterRestart(c, p)
    BY <1>3, AfterRestartStays
  <2>2. \A c \in Channel, p \in Prop : Current(c, p)' = AfterRestart(c, p)'
    BY <1>3 DEF Current, AfterRestart, Found, LoadChannel
  <2>3. CurrentMap' = SavedMap
    BY <2>1, <2>2 DEF CurrentMap, SavedMap
  <2>4. QED
    BY <2>1, <2>3, SavedMapStays, StoreStop
<1>4. CASE Crash
  <2>1. {c \in Channel : user_file[c] # NoFile /\ ~user_file[c].synced} = {}
    BY DEF AllSynced
  <2>2. \A c \in Channel : user_file'[c] = user_file[c]
    BY <1>4, <2>1 DEF Crash
  <2>3. QED
    BY <1>3, <1>4, <2>2 DEF Crash
<1>5. CASE FlushDone /\ daemon = "exiting"
  BY <1>3, <1>5 DEF FlushDone
<1>6. QED
  BY <1>1, <1>2, <1>4, <1>5, CommitIsStoreStep, UnloadIsStoreStep, RenameIsStoreStep, NextOutcome

\* A start finds in memory what is on disk, and under locks the defaults.
LEMMA InitIsStoreInit ==
    ASSUME Init
    PROVE  Store!StoreInit
<1>1. \A c \in Channel, p \in Prop : Current(c, p) = AfterRestart(c, p)
  BY CurrentOnDisk DEF Init
<1>2. \A c \in Channel, p \in Prop : AfterRestart(c, p) \in Val \cup {Unset}
  <2> SUFFICES ASSUME NEW c \in Channel, NEW p \in Prop
               PROVE  AfterRestart(c, p) \in Val \cup {Unset}
    OBVIOUS
  <2>1. LoadTree(c)[p] \in Node \cup {Absent}
    BY InitInv, LoadTreeIsTree DEF Inv, Tree
  <2>2. QED
    BY <2>1 DEF AfterRestart, Visible, ValueToGet, Node
<1>3. ASSUME NEW c \in Channel, NEW p \in LockedBySystem(c)
      PROVE  p \in Prop /\ AfterRestart(c, p) = Visible(SystemTree[c], p)
  <2>1. p \in Prop /\ SystemTree[c][p] # Absent /\ SystemTree[c][p].locked
    BY <1>3 DEF LockedBySystem
  <2>2. LoadTree(c)[p] = SystemTree[c][p]
    BY <2>1 DEF LoadTree, MergedNode
  <2>3. QED
    BY <2>1, <2>2 DEF AfterRestart, Visible
<1>4. CurrentMap = SavedMap
  BY <1>1 DEF CurrentMap, SavedMap
<1>5. SavedMap \in [Channel -> [Prop -> Val \cup {Unset}]]
  BY <1>2 DEF SavedMap
<1>6. \A c \in Channel, p \in Prop : p \in LockedBySystem(c) => SavedMap[c][p] = DefaultMap[c][p]
  BY <1>3 DEF SavedMap, DefaultMap
<1>7. QED
  BY <1>4, <1>5, <1>6 DEF Store!StoreInit, CurrentMap, SavedMap, DefaultMap

\* The backend implements ConfigStore: a request changes one property or takes
\* some back to their defaults, never one that is locked; a save moves whole
\* channels to disk; and a start finds what was last saved, at whatever moment
\* of a flush the daemon died, also where system calls fail.
THEOREM BackendIsConfigStore ==
    ASSUME NamesAreLower, LocksCarryValues
    PROVE  Spec => ImplementsConfigStore
<1>1. Init => Store!StoreInit
  BY InitIsStoreInit
<1>2. Init => LockedNodesAreSystems
  BY DEF Init, LockedNodesAreSystems
<1>3. Init => AllSynced
  BY InitAllSynced
<1>4. QED
  BY <1>1, <1>2, <1>3, InitInv, NextInv, InitDefaults, NextDefaults, NextLocked, NextAllSynced,
     NextIsStoreStep, PTL DEF Spec, ImplementsConfigStore, Store!StoreSpec

=============================================================================
