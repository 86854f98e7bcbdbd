--------------------------- MODULE PerchannelXml ----------------------------
(***************************************************************************)
(* The per-channel XML backend of blconfd: the table of loaded channels,   *)
(* the user's files, and the delayed save that moves one to the other.     *)
(*                                                                         *)
(* blconfd runs one main loop: a request, a timer callback or a flush runs *)
(* to its end before the next starts, so a request is one step.  A flush   *)
(* is split at its system calls, because the process, or the machine, may  *)
(* die between any two of them.                                            *)
(***************************************************************************)
EXTENDS PropTree

CONSTANTS
    Channel,        \* channel names, as clients spell them
    Lower,          \* Lower[c]: g_ascii_strdown of c, the key in the table
    SystemFiles,    \* channels with a file in a system config directory
    SystemTree,     \* SystemTree[c]: the merged system files of c
    LockedChannels, \* channels locked by a system file
    Array,          \* array values: never equal to anything
    Printed,        \* Printed[v]: the value read back after v was written
    InitialFile,    \* the user files a session may start with
    UserPath,       \* a save location is returned for a file not there yet
    IoErrors,       \* whether a system call on the user's files may fail
    NoFile, NotLoaded, Torn

VARIABLES
    daemon,         \* "up", "exiting" (last flush running) or "down"
    channels,       \* the table of loaded channels
    user_file,      \* the user's file of each channel, as named on disk
    save_timer,     \* save_id: "off", "armed", or "due" after WRITE_TIMEOUT
    flushing,       \* a flush is running
    dirty_list,     \* channels it has still to write
    fp,             \* the ".new" file a flush is writing
    ret,            \* result of the last request
    changed         \* prop_changed_func calls of the last request

vars == <<daemon, channels, user_file, save_timer, flushing, dirty_list, fp, ret, changed>>

\* What a file says of each path: absent, present without value, or a value.
Image == {f \in [Prop -> Val \cup {Unset, Absent}] : Closed(f)}

ChannelState == [properties : Tree, locked : BOOLEAN, dirty : BOOLEAN]
UserFile == [image : Image \cup {Torn}, synced : BOOLEAN]
Reply == {"ok", "PermissionDenied", "PropertyNotFound", "ChannelNotFound", "WriteFailure"}

ASSUME ConfigAssumption ==
    /\ Lower \in [Channel -> Channel]
    /\ SystemFiles \subseteq Channel /\ LockedChannels \subseteq SystemFiles
    /\ SystemTree \in [Channel -> Tree]
    /\ \A c \in Channel, p \in Prop : SystemTree[c][p] # Absent => SystemTree[c][p].value = Unset
    /\ \A c \in Channel \ SystemFiles : SystemTree[c] = EmptyTree
    /\ Array \subseteq Val
    /\ Printed \in [Val -> Val]
    /\ InitialFile \subseteq Image
    /\ UserPath \in BOOLEAN /\ IoErrors \in BOOLEAN
    /\ Torn \notin Image /\ NoFile \notin UserFile /\ NotLoaded \notin ChannelState
    /\ Absent \notin Val /\ Absent # Unset
    /\ NoFile \notin [channel : Channel, stage : {"opened", "written", "synced"}]

-----------------------------------------------------------------------------
(* Loading and finding a channel.                                          *)

(***************************************************************************)
(* merge_file of the user's file over the merged system files: a property  *)
(* in the file gives the user's value, unless a system file locks it.  The *)
(* file of a locked channel is not read, nor is one that does not parse.   *)
(***************************************************************************)
UserImage(c) ==
    IF user_file[c] = NoFile \/ c \in LockedChannels THEN EmptyTree
    ELSE IF user_file[c].image = Torn THEN EmptyTree
    ELSE user_file[c].image

\* Faulty: the user's file is merged over locked properties too.
MergedOverLock(s, u) ==
    IF u = Absent THEN s
    ELSE IF s = Absent THEN [Branch EXCEPT !.value = u]
    ELSE [s EXCEPT !.value = u]

MergedNode(s, u) ==
    IF u = Absent \/ (s # Absent /\ s.locked) THEN s
    ELSE IF s = Absent THEN [Branch EXCEPT !.value = u]
    ELSE [s EXCEPT !.value = u]

LoadTree(c) == [p \in Prop |-> MergedNode(SystemTree[c][p], UserImage(c)[p])]

LoadChannel(c) ==
    [properties |-> LoadTree(c), locked |-> c \in LockedChannels, dirty |-> FALSE]

\* load_channel finds some file, or at least a place for one.
Known(c) == channels[c] # NotLoaded \/ c \in SystemFiles \/ user_file[c] # NoFile \/ UserPath

\* The table is searched for the name as given, but loads insert Lower[c].
Found(c) == IF channels[c] # NotLoaded THEN channels[c] ELSE LoadChannel(c)
Key(c) == IF channels[c] # NotLoaded THEN c ELSE Lower[c]

Keep(c, ch) == channels' = [channels EXCEPT ![Key(c)] = ch]

\* Faulty: schedule_save sets dirty only.
CommitUnscheduled(c, tree, names) ==
    /\ Keep(c, [Found(c) EXCEPT !.properties = tree, !.dirty = TRUE])
    /\ changed' = {<<c, x>> : x \in names}
    /\ ret' = "ok"
    /\ UNCHANGED save_timer

\* A change: prop_changed_func is called, the save is put off and scheduled.
Commit(c, tree, names) ==
    /\ Keep(c, [Found(c) EXCEPT !.properties = tree, !.dirty = TRUE])
    /\ save_timer' = "armed"
    /\ changed' = {<<c, x>> : x \in names}
    /\ ret' = "ok"

\* No change: the channel may have been loaded, and reply is returned.
Refuse(c, reply) ==
    /\ IF reply = "ChannelNotFound" THEN UNCHANGED channels ELSE Keep(c, Found(c))
    /\ ret' = reply
    /\ changed' = {}
    /\ UNCHANGED save_timer

IsEqual(a, b) == a = b /\ a \notin Array

MainLoop == daemon = "up" /\ ~flushing

-----------------------------------------------------------------------------
(* Requests.                                                               *)

\* blconf_backend_perchannel_xml_set; an unknown channel is created.
Set(c, p, v) ==
    LET t == Found(c).properties
    IN  /\ MainLoop
        /\ \/ t[p] # Absent /\ t[p].locked /\ Refuse(c, "PermissionDenied")
           \/ /\ t[p] # Absent /\ ~t[p].locked
              /\ IsEqual(ValueToGet(t[p]), v)
              /\ Refuse(c, "ok")
           \/ /\ t[p] # Absent /\ ~t[p].locked
              /\ ~IsEqual(ValueToGet(t[p]), v)
              /\ Commit(c, [t EXCEPT ![p].value = v], {p})
           \/ /\ t[p] = Absent
              /\ Commit(c, AddProperty(t, p, v, FALSE), {p})
        /\ UNCHANGED <<daemon, user_file, flushing, dirty_list, fp>>

\* Reads load the channel; Get fails when there is no value to return.
Get(c, p) ==
    /\ MainLoop
    /\ Refuse(c, IF ~Known(c) THEN "ChannelNotFound"
                 ELSE IF Visible(Found(c).properties, p) = Unset THEN "PropertyNotFound"
                 ELSE "ok")
    /\ UNCHANGED <<daemon, user_file, flushing, dirty_list, fp>>

\* get_all fails when there is no node at the base, not when there is no value.
GetAll(c, p) ==
    /\ MainLoop
    /\ Refuse(c, IF ~Known(c) THEN "ChannelNotFound"
                 ELSE IF Found(c).properties[p] = Absent THEN "PropertyNotFound"
                 ELSE "ok")
    /\ UNCHANGED <<daemon, user_file, flushing, dirty_list, fp>>

\* exists on a channel that cannot be loaded answers FALSE, without an error.
Exists(c, p) ==
    /\ MainLoop
    /\ IF Known(c) THEN Refuse(c, "ok")
       ELSE ret' = "ok" /\ changed' = {} /\ UNCHANGED <<channels, save_timer>>
    /\ UNCHANGED <<daemon, user_file, flushing, dirty_list, fp>>

IsPropertyLocked(c, p) ==
    /\ MainLoop
    /\ Refuse(c, IF Known(c) THEN "ok" ELSE "ChannelNotFound")
    /\ UNCHANGED <<daemon, user_file, flushing, dirty_list, fp>>

\* blconf_backend_perchannel_xml_reset without recursion.
ResetProperty(c, p) ==
    LET t == Found(c).properties
    IN  /\ MainLoop
        /\ \/ ~Known(c) /\ Refuse(c, "ChannelNotFound")
           \/ Known(c) /\ ~CanReset(t, p) /\ Refuse(c, "PropertyNotFound")
           \/ Known(c) /\ CanReset(t, p) /\ Commit(c, Reset(t, p), {p})
        /\ UNCHANGED <<daemon, user_file, flushing, dirty_list, fp>>

\* The same with recursion, below a property.
ResetRecursive(c, p) ==
    LET t == Found(c).properties
    IN  /\ MainLoop
        /\ \/ ~Known(c) /\ Refuse(c, "ChannelNotFound")
           \/ Known(c) /\ t[p] = Absent /\ Refuse(c, "PropertyNotFound")
           \/ /\ Known(c) /\ t[p] # Absent
              /\ Commit(c, CleanUp(BlankUserValues(t, Subtree(p)), Subtree(p)),
                        Reported(UserSet(t, Subtree(p))))
        /\ UNCHANGED <<daemon, user_file, flushing, dirty_list, fp>>

\* unlink of the user's file.
Unlink(c) ==
    \/ user_file[c] # NoFile /\ user_file' = [user_file EXCEPT ![c] = NoFile] /\ ret' = "ok"
    \/ user_file[c] = NoFile /\ UNCHANGED user_file /\ ret' = "WriteFailure"
    \/ IoErrors /\ user_file[c] # NoFile /\ UNCHANGED user_file /\ ret' = "WriteFailure"

(***************************************************************************)
(* do_reset_channel, for a recursive reset of "/": every user value is     *)
(* blanked and reported, the channel leaves the table unsaved, and its     *)
(* file is unlinked.  unlink fails when there is no file: the caller gets  *)
(* WriteFailure although the reset is done.                                *)
(***************************************************************************)
ResetChannel(c) ==
    LET t == Found(c).properties
    IN  /\ MainLoop
        /\ \/ ~Known(c) /\ Refuse(c, "ChannelNotFound") /\ UNCHANGED user_file
           \/ /\ Known(c)
              /\ channels' = [channels EXCEPT
                    ![Key(c)] = [Found(c) EXCEPT !.properties = BlankUserValues(t, Prop)],
                    ![c] = NotLoaded]
              /\ changed' = {<<c, x>> : x \in Reported(UserSet(t, Prop))}
              /\ Unlink(c)
              /\ UNCHANGED save_timer
        /\ UNCHANGED <<daemon, flushing, dirty_list, fp>>

-----------------------------------------------------------------------------
(* Saving.                                                                 *)

Silent == ret' = "ok" /\ changed' = {}

\* WRITE_TIMEOUT seconds pass without a further change.
TimerExpires ==
    /\ daemon = "up" /\ save_timer = "armed"
    /\ save_timer' = "due"
    /\ Silent
    /\ UNCHANGED <<daemon, channels, user_file, flushing, dirty_list, fp>>

Dirty(c) == channels[c] # NotLoaded /\ channels[c].dirty
StartFlush == flushing' = TRUE /\ dirty_list' = {c \in Channel : Dirty(c)}

\* Faulty: the timeout forgets the timer and does not flush.
SaveTimeoutNoFlush ==
    /\ MainLoop /\ save_timer = "due"
    /\ save_timer' = "off"
    /\ Silent
    /\ UNCHANGED <<daemon, channels, user_file, flushing, dirty_list, fp>>

SaveTimeout ==
    /\ MainLoop /\ save_timer = "due"
    /\ save_timer' = "off"
    /\ StartFlush
    /\ Silent
    /\ UNCHANGED <<daemon, channels, user_file, fp>>

\* The daemon's last reference goes: finalize flushes, then frees everything.
Finalize ==
    /\ MainLoop
    /\ daemon' = "exiting"
    /\ StartFlush
    /\ Silent
    /\ UNCHANGED <<channels, user_file, save_timer, fp>>

\* The bus went away: flush, then libdbus ends the process.
HandleDisconnect ==
    /\ MainLoop
    /\ daemon' = "exiting"
    /\ StartFlush
    /\ Silent
    /\ UNCHANGED <<channels, user_file, save_timer, fp>>

\* Faulty: write_node goes down from nodes without a value only.
WrittenToFirstValue(t) ==
    [p \in Prop |-> IF t[p] = Absent \/ \E q \in Above[p] : t[q].value # Unset THEN Absent
                    ELSE IF t[p].value = Unset THEN Unset ELSE Printed[t[p].value]]

Written(t) ==
    [p \in Prop |-> IF t[p] = Absent THEN Absent
                    ELSE IF t[p].value = Unset THEN Unset ELSE Printed[t[p].value]]

\* fopen of "<channel>.xml.new", which truncates what an earlier flush left.
OpenFile(c) ==
    /\ flushing /\ fp = NoFile /\ c \in dirty_list
    /\ fp' = [channel |-> c, stage |-> "opened"]
    /\ Silent
    /\ UNCHANGED <<daemon, channels, user_file, save_timer, flushing, dirty_list>>

WriteNodes ==
    /\ flushing /\ fp # NoFile /\ fp.stage = "opened"
    /\ fp' = [fp EXCEPT !.stage = "written"]
    /\ Silent
    /\ UNCHANGED <<daemon, channels, user_file, save_timer, flushing, dirty_list>>

Fdatasync ==
    /\ flushing /\ fp # NoFile /\ fp.stage = "written"
    /\ fp' = [fp EXCEPT !.stage = "synced"]
    /\ Silent
    /\ UNCHANGED <<daemon, channels, user_file, save_timer, flushing, dirty_list>>

\* The end of flush_channel: dirty is cleared whether or not it succeeded.
FlushedChannel(c) ==
    /\ channels' = [channels EXCEPT ![c].dirty = FALSE]
    /\ dirty_list' = dirty_list \ {c}
    /\ fp' = NoFile
    /\ Silent
    /\ UNCHANGED <<daemon, save_timer, flushing>>

\* Faulty: no fdatasync before the rename.
RenameUnsynced ==
    /\ flushing /\ fp # NoFile /\ fp.stage \in {"written", "synced"}
    /\ user_file' = [user_file EXCEPT ![fp.channel] =
                        [image  |-> Written(channels[fp.channel].properties),
                         synced |-> fp.stage = "synced"]]
    /\ FlushedChannel(fp.channel)

\* rename over the user's file, which is replaced in one step.
Rename ==
    /\ flushing /\ fp # NoFile /\ fp.stage = "synced"
    /\ user_file' = [user_file EXCEPT ![fp.channel] =
                        [image  |-> Written(channels[fp.channel].properties),
                         synced |-> fp.stage = "synced"]]
    /\ FlushedChannel(fp.channel)

\* Faulty: a failed fdatasync is ignored and the file renamed.
WriteFailsRenamed(c) ==
    /\ IoErrors
    /\ flushing /\ c \in dirty_list
    /\ fp # NoFile => fp.channel = c
    /\ FlushedChannel(c)
    /\ IF fp = NoFile THEN UNCHANGED user_file
       ELSE user_file' = [user_file EXCEPT ![c] =
                             [image |-> Written(channels[c].properties), synced |-> FALSE]]

\* Faulty: the error path unlinks the user's file in place of the new one.
WriteFailsUnlinked(c) ==
    /\ IoErrors
    /\ flushing /\ c \in dirty_list
    /\ fp # NoFile => fp.channel = c
    /\ FlushedChannel(c)
    /\ user_file' = [user_file EXCEPT ![c] = NoFile]

\* Any of the calls fails, the first fopen included; nothing is reported.
WriteFails(c) ==
    /\ IoErrors
    /\ flushing /\ c \in dirty_list
    /\ fp # NoFile => fp.channel = c
    /\ FlushedChannel(c)
    /\ UNCHANGED user_file

\* All dirty channels are done; flush returns TRUE in any case.
FlushDone ==
    /\ flushing /\ dirty_list = {} /\ fp = NoFile
    /\ flushing' = FALSE
    /\ IF daemon = "exiting"
       THEN /\ daemon' = "down"
            /\ channels' = [c \in Channel |-> NotLoaded]
            /\ save_timer' = "off"
       ELSE UNCHANGED <<daemon, channels, save_timer>>
    /\ Silent
    /\ UNCHANGED <<user_file, dirty_list, fp>>

-----------------------------------------------------------------------------
(* Crash and restart.                                                      *)

(***************************************************************************)
(* The process is killed or the power fails.  What was only in memory is   *)
(* gone; a file whose data never reached the disk may be cut short.  The   *)
(* rename itself is taken as durable once it has returned.                 *)
(***************************************************************************)
Crash ==
    /\ daemon # "down"
    /\ daemon' = "down"
    /\ channels' = [c \in Channel |-> NotLoaded]
    /\ save_timer' = "off" /\ flushing' = FALSE /\ dirty_list' = {} /\ fp' = NoFile
    /\ \E lost \in SUBSET {c \in Channel : user_file[c] # NoFile /\ ~user_file[c].synced} :
          user_file' = [c \in Channel |-> IF c \in lost THEN [user_file[c] EXCEPT !.image = Torn]
                                          ELSE user_file[c]]
    /\ Silent

Start ==
    /\ daemon = "down"
    /\ daemon' = "up"
    /\ Silent
    /\ UNCHANGED <<channels, user_file, save_timer, flushing, dirty_list, fp>>

-----------------------------------------------------------------------------
Init ==
    /\ daemon = "up"
    /\ channels = [c \in Channel |-> NotLoaded]
    /\ user_file \in [Channel -> {NoFile} \cup [image : InitialFile, synced : {TRUE}]]
    /\ save_timer = "off" /\ flushing = FALSE /\ dirty_list = {} /\ fp = NoFile
    /\ ret = "ok" /\ changed = {}

Change(c) ==
    \/ \E p \in Prop : ResetProperty(c, p) \/ ResetRecursive(c, p)
    \/ \E p \in Prop, v \in Val : Set(c, p, v)
    \/ ResetChannel(c)

Read(c) == \E p \in Prop : Get(c, p) \/ GetAll(c, p) \/ Exists(c, p) \/ IsPropertyLocked(c, p)

Flush ==
    \/ \E c \in Channel : OpenFile(c) \/ WriteFails(c)
    \/ WriteNodes \/ Fdatasync \/ Rename \/ FlushDone

Next ==
    \/ \E c \in Channel : Change(c) \/ Read(c)
    \/ TimerExpires \/ SaveTimeout \/ Flush
    \/ Finalize \/ HandleDisconnect \/ Crash \/ Start

Spec == Init /\ [][Next]_vars

\* The main loop dispatches an expired timer, and a flush runs to its end.
Fairness == WF_vars(TimerExpires) /\ WF_vars(SaveTimeout) /\ WF_vars(Flush)

FairSpec == Spec /\ Fairness

-----------------------------------------------------------------------------
(* Properties.                                                             *)

\* What a client reads now, and what it would read after a restart.
Current(c, p) == Visible(Found(c).properties, p)
AfterRestart(c, p) == Visible(LoadTree(c), p)

Rounded(v) == IF v = Unset THEN Unset ELSE Printed[v]

\* What was loaded from a file may not have been printed since.
Saved(c) == \A p \in Prop : AfterRestart(c, p) \in {Current(c, p), Rounded(Current(c, p))}

LockedBySystem(c) == {p \in Prop : SystemTree[c][p] # Absent /\ SystemTree[c][p].locked}

TypeOK ==
    /\ daemon \in {"up", "exiting", "down"}
    /\ channels \in [Channel -> ChannelState \cup {NotLoaded}]
    /\ user_file \in [Channel -> UserFile \cup {NoFile}]
    /\ save_timer \in {"off", "armed", "due"}
    /\ flushing \in BOOLEAN
    /\ dirty_list \subseteq Channel
    /\ fp \in [channel : Channel, stage : {"opened", "written", "synced"}] \cup {NoFile}
    /\ ret \in Reply
    /\ changed \subseteq Channel \X Name

\* A property that a system file locks shows the system's value at all times:
\* whatever clients set or reset around it, whatever an older user file says,
\* and across saves and restarts.
LocksHold ==
    \A c \in Channel : \A p \in LockedBySystem(c) :
        Current(c, p) = SystemTree[c][p].system_value

\* A user's file is never cut short, not even if the power fails during a
\* flush: the data is synced before the rename makes it the user's file.
FilesAreWhole == \A c \in Channel : user_file[c] # NoFile => user_file[c].image # Torn

\* An acknowledged change is either on disk or on its way there: its channel
\* is dirty, and a save is scheduled or the running flush will still write it.
SavedOrScheduled ==
    \A c \in Channel \ LockedChannels : channels[c] # NotLoaded =>
        \/ Saved(c)
        \/ Dirty(c) /\ IF flushing THEN c \in dirty_list ELSE save_timer # "off"

\* Every change of what a client would read is reported by a call of
\* prop_changed_func in the same step, also when loading, a climb in the tree,
\* a removed file or the end of a flush is what changes it.
ChangesAreReported ==
    [][daemon = "up" /\ daemon' = "up" =>
        \A c \in Channel, p \in Prop :
            Current(c, p)' # Current(c, p) => <<c, p>> \in changed']_vars

\* The backend is a configuration store: whole channels are saved, nothing but
\* a request changes a setting, and a restart finds the last save of each.
Store == INSTANCE ConfigStore WITH
    Default <- [c \in Channel |-> [p \in Prop |-> Visible(SystemTree[c], p)]],
    Fixed   <- {cp \in Channel \X Prop : cp[2] \in LockedBySystem(cp[1])},
    current <- [c \in Channel |-> [p \in Prop |-> Current(c, p)]],
    saved   <- [c \in Channel |-> [p \in Prop |-> AfterRestart(c, p)]]

ImplementsConfigStore == Store!StoreSpec

\* flush returns TRUE only if all that was in memory is on disk ("return TRUE
\* if the operation was successful, or FALSE otherwise").
FlushTellsFailure ==
    [][FlushDone /\ ret' = "ok" => \A c \in Channel \ LockedChannels : Saved(c)]_vars

\* Once clients stop making changes, everything they changed reaches the disk.
\* (While they keep making changes, each one puts the save off again.)
QuietIsSaved ==
    <>[][~\E c \in Channel : Change(c)]_vars =>
        <>[](\A c \in Channel \ LockedChannels : Saved(c))

=============================================================================
