# Blconf in TLA+

Blconf is a configuration store for a desktop session. A daemon, `blconfd`,
owns the settings; applications read, change and watch them over D-Bus through
the client library `libblconf`. This directory holds a TLA+ model of it, TLC
configurations that check small instances, and proofs checked by TLAPS.

`PROJECT.json` maps each definition to the source lines it models and lists
runs, hazards, findings and theorems.

## 1. The system

| Part | Source | State | Operations |
|---|---|---|---|
| property tree | `blconfd/blconf-backend-perchannel-xml.c` 398-441, 530-572, 783-961 | a GNode tree per channel; a node has a name, a user value, a system value, `locked` | lookup, add (with missing parents), reset with its climb, the two traversals of a recursive reset, listing, building a node's name |
| per-channel XML backend | same file | table of loaded channels (tree, `locked`, `dirty`), `save_id`, the user's files | set, get, get_all, exists, is_property_locked, reset, list_channels, delayed save, flush |
| XML parser and printer | same file 1029-1560, 1690-1885 | `XmlParserState` | start and end of an element, merge policy, printing of a tag |
| backend interface | `blconfd/blconf-backend.c` | none | name validation, dispatch |
| daemon object | `blconfd/blconf-daemon.c` | list of backends, queued notifications | D-Bus methods, idle notifications, disconnect filter, finalize |
| main program | `blconfd/main.c` | signal pipe, main loop | start, quit on a signal |
| locking utilities | `blconfd/blconf-locking-utils.c` | cache of the user's groups | user in a list of users and groups |
| client cache | `blconf/blconf-cache.c` | cached values, calls in flight with old values | lookup, prefetch, set, reset, reply handlers, signal handlers |
| channels | `blconf/blconf-channel.c` | singleton table, property base | typed accessors, arrays, structs, change signal |
| bindings | `blconf/blconf-binding.c` | table of bindings | object and channel notifications, unbind |
| library | `blconf/blconf.c` | init count, named structs | init, shutdown |
| values | `common/blconf-gvaluefuncs.c`, `common/blconf-types.c` | none | parse, print, compare |

### How they interact

An application's set goes through its channel to its cache, which shows the new
value at once and sends an asynchronous `SetProperty`. The daemon calls
`blconf_backend_set` on its first backend. The backend changes its tree, calls
`prop_changed_func` (which queues an idle notification in the daemon), marks the
channel dirty and restarts a five-second timer. When the notification is
delivered the daemon reads the value back and emits `PropertyChanged` or
`PropertyRemoved` to every client; caches and bindings follow. When the timer
expires all dirty channels are written, each to `<channel>.xml.new`, synced, and
renamed over `<channel>.xml`. At start nothing is read; a channel is loaded, the
system files first and the user's file over them, by the first request that
names it.

### What is hard

* **Delay between acknowledging and saving.** The reply goes out at once, the
  file is written seconds later, later still if more changes come. Power may
  fail between any two system calls of the flush.
* **Trees that shrink.** A reset destroys a node, and climbs to destroy parents
  it has emptied; nodes also carry system defaults and locks that have to stay.
* **Merging.** System files, their locks and an older user file meet at load
  time, and again at each reload.
* **Failing system calls** in the middle of a flush over several channels or of
  a reset.
* **Notifications** that are queued and read the value when they are delivered.
* **Client caches** with optimistic sets, cancelled calls, reverts, and signals
  that arrive while a call is in flight.

* **Handlers that call handlers.** A binding's two notifications call each
  other, those of other bindings, and the program's own handlers, which may
  unbind what is just being called.
* **Two loads that must agree.** What the writer prints is what the parser must
  read, but not every value has a form in the file, and administrators add
  locks to files a user has saved before.

The hazards in `PROJECT.json` name each of these at its line, with the
properties that cover it or a note why none does.

## 2. Modules

    PropTree <---- ChannelTree <-.. refines .. PropTreeLoops <---- MCPropTreeLoops
       ^
       |---- PerchannelXml .. refines ..> ConfigStore
       |          ^    ^---- MCPerchannelXml
       |          |                  ^---- MCBlconfDaemon
       |          |---- BlconfDaemon <------|
       |                     :
       |                     refines ..> SettingsStore <.. refines .. (its daemon)
       |                                                    BlconfCache <---- MCBlconfCache
       |---- XmlFile <---- MCXmlFile
       |        |---- GValueFuncs
    BlconfChannel <---- BlconfBinding <---- MCBlconfBinding

Proofs, each beside the module it is about:

    PropTreeProofs <---- PerchannelXmlProofs <---- BlconfDaemonProofs
          ^------------- PropTreeLoopsProofs
          ^------------- XmlFileProofs
    SequenceCounts <---- BlconfCacheProofs
          ^------------- BlconfBindingProofs

**PropTree** is the algebra of one channel's tree. A tree is a function from
property paths to nodes (or `Absent`); the GNode structure appears as the
condition that a node's parents are nodes (`Closed`). `AddProperty`, `Reset`,
`BlankUserValues`, `CleanUp` give in closed form what the loops of the C code
compute. It has no recursion, so that proofs can use it.

**PropTreeLoops** has the loops themselves. `gnode` is the heap: the GNodes there
are, each with its parent, its name and what its `BlconfProperty` holds; the
order of siblings is left open. A step is one round of a loop or one call or
return of a recursion. `pc` says which loop is in progress, `request` for what
property; `depth` and `parent` are the locals of `blconf_proptree_add_property`
(down its recursion in `LookupParent`, back in `AppendNode`) and of the climb of
`blconf_proptree_reset` (`Climb`); `stack` holds the calls of `g_node_traverse`
and of `blconf_proptree_node_to_hash_table`, each with the children it has still
to go to; `cur_path` is the buffer that all levels of `get_all` share. Lookups,
which change nothing, are functions of the heap (`LookupNode`, `BuildPropname`).
A request takes effect, in `tree` and `changed`, when it ends, as nothing else
runs in between. **ChannelTree** is the machine of one tree written with the
operators of PropTree; PropTreeLoops implements it, which a run checks and
`LoopsImplementTree` proves. This is what entitles the other modules to use
PropTree.

**PerchannelXml** is the backend. `channels` is the hash table,
`user_file` the files in the user's directory, `save_timer` stands for
`save_id`, `flushing`, `dirty_list` and `fp` for a flush that is on its way,
`daemon` for the life of the process. `ret` and `changed` are the reply and the
`prop_changed_func` calls of the last step.

* Requests are one step each, because blconfd has one thread and one main loop,
  and no request calls back into it. Each action is the whole function, with the
  loading of the channel, the tree operation, the notification and
  `schedule_save`.
* A flush is a step per system call (`OpenFile`, `WriteNodes`, `Fdatasync`,
  `Rename`), since these are the points between which the process or the power
  can go. `WriteFails` is the common `goto out` path.
* `SaveTimeout`, `Finalize` and `HandleDisconnect` are the three callers of
  flush.
* `Crash` loses memory, and may cut short any file whose data was never synced.
* The content of a file is abstracted to an image: for each path absent, a
  branch, or a value; `Printed` is the value a saved value is read back as
  (`%f` rounds doubles). `Array` are values that never compare equal, as in
  `_blconf_gvalue_is_equal`.
* `Lower` is `g_ascii_strdown`; `Propname` is the name `build_propname` makes
  of a node, which differs from its path below a one-character component.
* `UserPath` says whether `xfce_resource_save_location` names a place for a
  file that does not exist yet; both answers are checked.

**ConfigStore** is what clients may rely on, without trees, timers or files:
current and saved settings per channel; a save takes a whole channel; only a
stop or crash brings saved settings back; fixed settings never change.

**BlconfDaemon** puts the daemon in front of its backend. `queue` are the idle
callbacks that `prop_changed_func` adds, in order; `told` is what clients were
last told of each property. `EmitIdled` reads the value when the callback runs,
not when it was added, and this read may load the channel. `Quit` is the signal
that ends the main loop: the signal pipe has a higher priority than idle
callbacks, and each waiting callback holds a reference on the daemon, so
`finalize` runs only if none waits. The backend factory knows one backend, so
the daemon here has one.

**SettingsStore** is the daemon as a client sees it: requests change settings
and queue signals, a signal is sent later, in order, and tells the value of the
moment. `BlconfDaemon`, with its trees, files and timers, implements it, and so
does the small daemon inside `BlconfCache`; this is what joins the two halves,
since the whole daemon and a client's cache together are more than TLC can
explore. (`ConfigStore` promises what is kept, `SettingsStore` what is told.)

**BlconfCache** is a client's cache of one channel, on a bus with the daemon and
with other clients, which only make calls. `properties` and `old_properties` are
the C tables. A set shows at once and sends a call whose reply `Dispatch` handles
later; `Lookup`, `SetUncached`, `Reset` and `Open` (the prefetch) block, and
`Resume` is the rest of the function once the `answer` is there. dbus-glib puts
what arrives meanwhile in a queue, so an answer overtakes the signals before it:
hence `inbox` beside `answer`. A cancelled call is still answered: `dead` counts
such replies. `Close`, `EndCall`, `Closed` are `blconf_cache_finalize`, which
waits for each call. `DaemonDies` and `TimesOut` are the faults; the bus answers
the dead daemon's calls with errors and starts another daemon for the next call.
`listeners` is what the cache last emitted.

**XmlFile** spells out what PerchannelXml takes as one step each: `LoadChannel`
to `Loaded` parse the system files and the user's file an element at a time
(`state` is `XmlParserState`; its `is_array` says of each property element that is
open whether its type is array, which decides whether its end closes a list), `FlushChannel` to `FlushDone` write the tree a node
at a time. A file is the sequence of start and end calls the GMarkup parser makes.
`system_files` are the administrators' files in load order; `etc_group` and
`group_cache` are the group database and what `blconf-locking-utils.c` keeps of
it. `HandleProperty`'s guard `fullpath \in Prop` is a bound: `Prop` has the paths
of all files. What a file *says*, for the properties, is defined without the parser:
`Said` reads a value off the file by its nesting, `Lockers`, `Counting`,
`SystemValue` and `LockedBySystem` are the merge rule over all files at once.
**GValueFuncs** has the types: which texts are taken for a value of a type, which
values compare equal, and what is printed.

**BlconfChannel** has the channel objects and the library's count: singletons,
property base, construction with its prefetch, the end by `Unref` or by
`blconf_shutdown`. **BlconfBinding** puts bindings on top. GObject's emissions run
handlers inside the call that caused them, so there is a `stack` of calls:
`ObjectNotify` and `ChannelNotify` are handlers that are entered, the `...Returns`
actions what they do afterwards (unblocking), `Emitted` the end of an emission
whose handlers have all run, in any order. `Unbind` may also come from a handler
of the program's in the middle of an emission. A closure's data is destroyed when
its last running call returns, which is why `ObjectNotifyReturns` may end the
binding. Here the cache is a map, and what matters is when it emits: `Equal` never
holds for arrays, `CacheSet` says when a set stores and emits (`Store`) and when it
does nothing or only looks the item up. `StoreSilently` is for the changes the code
tells nobody of: a lookup, a refused set that goes back to its old item (`SetFails`),
a reset (`Evict`). `silent` has the items whose last change was such a one;
`BoundAgree` does not compare them, as the object keeps what it had.

**MCPropTreeLoops**, **MCPerchannelXml**, **MCBlconfDaemon**, **MCBlconfCache**,
**MCXmlFile** and **MCBlconfBinding** hold the constants of the instances.

The definitions commented as *Faulty* are variants with one plausible slip.
Nothing uses them; each property is listed in `PROJECT.json` with one that
breaks it, which shows that the property can fail on the instance at hand.

## 3. Runs

| Run | Question | Instance |
|---|---|---|
| `tree_loops` | Do the GNode loops compute the closed forms? Is every node found under its name? Does `get_all` list what `get` returns? | paths a, a/b, a/b/c, a/d; b has one character; one value; every system configuration over these paths; five GNodes, one per path and the root, and interchangeable but for the root (so symmetric) |
| `backend` | Are locks, files, pending saves and notifications right under requests, saves, power failures, exits, restarts? Is it a ConfigStore? | one channel; paths a, a/b, a/b/e, d; two values, one of which is rounded when saved; a default on a/b, a lock on d, an old user file that still sets d |
| `backend_io_errors` | The same with failing system calls and two channels, one not known at first. | paths a, d; one value |
| `daemon` | Is every client behind by no more than the queue, told everything in the end, and everything saved? Is it a SettingsStore? | one channel, paths a, a/b, a/b/e, d with a default and a lock, one value, three callbacks in the queue |
| `clients` | Does the cache keep its calls apart, never lose what the application has just set, and come to agree with the daemon? Does anything block for ever? Does its daemon promise what `daemon` shows? | property a and a/b, two values, a default and locks in two configurations; three messages under way, one cancelled call per property, one fault |
| `xml` | Is what is written what the tree holds, and what is read what was written? Are locks and defaults those of all system files together, for the groups of the moment? | paths a, a/b, d; six sets of system files (locks for a user and for a group, on a property, on one below another, and on the channel, a file of an old version), a user's file with an array in an array, four edited by hand and none, values of the types that are hard to print, two edits of /etc/group |
| `library` | Do object and property agree when all handlers have returned? Are bindings whole or gone? Do handlers end, without an echo? | a singleton and a second channel object with a property base, one property, three numbers and two arrays, a switch, which keeps only zero or not zero, and a colour, which takes arrays, bound once each (`b1`), an entry that keeps all numbers, three bindings (two of them interchangeable, so symmetric), two initialisations |

In each the interesting cases occur: `g_node_new` never runs short of GNodes in
`tree_loops`, as there is one for each path; three levels are needed for a climb over
two parents, a sibling for one that stops; two channels for a flush that fails
half way; a crash is possible at each of the four stages of a flush. Values are
only compared, so two suffice (with one, a set to a different value after a save
is lost; the second is also what rounding needs). The backend's state spaces
are finite as they are; in the daemon's, `MaxQueue` bounds the callbacks that
wait: three are one for each property that can change, or a recursive reset
behind a change of its own. In `clients`, `MaxMessages` = 3 lets a set, another
client's set and their replies and signals be under way at once; `MaxDead` = 1
allows a cancelled call beside the one that counts, whose replies must not be
mixed up; a behaviour has one fault at most, as `BehindBySignals` and
`QuietIsCurrent` speak of behaviours without. In `library` three bindings on three
objects are enough for a chain (object, property, the other object) that returns
to where it started.

What the properties say is in the comments above them. `SavedOrScheduled`
relates four variables: an acknowledged change is on disk, or its channel is
dirty and either the timer is set or the running flush has it on its list.
`ChangesAreReported` holds across loads, climbs, removed files and the end of a
flush, for paths without one-letter components. `EachReplyHasItsSet` is an
invariant of four queues and tables at once: replies carry no value, so the only
thing that keeps an old reply from being taken for a new one is that there is one
of each. `BehindBySignals` and `QuietIsCurrent` hold although signals are ignored
while a set is in flight, because the daemon signals the value of the moment and
after the reply. `ReadBackButLockedArrays` compares the tree after a load with what the file says
by its nesting alone, up to the first element the parser refuses; `xml_locked_array`
shows what becomes of `ReadBack`, which makes no exception for locked arrays.

### Disagreements between code and documents

Each is a run that TLC ends with a violation:

| Run | The documents | The code |
|---|---|---|
| `backend_flush_error` | flush returns TRUE if it succeeded (`blconf-backend.c`) | the result of each channel is ignored and `dirty` is cleared |
| `backend_short_names` | the function is called when a property changes (`blconf-backend.c`) | below a one-character component a recursive reset reports another name |
| `daemon_quit` | the user's settings are saved (`docs/spec/perchannel-xml.txt`), and both finalize functions flush | a callback that waits when the main loop quits holds the daemon, finalize does not run |
| `clients_revert` | a failed set goes back to the old value and sends a change signal (comment in `blconf-cache.c`) | the emission names a detail that the signal was not registered for, and nobody is called |
| `xml_locked_array` | a property of the user's file that is locked is ignored (comment in the parser) | the items of an ignored array are errors, and the rest of the file is lost |

More that no run checks, met while modelling: `docs/spec/general.txt` calls
names case-insensitive, while lookups use a channel's name as given and loads keep
it in lower case (`Lower`); `docs/spec/perchannel-xml.txt` has a channel lock cover
all properties, while `set` looks at the property's own lock and so adds one that
no system file mentions; a lock without value goes with its node when the climb of
a reset destroys it, which is why `LocksAlwaysHold` assumes that locks come with
values; resetting a channel that has no file yet reports failure, as `unlink` fails;
and `blconf_g_property_bind` says that a change of the property updates the object,
while a removal sets each object to its own default, and one that is bound twice
sets the property again (`blconf-binding.c:305`), so that objects the removal
reaches after that show another default than the property then has
(TLC finds it if the two objects of `library` are given different defaults). The
same comment promises too much of a set that the daemon refuses: the property goes
back silently, and the object goes on showing the refused value; neither a reset
nor a lookup through the channel tells the object either. `blconf_g_property_bind`
refuses no binding, but two bindings of an object that loses values, or of colours,
to one property set each other for ever, since a new value is never equal to the
old one (`InexactBoundOnce`). And where a locked array stands in an array that is
not locked (a lock put on a property below one the user has saved as an array), its
items are not errors but are appended to the outer array
(`blconf-backend-perchannel-xml.c:1235`).

### Fairness

`QuietIsSaved` assumes that the save timer expires when it is no longer
restarted (GLib dispatches an expired timeout of a running loop), that
`save_timeout` is then run, and that a flush, once started, goes on; each is
one thread doing the next thing it has to do. Weak fairness is enough, since
none of these steps is disabled by anything but a crash, after which there is
nothing left to save. Nothing is assumed of clients, crashes or restarts.
`QuietIsTold` assumes that an idle callback runs once no requests come in (a
main loop that has nothing else to dispatch dispatches it), and that timers and
flushes, which have a higher priority or the loop to themselves, do not go on
for ever.

In `clients`, `QuietIsCurrent` and `NothingBlocksForEver` assume that a daemon that
runs serves calls and sends its signals, that the bus starts one when there is
none (the service is D-Bus activated), and that the client's main loop, or the
function that blocks, goes on when there is something for it. These are weak, as
each stays enabled until taken or until a fault ends it, and one fault is all that
happens. Nothing is assumed of applications, which may call for ever: the quiet
properties say what holds when they stop, `NothingBlocksForEver` holds even if
they do not. The other runs state no fairness and check safety only.

## 4. Proofs

Each theorem speaks of the same specification and the same property as a run,
for every value of the constants that the module's `ASSUME`s allow. These say
what the code takes for granted: the paths above a path form a chain and are
paths themselves, markers such as `Unset` or `NotLoaded` are not values, system
files give no user values (PropTree, PerchannelXml); for the loops, what
`LoopAssumption` spells out: a path is a sequence of name components, none of
them the "/" of the root, those above it are its prefixes, and its name is what
comes after its last component of one character; a cache has finitely many properties and calls that
are not there are not calls (`CacheAssumption`); names are spelled with pieces
and none ends in "/", which `blconf_property_is_valid` refuses, nor is a bound
name empty, which `blconf_g_property_bind` refuses (`ChannelAssumption`,
`BindingAssumption`); a conversion yields a value of the
other type or fails.

Some theorems have a hypothesis, and for each of them a run or a deviation above
shows that the theorem is false without it:

* `NamesAreLower`: clients spell channel names in lower case (`Lower`).
* `LocksCarryValues`: a system file that locks a property gives it a value; a
  lock without value goes when a reset's climb destroys its node.
* `CallsSucceed`: system calls on the user's files succeed; `backend_flush_error`
  is what happens otherwise.
* `NamesAreWhole`: no component of a path has one character; see
  `backend_short_names`.
* `OneDefault`: to the channel the defaults of all objects are one value;
  see the last of the disagreements above.
* `InexactBoundOnce`: an object whose conversion loses values, or that takes arrays,
  has one binding at a time. Otherwise its handlers do not end, as said above.
* `RoundTrip`: an object's value survives the conversion to the channel's type and
  back, or cannot be converted back. If it does not (a double bound to an integer
  property), `object_notify` leaves the object as it is, and it goes on to show
  1.5 where the channel says 1.
* `NamesAreFinite`: there are finitely many names, so that a step has finitely
  many changes to queue. The code's names fit into `MAX_PROP_PATH` bytes.

### The tree

Everything below reads the tree through the closed forms of PropTree; these
theorems say that the loops over GNodes compute them, for any set of paths, any
depth and any number of nodes.

* `LoopInvariant`: the inductive invariant `LoopInv`, which the other three are
  read off. `Tidy` says that the nodes are a tree of paths: each is reached from the
  root, and no two have the same path (it gives each node the path that
  `FullName` computes, `Shape`). The rest says how much of the closed form of
  its operation each loop has done, in terms of the tree before the request:
  on its way down an add has found that nothing is there (`WhileAdding`), which
  is what add_property's "here we assume the entry does not already exist" needs
  at every level of the recursion; on its way back the first `depth - 1` parents
  are there (`Branched`); a climb has cut the path from some component on, and
  everything cut would collapse (`Cut`, `WhileClimbing`); a traversal has blanked
  or removed, and reported, exactly the nodes it has left for good (`Done`), which
  are those not below a child that a call on the stack has yet to go to
  (`Ahead`, `Pending`) nor on the stack themselves; a cleanup has removed what holds
  nothing worth keeping in its whole subtree (`Gone`); a listing has entered
  exactly what is not ahead, and the shared buffer is the path of the innermost
  call, cut by one component if its node has no children (`WhileListing`).
* `NodesAreFound`: `EveryNodeIsFound`, also in the middle of a request.
* `ListingIsComplete`: `GetAllListsSubtree`.
* `LoopsImplementTree`: PropTreeLoops implements ChannelTree (`ImplementsChannelTree`).
  Every step but a request's last is a stutter, and the last one makes the whole
  change and reports all names at once.

Paths are of any length, so some facts about a lookup, a node's name or the nodes
above a node are inductions on a length. The library's induction theorems cannot
be used (they take an operator), so these proofs go by the least counterexample:
`LeastNumber` says that a set of naturals that is not empty has a least element.

### The backend

* `TypeCorrect`: `TypeOK`. The part that matters is that each channel's tree is a
  tree: `PropTreeProofs` shows for each tree operation that no node is left
  without its parents. It is not inductive alone, since a flush reads the tree of
  the channel it writes; `Inv` adds that the flush's channels are loaded, which is
  so because a flush is one loop that nothing else runs in.
* `FilesStayWhole`: `FilesAreWhole` alone is not inductive, as a whole but
  unsynced file is torn by the next crash; `AllSynced` is.
* `LocksAlwaysHold`: `LocksHold`, from `LockedNodesAreSystems`: a loaded channel
  has the system's own nodes at locked paths. `LocksHold` sees neither a user's
  value that equals the system's nor whether the node is still locked.
* `AcknowledgedIsSavedOrScheduled`: `SavedOrScheduled`. The inductive invariant
  `Scheduled` says that a channel that is not dirty is on disk and that a dirty
  one is scheduled *whether or not* it differs from the disk, as the next change
  may find it dirty and rely on that. `DefaultsHold` (no operation loses or
  invents a system default) says what a removed file leaves.
* `EveryChangeIsReported`: the action property `ChangesAreReported`.
* `BackendIsConfigStore`: PerchannelXml implements ConfigStore, also when system
  calls fail. Each step is mapped: a request to a change of one setting or of
  some to their defaults, the rename of a channel's file to the save of that
  channel, the end of the daemon to the loss of what was not saved. A save may
  keep a value exactly or as it is printed, since a double is rounded in the
  file and not in memory.

The last three rest on one summary of the requests (`ChangeOutcome`): a request
only loads its channel, or commits a tree that differs, for readers, in one value
or in some defaults, or unloads the channel. Each request is shown to be one of
these once.

### The daemon

* `NobodyIsLeftBehind`: `ToldOrQueued`, for any length of the queue (the bound
  `MaxQueue` is one value of a constant). `QueueOK` is needed with it: a daemon
  that is gone has left no callback, and every callback names a channel, so that
  its read is a request like any other.
* `DaemonIsSettingsStore`: BlconfDaemon implements SettingsStore.
* `DaemonUsesBackend`: `DaemonSpec => Spec`. Each step of the daemon is a step
  of its backend or leaves it alone, so the theorems about the backend hold of a
  backend in a daemon: callbacks are reads, quitting is `Finalize` or, with
  callbacks left, the end without it.

### The client

* `CacheTypes`, `RepliesAreNotMixedUp`: `TypeOK` and `EachReplyHasItsSet`. The
  invariant `CallsOK` joins them with the shapes of the messages and with
  `PhaseOK`: a blocking call is the last one on the wire and somebody waits for
  its answer, which is why no set can come between. Replies are *counted*
  (SequenceCounts: how the number of elements of a kind changes when a sequence
  is appended to, loses its head, or is joined with another), because a reply
  says neither which call it answers nor what was set.
* `OwnSetIsReadBack`: the action property `OwnSetHolds`, from `CallsOK`.
* `StaleIsCorrected`: `BehindBySignals`. `Current` strengthens it: an item is
  *fresh* if it is the daemon's value, unknown, or followed by a signal, in the
  inbox or still queued in the daemon; every cached item, answer under way, last
  set under way and old item of a refused set is fresh in its way. That a signal
  may be ignored while a set is in flight needs that the daemon replies before
  it signals; that a refused set may go back to an old item needs that
  nothing is ever signalled of a locked property (`LockedAlone`, `Arrived`).
* `ItsDaemonIsSettingsStore`: the small daemon of BlconfCache implements
  SettingsStore, the specification `DaemonIsSettingsStore` shows of the whole
  one.

### Bindings

* `BindingsComeAndGoWhole`: `BindingsAreWhole`, which speaks of the main loop
  only. `BindInv` says what holds in the middle of calls: a handler is blocked
  exactly as often as the call that blocks it is on the stack (`BlocksMatch`,
  counted with SequenceCounts), a binding that was unbound in its own
  `object_notify` is kept until that returns, one that is being made has no
  channel handler yet.
The other four suppose `InexactBoundOnce`.

* `BindingsDoNotEcho`: `NoEcho`. `EchoInv` adds that every emission inside the
  relay of a value passes on that same value, in the object's form or the
  channel's; that a notification was caused by a binding of that object, whose
  handler is blocked; and that an object whose conversion loses values, or that
  takes arrays, has one binding (which is what `InexactBoundOnce` is turned into).
* `HandlersEnd`: `NestingEnds`, two calls of a binding's handler at most, for any
  number of bindings. `LevelInv` says why handlers end: all emissions in progress
  but the outermost tell the same value, the properties they tell of *have* that
  value, and no two of them tell of the same property, because the cache emits
  nothing when it holds the value already (which takes values that are equal to
  themselves; an array only goes to objects with one binding, as `Converts` says
  that what is passed on has a form in every object set meanwhile); each handler is called by, or has
  called, an emission of its binding's property, the first and the last call
  excepted. It needs `EchoInv` for objects that are set twice on the way.
* `BindingsAgree`: `BoundAgree`, if `RoundTrip` and `OneDefault` hold too. It speaks
  of the bindings whose item the cache changed last with an emission (`Compared`). `AgreeInv` says of the middle of calls what `BoundAgree` says of the main loop. There is one
  value (or the removal) that all calls in progress pass on (`AllPass`): an emission
  tells of it, or of a removal that sets objects to what is this value in the
  channel, and the properties it tells of have it or none; an object that is
  notified of would set it; a binding whose handler runs has it on both sides.
  And each binding agrees, or an emission in progress has still to call one of
  its handlers (`Pending`), which will make it agree, because what it passes on
  is what both sides then get. A handler that is skipped, as it is blocked,
  belongs to a binding whose other handler is running, so that it agrees
  already. This needs `BindInv` for who is blocked, `EchoInv` for what caused a
  notification and for objects that lose values, and `LevelInv` for the fact that
  a called handler's binding is of the property its emission tells of.
* `BindingTypes`: `TypeOK`, where the bound on the blocks is `HandlersEnd` again.

### The files

Assumed is `NothingIsNoNode`, that `Absent` (no node) is told apart from every
node and `Unset` (no value) from every value; nothing is assumed of files,
values, users and groups.

* `ItemsGoHome`: `ValuesGoHome`. The code has one `list_property` and a "FIXME:
  use stacks here". One is enough: the end of any property closes the array, so
  everything opened since is still open, and a property in it with no array of
  its own leaves it the innermost. So does one whose array is passed over for its
  lock: `list_property` is the innermost open array *element* that was not passed
  over, and the items of a locked array nested in it are appended to it. `XmlInv`
  says this at every tag, by `is_array` and the locks, and that the path is empty
  exactly outside properties; it needs that the array's property is not locked
  against the user, as items are added without another look. A
  consequence for files edited by hand: a `<value>` in a property that is no
  array goes to an array around it, and one behind such a property is refused.
* `LocksBindTheUser`: the action property `UserFileKeepsLocks`, from the same
  invariant, which also shows the `g_assert_not_reached` of
  `blconf_xml_handle_property` true: no user file is parsed in a locked channel.
* `XmlFileTypes`: `TypeOK`.

### Only model-checked

* The liveness properties `QuietIsSaved`, `QuietIsTold`, `QuietIsCurrent` and
  `NothingBlocksForEver`: fairness and ENABLED are beyond TLAPS.
* `ReadBackButLockedArrays`, `SystemFilesRule` and `SavesTheTree` of XmlFile. What a file says is
  a fold over it, which needs induction over data.
* The runs that end with a violation.

## 5. Not modelled

* The text of XML files, which is GMarkup's affair; paths longer than
  `MAX_PROP_PATH` (4096); 64-bit numbers (TLC's integers have 32 bits).
* The rules for channel and property names (`blconf-backend.c`): a condition on one
  string, checked before a request gets anywhere. The models use valid names.
* `list_channels`, which reads directory and table and changes no setting; the
  daemon's loop over several backends, since the factory knows one.
* In the client library: the typed accessors, arrays and structs of
  `blconf-channel.c` from line 460 on, which convert a value and call the cache, and
  the table of named structs; the cache's mutex (one thread uses it). Handlers that
  set properties of their own are left out of `library`; so is unbinding a binding while it sets its object, which
  frees what is in use. The module binds whatever a program may bind; the
  instance binds switch and colour once at a time (`InexactBoundOnce`), as the stack
  grows without end otherwise.
* `blconf-query`, the Perl bindings, generated D-Bus glue, build files: no
  state of their own, or input and output only.
* What a client's cache keeps after the daemon has lost changes it had not saved:
  no signal tells of them, and the properties of `clients` about agreement leave
  behaviours with faults out.

## 6. Plan

1. *Done:* PropTree, ChannelTree, PropTreeLoops and their run.
2. *Done:* ConfigStore, PerchannelXml, the first proofs.
3. *Done:* BlconfDaemon, SettingsStore.
4. *Done:* GValueFuncs, XmlFile with locking utilities.
5. *Done:* BlconfCache, as a client of SettingsStore.
6. *Done:* BlconfChannel, BlconfBinding.
7. *Done:* `SavedOrScheduled`, `ChangesAreReported`, PerchannelXml implements
   ConfigStore.
8. *Done:* `ToldOrQueued`, BlconfDaemon implements SettingsStore;
   `EachReplyHasItsSet`, `OwnSetHolds`, `BehindBySignals`; `BindingsAreWhole`,
   `NoEcho`, `NestingEnds`.
9. *Done:* `ValuesGoHome`, `UserFileKeepsLocks` and `TypeOK` of XmlFile.
10. *Done:* the loops of PropTreeLoops in steps, `EveryNodeIsFound`,
   `GetAllListsSubtree`, PropTreeLoops implements ChannelTree; `BoundAgree`.
11. `SavesTheTree`, `ReadBackButLockedArrays` and `SystemFilesRule` of XmlFile for every file.
12. Structs and arrays of the channel API (a struct that fails half way is set in
    part), name validity.
