------------------------- MODULE BlconfDaemonProofs --------------------------
(***************************************************************************)
(* What clients are told: the daemon's queue of idle callbacks never       *)
(* misses a change, and the daemon implements SettingsStore.               *)
(***************************************************************************)
EXTENDS BlconfDaemon, PerchannelXmlProofs, FiniteSetTheorems, SequenceTheorems

\* The inductive invariant of the queue.  A callback names a channel of the
\* daemon, so that its backend_get is a request like any other; and a daemon
\* that is gone has left no callback and no flush behind.
QueueOK ==
    /\ queue \in Seq(Channel \X Name)
    /\ told \in [Channel -> [Prop -> Val \cup {Unset}]]
    /\ daemon = "down" => queue = <<>> /\ ~flushing

\* A step of a request reports finitely many changes.
NamesAreFinite == IsFiniteSet(Name)

-----------------------------------------------------------------------------
(* The queue.                                                              *)

\* The callbacks of a step are added behind those that wait, one for each
\* change.
LEMMA EnqueueAdds ==
    ASSUME NEW T, queue \in Seq(T), changed' \in SUBSET T, IsFiniteSet(changed'), Enqueue
    PROVE  /\ queue' \in Seq(T)
           /\ Len(queue) \in Nat /\ Len(queue') \in Nat /\ Len(queue) <= Len(queue')
           /\ \A i \in 1..Len(queue) : queue'[i] = queue[i]
           /\ \A x \in changed' : \E i \in (Len(queue) + 1)..Len(queue') : queue'[i] = x
<1> DEFINE n == Cardinality(changed')
<1>1. PICK s \in [1..n -> changed'] : /\ \A i, j \in 1..n : i # j => s[i] # s[j]
                                     /\ queue' = queue \o s
  BY DEF Enqueue, SetToSeqs
<1>2. n \in Nat
  BY FS_CardinalityType
<1>3. s \in Seq(T) /\ Len(s) = n
  BY <1>1, <1>2
<1>4. IsFiniteSet(1..n) /\ Cardinality(1..n) = n
  BY <1>2, FS_Interval
<1>5. s \in Injection(1..n, changed')
  BY <1>1 DEF Injection, IsInjective
<1> HIDE DEF n
<1>6. s \in Surjection(1..n, changed')
  BY <1>4, <1>5, FS_Injection DEF n
<1>7. \A x \in changed' : \E i \in 1..n : s[i] = x
  BY <1>6 DEF Surjection
<1>8. /\ queue' \in Seq(T) /\ Len(queue') = Len(queue) + n /\ Len(queue) \in Nat
      /\ \A i \in 1..(Len(queue) + n) : queue'[i] = IF i <= Len(queue) THEN queue[i] ELSE s[i - Len(queue)]
  BY <1>1, <1>3, ConcatProperties, LenProperties
<1>9. ASSUME NEW x \in changed'
      PROVE  \E i \in (Len(queue) + 1)..Len(queue') : queue'[i] = x
  <2>1. PICK i \in 1..n : s[i] = x
    BY <1>7
  <2>2. Len(queue) + i \in (Len(queue) + 1)..Len(queue') /\ queue'[Len(queue) + i] = x
    BY <1>2, <1>8, <2>1
  <2>3. QED
    BY <2>2
<1>10. QED
  BY <1>2, <1>8, <1>9

\* A change names its channel and one name for each property it touches.
LEMMA ChangedIsFinite ==
    ASSUME NamesAreFinite, NEW c \in Channel, Loads(c) \/ Commits(c) \/ Unloads(c)
    PROVE  IsFiniteSet(changed') /\ changed' \subseteq Channel \X Name
<1>1. PICK names \in SUBSET Name : changed' = {<<c, x>> : x \in names}
  <2>1. CASE Loads(c)
    <3>1. changed' = {<<c, x>> : x \in {}}
      BY <2>1 DEF Loads
    <3>2. QED
      BY <3>1
  <2>2. CASE Commits(c)
    BY <2>2 DEF Commits
  <2>3. CASE Unloads(c)
    <3>1. Reported(UserSet(Found(c).properties, Prop)) \in SUBSET Name
      BY NameAssumption DEF Reported, UserSet
    <3>2. QED
      BY <2>3, <3>1 DEF Unloads
  <2>4. QED
    BY <2>1, <2>2, <2>3
<1>2. IsFiniteSet(names)
  BY FS_Subset DEF NamesAreFinite
<1>3. IsFiniteSet({c}) /\ changed' = {c} \X names
  BY <1>1, FS_Singleton
<1>4. IsFiniteSet({c} \X names)
  BY <1>2, <1>3, FS_Product
<1>5. QED
  BY <1>1, <1>3, <1>4

-----------------------------------------------------------------------------
(* The daemon takes only steps of its backend.                             *)

\* Quitting with callbacks left does to the backend what a crash does.
LEMMA QuitStep ==
    ASSUME Inv, Quit
    PROVE  Finalize \/ Crash
<1>1. CASE queue = <<>>
  BY <1>1 DEF Quit
<1>2. CASE queue # <<>>
  <2> DEFINE unsynced == {c \in Channel : user_file[c] # NoFile /\ ~user_file[c].synced}
             torn(lost) == [c \in Channel |-> IF c \in lost THEN [user_file[c] EXCEPT !.image = Torn]
                                              ELSE user_file[c]]
  <2>1. /\ daemon = "up" /\ ~flushing /\ daemon' = "down"
        /\ channels' = [c \in Channel |-> NotLoaded] /\ save_timer' = "off" /\ Silent
        /\ UNCHANGED <<user_file, flushing, dirty_list, fp>>
    BY <1>2 DEF Quit, MainLoop
  <2>2. flushing' = FALSE /\ dirty_list' = {} /\ fp' = NoFile
    BY <2>1 DEF Inv, TypeOK, FlushMeetsLoaded
  <2>3. torn({}) = user_file
    BY DEF Inv, TypeOK
  <2>4. \E lost \in SUBSET unsynced : user_file' = torn(lost)
    <3>1. {} \in SUBSET unsynced /\ user_file' = torn({})
      BY <2>1, <2>3
    <3> HIDE DEF unsynced, torn
    <3>2. QED
      BY <3>1
  <2>5. QED
    BY <2>1, <2>2, <2>4 DEF Crash
<1>3. QED
  BY <1>1, <1>2

\* The callback at the head of the queue is about a channel.
LEMMA HeadOfQueue ==
    ASSUME QueueOK, queue # <<>>
    PROVE  /\ Head(queue) \in Channel \X Name /\ Head(queue) = queue[1]
           /\ Head(queue)[1] \in Channel
           /\ Tail(queue) \in Seq(Channel \X Name)
           /\ Len(queue) \in Nat \ {0} /\ Len(Tail(queue)) = Len(queue) - 1
           /\ \A i \in 1..Len(Tail(queue)) : Tail(queue)[i] = queue[i + 1]
BY HeadTailProperties, EmptySeq DEF QueueOK

LEMMA EmitLoads ==
    ASSUME Inv, QueueOK, NamesAreLower, EmitIdled
    PROVE  /\ MainLoop /\ daemon' = daemon /\ flushing' = flushing
           /\ [Next]_vars
           /\ \A c \in Channel, p \in Prop :
                 Current(c, p)' = Current(c, p) /\ AfterRestart(c, p)' = AfterRestart(c, p)
           /\ told' = IF Head(queue)[2] \in Prop
                      THEN [told EXCEPT ![Head(queue)[1]][Head(queue)[2]] =
                               Current(Head(queue)[1], Head(queue)[2])]
                      ELSE told
<1>1. PICK c \in Channel, p \in Name : c = Head(queue)[1] /\ p = Head(queue)[2]
  BY HeadOfQueue DEF EmitIdled
<1>2. CASE p \in Prop
  <2>1. Get(c, p) /\ told' = [told EXCEPT ![c][p] = Current(c, p)]
    BY <1>1, <1>2 DEF EmitIdled
  <2>2. Read(c)
    BY <1>2, <2>1 DEF Read
  <2>3. RequestFrame /\ Loads(c) /\ Next
    BY <2>2, ReadLoads DEF Next
  <2>4. QED
    BY <1>1, <1>2, <2>1, <2>3, LoadsNothingNew DEF RequestFrame
<1>3. CASE p \notin Prop
  <2>1. MainLoop /\ UNCHANGED <<vars, told>>
    BY <1>1, <1>3 DEF EmitIdled
  <2>2. UNCHANGED <<channels, user_file, daemon, flushing>>
    BY <2>1 DEF vars
  <2>3. \A d \in Channel, q \in Prop :
           Current(d, q)' = Current(d, q) /\ AfterRestart(d, q)' = AfterRestart(d, q)
    BY <2>2, CurrentStays, AfterRestartStays
  <2>4. QED
    BY <1>1, <1>3, <2>1, <2>2, <2>3
<1>4. QED
  BY <1>2, <1>3

\* So every invariant of the backend is one of the daemon.
LEMMA BackendStep ==
    ASSUME NamesAreLower
    PROVE  Inv /\ QueueOK /\ [DaemonNext]_daemonVars => [Next]_vars
<1> SUFFICES ASSUME Inv, QueueOK, [DaemonNext]_daemonVars PROVE [Next]_vars
  OBVIOUS
<1>1. CASE UNCHANGED daemonVars
  BY <1>1 DEF daemonVars
<1>2. CASE \E c \in Channel : Request(c) \/ Query(c)
  BY <1>2 DEF Request, Query, Next
<1>3. CASE EmitIdled
  BY <1>3, EmitLoads
<1>4. CASE Background \/ Disconnect \/ Die \/ Restart
  BY <1>4 DEF Background, Disconnect, Die, Restart, Next
<1>5. CASE Quit
  BY <1>5, QuitStep DEF Next
<1>6. QED
  BY <1>1, <1>2, <1>3, <1>4, <1>5 DEF DaemonNext

-----------------------------------------------------------------------------
(* What each step does to settings, the queue and what was told.           *)

\* A request: every change of a setting has a callback behind the others.
RequestTells ==
    /\ daemon = "up" /\ daemon' = "up" /\ flushing' = flushing
    /\ queue' \in Seq(Channel \X Name)
    /\ Len(queue) \in Nat /\ Len(queue') \in Nat /\ Len(queue) <= Len(queue')
    /\ \A i \in 1..Len(queue) : queue'[i] = queue[i]
    /\ \A c \in Channel, p \in Prop : Current(c, p)' # Current(c, p) =>
          \E i \in (Len(queue) + 1)..Len(queue') : queue'[i] = <<c, p>>
    /\ UNCHANGED told

\* The callback at the head tells what there is.
HeadTells ==
    /\ daemon = "up" /\ daemon' = "up" /\ flushing' = flushing
    /\ queue # <<>> /\ queue' = Tail(queue)
    /\ \A c \in Channel, p \in Prop : Current(c, p)' = Current(c, p)
    /\ told' = IF Head(queue)[2] \in Prop
               THEN [told EXCEPT ![Head(queue)[1]][Head(queue)[2]] =
                        Current(Head(queue)[1], Head(queue)[2])]
               ELSE told

\* Nothing changes, and the daemon goes on.
NothingToTell ==
    /\ \A c \in Channel, p \in Prop : Current(c, p)' = Current(c, p)
    /\ (daemon = "down") = (daemon' = "down") /\ (daemon = "down" => flushing' = flushing)
    /\ daemon' = "up" => daemon = "up"
    /\ UNCHANGED <<queue, told>>

Ends ==
    /\ daemon # "down" /\ daemon' = "down" /\ ~flushing'
    /\ queue' = <<>>
    /\ UNCHANGED told

Begins ==
    /\ daemon = "down" /\ daemon' = "up"
    /\ \A c \in Channel, p \in Prop : Current(c, p)' = Current(c, p)
    /\ told' = [c \in Channel |-> [p \in Prop |-> Current(c, p)]]
    /\ UNCHANGED queue

LEMMA BackgroundOutcome ==
    ASSUME Inv, QueueOK, Background
    PROVE  NothingToTell \/ Ends
<1>1. TimerExpires \/ SaveTimeout \/ Flush
  BY DEF Background
<1>2. daemon # "down" /\ UNCHANGED told
  BY <1>1 DEF Background, QueueOK, TimerExpires, SaveTimeout, MainLoop, Flush, OpenFile,
     WriteFails, WriteNodes, Fdatasync, Rename, FlushDone
<1>3. CASE FlushDone /\ daemon = "exiting"
  BY <1>2, <1>3 DEF FlushDone, Background, Ends
<1>4. CASE ~(FlushDone /\ daemon = "exiting")
  <2>1. daemon' = daemon
    BY <1>1, <1>4 DEF TimerExpires, SaveTimeout, Flush, OpenFile, WriteFails, WriteNodes,
       Fdatasync, Rename, FlushDone, FlushedChannel
  <2>2. \/ Waits /\ UNCHANGED <<channels, user_file>>
        \/ Rename \/ \E d \in Channel : WriteFails(d)
        \/ FlushDone /\ daemon # "exiting"
    BY <1>1, <1>4 DEF Waits, Flush, TimerExpires, SaveTimeout, OpenFile, WriteNodes, Fdatasync
  <2>3. \A c \in Channel, p \in Prop : Current(c, p)' = Current(c, p)
    BY <2>2, OthersChangeNothing
  <2>4. QED
    BY <1>2, <2>1, <2>3 DEF Background, NothingToTell
<1>5. QED
  BY <1>3, <1>4

LEMMA RequestOutcome ==
    ASSUME NamesAreLower, NamesAreWhole, CallsSucceed, NamesAreFinite,
           Inv, DefaultsHold, QueueOK, NEW c \in Channel, Request(c)
    PROVE  RequestTells
<1>1. RequestFrame /\ (Loads(c) \/ Commits(c) \/ Unloads(c))
  BY ChangeOutcome DEF Request
<1>2. IsFiniteSet(changed') /\ changed' \in SUBSET (Channel \X Name)
  BY <1>1, ChangedIsFinite
<1>3. Enqueue /\ queue \in Seq(Channel \X Name)
  BY DEF Request, QueueOK
<1>4. /\ queue' \in Seq(Channel \X Name)
      /\ Len(queue) \in Nat /\ Len(queue') \in Nat /\ Len(queue) <= Len(queue')
      /\ \A i \in 1..Len(queue) : queue'[i] = queue[i]
      /\ \A x \in changed' : \E i \in (Len(queue) + 1)..Len(queue') : queue'[i] = x
  BY <1>2, <1>3, EnqueueAdds
<1>5. \A d \in Channel, p \in Prop : Current(d, p)' # Current(d, p) => <<d, p>> \in changed'
  BY <1>1, RequestReports
<1>6. QED
  BY <1>1, <1>4, <1>5 DEF Request, RequestFrame, MainLoop, RequestTells

\* The summary of a step of the daemon, which the theorems use in place of the
\* actions.
LEMMA DaemonOutcome ==
    ASSUME NamesAreLower, NamesAreWhole, CallsSucceed, NamesAreFinite,
           Inv, DefaultsHold, QueueOK, [DaemonNext]_daemonVars
    PROVE  RequestTells \/ HeadTells \/ NothingToTell \/ Ends \/ Begins
<1>1. ASSUME UNCHANGED <<channels, user_file>>
      PROVE  \A c \in Channel, p \in Prop : Current(c, p)' = Current(c, p)
  BY <1>1, CurrentStays
<1>2. CASE UNCHANGED daemonVars
  BY <1>1, <1>2 DEF daemonVars, vars, NothingToTell
<1>3. CASE \E c \in Channel : Request(c)
  BY <1>3, RequestOutcome
<1>4. ASSUME NEW c \in Channel, Query(c)
      PROVE  NothingToTell
  <2>1. RequestFrame /\ Loads(c)
    BY <1>4, ReadLoads DEF Query
  <2>2. QED
    BY <1>4, <2>1, LoadsNothingNew DEF Query, RequestFrame, NothingToTell
<1>5. CASE EmitIdled
  <2>1. queue # <<>> /\ queue' = Tail(queue)
    BY <1>5 DEF EmitIdled
  <2>2. QED
    BY <1>5, <2>1, EmitLoads DEF MainLoop, HeadTells
<1>6. CASE Quit
  <2>1. CASE queue = <<>>
    <3>1. Finalize /\ queue' = queue /\ UNCHANGED told
      BY <1>6, <2>1 DEF Quit
    <3>2. QED
      BY <1>1, <3>1 DEF Finalize, MainLoop, NothingToTell
  <2>2. CASE queue # <<>>
    BY <1>6, <2>2 DEF Quit, MainLoop, Ends
  <2>3. QED
    BY <2>1, <2>2
<1>7. CASE Disconnect
  BY <1>1, <1>7 DEF Disconnect, HandleDisconnect, MainLoop, NothingToTell
<1>8. CASE Die
  BY <1>8 DEF Die, Crash, Ends
<1>9. CASE Restart
  BY <1>1, <1>9 DEF Restart, Start, Begins
<1>10. CASE Background
  BY <1>10, BackgroundOutcome
<1>11. QED
  BY <1>2, <1>3, <1>4, <1>5, <1>6, <1>7, <1>8, <1>9, <1>10 DEF DaemonNext

-----------------------------------------------------------------------------
(* Nobody is left behind.                                                  *)

LEMMA CurrentType ==
    ASSUME Inv, NEW c \in Channel, NEW p \in Prop
    PROVE  Current(c, p) \in Val \cup {Unset}
<1>1. Found(c).properties[p] \in Node \cup {Absent}
  BY FoundType DEF Inv, Tree
<1>2. QED
  BY <1>1 DEF Current, Visible, ValueToGet, Node

\* What the callback at the head does to what was told.
LEMMA ToldByHead ==
    ASSUME Inv, QueueOK, HeadTells
    PROVE  /\ told' \in [Channel -> [Prop -> Val \cup {Unset}]]
           /\ \A c \in Channel, p \in Prop :
                 told'[c][p] = IF Head(queue) = <<c, p>> THEN Current(c, p) ELSE told[c][p]
<1>1. PICK c \in Channel, p \in Name : Head(queue) = <<c, p>>
  BY HeadOfQueue DEF HeadTells
<1>2. told \in [Channel -> [Prop -> Val \cup {Unset}]]
  BY DEF QueueOK
<1>3. CASE p \in Prop
  <2>1. told' = [told EXCEPT ![c][p] = Current(c, p)]
    <3>1. c = Head(queue)[1] /\ p = Head(queue)[2]
      BY <1>1
    <3>2. QED
      BY <1>3, <3>1 DEF HeadTells
  <2>2. Current(c, p) \in Val \cup {Unset}
    BY <1>3, CurrentType
  <2>3. QED
    BY <1>1, <1>2, <1>3, <2>1, <2>2
<1>4. CASE p \notin Prop
  BY <1>1, <1>2, <1>4 DEF HeadTells
<1>5. QED
  BY <1>3, <1>4

LEMMA NextQueueOK ==
    ASSUME NamesAreLower, NamesAreWhole, CallsSucceed, NamesAreFinite
    PROVE  Inv /\ DefaultsHold /\ QueueOK /\ [DaemonNext]_daemonVars => QueueOK'
<1> SUFFICES ASSUME Inv, DefaultsHold, QueueOK, [DaemonNext]_daemonVars PROVE QueueOK'
  OBVIOUS
<1>1. CASE RequestTells
  BY <1>1 DEF RequestTells, QueueOK
<1>2. CASE HeadTells
  <2>1. queue' \in Seq(Channel \X Name)
    BY <1>2, HeadOfQueue DEF HeadTells
  <2>2. QED
    BY <1>2, <2>1, ToldByHead DEF HeadTells, QueueOK
<1>3. CASE NothingToTell
  BY <1>3 DEF NothingToTell, QueueOK
<1>4. CASE Ends
  BY <1>4, EmptySeq DEF Ends, QueueOK
<1>5. CASE Begins
  BY <1>5, CurrentType DEF Begins, QueueOK
<1>6. QED
  BY <1>1, <1>2, <1>3, <1>4, <1>5, DaemonOutcome

LEMMA NextToldOrQueued ==
    ASSUME NamesAreLower, NamesAreWhole, CallsSucceed, NamesAreFinite
    PROVE  Inv /\ DefaultsHold /\ QueueOK /\ ToldOrQueued /\ [DaemonNext]_daemonVars => ToldOrQueued'
<1> SUFFICES ASSUME Inv, DefaultsHold, QueueOK, ToldOrQueued, [DaemonNext]_daemonVars,
                    daemon' = "up", NEW c \in Channel, NEW p \in Prop,
                    told'[c][p] # Current(c, p)'
             PROVE  \E i \in DOMAIN queue' : queue'[i] = <<c, p>>
  BY DEF ToldOrQueued
<1>1. queue \in Seq(Channel \X Name) /\ DOMAIN queue = 1..Len(queue) /\ Len(queue) \in Nat
  BY LenProperties DEF QueueOK
<1>2. CASE RequestTells
  <2>1. DOMAIN queue' = 1..Len(queue')
    BY <1>2, LenProperties DEF RequestTells
  <2>2. CASE Current(c, p)' # Current(c, p)
    <3>1. PICK i \in (Len(queue) + 1)..Len(queue') : queue'[i] = <<c, p>>
      BY <1>2, <2>2 DEF RequestTells
    <3>2. i \in 1..Len(queue')
      BY <1>1, <1>2, <3>1 DEF RequestTells
    <3>3. QED
      BY <2>1, <3>1, <3>2
  <2>3. CASE Current(c, p)' = Current(c, p)
    <3>1. told[c][p] # Current(c, p) /\ daemon = "up"
      BY <1>2, <2>3 DEF RequestTells
    <3>2. PICK i \in DOMAIN queue : queue[i] = <<c, p>>
      BY <3>1 DEF ToldOrQueued
    <3>3. i \in 1..Len(queue') /\ queue'[i] = <<c, p>>
      BY <1>1, <1>2, <3>2 DEF RequestTells
    <3>4. QED
      BY <2>1, <3>3
  <2>4. QED
    BY <2>2, <2>3
<1>3. CASE HeadTells
  <2>1. told'[c][p] = IF Head(queue) = <<c, p>> THEN Current(c, p) ELSE told[c][p]
    BY <1>3, ToldByHead
  <2>2. Head(queue) # <<c, p>> /\ told[c][p] # Current(c, p) /\ daemon = "up"
    BY <1>3, <2>1 DEF HeadTells
  <2>3. PICK i \in DOMAIN queue : queue[i] = <<c, p>>
    BY <2>2 DEF ToldOrQueued
  <2>4. /\ queue' \in Seq(Channel \X Name) /\ Head(queue) = queue[1]
        /\ Len(queue') = Len(queue) - 1 /\ \A j \in 1..Len(queue') : queue'[j] = queue[j + 1]
    BY <1>3, HeadOfQueue DEF HeadTells
  <2>5. i # 1 /\ i \in 1..Len(queue)
    BY <1>1, <2>2, <2>3, <2>4
  <2>6. i - 1 \in 1..Len(queue') /\ (i - 1) + 1 = i
    BY <1>1, <2>4, <2>5
  <2>7. queue'[i - 1] = <<c, p>>
    BY <2>3, <2>4, <2>6
  <2>8. DOMAIN queue' = 1..Len(queue')
    BY <2>4, LenProperties
  <2>9. QED
    BY <2>6, <2>7, <2>8
<1>4. CASE NothingToTell
  BY <1>4 DEF NothingToTell, ToldOrQueued
<1>5. CASE Ends
  BY <1>5 DEF Ends
<1>6. CASE Begins
  BY <1>6 DEF Begins
<1>7. QED
  BY <1>2, <1>3, <1>4, <1>5, <1>6, DaemonOutcome

LEMMA InitDaemon == DaemonInit => Inv /\ DefaultsHold /\ QueueOK /\ ToldOrQueued
<1> SUFFICES ASSUME DaemonInit PROVE Inv /\ DefaultsHold /\ QueueOK /\ ToldOrQueued
  OBVIOUS
<1>1. Inv /\ DefaultsHold
  BY InitInv, InitDefaults DEF DaemonInit
<1>2. told \in [Channel -> [Prop -> Val \cup {Unset}]]
  BY <1>1, CurrentType DEF DaemonInit
<1>3. QED
  BY <1>1, <1>2, EmptySeq DEF DaemonInit, Init, QueueOK, ToldOrQueued

\* Whoever follows the signals is behind by no more than the callbacks that
\* wait: for every property that reads differently from what was last signalled
\* of it, a callback is queued, whatever requests, reads, recursive resets,
\* reloads and restarts the daemon has been through.
THEOREM NobodyIsLeftBehind ==
    ASSUME NamesAreLower, NamesAreWhole, CallsSucceed, NamesAreFinite
    PROVE  DaemonSpec => []ToldOrQueued
BY InitDaemon, BackendStep, NextInv, NextDefaults, NextQueueOK, NextToldOrQueued, PTL DEF DaemonSpec

-----------------------------------------------------------------------------
(* The daemon is a SettingsStore.                                          *)

SettingsMap == [c \in Channel |-> [p \in Prop |-> Current(c, p)]]

LEMMA SettingsMapStays ==
    ASSUME \A c \in Channel, p \in Prop : Current(c, p)' = Current(c, p)
    PROVE  SettingsMap' = SettingsMap
BY DEF SettingsMap

LEMMA NextIsSettingsStep ==
    ASSUME NamesAreLower, NamesAreWhole, CallsSucceed, NamesAreFinite
    PROVE  Inv /\ DefaultsHold /\ QueueOK /\ [DaemonNext]_daemonVars
              => [Settings!SettingsNext]_Settings!storeVars
<1> SUFFICES ASSUME Inv, DefaultsHold, QueueOK, [DaemonNext]_daemonVars
             PROVE  Settings!SettingsNext \/ UNCHANGED Settings!storeVars
  OBVIOUS
<1>1. queue \in Seq(Channel \X Name) /\ DOMAIN queue = 1..Len(queue) /\ Len(queue) \in Nat
  BY LenProperties DEF QueueOK
<1>2. CASE RequestTells
  <2>1. SubSeq(queue', 1, Len(queue)) = queue
    <3> DEFINE sub == SubSeq(queue', 1, Len(queue))
    <3>1. \A i \in 1..Len(queue) : queue'[i] = queue[i] /\ queue'[i] \in Channel \X Name
      BY <1>1, <1>2, ElementOfSeq DEF RequestTells
    <3>2. /\ sub \in Seq(Channel \X Name)
          /\ Len(sub) = IF 1 <= Len(queue) THEN Len(queue) - 1 + 1 ELSE 0
          /\ \A i \in 1..(Len(queue) - 1 + 1) : sub[i] = queue'[1 + i - 1]
      BY <1>1, <3>1, SubSeqProperties
    <3> HIDE DEF sub
    <3>3. Len(sub) = Len(queue) /\ \A i \in 1..Len(sub) : sub[i] = queue[i]
      BY <1>1, <3>1, <3>2
    <3>4. sub = queue
      BY <1>1, <3>2, <3>3, SeqEqual
    <3>5. QED
      BY <3>4 DEF sub
  <2>2. \A c \in Channel, p \in Prop : SettingsMap'[c][p] # SettingsMap[c][p] =>
           \E i \in (Len(queue) + 1)..Len(queue') : queue'[i] = <<c, p>>
    BY <1>2 DEF RequestTells, SettingsMap
  <2>3. Settings!Changes
    BY <1>2, <2>1, <2>2 DEF RequestTells, Settings!Changes, SettingsMap
  <2>4. QED
    BY <2>3 DEF Settings!SettingsNext
<1>3. CASE HeadTells
  <2>1. SettingsMap' = SettingsMap
    BY <1>3, SettingsMapStays DEF HeadTells
  <2>2. Head(queue)[1] \in Channel
    BY <1>3, HeadOfQueue DEF HeadTells
  <2>3. told' = IF Head(queue)[2] \in Prop
                THEN [told EXCEPT ![Head(queue)[1]][Head(queue)[2]] =
                         SettingsMap[Head(queue)[1]][Head(queue)[2]]]
                ELSE told
    BY <1>3, <2>2 DEF HeadTells, SettingsMap
  <2>4. Settings!Signal
    BY <1>3, <2>1, <2>3 DEF HeadTells, Settings!Signal, SettingsMap
  <2>5. QED
    BY <2>4 DEF Settings!SettingsNext
<1>4. CASE NothingToTell
  <2>1. SettingsMap' = SettingsMap
    BY <1>4, SettingsMapStays DEF NothingToTell
  <2>2. QED
    BY <1>4, <2>1 DEF NothingToTell, Settings!storeVars, SettingsMap
<1>5. CASE Ends
  <2>1. Settings!Stop
    BY <1>5 DEF Ends, Settings!Stop
  <2>2. QED
    BY <2>1 DEF Settings!SettingsNext
<1>6. CASE Begins
  <2>1. SettingsMap' = SettingsMap /\ told' = SettingsMap
    BY <1>6, SettingsMapStays DEF Begins, SettingsMap
  <2>2. Settings!Start
    BY <1>6, <2>1 DEF Begins, Settings!Start, SettingsMap
  <2>3. QED
    BY <2>2 DEF Settings!SettingsNext
<1>7. QED
  BY <1>2, <1>3, <1>4, <1>5, <1>6, DaemonOutcome

\* The daemon implements SettingsStore: requests change settings and queue a
\* signal for each, signals go out in that order and tell the value of the
\* moment, and only the end of the daemon drops any.
THEOREM DaemonIsSettingsStore ==
    ASSUME NamesAreLower, NamesAreWhole, CallsSucceed, NamesAreFinite
    PROVE  DaemonSpec => ImplementsSettingsStore
<1>1. DaemonInit => Settings!SettingsInit
  BY DEF DaemonInit, Init, Settings!SettingsInit
<1>2. QED
  BY <1>1, InitDaemon, BackendStep, NextInv, NextDefaults, NextQueueOK, NextIsSettingsStep, PTL
  DEF DaemonSpec, ImplementsSettingsStore, Settings!SettingsSpec

\* The daemon uses its backend only as the backend's own specification allows,
\* so that whatever is proved of Spec holds of a daemon as well: its callbacks
\* are reads, and quitting is a finalize or, with callbacks left, a crash.
THEOREM DaemonUsesBackend ==
    ASSUME NamesAreLower, NamesAreWhole, CallsSucceed, NamesAreFinite
    PROVE  DaemonSpec => Spec
<1>1. DaemonInit => Init
  BY DEF DaemonInit
<1>2. QED
  BY <1>1, InitDaemon, BackendStep, NextInv, NextDefaults, NextQueueOK, PTL DEF DaemonSpec, Spec

=============================================================================
