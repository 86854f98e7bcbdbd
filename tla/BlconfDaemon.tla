---------------------------- MODULE BlconfDaemon ----------------------------
(***************************************************************************)
(* The daemon object in front of its backend: what clients are told.       *)
(*                                                                         *)
(* prop_changed_func does not emit a signal, it queues an idle callback.   *)
(* The callback reads the property back and emits PropertyChanged with     *)
(* what it finds, or PropertyRemoved.  Each queued callback holds a        *)
(* reference on the daemon.                                                *)
(***************************************************************************)
EXTENDS PerchannelXml, SequencesExt

CONSTANT MaxQueue   \* bound on the queue, for model checking

VARIABLES
    queue,  \* idle callbacks that wait, in the order they were added
    told    \* told[c][p]: value last signalled, or that p had at start

daemonVars == <<vars, queue, told>>

-----------------------------------------------------------------------------
\* Faulty: nothing is added while another callback waits.
EnqueueOnce ==
    \E s \in SetToSeqs(changed') :
        queue' = IF queue = <<>> THEN s ELSE queue

\* Faulty: the newest change is signalled first.
EnqueueFirst ==
    /\ Len(queue) + Cardinality(changed') <= MaxQueue
    /\ \E s \in SetToSeqs(changed') : queue' = s \o queue

\* blconf_daemon_backend_property_changed, for each change of this step.
Enqueue ==
    /\ Len(queue) + Cardinality(changed') <= MaxQueue
    /\ \E s \in SetToSeqs(changed') : queue' = queue \o s

\* SetProperty or ResetProperty from a client.
Request(c) == Change(c) /\ Enqueue /\ UNCHANGED told

\* GetProperty and the other calls that change nothing.
Query(c) == Read(c) /\ UNCHANGED <<queue, told>>

\* Faulty: a property without value is not signalled.
EmitChangedOnly ==
    /\ queue # <<>>
    /\ queue' = Tail(queue)
    /\ LET c == Head(queue)[1]
           p == Head(queue)[2]
       IN  /\ p \in Prop /\ Get(c, p)
           /\ told' = IF ret' = "ok" THEN [told EXCEPT ![c][p] = Current(c, p)] ELSE told

(***************************************************************************)
(* blconf_daemon_emit_property_changed_idled.  backend_get may load the    *)
(* channel again.  A name that is no property's is signalled as removed,   *)
(* which tells clients nothing about any property.                         *)
(***************************************************************************)
EmitIdled ==
    /\ queue # <<>>
    /\ queue' = Tail(queue)
    /\ LET c == Head(queue)[1]
           p == Head(queue)[2]
       IN  IF p \in Prop
           THEN Get(c, p) /\ told' = [told EXCEPT ![c][p] = Current(c, p)]
           ELSE MainLoop /\ UNCHANGED <<vars, told>>

\* Timers and flushes.  The queue goes when the process does.
Background ==
    /\ TimerExpires \/ SaveTimeout \/ Flush
    /\ queue' = IF daemon' = "down" THEN <<>> ELSE queue
    /\ UNCHANGED told

(***************************************************************************)
(* A signal ends the main loop, before callbacks of lower priority run,    *)
(* and main drops its reference.  It is the last one only if no callback   *)
(* waits; otherwise the daemon is not finalized and nothing is flushed.    *)
(***************************************************************************)
Quit ==
    /\ MainLoop
    /\ \/ queue = <<>> /\ Finalize
       \/ /\ queue # <<>>
          /\ daemon' = "down"
          /\ channels' = [c \in Channel |-> NotLoaded]
          /\ save_timer' = "off"
          /\ Silent
          /\ UNCHANGED <<user_file, flushing, dirty_list, fp>>
    /\ queue' = <<>>
    /\ UNCHANGED told

Disconnect == HandleDisconnect /\ UNCHANGED <<queue, told>>

Die == Crash /\ queue' = <<>> /\ UNCHANGED told

\* Clients are taken to read everything afresh from a daemon that starts; the
\* signals of this one are what the properties are about.
Restart ==
    /\ Start
    /\ told' = [c \in Channel |-> [p \in Prop |-> Current(c, p)]]
    /\ UNCHANGED queue

DaemonInit ==
    /\ Init
    /\ queue = <<>>
    /\ told = [c \in Channel |-> [p \in Prop |-> Current(c, p)]]

DaemonNext ==
    \/ \E c \in Channel : Request(c) \/ Query(c)
    \/ EmitIdled \/ Background
    \/ Quit \/ Disconnect \/ Die \/ Restart

DaemonSpec == DaemonInit /\ [][DaemonNext]_daemonVars

\* Idle callbacks run when the main loop has nothing else to do.
DaemonFairSpec == DaemonSpec /\ WF_daemonVars(EmitIdled) /\ WF_daemonVars(Background)

-----------------------------------------------------------------------------
(* Properties.                                                             *)

\* Whoever follows the signals is behind by no more than the queue: a property
\* that reads differently from what was last signalled has a callback waiting,
\* across reloads, recursive resets and the reset of a whole channel.
ToldOrQueued ==
    daemon = "up" =>
        \A c \in Channel, p \in Prop :
            told[c][p] # Current(c, p) => \E i \in DOMAIN queue : queue[i] = <<c, p>>

\* Once clients make no more calls, everybody ends up with the values the
\* daemon has, although callbacks run late and read the value only then.
QuietIsTold ==
    <>[][~\E c \in Channel : Request(c) \/ Query(c)]_daemonVars =>
        <>[](daemon = "up" => \A c \in Channel, p \in Prop : told[c][p] = Current(c, p))

\* For its clients all this is a SettingsStore: requests change settings and queue
\* the signals, which are sent in order and tell the value of the moment.
Settings == INSTANCE SettingsStore WITH
    settings <- [c \in Channel |-> [p \in Prop |-> Current(c, p)]],
    running  <- daemon # "down"

ImplementsSettingsStore == Settings!SettingsSpec

\* An orderly exit, by a signal or with the bus, loses nothing: what clients
\* read before it they read after the next start ("the user's own settings are
\* saved").
ExitIsSaved ==
    [][(Quit \/ FlushDone) /\ daemon' = "down" =>
          \A c \in Channel \ LockedChannels : Saved(c)]_daemonVars

=============================================================================
