--------------------------- MODULE SettingsStore ----------------------------
(***************************************************************************)
(* The settings daemon as its clients see it: settings that requests       *)
(* change, and signals that follow the changes, in order but later.        *)
(* A signal tells the value a property has when the signal is sent, not    *)
(* the value it had when it changed.  Nothing is said of trees, files,     *)
(* timers or of why a request is granted.                                  *)
(***************************************************************************)
EXTENDS Naturals, Sequences

CONSTANTS Channel, Prop

VARIABLES
    settings,   \* settings[c][p]: what a client reads
    queue,      \* changes that are still to be signalled, <<c, p>>
    told,       \* told[c][p]: what was last signalled, or read at the start
    running     \* whether there is a daemon

storeVars == <<settings, queue, told, running>>

\* Requests may change any settings, if a signal is queued for each of them.
Changes ==
    /\ running /\ running'
    /\ Len(queue) <= Len(queue') /\ SubSeq(queue', 1, Len(queue)) = queue
    /\ \A c \in Channel, p \in Prop :
          settings'[c][p] # settings[c][p] =>
              \E i \in (Len(queue) + 1)..Len(queue') : queue'[i] = <<c, p>>
    /\ UNCHANGED told

\* The name in the queue need not be a property's; then nobody learns anything.
Signal ==
    /\ running /\ queue # <<>>
    /\ queue' = Tail(queue)
    /\ LET c == Head(queue)[1]
           p == Head(queue)[2]
       IN  told' = IF p \in Prop THEN [told EXCEPT ![c][p] = settings[c][p]] ELSE told
    /\ UNCHANGED <<settings, running>>

\* Unsent signals are lost, and some settings may not have been saved.
Stop ==
    /\ running /\ ~running'
    /\ queue' = <<>>
    /\ UNCHANGED told

Start ==
    /\ ~running /\ running'
    /\ told' = settings
    /\ UNCHANGED <<settings, queue>>

SettingsInit == queue = <<>> /\ told = settings /\ running = TRUE

SettingsNext == Changes \/ Signal \/ Stop \/ Start

SettingsSpec == SettingsInit /\ [][SettingsNext]_storeVars

=============================================================================
