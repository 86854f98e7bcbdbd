---------------------------- MODULE BlconfCache -----------------------------
(***************************************************************************)
(* The client library's cache of one channel, on a bus with the daemon and *)
(* with other clients.                                                     *)
(*                                                                         *)
(* A set shows at once in the cache and goes to the daemon as a call whose *)
(* reply is handled later; until then old_properties remembers what to go  *)
(* back to.  Everything else that asks the daemon blocks: its answer is    *)
(* taken out of the connection's queue ahead of replies and signals that   *)
(* arrived before it.  Signals and replies are handled by the main loop,   *)
(* one at a time and in order.                                             *)
(*                                                                         *)
(* The daemon is the one of SettingsStore: see DaemonIsSettingsStore.      *)
(***************************************************************************)
EXTENDS Naturals, Sequences, FiniteSets

CONSTANTS
    Prop,           \* properties of the channel
    Above,          \* Above[p]: properties that p lies below
    Val,
    Unset,          \* no value
    NotCached,      \* no item in the cache
    NoCall,         \* no set of a property in flight
    SystemConfig,   \* [default, locked] records: what system files may say
    Watched,        \* properties whose emissions are kept track of
    Fault,          \* faults that may happen, of "restart" and "timeout"
    MaxMessages,    \* bound on messages and notifications under way
    MaxDead         \* bound on calls of one property given up, but not replied

VARIABLES
    \* the daemon
    system,         \* the system's defaults and locks
    user,           \* user[p]: the user's value or Unset
    queue,          \* properties whose change is still to be signalled
    told,           \* told[p]: the value last signalled (of SettingsStore)
    running,        \* there is a daemon
    \* the connection
    calls,          \* from the client to the daemon
    inbox,          \* replies and signals for the client
    answer,         \* the answer to a blocking call
    dead,           \* dead[p]: replies still to come of calls given up
    \* the client
    cache,          \* "closed", "opening", "open" or "closing"
    properties,     \* properties[p]: the cached value
    old_properties, \* old_properties[p]: what a failed set goes back to
    waiting,        \* the operation that is blocked on the daemon
    listeners,      \* listeners[p]: the value last emitted by the cache, p \in Watched
    \* history
    faulty          \* a fault has happened

daemonVars == <<system, user, queue, told, running>>
connVars == <<calls, inbox, answer, dead>>
clientVars == <<cache, properties, old_properties, waiting, listeners>>
vars == <<daemonVars, connVars, clientVars, faulty>>

ASSUME CacheAssumption ==
    /\ IsFiniteSet(Prop) /\ Above \in [Prop -> SUBSET Prop]
    /\ SystemConfig \subseteq [default : [Prop -> Val \cup {Unset}], locked : SUBSET Prop]
    /\ Unset \notin Val /\ NotCached \notin Val /\ NotCached # Unset
    /\ NoCall \notin [item : Val \cup {NotCached}]
    /\ Watched \subseteq Prop
    /\ MaxMessages \in Nat /\ MaxDead \in Nat

Below(p) == {q \in Prop : p \in Above[q]}

None == [kind |-> "none"]

Under == Len(calls) + Len(queue) + Len(inbox)
MayStart == Under < MaxMessages

Call(m) == calls' = Append(calls, m)
Post(m) == inbox' = Append(inbox, m)

\* Per-call message, and what the bus or the daemon sends back.
SetCall(p, v) == [kind |-> "set", prop |-> p, value |-> v]
Reply(p, ok) == [kind |-> "reply", prop |-> p, ok |-> ok]
PropertyChanged(p, v) == [kind |-> "changed", prop |-> p, value |-> v]
PropertyRemoved(p) == [kind |-> "removed", prop |-> p]

-----------------------------------------------------------------------------
(* The daemon.                                                             *)

Setting(p) == IF user[p] # Unset THEN user[p] ELSE system.default[p]
Settings == [p \in Prop |-> Setting(p)]

\* There is a node for p: something at or below it has a value or a lock.
HasNode(p) ==
    \E q \in {p} \cup Below(p) : Setting(q) # Unset \/ q \in system.locked

UserSet(S) == {p \in S : user[p] # Unset}

\* Set as the daemon does it: [ok, user, changed].
DoSet(p, v) ==
    IF p \in system.locked THEN [ok |-> FALSE, user |-> user, changed |-> {}]
    ELSE IF Setting(p) = v THEN [ok |-> TRUE, user |-> user, changed |-> {}]
    ELSE [ok |-> TRUE, user |-> [user EXCEPT ![p] = v], changed |-> {p}]

DoReset(p, recursive) ==
    LET S == IF recursive THEN {p} \cup Below(p) ELSE {p}
    IN  [ok |-> IF recursive THEN HasNode(p) ELSE user[p] # Unset,
         user |-> [q \in Prop |-> IF q \in S THEN Unset ELSE user[q]],
         changed |-> UserSet(S)]

\* Faulty: no notification is added while another waits.
NotifyOnce(S) ==
    \E s \in {t \in [1..Cardinality(S) -> S] : {t[i] : i \in 1..Cardinality(S)} = S} :
        queue' = IF queue = <<>> THEN s ELSE queue

\* One notification for each changed property, in any order.
Notify(S) ==
    \E s \in {t \in [1..Cardinality(S) -> S] : {t[i] : i \in 1..Cardinality(S)} = S} :
        queue' = queue \o s

\* The reply leaves before the signal, which waits for an idle main loop.
ServeSet(m) ==
    LET r == DoSet(m.prop, m.value)
    IN  /\ user' = r.user
        /\ Notify(r.changed)
        /\ Post(Reply(m.prop, r.ok))
        /\ UNCHANGED answer

ServeReset(m) ==
    LET r == DoReset(m.prop, m.recursive)
    IN  /\ user' = r.user
        /\ Notify(r.changed)
        /\ answer' = [kind |-> IF r.ok THEN "done" ELSE "not found"]
        /\ UNCHANGED inbox

ServeGet(m) ==
    /\ answer' = IF Setting(m.prop) = Unset THEN [kind |-> "not found"]
                 ELSE [kind |-> "value", value |-> Setting(m.prop)]
    /\ UNCHANGED <<user, queue, inbox>>

ServeGetAll(m) ==
    /\ answer' = [kind |-> "values", values |-> Settings]
    /\ UNCHANGED <<user, queue, inbox>>

\* The next call of the client.
Serve ==
    /\ running /\ calls # <<>>
    /\ calls' = Tail(calls)
    /\ LET m == Head(calls)
       IN  CASE m.kind = "set" -> ServeSet(m)
             [] m.kind = "get" -> ServeGet(m)
             [] m.kind = "get all" -> ServeGetAll(m)
             [] m.kind = "reset" -> ServeReset(m)
    /\ UNCHANGED <<system, told, running, dead, clientVars, faulty>>

\* A call of some other client.
OtherClient ==
    /\ running /\ MayStart
    /\ \/ \E p \in Prop, v \in Val : user' = DoSet(p, v).user /\ Notify(DoSet(p, v).changed)
       \/ \E p \in Prop, recursive \in BOOLEAN :
             /\ DoReset(p, recursive).ok
             /\ user' = DoReset(p, recursive).user
             /\ Notify(DoReset(p, recursive).changed)
    /\ UNCHANGED <<system, told, running, connVars, clientVars, faulty>>

\* Faulty: nothing is sent for a property that has no value any more.
SignalValueOnly(p) ==
    IF Setting(p) = Unset THEN UNCHANGED inbox ELSE Post(PropertyChanged(p, Setting(p)))

SendSignal(p) ==
    Post(IF Setting(p) = Unset THEN PropertyRemoved(p) ELSE PropertyChanged(p, Setting(p)))

(***************************************************************************)
(* blconf_daemon_emit_property_changed_idled.  The library's one proxy has *)
(* the signals sent to the process whether or not there is a cache.        *)
(***************************************************************************)
EmitIdled ==
    /\ running /\ queue # <<>>
    /\ queue' = Tail(queue)
    /\ told' = [told EXCEPT ![Head(queue)] = Setting(Head(queue))]
    /\ SendSignal(Head(queue))
    /\ UNCHANGED <<system, user, running, calls, answer, dead, clientVars, faulty>>

(***************************************************************************)
(* The daemon dies.  The bus answers the calls it had not answered, with   *)
(* errors and in their order.  The bus starts another one for the next     *)
(* call, with settings that were saved at some earlier time; no signal     *)
(* tells of them.                                                          *)
(***************************************************************************)
Unserved == {i \in DOMAIN calls : calls[i].kind = "set"}

DaemonDies ==
    /\ "restart" \in Fault /\ ~faulty
    /\ faulty' = TRUE /\ running' = FALSE
    /\ user' \in [Prop -> Val \cup {Unset}]
    /\ \A p \in system.locked : user'[p] = Unset
    /\ queue' = <<>> /\ calls' = <<>>
    /\ \E nth \in [1..Cardinality(Unserved) -> Unserved] :
          /\ \A i, j \in DOMAIN nth : i < j => nth[i] < nth[j]
          /\ inbox' = inbox \o [i \in DOMAIN nth |-> Reply(calls[nth[i]].prop, FALSE)]
    /\ answer' = IF \E i \in DOMAIN calls : calls[i].kind # "set" THEN [kind |-> "bus error"]
                 ELSE answer
    /\ UNCHANGED <<system, told, dead, clientVars>>

DaemonStarts ==
    /\ ~running /\ running' = TRUE
    /\ told' = Settings
    /\ UNCHANGED <<system, user, queue, connVars, clientVars, faulty>>

-----------------------------------------------------------------------------
(* The client: blocking calls.                                             *)

Idle == cache = "open" /\ waiting = None

\* Send a blocking call and remember what it is for.
Block(op, m) ==
    /\ waiting' = op
    /\ Call(m)
    /\ UNCHANGED <<daemonVars, inbox, answer, dead, old_properties, faulty>>

Emit(p, v) == listeners' = [q \in Watched |-> IF q = p THEN v ELSE listeners[q]]

\* blconf_cache_new and _prefetch: the signals are connected first.
Open ==
    /\ cache = "closed" /\ MayStart
    /\ cache' = "opening"
    /\ Block([kind |-> "prefetch"], [kind |-> "get all"])
    /\ UNCHANGED <<properties, listeners>>

\* A property without item has to be asked for.
Lookup(p) ==
    /\ Idle /\ MayStart /\ properties[p] = NotCached
    /\ Block([kind |-> "lookup", prop |-> p], [kind |-> "get", prop |-> p])
    /\ UNCHANGED <<cache, properties, listeners>>

\* blconf_cache_set asks for the present value first if it has none.
SetUncached(p, v) ==
    /\ Idle /\ MayStart /\ properties[p] = NotCached
    /\ old_properties[p] # NoCall => dead[p] < MaxDead
    /\ Block([kind |-> "set", prop |-> p, value |-> v], [kind |-> "get", prop |-> p])
    /\ UNCHANGED <<cache, properties, listeners>>

Reset(p, recursive) ==
    /\ Idle /\ MayStart
    /\ Block([kind |-> "reset", prop |-> p, recursive |-> recursive],
             [kind |-> "reset", prop |-> p, recursive |-> recursive])
    /\ UNCHANGED <<cache, properties, listeners>>

-----------------------------------------------------------------------------
(* The client: setting a value.                                            *)

\* Faulty: a second set remembers the first one's value as the one to go back to.
RememberLatest(p, item) == old_properties' = [old_properties EXCEPT ![p] = [item |-> item]]

\* The value to go back to stays that of before the first set.
Remember(p, item) ==
    old_properties' = IF old_properties[p] # NoCall THEN old_properties
                      ELSE [old_properties EXCEPT ![p] = [item |-> item]]

\* Faulty: the earlier call is not cancelled.
KeepEarlier(p) == UNCHANGED dead

\* dbus_g_proxy_cancel_call: the reply will come but has no handler.
CancelEarlier(p) ==
    dead' = IF old_properties[p] = NoCall THEN dead ELSE [dead EXCEPT ![p] = @ + 1]

(***************************************************************************)
(* The rest of blconf_cache_set, once the present item is known, or known  *)
(* not to exist.                                                           *)
(***************************************************************************)
PutValue(p, v, item) ==
    IF item = v
    THEN /\ properties' = [properties EXCEPT ![p] = item]
         /\ UNCHANGED <<old_properties, dead, calls, listeners>>
    ELSE /\ old_properties[p] # NoCall => dead[p] < MaxDead
         /\ CancelEarlier(p)
         /\ Remember(p, item)
         /\ Call(SetCall(p, v))
         /\ properties' = [properties EXCEPT ![p] = v]
         /\ Emit(p, v)

SetCached(p, v) ==
    /\ Idle /\ MayStart /\ properties[p] # NotCached
    /\ PutValue(p, v, properties[p])
    /\ UNCHANGED <<daemonVars, inbox, answer, cache, waiting, faulty>>

-----------------------------------------------------------------------------
(* The client: answers.                                                    *)

\* blconf_cache_reset: what was reset is dropped from the cache.
Evict(p, recursive) ==
    [q \in Prop |-> IF q = p \/ (recursive /\ q \in Below(p)) THEN NotCached ELSE properties[q]]

ResumePrefetch ==
    /\ cache' = "open"
    /\ properties' = IF answer.kind # "values" THEN properties
                     ELSE [p \in Prop |-> IF answer.values[p] = Unset THEN NotCached
                                          ELSE answer.values[p]]
    \* who starts to listen has read the values that are there
    /\ listeners' = [p \in Watched |-> IF properties'[p] = NotCached THEN Unset ELSE properties'[p]]
    /\ UNCHANGED <<old_properties, dead, calls>>

ResumeLookup(p) ==
    /\ properties' = IF answer.kind # "value" THEN properties
                     ELSE [properties EXCEPT ![p] = answer.value]
    /\ UNCHANGED <<cache, old_properties, dead, calls, listeners>>

\* Any error but PropertyNotFound and ChannelNotFound makes the set fail.
ResumeSet(p, v) ==
    /\ IF answer.kind = "bus error"
       THEN UNCHANGED <<properties, old_properties, dead, calls, listeners>>
       ELSE PutValue(p, v, IF answer.kind = "value" THEN answer.value ELSE NotCached)
    /\ UNCHANGED cache

ResumeReset(p, recursive) ==
    /\ properties' = IF answer.kind = "done" THEN Evict(p, recursive) ELSE properties
    /\ UNCHANGED <<cache, old_properties, dead, calls, listeners>>

Resume ==
    /\ answer # None
    /\ answer' = None /\ waiting' = None
    /\ CASE waiting.kind = "prefetch" -> ResumePrefetch
         [] waiting.kind = "lookup" -> ResumeLookup(waiting.prop)
         [] waiting.kind = "set" -> ResumeSet(waiting.prop, waiting.value)
         [] waiting.kind = "reset" -> ResumeReset(waiting.prop, waiting.recursive)
    /\ UNCHANGED <<daemonVars, inbox, faulty>>

-----------------------------------------------------------------------------
(* The client: signals and replies, from the main loop.                    *)

Update(p, v) ==
    /\ properties' = [properties EXCEPT ![p] = v]
    /\ IF properties[p] = v THEN UNCHANGED listeners ELSE Emit(p, v)

\* Faulty: signals are taken while a set is in flight.
OnChangedAlways(p, v) == Update(p, v) /\ UNCHANGED <<old_properties, dead>>

\* blconf_cache_property_changed: ignored while a set is in flight.
OnChanged(p, v) ==
    /\ IF old_properties[p] # NoCall THEN UNCHANGED <<properties, listeners>>
       ELSE Update(p, v)
    /\ UNCHANGED <<old_properties, dead>>

\* blconf_cache_property_removed, which does not look at old_properties.
OnRemoved(p) ==
    /\ properties' = [properties EXCEPT ![p] = NotCached]
    /\ Emit(p, Unset)
    /\ UNCHANGED <<old_properties, dead>>

(***************************************************************************)
(* blconf_cache_set_property_reply_handler.  Of a call given up nothing is *)
(* heard.  A failed set goes back to the old value.  The emission for it   *)
(* names a detail, which the signal was not registered for: GLib refuses   *)
(* it, and the listeners are not called.                                   *)
(***************************************************************************)
GoBack(p) ==
    properties' = [properties EXCEPT ![p] = IF @ = NotCached THEN @ ELSE old_properties[p].item]

\* Faulty: the old value is forgotten only if there is still a cached one.
HandleReplyIfCached(p, ok) ==
    /\ old_properties' = IF properties[p] = NotCached THEN old_properties
                         ELSE [old_properties EXCEPT ![p] = NoCall]
    /\ IF ok THEN UNCHANGED properties ELSE GoBack(p)
    /\ UNCHANGED listeners

HandleReply(p, ok) ==
    /\ old_properties' = [old_properties EXCEPT ![p] = NoCall]
    /\ IF ok THEN UNCHANGED properties ELSE GoBack(p)
    /\ UNCHANGED listeners

OnReply(p, ok) ==
    IF dead[p] > 0
    THEN /\ dead' = [dead EXCEPT ![p] = @ - 1]
         /\ UNCHANGED <<properties, old_properties, listeners>>
    ELSE HandleReply(p, ok) /\ UNCHANGED dead

Handle(m) ==
    CASE m.kind = "reply" -> OnReply(m.prop, m.ok)
      [] m.kind = "changed" -> OnChanged(m.prop, m.value)
      [] m.kind = "removed" -> OnRemoved(m.prop)

Dispatch ==
    /\ Idle /\ inbox # <<>>
    /\ inbox' = Tail(inbox)
    /\ Handle(Head(inbox))
    /\ UNCHANGED <<daemonVars, calls, answer, cache, waiting, faulty>>

\* dbus-glib gives a call up after its timeout; the daemon may yet do it.
TimesOut(p) ==
    /\ "timeout" \in Fault /\ ~faulty
    /\ faulty' = TRUE
    /\ Idle /\ old_properties[p] # NoCall /\ dead[p] < MaxDead
    /\ HandleReply(p, FALSE)
    /\ dead' = [dead EXCEPT ![p] = @ + 1]
    /\ UNCHANGED <<daemonVars, calls, inbox, answer, cache, waiting>>

-----------------------------------------------------------------------------
(* The client: the end.                                                    *)

\* blconf_cache_finalize: the signals are disconnected.
Close ==
    /\ Idle
    /\ cache' = "closing"
    /\ UNCHANGED <<daemonVars, connVars, properties, old_properties, waiting, listeners, faulty>>

\* blconf_cache_old_item_end_call blocks until the reply is there; nobody is
\* told of it.
EndCall ==
    /\ cache = "closing" /\ inbox # <<>>
    /\ \E p \in Prop : old_properties[p] # NoCall
    /\ inbox' = Tail(inbox)
    /\ LET m == Head(inbox)
       IN  IF m.kind # "reply" THEN UNCHANGED <<old_properties, dead>>
           ELSE IF dead[m.prop] > 0
                THEN dead' = [dead EXCEPT ![m.prop] = @ - 1] /\ UNCHANGED old_properties
                ELSE old_properties' = [old_properties EXCEPT ![m.prop] = NoCall] /\ UNCHANGED dead
    /\ UNCHANGED <<daemonVars, calls, answer, cache, properties, waiting, listeners, faulty>>

\* Faulty: the table of pending calls is freed without ending the calls.
ClosedAtOnce ==
    /\ cache = "closing"
    /\ cache' = "closed"
    /\ properties' = [p \in Prop |-> NotCached]
    /\ old_properties' = [p \in Prop |-> NoCall]
    /\ UNCHANGED <<daemonVars, connVars, waiting, listeners, faulty>>

Closed ==
    /\ cache = "closing"
    /\ \A p \in Prop : old_properties[p] = NoCall
    /\ cache' = "closed"
    /\ properties' = [p \in Prop |-> NotCached]
    /\ UNCHANGED <<daemonVars, connVars, old_properties, waiting, listeners, faulty>>

\* What arrives when there is no cache has no handler.
Discard ==
    /\ cache = "closed" /\ inbox # <<>>
    /\ inbox' = Tail(inbox)
    /\ dead' = IF Head(inbox).kind = "reply" THEN [dead EXCEPT ![Head(inbox).prop] = @ - 1] ELSE dead
    /\ UNCHANGED <<daemonVars, calls, answer, clientVars, faulty>>

-----------------------------------------------------------------------------
Init ==
    /\ system \in SystemConfig
    /\ user \in [Prop -> Val \cup {Unset}]
    /\ \A p \in system.locked : user[p] = Unset
    /\ queue = <<>> /\ told = Settings /\ running = TRUE
    /\ calls = <<>> /\ inbox = <<>> /\ answer = None /\ dead = [p \in Prop |-> 0]
    /\ cache = "closed"
    /\ properties = [p \in Prop |-> NotCached]
    /\ old_properties = [p \in Prop |-> NoCall]
    /\ waiting = None
    /\ listeners = [p \in Watched |-> Unset]
    /\ faulty = FALSE

\* What applications, this one and others, do to settings.
AppChange ==
    \/ \E p \in Prop, v \in Val : SetCached(p, v) \/ SetUncached(p, v)
    \/ \E p \in Prop, recursive \in BOOLEAN : Reset(p, recursive)
    \/ OtherClient

App == AppChange \/ Open \/ Close \/ \E p \in Prop : Lookup(p)

Daemon == Serve \/ EmitIdled \/ DaemonStarts
Client == Resume \/ Dispatch \/ EndCall \/ Closed \/ Discard

Next == App \/ Daemon \/ Client \/ DaemonDies \/ \E p \in Prop : TimesOut(p)

Spec == Init /\ [][Next]_vars

\* The daemon serves and signals, the client's main loop runs, a blocked
\* operation goes on when its answer is there.  Nothing is assumed of
\* applications or faults.
FairSpec == Spec /\ WF_vars(Serve) /\ WF_vars(EmitIdled) /\ WF_vars(DaemonStarts) /\ WF_vars(Client)

-----------------------------------------------------------------------------
(* Properties.                                                             *)

InFlight(p) ==
    Cardinality({i \in DOMAIN calls : calls[i].kind = "set" /\ calls[i].prop = p})
      + Cardinality({i \in DOMAIN inbox : inbox[i].kind = "reply" /\ inbox[i].prop = p})

SignalUnderWay(p) ==
    \/ \E i \in DOMAIN queue : queue[i] = p
    \/ \E i \in DOMAIN inbox : inbox[i].kind # "reply" /\ inbox[i].prop = p

Item == Val \cup {NotCached}

TypeOK ==
    /\ system \in SystemConfig
    /\ user \in [Prop -> Val \cup {Unset}]
    /\ queue \in Seq(Prop) /\ told \in [Prop -> Val \cup {Unset}] /\ running \in BOOLEAN
    /\ dead \in [Prop -> 0..MaxDead]
    /\ cache \in {"closed", "opening", "open", "closing"}
    /\ properties \in [Prop -> Item]
    /\ old_properties \in [Prop -> [item : Item] \cup {NoCall}]
    /\ listeners \in [Watched -> Val \cup {Unset}]

\* Each property with an old value has exactly one call in flight whose reply
\* will be handled, behind those that were given up: second sets, timeouts, a
\* dead daemon and the end of the cache never mix up whose reply is whose.
EachReplyHasItsSet ==
    \A p \in Prop : InFlight(p) = dead[p] + IF old_properties[p] = NoCall THEN 0 ELSE 1

\* Without faults, a cached value that is neither the daemon's nor just being
\* set is about to be corrected by a signal, although blocking calls overtake
\* signals and signals are ignored while a set is in flight.
BehindBySignals ==
    ~faulty /\ cache = "open" =>
        \A p \in Prop :
            old_properties[p] = NoCall /\ properties[p] \notin {NotCached, Setting(p)} =>
                SignalUnderWay(p)

\* What an application has set it reads back until the daemon has answered: no
\* signal of an earlier value, its own or another client's, comes between.  (A
\* removal may, and the property is then asked for again.)
OwnSetHolds ==
    [][\A p \in Prop :
          Dispatch /\ old_properties[p] # NoCall /\ old_properties'[p] # NoCall =>
              properties'[p] \in {properties[p], NotCached}]_vars

\* Once applications make no more calls, the cache comes to show what the
\* daemon has.
QuietIsCurrent ==
    <>[][~App]_vars =>
        <>[](~faulty /\ cache = "open" => \A p \in Prop : properties[p] \in {NotCached, Setting(p)})

\* No operation blocks for ever, nor does the end of the cache, not even if the
\* daemon dies or a call times out: there is always an answer to wait for.
NothingBlocksForEver ==
    /\ waiting # None ~> waiting = None
    /\ cache = "closing" ~> cache = "closed"

\* The daemon here makes the promise that the daemon's own model keeps.
Store == INSTANCE SettingsStore WITH
    Channel  <- {"channel"},
    settings <- [c \in {"channel"} |-> Settings],
    queue    <- [i \in DOMAIN queue |-> <<"channel", queue[i]>>],
    told     <- [c \in {"channel"} |-> told]

DaemonIsSettingsStore == Store!SettingsSpec

\* Whoever listens is called whenever a value replaces another in the cache
\* ("reset it to the old value and send a prop changed signal to the channel").
ReplacedIsTold ==
    [][\A p \in Watched :
          cache = "open" /\ properties[p] # NotCached
              /\ properties'[p] \notin {properties[p], NotCached} =>
          listeners'[p] = properties'[p]]_vars

=============================================================================
