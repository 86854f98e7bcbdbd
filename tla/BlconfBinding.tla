--------------------------- MODULE BlconfBinding ----------------------------
(***************************************************************************)
(* Bindings of object properties to channel properties.                    *)
(*                                                                         *)
(* All of it runs in one thread, but each change calls handlers, whose     *)
(* changes call further handlers before they return: the stack holds the   *)
(* calls in progress.  An emission calls the handlers that were connected  *)
(* when it began, except those disconnected or blocked by the time their   *)
(* turn comes; their order is left open.  A handler's data is destroyed    *)
(* once the handler is disconnected and no call of it is in progress.      *)
(***************************************************************************)
EXTENDS BlconfChannel

CONSTANTS
    Binding,        \* ids of bindings
    Obj,            \* objects, each with the one property that is bound
    Bindable,       \* Bindable[b]: what b may bind, a channel's property and an object
    ObjVal,         \* ObjVal[o]: values the object's property takes
    Default,        \* Default[o]: of the object property's GParamSpec
    Boxed,          \* objects whose property is of a boxed type
    ToObject,       \* ToObject[o][v]: g_value_transform to the object's type
    ToChannel,      \* ToChannel[o][x]: g_value_transform to the channel's type
    Fail,           \* g_value_transform does not know the type
    Gone            \* an object that was finalized

ASSUME BindingAssumption ==
    /\ \A b \in Binding :
          /\ Bindable[b] \subseteq [channel : Chan, blconf_property : Seq(Piece) \ {<<>>}, object : Obj]
          /\ \A d \in Bindable[b] : RealProp(d.channel, d.blconf_property) \in Path
          /\ Gone \notin Bindable[b]
    /\ Default \in [Obj -> UNION {ObjVal[o] : o \in Obj}]
    /\ \A o \in Obj : /\ Default[o] \in ObjVal[o] /\ Gone \notin ObjVal[o] /\ Fail \notin ObjVal[o]
                      /\ ToObject[o] \in [Val -> ObjVal[o] \cup {Fail}]
                      /\ ToChannel[o] \in [ObjVal[o] -> Val]

(***************************************************************************)
(* What some theorems suppose of a program: an object with a value that    *)
(* the cache can not tell from what the channel has is bound once at most, *)
(* an object's value survives the way to the channel and back, and the     *)
(* defaults are all the same value.                                        *)
(***************************************************************************)
Exact(o) == \A v \in Val : ToObject[o][v] # Fail => Equal(ToChannel[o][ToObject[o][v]], v)
InexactBoundOnce ==
    \A b, d \in Binding : b # d =>
        \A x \in Bindable[b], y \in Bindable[d] : x.object = y.object => Exact(x.object)
RoundTrip == \A o \in Obj : \A x \in ObjVal[o] : ToObject[o][ToChannel[o][x]] \in {x, Fail}
OneDefault == \A o, p \in Obj \ Boxed : ToChannel[o][Default[o]] = ToChannel[p][Default[p]]

VARIABLES
    object,         \* the objects' property values
    bindings,       \* the BlconfGBinding of each id; Gone if there is none
    listed,         \* __bindings
    object_handler, \* bindings whose "notify" handler is connected
    channel_handler,\* bindings whose "property-changed" handler is connected
    object_block,   \* how often that handler is blocked
    channel_block,
    stack           \* calls in progress, the innermost one first

bindVars == <<bindings, listed, object_handler, channel_handler>>
blocks == <<object_block, channel_block>>
vars == <<chanVars, object, bindVars, blocks, stack>>

MainLoop == stack = <<>>
Unbound == {b \in Binding : bindings[b] = Gone}
Running(fn) == {stack[i].b : i \in {j \in DOMAIN stack : stack[j].fn = fn}}

\* Calls in progress: an emission, with the handlers it has still to call, or
\* a handler of a binding.
Emission(c, name, v, todo) == [fn |-> "property-changed", c |-> c, name |-> name, v |-> v, todo |-> todo]
Notify(o) == [fn |-> "notify", o |-> o, todo |-> {b \in object_handler : bindings[b].object = o}]
Handler(fn, b) == [fn |-> fn, b |-> b]

In(fn) == stack # <<>> /\ Head(stack).fn = fn

\* g_signal_emit of "property-changed" with the relayed name as detail.
Emit(c, path, v) ==
    LET name == Relayed(c, path)
    IN  Emission(c, name, v, {b \in channel_handler :
            bindings[b].channel = c /\ bindings[b].blconf_property = name})

-----------------------------------------------------------------------------
(* The two handlers.                                                       *)

SkipHandler(b) == stack' = <<[Head(stack) EXCEPT !.todo = @ \ {b}]>> \o Tail(stack)
CallHandler(b, frames) ==
    stack' = frames \o <<[Head(stack) EXCEPT !.todo = @ \ {b}]>> \o Tail(stack)

(***************************************************************************)
(* blconf_g_property_object_notify: the object's value, as it is by now,   *)
(* is set on the channel, whose cache emits "property-changed" if that     *)
(* changes it.                                                             *)
(***************************************************************************)
ObjectNotify(b) ==
    LET bd == bindings[b]
        path == RealProp(bd.channel, bd.blconf_property)
        dst_val == ToChannel[bd.object][object[bd.object]]
    IN  /\ In("notify") /\ b \in Head(stack).todo
        /\ UNCHANGED <<blconf_refcnt, chan, object, bindVars, object_block>>
        /\ IF b \notin object_handler \/ object_block[b] > 0
           THEN SkipHandler(b) /\ UNCHANGED <<cache, silent, channel_block>>
           ELSE /\ channel_block' = [channel_block EXCEPT ![b] = @ + 1]
                /\ \E changed \in BOOLEAN :
                      /\ CacheSet(bd.channel, path, dst_val, changed)
                      /\ CallHandler(b, (IF changed THEN <<Emit(bd.channel, path, dst_val)>> ELSE <<>>)
                                            \o <<Handler("object_notify", b)>>)

\* What channel_notify sets the object to; Fail: it returns before that.
NewObjectValue(o, v) ==
    IF v # Unset THEN ToObject[o][v] ELSE IF o \in Boxed THEN Fail ELSE Default[o]

\* Faulty: the object's handler is not blocked meanwhile.
ChannelNotifyUnblocked(b) ==
    LET o == bindings[b].object
        dst_val == NewObjectValue(o, Head(stack).v)
    IN  /\ In("property-changed") /\ b \in Head(stack).todo
        /\ UNCHANGED <<chanVars, bindVars, blocks>>
        /\ IF b \notin channel_handler \/ channel_block[b] > 0 \/ dst_val = Fail
           THEN SkipHandler(b) /\ UNCHANGED object
           ELSE /\ object' = [object EXCEPT ![o] = dst_val]
                /\ CallHandler(b, <<Notify(o)>>)

(***************************************************************************)
(* blconf_g_property_channel_notify: the object is set to the new value,   *)
(* or to its default when the value is gone, with its handler blocked.     *)
(***************************************************************************)
ChannelNotify(b) ==
    LET o == bindings[b].object
        dst_val == NewObjectValue(o, Head(stack).v)
    IN  /\ In("property-changed") /\ b \in Head(stack).todo
        /\ UNCHANGED <<chanVars, bindVars, channel_block>>
        /\ IF b \notin channel_handler \/ channel_block[b] > 0 \/ dst_val = Fail
           THEN SkipHandler(b) /\ UNCHANGED <<object, object_block>>
           ELSE /\ object_block' = [object_block EXCEPT ![b] = @ + 1]
                /\ object' = [object EXCEPT ![o] = dst_val]
                /\ CallHandler(b, <<Notify(o), Handler("channel_notify", b)>>)

Emitted ==
    /\ stack # <<>> /\ Head(stack).fn \in {"notify", "property-changed"} /\ Head(stack).todo = {}
    /\ stack' = Tail(stack)
    /\ UNCHANGED <<chanVars, object, bindVars, blocks>>

\* Faulty: the handler stays blocked when the object was set.
ChannelNotifyReturnsBlocked ==
    /\ In("channel_notify")
    /\ stack' = Tail(stack)
    /\ UNCHANGED <<chanVars, object, bindVars, blocks>>

ChannelNotifyReturns ==
    /\ In("channel_notify")
    /\ object_block' = [object_block EXCEPT ![Head(stack).b] = @ - 1]
    /\ stack' = Tail(stack)
    /\ UNCHANGED <<chanVars, object, bindVars, channel_block>>

-----------------------------------------------------------------------------
(* The end of bindings.                                                    *)

\* Faulty: the binding stays in the list.
ObjectDisconnectListed(S) ==
    /\ object_handler' = object_handler \ S
    /\ channel_handler' = channel_handler \ S
    /\ UNCHANGED listed
    /\ bindings' = [b \in Binding |-> IF b \in S THEN Gone ELSE bindings[b]]

(***************************************************************************)
(* blconf_g_property_object_disconnect, the destruction of the data of the *)
(* object handlers in S: the binding leaves the list, the channel handler  *)
(* is disconnected, and the binding freed.                                 *)
(***************************************************************************)
ObjectDisconnect(S) ==
    /\ object_handler' = object_handler \ S
    /\ channel_handler' = channel_handler \ S
    /\ listed' = listed \ S
    /\ bindings' = [b \in Binding |-> IF b \in S THEN Gone ELSE bindings[b]]

\* Faulty: only the binding's channel is forgotten.
ChannelDisconnectOnly(S) ==
    /\ channel_handler' = channel_handler \ S
    /\ UNCHANGED <<object_handler, listed, bindings>>

\* blconf_g_property_channel_disconnect, of the channel handlers in S: it
\* leaves the rest to the object handler's disconnection.
ChannelDisconnect(S) == ObjectDisconnect(S)

\* A binding that was unbound while this call was in progress ends with it.
ObjectNotifyReturns ==
    /\ In("object_notify")
    /\ channel_block' = [channel_block EXCEPT ![Head(stack).b] = @ - 1]
    /\ stack' = Tail(stack)
    /\ IF Head(stack).b \in object_handler \cup Running("object_notify")'
       THEN UNCHANGED bindVars ELSE ObjectDisconnect({Head(stack).b})
    /\ UNCHANGED <<chanVars, object, object_block>>

(***************************************************************************)
(* blconf_g_property_unbind and _unbind_by_property, by the main loop or   *)
(* by a handler of the program's that an emission calls.  That handler may *)
(* not unbind a binding that is just setting its object: its data would be *)
(* freed under channel_notify.                                             *)
(***************************************************************************)
Unbind(b) ==
    /\ MainLoop \/ In("notify") \/ In("property-changed")
    /\ b \in listed \cap object_handler /\ b \notin Running("channel_notify")
    /\ IF b \in Running("object_notify")
       THEN object_handler' = object_handler \ {b} /\ UNCHANGED <<bindings, listed, channel_handler>>
       ELSE ObjectDisconnect({b})
    /\ UNCHANGED <<chanVars, object, blocks, stack>>

OfChannel(S) == {b \in channel_handler : bindings[b].channel \in S}
OfObject(o) == {b \in object_handler : bindings[b].object = o}

\* blconf_g_property_unbind_all, for a channel or for an object.
UnbindAll ==
    /\ MainLoop
    /\ \/ \E c \in Chan : OfChannel({c}) # {} /\ ChannelDisconnect(OfChannel({c}))
       \/ \E o \in Obj : OfObject(o) # {} /\ ObjectDisconnect(OfObject(o))
    /\ UNCHANGED <<chanVars, object, blocks, stack>>

\* A channel's last reference goes, and its handlers are disconnected.
FinalizeChannel(c) ==
    /\ MainLoop /\ Unref(c)
    /\ ChannelDisconnect(OfChannel({c}))
    /\ UNCHANGED <<object, blocks, stack>>

FinalizeObject(o) ==
    /\ MainLoop /\ object[o] # Gone
    /\ object' = [object EXCEPT ![o] = Gone]
    /\ ObjectDisconnect(OfObject(o))
    /\ UNCHANGED <<chanVars, blocks, stack>>

\* blconf_shutdown: _blconf_channel_shutdown ends the singletons and with them
\* their bindings; _blconf_g_bindings_shutdown ends what is still listed.
Shutdown ==
    /\ MainLoop /\ BlconfShutdown
    /\ IF blconf_refcnt > 1 THEN UNCHANGED bindVars
       ELSE ObjectDisconnect(OfChannel(Singletons) \cup listed)
    /\ UNCHANGED <<object, blocks, stack>>

-----------------------------------------------------------------------------
(* The program and the daemon.                                             *)

InitLibrary == MainLoop /\ BlconfInit /\ UNCHANGED <<object, bindVars, blocks, stack>>

NewChannel(c) == MainLoop /\ Constructor(c) /\ UNCHANGED <<object, bindVars, blocks, stack>>

\* Faulty: a new binding leaves the object as it is.
TransferNothing(b, o, v) ==
    UNCHANGED <<object, object_block>> /\ stack' = <<Handler("init", b)>>

\* The channel's value goes to the object first, as in channel_notify.
Transfer(b, o, v) ==
    IF v = Unset \/ NewObjectValue(o, v) = Fail
    THEN UNCHANGED <<object, object_block>> /\ stack' = <<Handler("init", b)>>
    ELSE /\ object' = [object EXCEPT ![o] = NewObjectValue(o, v)]
         /\ object_block' = [object_block EXCEPT ![b] = @ + 1]
         /\ stack' = <<Notify(o), Handler("channel_notify", b), Handler("init", b)>>

(***************************************************************************)
(* blconf_g_property_bind: the object's handler is connected, the value    *)
(* looked up and transferred, and then the channel's handler connected.    *)
(***************************************************************************)
Bind(b, bd) ==
    /\ MainLoop /\ b \in Unbound /\ Live(bd.channel) /\ object[bd.object] # Gone /\ blconf_refcnt > 0
    /\ bindings' = [bindings EXCEPT ![b] = bd]
    /\ object_handler' = object_handler \cup {b}
    /\ \E v \in Val \cup {Unset} :
          /\ Lookup(bd.channel, RealProp(bd.channel, bd.blconf_property), v)
          /\ Transfer(b, bd.object, v)
    /\ UNCHANGED <<blconf_refcnt, chan, listed, channel_handler, channel_block>>

BindReturns ==
    /\ In("init")
    /\ channel_handler' = channel_handler \cup {Head(stack).b}
    /\ listed' = listed \cup {Head(stack).b}
    /\ stack' = Tail(stack)
    /\ UNCHANGED <<chanVars, object, bindings, object_handler, blocks>>

\* g_object_set_property by the program.
ObjectSet(o, x) ==
    /\ MainLoop /\ object[o] # Gone
    /\ object' = [object EXCEPT ![o] = x]
    /\ stack' = <<Notify(o)>>
    /\ UNCHANGED <<chanVars, bindVars, blocks>>

\* A change that the cache emits: a set by the program through this channel, or
\* what the daemon says (v = Unset for a property that was removed).
CacheChanges(c, path, v) ==
    /\ MainLoop /\ Live(c) /\ IsPrefix(PropertyBase[c], path)
    /\ v = Unset \/ ~Equal(cache[c][path], v)
    /\ Store(c, path, v)
    /\ stack' = <<Emit(c, path, v)>>
    /\ UNCHANGED <<blconf_refcnt, chan, object, bindVars, blocks>>

\* Changes that it does not emit: the program reads a property, or sets it to
\* what the daemon turns out to have, a set is refused, properties are reset.
CacheIsSilent(c) ==
    /\ MainLoop /\ Live(c)
    /\ LET shown == {p \in Path : IsPrefix(PropertyBase[c], p)}
       IN  \/ \E p \in shown, v \in Val : Lookup(c, p, v)
           \/ \E p \in shown, v \in Val \cup {Unset} : SetFails(c, p, v)
           \/ \E S \in SUBSET shown : Evict(c, S)
    /\ UNCHANGED <<blconf_refcnt, chan, object, bindVars, blocks, stack>>

Init ==
    /\ blconf_refcnt = 0 /\ chan = [c \in Chan |-> "none"]
    /\ cache = [c \in Chan |-> [p \in Path |-> Unset]] /\ silent = {}
    /\ object = Default
    /\ bindings = [b \in Binding |-> Gone] /\ listed = {}
    /\ object_handler = {} /\ channel_handler = {}
    /\ object_block = [b \in Binding |-> 0] /\ channel_block = [b \in Binding |-> 0]
    /\ stack = <<>>

Return == Emitted \/ ObjectNotifyReturns \/ ChannelNotifyReturns \/ BindReturns

Call == \E b \in Binding : ObjectNotify(b) \/ ChannelNotify(b)

Program ==
    \/ InitLibrary \/ Shutdown \/ UnbindAll
    \/ \E c \in Chan : NewChannel(c) \/ FinalizeChannel(c)
    \/ \E o \in Obj : FinalizeObject(o) \/ \E x \in ObjVal[o] : ObjectSet(o, x)
    \/ \E b \in Binding : Unbind(b) \/ \E bd \in Bindable[b] : Bind(b, bd)

Cache ==
    \E c \in Chan : CacheIsSilent(c) \/ \E path \in Path, v \in Val \cup {Unset} : CacheChanges(c, path, v)

Next == Call \/ Return \/ Program \/ Cache

Spec == Init /\ [][Next]_vars

-----------------------------------------------------------------------------
(* Properties.                                                             *)

Bound == channel_handler \cap object_handler

TypeOK ==
    /\ blconf_refcnt \in 0..MaxInit
    /\ chan \in [Chan -> {"none", "live", "gone"}]
    /\ cache \in [Chan -> [Path -> Val \cup {Unset}]] /\ silent \subseteq Chan \X Path
    /\ \A o \in Obj : object[o] \in ObjVal[o] \cup {Gone}
    /\ listed \cup object_handler \cup channel_handler \subseteq Binding
    /\ object_block \in [Binding -> 0..2] /\ channel_block \in [Binding -> 0..2]

\* When no call is in progress, an object shows what its channel says: after a
\* change on either side, and whatever other bindings the object, the channel
\* property or the change that came first had ("if the property is changed via
\* either the GObject or Blconf, the corresponding property will also be
\* updated", blconf_g_property_bind).  A property without a value, or of a type
\* that cannot be converted, says nothing.  One whose item the cache changed
\* last without an emission is not compared: after a refused set, a lookup or a
\* reset the object keeps what it had until the next emission.
BoundAgree ==
    MainLoop => \A b \in Bound :
        LET bd == bindings[b]  v == Value(bd.channel, bd.blconf_property)
        IN  <<bd.channel, RealProp(bd.channel, bd.blconf_property)>> \notin silent =>
            (v # Unset /\ ToObject[bd.object][v] # Fail => object[bd.object] = ToObject[bd.object][v])

\* A binding lives or is gone as a whole: its two handlers, its place in the
\* list and its data come and go together, on a live channel and object, with
\* nothing left blocked; none survives the library's shutdown.
BindingsAreWhole ==
    MainLoop =>
        /\ listed = object_handler /\ listed = channel_handler
        /\ \A b \in Binding : (bindings[b] # Gone) = (b \in listed)
        /\ \A b \in listed : Live(bindings[b].channel) /\ object[bindings[b].object] # Gone
        /\ \A b \in Binding : object_block[b] = 0 /\ channel_block[b] = 0
        /\ blconf_refcnt = 0 => listed = {}

\* A binding never answers a new value of the channel by setting another one:
\* while the value is passed on to whatever is bound to it, it stays.
NoEcho ==
    [][stack # <<>> /\ Last(stack).fn = "property-changed" =>
        LET e == Last(stack) IN
        Live(e.c) /\ e.v # Unset =>
            \A p \in Path : Relayed(e.c, p) = e.name => cache'[e.c][p] = cache[e.c][p]]_vars

\* Handlers that call handlers come to an end: a binding's handler is called at
\* most once more from within itself.  So it is where an object that does not
\* give back the value it was set to, or takes arrays, which compare unequal to
\* themselves, is bound once (InexactBoundOnce).  Bound twice such an object is
\* set for ever, and blconf_g_property_bind does not refuse that.
NestingEnds ==
    \A b \in Binding, fn \in {"object_notify", "channel_notify"} :
        Cardinality({i \in DOMAIN stack : stack[i] = Handler(fn, b)}) <= 2

=============================================================================
