--------------------------- MODULE BlconfChannel ----------------------------
(***************************************************************************)
(* The channel objects of a client, and the start and stop of the library. *)
(*                                                                         *)
(* A channel shows the properties below its property_base under shorter    *)
(* names.  Its cache is taken as a map that the program, or the daemon,    *)
(* may change: BlconfCache says how.  A path is a sequence of pieces that  *)
(* spell it, so that "/a" is a prefix of "/ab" as it is of "/a/b".         *)
(* blconf_property_is_valid takes no name that ends in "/".                *)
(***************************************************************************)
EXTENDS SequencesExt, Integers

CONSTANTS
    Chan,           \* channel objects a program may create, all of one channel
    PropertyBase,   \* PropertyBase[c]: the property_base; <<>> for none
    IsSingleton,    \* IsSingleton[c]: made by blconf_channel_get
    Piece,          \* what names are spelled with
    Path,           \* full names of properties
    Val,            \* values
    Array,          \* those that are arrays
    Unset,          \* no value
    MaxInit         \* bound: calls of blconf_init not yet shut down

VARIABLES
    blconf_refcnt,  \* how often the library has been initialised
    chan,           \* each channel object: "none" yet, "live" or "gone"
    cache,          \* what the cache of a channel holds
    silent          \* properties whose last change in a cache it did not emit

chanVars == <<blconf_refcnt, chan, cache, silent>>

ASSUME ChannelAssumption ==
    /\ PropertyBase \in [Chan -> Seq(Piece)]
    /\ Path \subseteq Seq(Piece) /\ \A p \in Path : p # <<>> /\ Last(p) # "/"
    /\ IsSingleton \in [Chan -> BOOLEAN]
    /\ Unset \notin Val /\ Array \subseteq Val /\ MaxInit \in Nat \ {0}

RealProp(c, property) == PropertyBase[c] \o property

\* Faulty: the name is passed on as it came.
RelayedWhole(c, path) ==
    IF ~IsPrefix(PropertyBase[c], path) THEN <<>> ELSE path

\* blconf_channel_property_changed: the name a change is passed on under, <<>>
\* if it is not passed on.  The base itself has the name "/".
Relayed(c, path) ==
    IF ~IsPrefix(PropertyBase[c], path) THEN <<>>
    ELSE IF path = PropertyBase[c] THEN <<"/">>
    ELSE SubSeq(path, Len(PropertyBase[c]) + 1, Len(path))

Live(c) == chan[c] = "live"
Value(c, property) == cache[c][RealProp(c, property)]

-----------------------------------------------------------------------------
BlconfInit ==
    /\ blconf_refcnt < MaxInit
    /\ blconf_refcnt' = blconf_refcnt + 1
    /\ UNCHANGED <<chan, cache, silent>>

\* blconf_channel_constructor: a new object prefetches what is below its base.
\* A singleton that is there already is returned as it is.
Constructor(c) ==
    /\ blconf_refcnt > 0 /\ chan[c] = "none"
    /\ chan' = [chan EXCEPT ![c] = "live"]
    /\ \E stored \in [{p \in Path : IsPrefix(PropertyBase[c], p)} -> Val \cup {Unset}] :
          cache' = [cache EXCEPT ![c] =
                       [p \in Path |-> IF p \in DOMAIN stored THEN stored[p] ELSE cache[c][p]]]
    /\ UNCHANGED <<blconf_refcnt, silent>>

\* blconf_channel_dispose and finalize: the cache goes with the channel.
Dispose(S) ==
    /\ chan' = [c \in Chan |-> IF c \in S THEN "gone" ELSE chan[c]]
    /\ cache' = [c \in Chan |-> IF c \in S THEN [p \in Path |-> Unset] ELSE cache[c]]
    /\ silent' = {cp \in silent : cp[1] \notin S}

\* The last reference of a channel that is not a singleton.
Unref(c) ==
    /\ Live(c) /\ ~IsSingleton[c]
    /\ Dispose({c})
    /\ UNCHANGED blconf_refcnt

Singletons == {c \in Chan : Live(c) /\ IsSingleton[c]}

\* blconf_shutdown: only the call that matches the first blconf_init counts.
\* The library owns the singletons' only reference.
BlconfShutdown ==
    /\ blconf_refcnt > 0
    /\ blconf_refcnt' = blconf_refcnt - 1
    /\ IF blconf_refcnt > 1 THEN UNCHANGED <<chan, cache, silent>> ELSE Dispose(Singletons)

-----------------------------------------------------------------------------
(* The cache.                                                              *)

\* _blconf_gvalue_is_equal: an array never equals anything.
Equal(v, w) == v = w /\ v \notin Array

\* An item is changed, and the cache emits "property-changed".
Store(c, path, v) ==
    /\ cache' = [cache EXCEPT ![c][path] = v]
    /\ silent' = silent \ {<<c, path>>}

\* An item is changed, and nobody is told.
StoreSilently(c, path, v) ==
    /\ cache' = [cache EXCEPT ![c][path] = v]
    /\ silent' = silent \cup {<<c, path>>}

\* blconf_cache_lookup: what is not cached is fetched from the daemon, which
\* may have no value, or give no answer.
Lookup(c, path, v) ==
    \/ v = cache[c][path] /\ UNCHANGED <<cache, silent>>
    \/ cache[c][path] = Unset /\ v \in Val /\ StoreSilently(c, path, v)

\* Faulty: a value that the cache holds already is set once more.
CacheSetAlways(c, path, v, changed) == changed /\ Store(c, path, v)

(***************************************************************************)
(* blconf_cache_set, and whether it emits.  What is not cached is looked   *)
(* up first; if the daemon does not answer, nothing is set.                *)
(***************************************************************************)
CacheSet(c, path, v, changed) ==
    \/ /\ changed /\ ~Equal(cache[c][path], v) /\ Store(c, path, v)
    \/ /\ ~changed
       /\ \/ cache[c][path] = Unset /\ UNCHANGED <<cache, silent>>
          \/ Equal(v, v) /\ Lookup(c, path, v)

\* blconf_cache_set_property_reply_handler, of a set that the daemon refused:
\* the old item is back, or there is none.  The emission names a detail that
\* the signal does not support, so GLib calls nobody.
SetFails(c, path, v) ==
    /\ cache[c][path] \notin {v, Unset}
    /\ StoreSilently(c, path, v)

\* blconf_cache_reset: the property is evicted and, if recursive, all that are
\* below it.
Evict(c, S) ==
    /\ cache' = [cache EXCEPT ![c] = [p \in Path |-> IF p \in S THEN Unset ELSE @[p]]]
    /\ silent' = silent \cup {<<c, p>> : p \in {q \in S : cache[c][q] # Unset}}

=============================================================================
