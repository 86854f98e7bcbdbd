---------------------------- MODULE ConfigStore -----------------------------
(***************************************************************************)
(* What a configuration store promises its clients, with neither trees,    *)
(* files nor timers: each channel has current settings, and the settings   *)
(* it would come back with.  A change touches one channel and moves every  *)
(* property it touches either to the new value or to the default; a save   *)
(* takes one whole channel; only a stop or crash brings saved ones back.   *)
(***************************************************************************)
CONSTANTS
    Channel, Prop, Val, Unset,
    Default,    \* Default[c][p]: the system's setting, Unset if there is none
    Fixed,      \* pairs <<c, p>> that users may not change
    Printed     \* Printed[v]: what a value is after it was saved as text

VARIABLES
    current,    \* current[c][p]: what a client reads
    saved       \* saved[c][p]: what a restart would read

storeVars == <<current, saved>>

Rounded(v) == IF v = Unset THEN Unset ELSE Printed[v]

Put(c, p, v) ==
    /\ <<c, p>> \notin Fixed
    /\ current' = [current EXCEPT ![c][p] = v]
    /\ UNCHANGED saved

\* Some properties of a channel go back to their defaults.
Drop(c, S) ==
    /\ current' = [current EXCEPT ![c] = [p \in Prop |-> IF p \in S THEN Default[c][p] ELSE @[p]]]
    /\ UNCHANGED saved

\* The whole channel goes back to its defaults, in memory and on disk.
DropAll(c) ==
    /\ current' = [current EXCEPT ![c] = Default[c]]
    /\ saved' = [saved EXCEPT ![c] = Default[c]]

\* Its saved settings could not be removed, and are the current ones again.
Revert(c) ==
    /\ current' = [current EXCEPT ![c] = saved[c]]
    /\ UNCHANGED saved

\* Defaults are not printed, and come back as they are.
Save(c, exact) ==
    /\ saved' = [saved EXCEPT ![c] =
                    [p \in Prop |-> IF p \in exact THEN current[c][p] ELSE Rounded(current[c][p])]]
    /\ UNCHANGED current

Stop == current' = saved /\ UNCHANGED saved

StoreInit ==
    /\ current = saved
    /\ saved \in [Channel -> [Prop -> Val \cup {Unset}]]
    /\ \A c \in Channel, p \in Prop : <<c, p>> \in Fixed => saved[c][p] = Default[c][p]

StoreNext ==
    \/ \E c \in Channel :
          \/ \E p \in Prop, v \in Val : Put(c, p, v)
          \/ \E S \in SUBSET Prop : Drop(c, S) \/ Save(c, S)
          \/ DropAll(c) \/ Revert(c)
    \/ Stop

StoreSpec == StoreInit /\ [][StoreNext]_storeVars

=============================================================================
