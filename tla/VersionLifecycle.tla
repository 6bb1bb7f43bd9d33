--------------------------- MODULE VersionLifecycle ---------------------------
(***************************************************************************)
(* What the store promises, free of tables, ciphertexts and calls: a       *)
(* version is issued once, retired for good, and delivered under a key (a  *)
(* workspace and a correlation) only while it is active; a key is pinned   *)
(* to the first version delivered under it.                                *)
(***************************************************************************)
EXTENDS Naturals

CONSTANTS Versions, Keys

VARIABLES
    state,      \* where each version is in its life
    pins,       \* the key-version pairs fixed by a first use
    delivered   \* the key-version pairs whose material left the store

vars == <<state, pins, delivered>>

States == {"absent", "active", "revoked"}

LifecycleTypeOK ==
    /\ state \in [Versions -> States]
    /\ pins \subseteq Keys \X Versions
    /\ delivered \subseteq Keys \X Versions

Init ==
    /\ state = [v \in Versions |-> "absent"]
    /\ pins = {}
    /\ delivered = {}

Active == {v \in Versions : state[v] = "active"}

Issue(v) ==
    /\ state[v] = "absent"
    /\ state' = [state EXCEPT ![v] = "active"]
    /\ UNCHANGED <<pins, delivered>>

Retire(S) ==
    /\ state' = [v \in Versions |-> IF v \in S THEN "revoked" ELSE state[v]]
    /\ UNCHANGED <<pins, delivered>>

Deliver(k, v) ==
    /\ v \in Active
    /\ \A w \in Versions : <<k, w>> \in pins => w = v
    /\ pins' = pins \cup {<<k, v>>}
    /\ delivered' = delivered \cup {<<k, v>>}
    /\ UNCHANGED state

Next ==
    \/ \E v \in Versions : Issue(v)
    \/ \E S \in SUBSET Active : Retire(S)
    \/ \E k \in Keys, v \in Versions : Deliver(k, v)

Spec == Init /\ [][Next]_vars
=============================================================================
