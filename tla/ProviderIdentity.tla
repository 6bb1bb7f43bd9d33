-------------------------- MODULE ProviderIdentity --------------------------
(***************************************************************************)
(* Abstract: what admission promises about one database path.  An identity *)
(* (a provider with its master key) is chosen for it at most once, and only*)
(* starts of that identity ever serve it.                                  *)
(***************************************************************************)
CONSTANTS Starts, Identities, Identity, None, Foreign

VARIABLES
    chosen,     \* the identity of the database
    serving     \* the starts whose application is being served

Init ==
    /\ chosen \in Identities \cup {None, Foreign}
    /\ serving = {}

Choose(s) == chosen = None /\ chosen' = Identity[s] /\ UNCHANGED serving

Serve(s) == chosen = Identity[s] /\ serving' = serving \cup {s} /\ UNCHANGED chosen

Stop(s) == serving' = serving \ {s} /\ UNCHANGED chosen

Next == \E s \in Starts : Choose(s) \/ Serve(s) \/ Stop(s)

Spec == Init /\ [][Next]_<<chosen, serving>>
=============================================================================
