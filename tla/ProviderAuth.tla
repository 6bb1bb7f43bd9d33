----------------------------- MODULE ProviderAuth -----------------------------
(***************************************************************************)
(* ProviderAuthorizer (src/control_plane_kit_secrets/auth.py).  The        *)
(* credentials are fixed when the application is built.                    *)
(***************************************************************************)
EXTENDS Naturals, Sequences

CONSTANTS
    Credentials,    \* sequence of [subject, token, grants]
    Unstated,       \* None: no token presented, or no intent asked about
    NonAscii,       \* the texts with characters outside ASCII
    Wildcard        \* "*"

\* ProviderGrant.permits: the wildcard stands for every workspace or intent.
Permits(grant, action, ws, intent) ==
    /\ grant.action = action
    /\ grant.ws \in {Wildcard, ws}
    /\ intent = Unstated \/ Wildcard \in grant.intents \/ intent \in grant.intents

\* compare_digest raises TypeError on text that is not ASCII.
Comparable(i, token) == {Credentials[i].token, token} \cap NonAscii = {}

\* The credentials whose comparison with the token ends the loop.
Decisive(token) ==
    {i \in DOMAIN Credentials : Comparable(i, token) => Credentials[i].token = token}

First(token) == CHOOSE i \in Decisive(token) : \A j \in Decisive(token) : i <= j

Authenticated(token) ==
    token # Unstated /\ Decisive(token) # {} /\ Comparable(First(token), token)

\* authenticate returns the first credential that matches ...
Authenticate(token) == Credentials[First(token)]

\* ... or fails with an error that no handler expects.
AuthenticateRaises(token) ==
    token # Unstated /\ Decisive(token) # {} /\ ~Comparable(First(token), token)

Require(credential, action, ws, intent) ==
    \E grant \in credential.grants : Permits(grant, action, ws, intent)
=============================================================================
