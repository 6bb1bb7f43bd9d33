---------------------------- MODULE MCSecretStore ----------------------------
(* Workloads for SecretStore. *)
EXTENDS SecretStore, TLC

MCIntents == {"postgres.password", GatewaySigningIntent,
              "workload.node-control-signing-key"}

Base ==
    [op |-> "metadata", ws |-> "w1", secret |-> "s1", intent |-> "postgres.password",
     expected |-> None, value |-> None, wellLabelled |-> TRUE, caller |-> "alice", corr |-> "k1",
     version |-> None, number |-> 0, purpose |-> None, issuer |-> None,
     reference |-> None]

Create == [Base EXCEPT !.op = "create", !.value = "old"]
Rotate == [Base EXCEPT !.op = "rotate", !.value = "new", !.expected = "postgres.password"]

\* A rotation under another intent, as a handler asks for it, and with
\* rotate_secret's own default, which compares nothing.
RotateToSigning ==
    [Rotate EXCEPT !.intent = GatewaySigningIntent, !.expected = GatewaySigningIntent]
RotateUnasked(intent) == [Rotate EXCEPT !.intent = intent, !.expected = None]

Resolve == [Base EXCEPT !.op = "resolve"]
Revoke == [Base EXCEPT !.op = "revoke"]
RevokeVersion(v, n) ==
    [Base EXCEPT !.op = "revoke-version", !.version = v, !.number = n]
Generate ==
    [Base EXCEPT !.op = "generate", !.intent = GatewaySigningIntent,
                 !.purpose = "gateway-probe", !.issuer = "hub", !.reference = "ref1"]

\* Uploads, rotations, revocations and pinned resolution of one reference.
ResolutionRequests ==
    {Create, [Create EXCEPT !.wellLabelled = FALSE],
     Rotate, RotateToSigning, RotateUnasked(GatewaySigningIntent),
     [Rotate EXCEPT !.wellLabelled = FALSE],
     Resolve, [Resolve EXCEPT !.corr = "k2"],
     [Resolve EXCEPT !.intent = GatewaySigningIntent],
     [Resolve EXCEPT !.caller = "bob"],
     Revoke}
    \cup {[Resolve EXCEPT !.version = v] : v \in VersionIds}
    \cup {RevokeVersion(v, n) : v \in VersionIds, n \in 1..2}
    \cup {[RevokeVersion(v, 1) EXCEPT !.corr = "k2"] : v \in VersionIds}

\* Generation, its exact retries and its changed retries.
GenerationRequests ==
    {Generate, [Generate EXCEPT !.corr = "k2"],
     [Generate EXCEPT !.caller = "bob"],
     [Generate EXCEPT !.reference = "ref2"],
     [Generate EXCEPT !.issuer = "edge"],
     [Generate EXCEPT !.purpose = "workload-node-control-surface-read"],
     [Generate EXCEPT !.purpose = "workload-node-control"],
     [Generate EXCEPT !.secret = "s2"],
     [Generate EXCEPT !.secret = "s2", !.corr = "k2"],
     [Generate EXCEPT !.wellLabelled = FALSE],
     RotateToSigning, Create, Revoke}
    \cup {RevokeVersion(v, 1) : v \in VersionIds}

\* Every operation, on rows whose bytes may be altered, and the same correlation
\* in two workspaces and on two references.
DamageRequests ==
    {Rotate, RotateUnasked(None), Generate, Base, [Base EXCEPT !.op = "resolve-unpinned"]}
    \cup {[q EXCEPT !.ws = w, !.secret = s] :
             q \in {Create, Resolve, Revoke}, w \in Workspaces, s \in SecretIds}
    \cup {[RevokeVersion(v, 1) EXCEPT !.secret = s] : v \in VersionIds, s \in SecretIds}
    \cup {[Base EXCEPT !.version = v] : v \in VersionIds}

SafetySymmetry ==
    Permutations(Calls) \cup Permutations(VersionIds) \cup Permutations(KeyPairs)
=============================================================================
