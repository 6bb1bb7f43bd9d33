---------------------------- MODULE MCProviderApi ----------------------------
(* Clients and workloads for ProviderApi. *)
EXTENDS ProviderApi, TLC

Password == "postgres.password"
MCIntents == {Password, GatewaySigningIntent, "unheard-of"}
MCKnownIntents == {Password, GatewaySigningIntent}

Grant(action, ws, intents) == [action |-> action, ws |-> ws, intents |-> intents]

\* An operator with wildcards, a delivery client for one intent of one
\* workspace, and a client that may rotate one intent only.
MCCredentials ==
    <<[subject |-> "operator", token |-> "t-op",
       grants |-> {Grant(a, "*", {"*"}) :
                     a \in {Action(op) : op \in Ops} \ {"secret.resolve"}}],
      [subject |-> "delivery", token |-> "t-del",
       grants |-> {Grant("secret.resolve", "w1", {Password})}],
      [subject |-> "rotator", token |-> "t-rot",
       grants |-> {Grant("secret.rotate", "w1", {Password, "unheard-of"})}]>>

Plain ==
    [op |-> "metadata", ws |-> "w1", secret |-> "s1", intent |-> Password,
     expected |-> None, value |-> None, wellLabelled |-> TRUE, caller |-> "alice", corr |-> "k1",
     version |-> None, number |-> 0, purpose |-> None, issuer |-> None,
     reference |-> None]

Call(token, ask) ==
    [token |-> token, ask |-> ask, labelsAgree |-> TRUE, decodes |-> TRUE,
     wellNamed |-> TRUE]

Create == Call("t-op", [Plain EXCEPT !.op = "create", !.value = "old"])
Rotate == Call("t-rot", [Plain EXCEPT !.op = "rotate", !.value = "new"])
Resolve == Call("t-del", [Plain EXCEPT !.op = "resolve"])
Revoke == Call("t-op", [Plain EXCEPT !.op = "revoke"])
RevokeVersion(v) ==
    Call("t-op", [Plain EXCEPT !.op = "revoke-version", !.version = v, !.number = 1])
Generate ==
    Call("t-op", [Plain EXCEPT !.op = "generate", !.purpose = "gateway-probe",
                               !.issuer = "hub", !.reference = "ref1"])
Metadata1 == Call("t-op", Plain)

Core == {Create, Rotate, Resolve, Revoke}
Versioned == {RevokeVersion(v) : v \in VersionIds}

\* One request for every early return of every kind of handler, and one that
\* the store refuses.
Refused ==
    {[Create EXCEPT !.token = None], [Create EXCEPT !.ask.intent = "unheard-of"],
     [Rotate EXCEPT !.ask.ws = "w2"], [Rotate EXCEPT !.labelsAgree = FALSE],
     [Create EXCEPT !.decodes = FALSE], [Create EXCEPT !.ask.wellLabelled = FALSE],
     [Generate EXCEPT !.token = "unknown"], [Generate EXCEPT !.wellNamed = FALSE],
     [Generate EXCEPT !.token = "t-rot"],
     [Resolve EXCEPT !.token = "unknown"], [Resolve EXCEPT !.token = "non-ascii"],
     [Resolve EXCEPT !.ask.intent = "unheard-of"],
     [Resolve EXCEPT !.ask.ws = "w2"],
     [Revoke EXCEPT !.token = None], [Metadata1 EXCEPT !.token = "t-rot"]}

\* A reference of another intent, which the delivery client may not use.
OtherIntent ==
    {[Create EXCEPT !.ask.intent = GatewaySigningIntent],
     [Rotate EXCEPT !.token = "t-op", !.ask.intent = GatewaySigningIntent]}

\* What a use may be pinned by, and what takes its version away.
RevocationRequests == {Create, Resolve, Revoke} \cup Versioned

EffectRequests == Core \cup Versioned \cup OtherIntent
RefusalRequests == Core \cup Refused \cup {Generate, Metadata1}

MCRequests == {StoreRequest(a) : a \in EffectRequests \cup RefusalRequests}

SafetySymmetry ==
    Permutations(Calls) \cup Permutations(VersionIds) \cup Permutations(KeyPairs)
=============================================================================
