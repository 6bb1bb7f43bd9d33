----------------------------- MODULE ProviderApi -----------------------------
(***************************************************************************)
(* The HTTP handlers (src/control_plane_kit_secrets/api.py) over the store *)
(* and the audit store of one provider process.                            *)
(*                                                                         *)
(* A handler runs in a worker thread.  It checks the request, runs one     *)
(* store transaction, then appends its audit records, each in a            *)
(* transaction of its own on another connection (audit.py, append), then   *)
(* answers.  Handlers interleave between those transactions.  A transaction*)
(* may fail (a busy or full database), and the process may crash, which    *)
(* loses every request in flight and nothing committed.                    *)
(***************************************************************************)
EXTENDS SecretStore, ProviderAuth

CONSTANTS
    ApiRequests,    \* what clients may send
    KnownIntents,   \* ALLOWED_SECRET_USE_INTENTS
    MaxCrashes      \* bound: crashes of the process

VARIABLES
    at,         \* where the handler of each request is
    asked,      \* the request each handler serves
    pending,    \* audit records each handler has yet to append
    answer,     \* what each client received
    before,     \* history: the revocations answered when each request arrived
    crashes

apiVars == <<at, asked, pending, answer, before, crashes>>
allVars == <<vars, apiVars>>

\* What a client may be told: also what is never audited, was audited by the
\* store, or answers for a transaction that failed.
AnswerCodes == HandlerCodes \cup
    {"invalid-secret-material", "version-revocation-conflict", "version-revoked",
     "revocation-replayed", "generated", "generation-replayed",
     "audit-unavailable", "internal-error"}

Stages == {"idle", "store", "finish", "done", "lost"}

\* ask carries the arguments of the store operation; the flags are what the
\* handler finds when it looks at the rest of the request.
ApiRequest ==
    [token: {c.token : c \in {Credentials[i] : i \in DOMAIN Credentials}} \cup {None, "unknown"}
               \cup NonAscii,
     ask: Request,
     labelsAgree: BOOLEAN,  \* labels["intent"] is absent or equals the intent
     decodes: BOOLEAN,      \* value_base64 decodes, to at most MAX_SECRET_BYTES
     wellNamed: BOOLEAN]    \* issuer, caller and reference have their format

\* The intent of a generation comes from its purpose, never from the client.
GenerationRequest(a) ==
    IF a.ask.op = "generate" /\ a.ask.purpose \in Purposes
    THEN [a.ask EXCEPT !.intent = SigningIntent[a.ask.purpose]]
    ELSE a.ask

\* Mutant: the rotation handler leaves expected_intent to its default.
UnaskedRequest(a) == GenerationRequest(a)

\* What a handler asks of the store; a rotation expects the intent that the
\* client stated and was authorized for.
StoreRequest(a) ==
    IF a.ask.op = "rotate" THEN [a.ask EXCEPT !.expected = a.ask.intent]
    ELSE GenerationRequest(a)

ASSUME ApiAssumption ==
    /\ MaxCrashes \in Nat
    /\ Unstated = None
    /\ KnownIntents \subseteq Intents
    /\ ApiRequests \subseteq ApiRequest
    /\ \A a \in ApiRequests :
         /\ StoreRequest(a) \in Requests
         /\ a.ask.op # "resolve-unpinned"               \* no route calls resolve_secret
         /\ a.ask.op \in {"create", "rotate"} => a.ask.intent # None
         /\ a.ask.op = "generate" => a.ask.wellLabelled  \* the issuer is bounded

ApiTypeOK ==
    /\ TypeOK
    /\ at \in [Calls -> Stages]
    /\ asked \in [Calls -> Opt(ApiRequests)]
    /\ \A c \in Calls : \A p \in pending[c] :
         p.code \in HandlerCodes /\ p.version \in Opt(VersionIds) /\ p.rank \in Nat
    /\ \A c \in Calls : answer[c] # None =>
         answer[c].code \in AnswerCodes /\ answer[c].material \in Opt(Material)
    /\ before \in [Calls -> SUBSET Calls]
    /\ crashes \in 0..MaxCrashes

ApiInit ==
    /\ Init
    /\ at = [c \in Calls |-> "idle"]
    /\ asked = [c \in Calls |-> None]
    /\ pending = [c \in Calls |-> {}]
    /\ answer = [c \in Calls |-> None]
    /\ before = [c \in Calls |-> {}]
    /\ crashes = 0
-----------------------------------------------------------------------------
(* Checks before the store is touched *)

Action(op) ==
    CASE op = "create" -> "secret.write"
      [] op = "rotate" -> "secret.rotate"
      [] op = "generate" -> "secret.generate-delegation-key"
      [] op = "resolve" -> "secret.resolve"
      [] op = "metadata" -> "secret.metadata"
      [] OTHER -> "secret.revoke"

\* Revocation and metadata reads ask about no intent.
AskedIntent(a) ==
    IF a.ask.op \in {"revoke", "revoke-version", "metadata"}
    THEN None ELSE StoreRequest(a).intent

InScope(a) ==
    /\ Authenticated(a.token)
    /\ Require(Authenticate(a.token), Action(a.ask.op), a.ask.ws, AskedIntent(a))

Check(passes, code, audited) == [passes |-> passes, code |-> code, audited |-> audited]

Authentication(a) == Check(Authenticated(a.token), "unauthenticated", a.ask.op = "resolve")
Scope(a, audited) == Check(InScope(a), "insufficient-scope", audited)
IntentKnown(a) == Check(a.ask.intent \in KnownIntents, "unsupported-intent", TRUE)

\* The early returns of a handler in their order, and whether each is audited.
Checks == [a \in ApiRequests |->
    CASE a.ask.op \in {"create", "rotate"} ->
           <<Authentication(a), IntentKnown(a), Scope(a, TRUE),
             Check(a.labelsAgree, "intent-label-conflict", TRUE),
             Check(a.decodes, "invalid-secret-material", FALSE)>>
      [] a.ask.op = "generate" ->
           <<Authentication(a),
             Check(a.ask.purpose \in Purposes /\ a.wellNamed,
                   "invalid-delegation-key-generation", TRUE),
             Scope(a, TRUE)>>
      [] a.ask.op = "resolve" -> <<Authentication(a), IntentKnown(a), Scope(a, TRUE)>>
      [] OTHER -> <<Authentication(a), Scope(a, FALSE)>>]

\* The position of the check that refuses the request.
FirstFailing(a, i) ==
    /\ i \in DOMAIN Checks[a]
    /\ ~Checks[a][i].passes
    /\ \A j \in 1..(i - 1) : Checks[a][j].passes

Admitted(a) == \A i \in DOMAIN Checks[a] : Checks[a][i].passes
-----------------------------------------------------------------------------
(* Translation of store results *)

\* The code of the answer, and of the audit record where there is one.
Code(op, outcome) ==
    CASE outcome = "stored" -> "secret-stored"
      [] outcome = "rotated" -> "secret-rotated"
      [] outcome = "resolved" -> "secret-resolved"
      [] outcome = "metadata" -> "metadata-read"
      [] outcome = "revoked-all" -> "secret-revoked"
      [] outcome = "SecretRevoked" -> "secret-revoked"
      [] outcome = "SecretMissing" -> "secret-missing"
      [] outcome = "SecretAlreadyExists" -> "secret-already-exists"
      [] outcome = "SecretTampered" -> "integrity-failure"
      [] outcome = "SecretMetadataInvalid" -> "invalid-metadata"
      [] outcome = "SecretIntentMismatch" ->
           IF op = "rotate" THEN "secret-intent-conflict" ELSE "secret-intent-mismatch"
      [] outcome = "SecretResolutionConflict" -> "resolution-correlation-conflict"
      [] outcome = "SecretVersionRevocationConflict" -> "version-revocation-conflict"
      [] outcome = "DelegationKeyGenerationConflict" -> "generation-correlation-conflict"
      [] outcome = "AuditUnavailable" -> "audit-unavailable"
      [] OTHER -> outcome  \* generation and exact revocation answer 200

Rec(code, version, rank) == [code |-> code, version |-> version, rank |-> rank]

\* Mutant: whole-reference revocation audits the newest version only.
RecordsOfNewest(op, r) ==
    {Rec(Code(op, r.outcome), m.version, m.number) :
        m \in {n \in r.metas : \A o \in r.metas : o.number <= n.number}}

\* Mutant: what the store refuses is not audited.
RecordsOfSuccesses(op, r) ==
    IF r.outcome \in {"stored", "rotated", "resolved", "metadata", "revoked-all"}
    THEN {Rec(Code(op, r.outcome), m.version, m.number) : m \in r.metas}
    ELSE {}

\* The records a handler appends after its store transaction: one a version
\* for whole-reference revocation, in the order of their numbers.  Exact-version
\* revocation and successful generation were audited inside the transaction.
Records(op, r) ==
    IF op = "revoke-version" \/ r.outcome = "AuditUnavailable"
         \/ r.outcome \in {"generated", "generation-replayed"}
    THEN {}
    ELSE IF r.outcome \in Successes
    THEN {Rec(Code(op, r.outcome), m.version, m.number) : m \in r.metas}
    ELSE {Rec(Code(op, r.outcome),
              IF op \in {"resolve", "metadata"} THEN r.ask.version ELSE None, 0)}

\* The answer of a handler whose audit records are all in.
Response(c) ==
    IF Admitted(asked[c])
    THEN [code |-> Code(asked[c].ask.op, reply[c].outcome), material |-> reply[c].material]
    ELSE LET i == CHOOSE j \in DOMAIN Checks[asked[c]] : FirstFailing(asked[c], j)
         IN [code |-> Checks[asked[c]][i].code, material |-> None]
-----------------------------------------------------------------------------
(* Handler steps *)

Respond(c, code, material) ==
    /\ answer' = [answer EXCEPT ![c] = [code |-> code, material |-> material]]
    /\ at' = [at EXCEPT ![c] = "done"]
    /\ pending' = [pending EXCEPT ![c] = {}]

\* What is left of the handler is to append these records and to answer.
Finish(c, records) ==
    /\ pending' = [pending EXCEPT ![c] = records]
    /\ at' = [at EXCEPT ![c] = "finish"]
    /\ UNCHANGED answer

RefusalRecords(a, i) ==
    IF Checks[a][i].audited
    THEN {Rec(Checks[a][i].code, IF a.ask.op = "resolve" THEN a.ask.version ELSE None, 0)}
    ELSE {}

AsksRevocation(a) == a.ask.op \in {"revoke", "revoke-version"}

Receive(c, a) ==
    /\ at[c] = "idle"
    /\ asked' = [asked EXCEPT ![c] = a]
    /\ before' = [before EXCEPT ![c] = {d \in Calls : answer[d] # None /\ AsksRevocation(asked[d])}]
    /\ \/ AuthenticateRaises(a.token) /\ Respond(c, "internal-error", None)
       \/ Admitted(a) /\ at' = [at EXCEPT ![c] = "store"] /\ UNCHANGED <<pending, answer>>
       \/ /\ ~AuthenticateRaises(a.token)
          /\ \E i \in DOMAIN Checks[a] :
               FirstFailing(a, i) /\ Finish(c, RefusalRecords(a, i))
    /\ UNCHANGED <<vars, crashes>>

\* The store transaction commits, or refuses and rolls back.
RunStore(c) ==
    /\ at[c] = "store"
    /\ Operation(c, StoreRequest(asked[c]))
    /\ Finish(c, Records(asked[c].ask.op, reply'[c]))
    /\ UNCHANGED <<asked, before, crashes>>

\* sqlite3.OperationalError leaves the store and the handler: HTTP 500.
StoreUnavailable(c) ==
    /\ at[c] = "store"
    /\ Respond(c, "internal-error", None)
    /\ UNCHANGED <<vars, asked, before, crashes>>

IsNext(p, c) == p \in pending[c] /\ \A o \in pending[c] : p.rank <= o.rank

AppendAudit(c) ==
    /\ at[c] = "finish"
    /\ \E p \in pending[c] :
         /\ IsNext(p, c)
         /\ audit' = audit \cup {[call |-> c, code |-> p.code, version |-> p.version]}
         /\ pending' = [pending EXCEPT ![c] = @ \ {p}]
    /\ UNCHANGED <<versions, selections, generations, revocations, reply, damaged,
                   at, asked, answer, before, crashes>>

\* AuditUnavailable: 503 instead of the answer; what the store committed stays.
\* (A directory of the audit store that cannot be made would be 500 instead.)
AuditFails(c) ==
    /\ at[c] = "finish" /\ pending[c] # {}
    /\ Respond(c, "audit-unavailable", None)
    /\ UNCHANGED <<vars, asked, before, crashes>>

\* Mutant: the handler goes on although records could not be written.
ReadyAnyway(c) == at[c] = "finish"

Ready(c) == at[c] = "finish" /\ pending[c] = {}

Return(c) ==
    /\ Ready(c)
    /\ Respond(c, Response(c).code, Response(c).material)
    /\ UNCHANGED <<vars, asked, before, crashes>>

InFlight == {c \in Calls : at[c] \in {"store", "finish"}}

Crash ==
    /\ crashes < MaxCrashes
    /\ InFlight # {}
    /\ at' = [c \in Calls |-> IF c \in InFlight THEN "lost" ELSE at[c]]
    /\ pending' = [c \in Calls |-> {}]
    /\ crashes' = crashes + 1
    /\ UNCHANGED <<vars, asked, answer, before>>

Handle(c) == RunStore(c) \/ StoreUnavailable(c) \/ AppendAudit(c)
              \/ AuditFails(c) \/ Return(c)

ApiNext ==
    \/ \E c \in Calls, a \in ApiRequests : Receive(c, a)
    \/ \E c \in Calls : Handle(c)
    \/ Crash
    \/ (\E r \in versions : DamageRow(r)) /\ UNCHANGED apiVars

ApiSpec == ApiInit /\ [][ApiNext]_allVars
-----------------------------------------------------------------------------
(* Properties *)

Audited(c, code, id) == [call |-> c, code |-> code, version |-> id] \in audit

(***************************************************************************)
(* Fail-closed resolution: a client holds material only if the audit table *)
(* already says that this request resolved this version, whatever failed   *)
(* or crashed since.                                                       *)
(***************************************************************************)
MaterialIsAudited ==
    \A c \in Calls : answer[c] # None /\ answer[c].material # None =>
        \E m \in reply[c].metas : Audited(c, "secret-resolved", m.version)

(***************************************************************************)
(* A client that is told its upload, rotation or whole-reference revocation*)
(* took effect can find it in the audit table, for a whole reference under *)
(* every one of its versions, although those records are written after the *)
(* effect committed and one transaction at a time.                         *)
(***************************************************************************)
EffectsAnsweredAreAudited ==
    \A c \in Calls :
        /\ answer[c] # None /\ reply[c] # None
        /\ answer[c].code = Code(asked[c].ask.op, reply[c].outcome)
        /\ reply[c].outcome \in {"stored", "rotated", "revoked-all"}
        => \A m \in reply[c].metas : Audited(c, answer[c].code, m.version)

(***************************************************************************)
(* The audit table is truthful: no record of an upload, a rotation, a      *)
(* generation or a use names a version the store does not hold, and a      *)
(* "secret-revoked" record that names a version names a revoked one (unless*)
(* the environment altered that row).                                      *)
(***************************************************************************)
AuditIsTruthful ==
    \A e \in audit :
        /\ e.code \in {"secret-stored", "secret-rotated", "secret-resolved",
                       "delegation-key-generated"} =>
             \E r \in versions : r.meta.version = e.version
        /\ e.code \in {"secret-revoked", "secret-version-revoked"} /\ e.version \notin {None} \cup damaged =>
             \E r \in versions : r.meta.version = e.version /\ r.cipher.aad.status = "revoked"

(***************************************************************************)
(* A version is written, generated or resolved only for a client whose     *)
(* grants cover the intent sealed with that version in that workspace,     *)
(* also when the version was rotated, or pinned, by another client.        *)
(***************************************************************************)
WithinGrants ==
    \A c \in Calls :
        Succeeded(c, {"stored", "rotated", "generated", "generation-replayed", "resolved"}) =>
            \A m \in reply[c].metas :
                Require(Authenticate(asked[c].token), Action(asked[c].ask.op),
                        m.ws, m.labels.intent)

(***************************************************************************)
(* All versions of a reference carry one intent, because every handler that*)
(* rotates states the one it expects (the store compares none by default). *)
(* A correlation pinned to an old version is therefore never refused for   *)
(* its intent after a rotation, and no rotation moves a reference within   *)
(* the reach of another grant.                                             *)
(***************************************************************************)
OneIntentPerReference ==
    \A r \in versions : \A s \in Rows(r.meta) :
        s.meta.labels.intent = r.meta.labels.intent

(***************************************************************************)
(* Once a revocation has been answered, a request that arrives afterwards  *)
(* obtains no material of the versions it answered as revoked, whatever it *)
(* is pinned to and however often rows are altered in between.  Versions   *)
(* answered without a revocation time are left out: such a row was flipped *)
(* to "revoked" by somebody else, revoke_secret skipped it and sealed      *)
(* nothing, so that flipping it back makes it active again.                *)
(***************************************************************************)
RevocationIsHonoured ==
    \A c, d \in Calls :
        /\ d \in before[c]
        /\ Succeeded(d, {"revoked-all", "version-revoked", "revocation-replayed"})
        /\ answer[c] # None /\ answer[c].material # None
        => \A m \in reply[c].metas : \A n \in reply[d].metas :
             n.revoked_at # None => m.version # n.version

(***************************************************************************)
(* A client and the audit table are told the same: no record of a request  *)
(* carries another verdict than the answer the client received, and every  *)
(* use that was answered, whether it was delivered, denied by the handler  *)
(* or refused by the store, is on record with that verdict, under the      *)
(* version delivered or else the one asked for.  (An answer that a failed  *)
(* transaction cut short, 500 or 503, claims nothing.)                     *)
(***************************************************************************)
AnswersMatchRecords ==
    \A c \in Calls :
        answer[c] # None /\ answer[c].code \notin {"audit-unavailable", "internal-error"} =>
            /\ \A e \in audit :
                 e.call = c /\ e.code \in HandlerCodes => e.code = answer[c].code
            /\ asked[c].ask.op = "resolve" =>
                 IF answer[c].code = "secret-resolved"
                 THEN \E m \in reply[c].metas : Audited(c, "secret-resolved", m.version)
                 ELSE Audited(c, answer[c].code, asked[c].ask.version)
=============================================================================
