----------------------------- MODULE SecretStore -----------------------------
(***************************************************************************)
(* EncryptedSecretStore (src/control_plane_kit_secrets/store.py).          *)
(*                                                                         *)
(* Every public operation of the store runs inside one connection scope:   *)
(* BEGIN IMMEDIATE takes the database's only write lock, and the scope     *)
(* commits on return and rolls back when an exception leaves it.  Each     *)
(* operation is therefore one atomic action here; a refusal leaves every   *)
(* table as it was, also when rows were already written in the scope.      *)
(*                                                                         *)
(* A call c is made at most once and reply[c] is what it returned to its   *)
(* caller; a retry is another call with the same request.  A time read by  *)
(* _now() is named by the call that read it.                               *)
(***************************************************************************)
EXTENDS Naturals, FiniteSets, DelegationSigning

CONSTANTS
    Calls,          \* calls made on the store, by any thread of any process
    Requests,       \* the requests those calls may carry
    Workspaces, SecretIds, Correlations, Subjects,
    Intents,        \* secret-use intents, as text
    Issuers, References,
    VersionIds,     \* version ids uuid4() may return
    Values,         \* secret values clients upload
    KeyPairs,       \* Ed25519 pairs generation may draw, private and public half
    MaxDamage,      \* bound: rows the environment may alter, each as often as it likes
    None            \* SQL NULL, Python None

VARIABLES
    versions,       \* table secret_versions
    selections,     \* table secret_resolution_selections
    generations,    \* table delegation_key_generations
    revocations,    \* table secret_version_revocations
    audit,          \* table audit_records
    reply,          \* what each finished call returned
    damaged         \* ids of the rows whose stored bytes were altered

tables == <<versions, selections, generations, revocations, audit>>
vars == <<versions, selections, generations, revocations, audit, reply, damaged>>

-----------------------------------------------------------------------------
(* Data *)

Opt(S) == S \cup {None}
Material == Values \cup KeyPairs
Status == {"active", "revoked"}

Ops == {"create", "rotate", "revoke", "revoke-version", "generate",
        "resolve", "resolve-unpinned", "metadata"}

\* One shape for the arguments of every operation; an operation ignores the
\* fields it has no parameter for.  Of the labels of an upload or a rotation the
\* intent is kept (None: no such label); expected is rotate_secret's
\* expected_intent, which defaults to None.
Request ==
    [op: Ops, ws: Workspaces, secret: SecretIds, intent: Opt(Intents),
     expected: Opt(Intents), value: Opt(Values), wellLabelled: BOOLEAN, caller: Subjects,
     corr: Correlations, version: Opt(VersionIds), number: Nat,
     purpose: Opt(Purposes), issuer: Opt(Issuers), reference: Opt(References)]

\* Write and rotate carry a value, exact-version revocation names a version, and
\* a use and a generation state an intent.
ASSUME RequestsAssumption ==
    \A q \in Requests :
        /\ q \in Request
        /\ q.op \in {"create", "rotate"} => q.value # None
        /\ q.op = "revoke-version" => q.version # None
        /\ q.op \in {"resolve", "generate"} => q.intent # None
ASSUME NoneAssumption ==
    None \notin VersionIds \cup Material \cup Calls \cup Purposes

Labels == [intent: Opt(Intents), purpose: Opt(Purposes), issuer: Opt(Issuers),
           key: Opt(KeyPairs)]

\* SecretMetadata; every field of it is authenticated data of the ciphertext.
Metadata == [ws: Workspaces, secret: SecretIds, version: VersionIds,
             number: Nat, status: Status, labels: Labels,
             revoked_at: Opt(Calls)]

\* plain is what the ciphertext decrypts to, aad the metadata it was sealed
\* under, intact whether its bytes are still those that were written.
Cipher == [plain: Material, aad: Metadata, intact: BOOLEAN]
Row == [meta: Metadata, cipher: Cipher]

Selection == [ws: Workspaces, corr: Correlations, secret: SecretIds,
              intent: Intents, caller: Subjects, version: VersionIds]
Generation == [ws: Workspaces, corr: Correlations, secret: SecretIds,
               reference: Opt(References), purpose: Purposes,
               issuer: Opt(Issuers), caller: Subjects, version: VersionIds,
               key: KeyPairs]
Revocation == [ws: Workspaces, corr: Correlations, secret: SecretIds,
               version: VersionIds, number: Nat, caller: Subjects,
               revoked_at: Calls]

\* Codes of audit records: those written inside store transactions, and those
\* the handlers of api.py append on their own.
StoreCodes ==
    {"delegation-key-generated", "delegation-key-generation-replayed",
     "secret-version-revoked", "secret-version-revocation-replayed"}
HandlerCodes ==
    {"secret-stored", "secret-rotated", "secret-resolved", "secret-revoked",
     "metadata-read", "secret-missing", "secret-already-exists",
     "integrity-failure", "invalid-metadata", "secret-intent-conflict",
     "secret-intent-mismatch", "resolution-correlation-conflict",
     "generation-correlation-conflict", "unauthenticated", "unsupported-intent",
     "insufficient-scope", "intent-label-conflict",
     "invalid-delegation-key-generation"}
AuditRecord ==
    [call: Calls, code: StoreCodes \cup HandlerCodes, version: Opt(VersionIds)]

\* Results of the operations and the exceptions they raise instead.
Successes == {"stored", "rotated", "revoked-all", "version-revoked",
              "revocation-replayed", "generated", "generation-replayed",
              "resolved", "resolved-unpinned", "metadata"}
Failures == {"SecretMissing", "SecretAlreadyExists", "SecretRevoked",
             "SecretTampered", "SecretIntentMismatch", "SecretMetadataInvalid",
             "SecretResolutionConflict", "SecretVersionRevocationConflict",
             "DelegationKeyGenerationConflict", "AuditUnavailable"}
Reply == [ask: Requests, outcome: Successes \cup Failures,
          metas: SUBSET Metadata, material: Opt(Material),
          public: Opt(KeyPairs)]

ASSUME ReplyAssumption == None \notin Reply

TypeOK ==
    /\ versions \subseteq Row
    /\ selections \subseteq Selection
    /\ generations \subseteq Generation
    /\ revocations \subseteq Revocation
    /\ audit \subseteq AuditRecord
    /\ reply \in [Calls -> Opt(Reply)]
    /\ damaged \subseteq VersionIds

Init ==
    /\ versions = {}
    /\ selections = {}
    /\ generations = {}
    /\ revocations = {}
    /\ audit = {}
    /\ reply = [c \in Calls |-> None]
    /\ damaged = {}
-----------------------------------------------------------------------------
(* Rows *)

\* Mutant: the WHERE clause leaves the workspace out.
RowsOfAnyWorkspace(q) == {r \in versions : r.meta.secret = q.secret}

Rows(q) == {r \in versions : r.meta.ws = q.ws /\ r.meta.secret = q.secret}

\* ORDER BY version_number DESC LIMIT 1.
IsLatest(r, q) ==
    r \in Rows(q) /\ \A s \in Rows(q) : s.meta.number <= r.meta.number

\* The row a request selects: the latest, or the version id it names.
SelectRow(q, id) ==
    {r \in Rows(q) : IF id = None THEN IsLatest(r, q) ELSE r.meta.version = id}

Encrypt(meta, plain) == [meta |-> meta,
                         cipher |-> [plain |-> plain, aad |-> meta, intact |-> TRUE]]

\* Mutant: decryption does not authenticate the stored metadata.
Readable(r) == r.cipher.intact

\* AES-GCM opens a ciphertext only under the associated data it was sealed with.
Opens(r) == r.cipher.intact /\ r.cipher.aad = r.meta

FreshVersion(id) == \A r \in versions : r.meta.version # id
FreshKey(k) == \A r \in versions : r.cipher.plain # k

NewRow(q, id, number, labels, plain) ==
    Encrypt([ws |-> q.ws, secret |-> q.secret, version |-> id, number |-> number,
             status |-> "active", labels |-> labels, revoked_at |-> None], plain)

WrittenLabels(q) ==
    [intent |-> q.intent, purpose |-> None, issuer |-> None, key |-> None]

FamilyLabels(intent, purpose, issuer, key) ==
    [intent |-> intent, purpose |-> purpose, issuer |-> issuer, key |-> key]

RevokedMetadata(r, c) == [r.meta EXCEPT !.status = "revoked", !.revoked_at = c]

\* Mutant: the UPDATE sets the status and keeps the ciphertext.
RevokeRowKeepingCiphertext(r, c) == [r EXCEPT !.meta = RevokedMetadata(r, c)]

\* The retained value is sealed again under the revoked metadata.
RevokeRow(r, c) == Encrypt(RevokedMetadata(r, c), r.cipher.plain)

-----------------------------------------------------------------------------
(* Results *)

Answer(c, q, outcome, metas, material, public) ==
    reply' = [reply EXCEPT ![c] =
        [ask |-> q, outcome |-> outcome, metas |-> metas,
         material |-> material, public |-> public]]

\* An exception leaves the scope: rollback, and the caller sees the exception.
Refuse(c, q, failure) ==
    /\ Answer(c, q, failure, {}, None, None)
    /\ UNCHANGED <<tables, damaged>>

\* Mutant: a failing INSERT of the audit record is swallowed.
AppendOrSkip(c, code, id) ==
    audit' \in {audit, audit \cup {[call |-> c, code |-> code, version |-> id]}}

\* audit_store.append_in_transaction on the operation's own connection.
AppendInTransaction(c, code, id) ==
    audit' = audit \cup {[call |-> c, code |-> code, version |-> id]}

-----------------------------------------------------------------------------
(* create_secret *)

\* Mutant: a revoked first version does not count.
FirstVersionActive(q) == \E r \in Rows(q) : r.meta.number = 1 /\ r.meta.status = "active"

\* UNIQUE (workspace_id, secret_id, version_number) with number 1.
FirstVersionTaken(q) == \E r \in Rows(q) : r.meta.number = 1

CreateSecret(c, q) ==
    \/ ~q.wellLabelled /\ Refuse(c, q, "SecretMetadataInvalid")
    \/ q.wellLabelled /\ FirstVersionTaken(q) /\ Refuse(c, q, "SecretAlreadyExists")
    \/ /\ q.wellLabelled /\ ~FirstVersionTaken(q)
       /\ \E id \in VersionIds :
            LET row == NewRow(q, id, 1, WrittenLabels(q), q.value) IN
            /\ FreshVersion(id)
            /\ versions' = versions \cup {row}
            /\ Answer(c, q, "stored", {row.meta}, None, None)
       /\ UNCHANGED <<selections, generations, revocations, audit, damaged>>

(* rotate_secret *)

\* Mutant: the next number counts the versions still active.
NextNumberOfActive(latest, q) ==
    Cardinality({r \in Rows(q) : r.meta.status = "active"}) + 1

NextNumber(latest, q) == latest.meta.number + 1

\* Mutant: the intent of the row is not compared.
AnyIntent(row, intent) == TRUE

HasIntent(row, intent) == row.meta.labels.intent = intent

\* expected_intent: rotation compares intents only when one is expected.
Expected(row, q) == q.expected # None => HasIntent(row, q.expected)

RotateSecret(c, q) ==
    \/ Rows(q) = {} /\ Refuse(c, q, "SecretMissing")
    \/ \E latest \in Rows(q) :
         /\ IsLatest(latest, q)
         /\ \/ ~Expected(latest, q) /\ Refuse(c, q, "SecretIntentMismatch")
            \/ /\ Expected(latest, q) /\ ~q.wellLabelled
               /\ Refuse(c, q, "SecretMetadataInvalid")
            \/ /\ Expected(latest, q) /\ q.wellLabelled
               /\ \E id \in VersionIds :
                    LET row == NewRow(q, id, NextNumber(latest, q),
                                      WrittenLabels(q), q.value) IN
                    /\ FreshVersion(id)
                    /\ versions' = versions \cup {row}
                    /\ Answer(c, q, "rotated", {row.meta}, None, None)
               /\ UNCHANGED <<selections, generations, revocations, audit, damaged>>

(* revoke_secret *)

\* Mutant: only the latest version is visited.
ToRevokeLatest(q) == {r \in Rows(q) : r.meta.status = "active" /\ IsLatest(r, q)}

\* Versions already revoked are skipped.
ToRevoke(q) == {r \in Rows(q) : r.meta.status = "active"}

\* Mutant: each UPDATE commits by itself, so that the rows visited before the
\* one that does not open stay revoked.
KeepVisited(c, q) ==
    LET visited == {r \in ToRevoke(q) : \A s \in ToRevoke(q) :
                      s.meta.number <= r.meta.number => Opens(s)} IN
    /\ versions' = (versions \ visited) \cup {RevokeRow(r, c) : r \in visited}
    /\ Answer(c, q, "SecretTampered", {}, None, None)
    /\ UNCHANGED <<selections, generations, revocations, audit, damaged>>

\* The loop meets a row that does not open: the rows it visited are rolled back.
MeetTampered(c, q) == Refuse(c, q, "SecretTampered")

RevokeSecret(c, q) ==
    \/ Rows(q) = {} /\ Refuse(c, q, "SecretMissing")
    \/ /\ \E r \in ToRevoke(q) : ~Opens(r)
       /\ MeetTampered(c, q)
    \/ /\ Rows(q) # {}
       /\ \A r \in ToRevoke(q) : Opens(r)
       /\ versions' = (versions \ ToRevoke(q)) \cup {RevokeRow(r, c) : r \in ToRevoke(q)}
       /\ Answer(c, q, "revoked-all",
                 {r.meta : r \in Rows(q) \ ToRevoke(q)}
                     \cup {RevokedMetadata(r, c) : r \in ToRevoke(q)}, None, None)
       /\ UNCHANGED <<selections, generations, revocations, audit, damaged>>
-----------------------------------------------------------------------------
(* revoke_secret_version *)

PriorRevocations(q) == {b \in revocations : b.ws = q.ws /\ b.corr = q.corr}

\* Mutant: a replay is recognised by its correlation alone.
SameCorrelation(b, q) == TRUE

SameRevocation(b, q) ==
    /\ b.secret = q.secret
    /\ b.version = q.version
    /\ b.number = q.number
    /\ b.caller = q.caller

ReplayRevocation(c, q, b) ==
    \/ ~SameRevocation(b, q) /\ Refuse(c, q, "SecretVersionRevocationConflict")
    \/ /\ SameRevocation(b, q)
       /\ \E r \in SelectRow(q, q.version) :
            \/ /\ r.meta.number # q.number \/ r.meta.status # "revoked"
               /\ Refuse(c, q, "SecretVersionRevocationConflict")
            \/ /\ r.meta.number = q.number /\ r.meta.status = "revoked"
               /\ \/ Refuse(c, q, "AuditUnavailable")
                  \/ /\ AppendInTransaction(c, "secret-version-revocation-replayed", q.version)
                     /\ Answer(c, q, "revocation-replayed", {r.meta}, None, None)
                     /\ UNCHANGED <<versions, selections, generations, revocations, damaged>>

ClaimedTarget(q) ==
    \E b \in revocations :
        b.ws = q.ws /\ b.secret = q.secret /\ b.version = q.version

Revocable(r, q) ==
    r.meta.number = q.number /\ r.meta.status = "active" /\ Opens(r)

RevokeOneVersion(c, q, r) ==
    /\ versions' = (versions \ {r}) \cup {RevokeRow(r, c)}
    /\ revocations' = revocations \cup
         {[ws |-> q.ws, corr |-> q.corr, secret |-> q.secret, version |-> q.version,
           number |-> q.number, caller |-> q.caller, revoked_at |-> c]}
    /\ AppendInTransaction(c, "secret-version-revoked", q.version)
    /\ Answer(c, q, "version-revoked", {RevokedMetadata(r, c)}, None, None)
    /\ UNCHANGED <<selections, generations, damaged>>

FirstRevocation(c, q) ==
    \/ ClaimedTarget(q) /\ Refuse(c, q, "SecretVersionRevocationConflict")
    \/ /\ ~ClaimedTarget(q)
       /\ SelectRow(q, q.version) = {}
       /\ Refuse(c, q, "SecretMissing")
    \/ /\ ~ClaimedTarget(q)
       /\ \E r \in SelectRow(q, q.version) :
            \/ /\ r.meta.number # q.number
               /\ Refuse(c, q, "SecretVersionRevocationConflict")
            \/ /\ r.meta.number = q.number /\ r.meta.status = "revoked"
               /\ Refuse(c, q, "SecretRevoked")
            \/ /\ r.meta.number = q.number /\ r.meta.status = "active" /\ ~Opens(r)
               /\ Refuse(c, q, "SecretTampered")
            \/ Revocable(r, q) /\ Refuse(c, q, "AuditUnavailable")
            \/ Revocable(r, q) /\ RevokeOneVersion(c, q, r)

RevokeSecretVersion(c, q) ==
    \/ PriorRevocations(q) = {} /\ FirstRevocation(c, q)
    \/ \E b \in PriorRevocations(q) : ReplayRevocation(c, q, b)
-----------------------------------------------------------------------------
(* generate_delegation_key *)

\* Mutant: a generation is looked up by the reference it was made for.
GenerationsOfSecret(q) == {g \in generations : g.ws = q.ws /\ g.secret = q.secret}

PriorGenerations(q) == {g \in generations : g.ws = q.ws /\ g.corr = q.corr}

SameGeneration(g, q) ==
    /\ g.secret = q.secret
    /\ g.reference = q.reference
    /\ g.purpose = q.purpose
    /\ g.issuer = q.issuer
    /\ g.caller = q.caller

\* Authenticated family labels, and a private half that derives the public one.
MaterialMatches(g, q, r) ==
    /\ r.meta.labels = FamilyLabels(q.intent, g.purpose, g.issuer, g.key)
    /\ Opens(r)
    /\ r.cipher.plain = g.key

ReplayGeneration(c, q, g) ==
    \/ ~SameGeneration(g, q) /\ Refuse(c, q, "DelegationKeyGenerationConflict")
    \/ /\ SameGeneration(g, q)
       /\ \E r \in SelectRow(q, g.version) :
            \/ r.meta.status = "revoked" /\ Refuse(c, q, "SecretRevoked")
            \/ /\ r.meta.status = "active" /\ ~MaterialMatches(g, q, r)
               /\ Refuse(c, q, "SecretTampered")
            \/ /\ r.meta.status = "active" /\ MaterialMatches(g, q, r)
               /\ \/ Refuse(c, q, "AuditUnavailable")
                  \/ /\ AppendInTransaction(c, "delegation-key-generation-replayed", g.version)
                     /\ Answer(c, q, "generation-replayed", {r.meta}, None, g.key)
                     /\ UNCHANGED <<versions, selections, generations, revocations, damaged>>

InsertGeneration(c, q, id, key) ==
    LET row == NewRow(q, id, 1, FamilyLabels(q.intent, q.purpose, q.issuer, key), key) IN
    /\ versions' = versions \cup {row}
    /\ generations' = generations \cup
         {[ws |-> q.ws, corr |-> q.corr, secret |-> q.secret, reference |-> q.reference,
           purpose |-> q.purpose, issuer |-> q.issuer, caller |-> q.caller,
           version |-> id, key |-> key]}
    /\ AppendInTransaction(c, "delegation-key-generated", id)
    /\ Answer(c, q, "generated", {row.meta}, None, key)
    /\ UNCHANGED <<selections, revocations, damaged>>

FirstGeneration(c, q) ==
    \/ ~q.wellLabelled /\ Refuse(c, q, "SecretMetadataInvalid")
    \/ q.wellLabelled /\ FirstVersionTaken(q) /\ Refuse(c, q, "SecretAlreadyExists")
    \/ q.wellLabelled /\ ~FirstVersionTaken(q) /\ Refuse(c, q, "AuditUnavailable")
    \/ /\ q.wellLabelled /\ ~FirstVersionTaken(q)
       /\ \E id \in VersionIds, key \in KeyPairs :
            FreshVersion(id) /\ FreshKey(key) /\ InsertGeneration(c, q, id, key)

GenerateDelegationKey(c, q) ==
    \/ ~AdmittedFamily(q.purpose, q.intent) /\ Refuse(c, q, "SecretMetadataInvalid")
    \/ /\ AdmittedFamily(q.purpose, q.intent)
       /\ \/ PriorGenerations(q) = {} /\ FirstGeneration(c, q)
          \/ \E g \in PriorGenerations(q) : ReplayGeneration(c, q, g)
-----------------------------------------------------------------------------
(* resolve_secret_for_use *)

PriorSelections(q) == {s \in selections : s.ws = q.ws /\ s.corr = q.corr}

\* Mutant: the correlation alone identifies the use that is replayed.
AnySelection(s, q) == s.secret = q.secret

SameSelection(s, q) ==
    /\ s.secret = q.secret
    /\ s.intent = q.intent
    /\ s.caller = q.caller
    /\ q.version \in {None, s.version}

\* Mutant: a replay asks for the current version again.
CurrentVersion(s) == None

PinnedVersion(s) == s.version

\* Mutant: the selection stores the version the request named, if any.
SelectionAsAsked(q, id) ==
    [ws |-> q.ws, corr |-> q.corr, secret |-> q.secret, intent |-> q.intent,
     caller |-> q.caller, version |-> q.version]

SelectionOf(q, id) ==
    [ws |-> q.ws, corr |-> q.corr, secret |-> q.secret, intent |-> q.intent,
     caller |-> q.caller, version |-> id]

\* Mutant: a version pinned before its revocation is still delivered.
MayDeliverRevoked(r, q) == HasIntent(r, q.intent)

MayDeliver(r, q) == r.meta.status = "active" /\ HasIntent(r, q.intent)

Deliver(c, q, r) ==
    \/ r.meta.status = "revoked" /\ Refuse(c, q, "SecretRevoked")
    \/ /\ r.meta.status = "active" /\ ~HasIntent(r, q.intent)
       /\ Refuse(c, q, "SecretIntentMismatch")
    \/ MayDeliver(r, q) /\ ~Opens(r) /\ Refuse(c, q, "SecretTampered")
    \/ /\ MayDeliver(r, q) /\ Opens(r)
       /\ Answer(c, q, "resolved", {r.meta}, r.cipher.plain, None)
       /\ selections' = selections \cup {SelectionOf(q, r.meta.version)}
       /\ UNCHANGED <<versions, generations, revocations, audit, damaged>>

ResolveSecretForUse(c, q) ==
    \/ /\ PriorSelections(q) = {} /\ SelectRow(q, q.version) = {}
       /\ Refuse(c, q, "SecretMissing")
    \/ /\ PriorSelections(q) = {}
       /\ \E r \in SelectRow(q, q.version) : Deliver(c, q, r)
    \/ \E s \in PriorSelections(q) :
         \/ ~SameSelection(s, q) /\ Refuse(c, q, "SecretResolutionConflict")
         \/ /\ SameSelection(s, q)
            /\ \E r \in SelectRow(q, PinnedVersion(s)) : Deliver(c, q, r)

(* resolve_secret: one SELECT; nothing is pinned and no intent is asked about. *)
ResolveSecret(c, q) ==
    \/ SelectRow(q, q.version) = {} /\ Refuse(c, q, "SecretMissing")
    \/ \E r \in SelectRow(q, q.version) :
         \/ r.meta.status = "revoked" /\ Refuse(c, q, "SecretRevoked")
         \/ r.meta.status = "active" /\ ~Opens(r) /\ Refuse(c, q, "SecretTampered")
         \/ /\ r.meta.status = "active" /\ Opens(r)
            /\ Answer(c, q, "resolved-unpinned", {r.meta}, r.cipher.plain, None)
            /\ UNCHANGED <<tables, damaged>>

(* metadata: one SELECT; the row is decoded and not authenticated. *)
ReadMetadata(c, q) ==
    \/ SelectRow(q, q.version) = {} /\ Refuse(c, q, "SecretMissing")
    \/ \E r \in SelectRow(q, q.version) :
         /\ Answer(c, q, "metadata", {r.meta}, None, None)
         /\ UNCHANGED <<tables, damaged>>
-----------------------------------------------------------------------------
(* The environment alters stored bytes, a status column or the ciphertext, of *)
(* at most MaxDamage rows, and of these as often as it likes.                 *)

Flip(status) == IF status = "active" THEN "revoked" ELSE "active"

FlipStatus(r) == [r EXCEPT !.meta = [r.meta EXCEPT !.status = Flip(r.meta.status)]]

SpoilCiphertext(r) == [r EXCEPT !.cipher = [r.cipher EXCEPT !.intact = FALSE]]

DamageRow(r) ==
    /\ r.meta.version \in damaged \/ Cardinality(damaged) < MaxDamage
    /\ damaged' = damaged \cup {r.meta.version}
    /\ \E altered \in {FlipStatus(r), SpoilCiphertext(r)} :
         versions' = (versions \ {r}) \cup {altered}
    /\ UNCHANGED <<selections, generations, revocations, audit, reply>>

Operation(c, q) ==
    \/ q.op = "create" /\ CreateSecret(c, q)
    \/ q.op = "rotate" /\ RotateSecret(c, q)
    \/ q.op = "revoke" /\ RevokeSecret(c, q)
    \/ q.op = "revoke-version" /\ RevokeSecretVersion(c, q)
    \/ q.op = "generate" /\ GenerateDelegationKey(c, q)
    \/ q.op = "resolve" /\ ResolveSecretForUse(c, q)
    \/ q.op = "resolve-unpinned" /\ ResolveSecret(c, q)
    \/ q.op = "metadata" /\ ReadMetadata(c, q)

Next ==
    \/ \E c \in Calls, q \in Requests : reply[c] = None /\ Operation(c, q)
    \/ \E r \in versions : DamageRow(r)

Spec == Init /\ [][Next]_vars
-----------------------------------------------------------------------------
(* What finished calls have in common *)

Succeeded(c, outcomes) == reply[c] # None /\ reply[c].outcome \in outcomes

SameKey(c, d) ==
    reply[c].ask.ws = reply[d].ask.ws /\ reply[c].ask.corr = reply[d].ask.corr

\* The calls d that returned in this step.
Returned(c) == reply[c] = None /\ reply'[c] # None

(***************************************************************************)
(* The store implements VersionLifecycle.  The abstract state of a version *)
(* is the status its ciphertext is sealed under, so that altered columns   *)
(* do not move it; the delivered pairs are read off the replies.           *)
(***************************************************************************)
SealedStatus == [id \in VersionIds |->
    IF \E r \in versions : r.meta.version = id /\ r.cipher.aad.status = "revoked"
    THEN "revoked"
    ELSE IF \E r \in versions : r.meta.version = id THEN "active" ELSE "absent"]

Pinned == {<<<<s.ws, s.corr>>, s.version>> : s \in selections}

DeliveredPairs ==
    UNION {{<<<<reply[c].ask.ws, reply[c].ask.corr>>, m.version>> : m \in reply[c].metas} :
              c \in {d \in Calls : Succeeded(d, {"resolved"})}}

Promise == INSTANCE VersionLifecycle
    WITH Versions <- VersionIds, Keys <- Workspaces \X Correlations,
         state <- SealedStatus, pins <- Pinned, delivered <- DeliveredPairs

\* Every step of the store is a step of the lifecycle, or changes nothing in it.
ImplementsLifecycle == Promise!Spec

(***************************************************************************)
(* The versions of a reference are numbered 1, 2, ... with no number used  *)
(* twice and none left out, over any history of rotations and revocations: *)
(* rotate_secret reads the latest row and inserts its number plus one.     *)
(* The UNIQUE constraint on version_number can then never fire in rotate.  *)
(***************************************************************************)
VersionNumbering ==
    \A r \in versions :
        /\ r.meta.number >= 1
        /\ \A s \in Rows(r.meta) : s.meta.number = r.meta.number => s = r
        /\ r.meta.number > 1 =>
             \E s \in Rows(r.meta) : s.meta.number + 1 = r.meta.number

(***************************************************************************)
(* Every row nobody damaged opens under its own metadata, revoked rows too:*)
(* the rewriting of a row by revocation keeps it authentic, so that later  *)
(* revocations and replays never meet an integrity failure of the store's  *)
(* own making.                                                             *)
(***************************************************************************)
UndamagedRowsAuthenticate ==
    \A r \in versions : r.meta.version \notin damaged => Opens(r)

(***************************************************************************)
(* Resolutions under one workspace and correlation all deliver one version *)
(* of one secret, to one caller, for one intent, with the same material,   *)
(* whatever rotations come between them (README, resolution version        *)
(* policy: pinned for retry).                                              *)
(***************************************************************************)
PinnedResolution ==
    \A c, d \in Calls :
        /\ Succeeded(c, {"resolved"}) /\ Succeeded(d, {"resolved"})
        /\ SameKey(c, d)
        => /\ reply[c].ask.secret = reply[d].ask.secret
           /\ reply[c].ask.caller = reply[d].ask.caller
           /\ reply[c].ask.intent = reply[d].ask.intent
           /\ reply[c].material = reply[d].material
           /\ reply[c].metas = reply[d].metas

(***************************************************************************)
(* Exact retries of a generation return the original public identity, and  *)
(* no two correlations return the same one.                                *)
(***************************************************************************)
OneIdentityPerGeneration ==
    \A c, d \in Calls :
        Succeeded(c, {"generated", "generation-replayed"})
          /\ Succeeded(d, {"generated", "generation-replayed"})
        => (SameKey(c, d) <=> reply[c].public = reply[d].public)

(***************************************************************************)
(* Each recorded generation is backed by version 1 of its reference, whose *)
(* sealed labels and private half belong to the public identity recorded;  *)
(* a reference has at most one generation, so that the UNIQUE constraint   *)
(* of delegation_key_generations never fires after the version is inserted.*)
(***************************************************************************)
GenerationBacked ==
    \A g \in generations :
        /\ \A h \in generations : h.ws = g.ws /\ h.secret = g.secret => h = g
        /\ \E r \in Rows(g) :
             /\ r.meta.version = g.version
             /\ r.meta.number = 1
             /\ r.cipher.plain = g.key
             /\ r.meta.labels =
                  FamilyLabels(SigningIntent[g.purpose], g.purpose, g.issuer, g.key)

(***************************************************************************)
(* A revocation record names a version that is sealed as revoked at the    *)
(* recorded time, no version has two of them, and calls that share its     *)
(* correlation return the same metadata: an exact replay returns what the  *)
(* first call returned.                                                    *)
(***************************************************************************)
RevocationBinding ==
    /\ \A b \in revocations :
         /\ \A d \in revocations : d.ws = b.ws /\ d.version = b.version => d = b
         /\ \E r \in Rows(b) :
              /\ r.meta.version = b.version
              /\ r.meta.number = b.number
              /\ r.cipher.aad.status = "revoked"
              /\ r.cipher.aad.revoked_at = b.revoked_at
    /\ \A c, d \in Calls :
         /\ Succeeded(c, {"version-revoked", "revocation-replayed"})
         /\ Succeeded(d, {"version-revoked", "revocation-replayed"})
         => /\ SameKey(c, d) => reply[c].metas = reply[d].metas
            /\ ~SameKey(c, d) => reply[c].metas # reply[d].metas

(***************************************************************************)
(* Generation and exact-version revocation commit with their audit record  *)
(* or not at all: a recorded effect has its record, and a record its       *)
(* effect.                                                                 *)
(***************************************************************************)
AuditedAtomically ==
    /\ \A g \in generations : \E a \in audit :
         a.code = "delegation-key-generated" /\ a.version = g.version
    /\ \A b \in revocations : \E a \in audit :
         a.code = "secret-version-revoked" /\ a.version = b.version
    /\ \A a \in audit :
         /\ a.code = "delegation-key-generated" =>
              \E g \in generations : g.version = a.version
         /\ a.code = "secret-version-revoked" =>
              \E b \in revocations : b.version = a.version /\ b.revoked_at = a.call
         /\ reply[a.call] # None /\ reply[a.call].outcome \in Successes

(***************************************************************************)
(* No operation loses, renames or rewrites a version: each row survives    *)
(* every step with its number, labels and material, and one sealed as      *)
(* revoked keeps exactly the metadata it was sealed under.                 *)
(***************************************************************************)
Succession(r) ==
    \E s \in versions' :
        /\ s.meta.version = r.meta.version
        /\ s.meta.number = r.meta.number
        /\ s.meta.labels = r.meta.labels
        /\ s.cipher.plain = r.cipher.plain
        /\ r.cipher.aad.status = "revoked" => s.cipher.aad = r.cipher.aad

VersionsPersist == [][\A r \in versions : Succession(r)]_vars

(***************************************************************************)
(* Material leaves the store only from a version that no committed call    *)
(* has revoked, also when its status column was altered afterwards, and it *)
(* is the material that version was written with.                          *)
(***************************************************************************)
NoMaterialAfterRevocation ==
    [][\A c \in Calls : Returned(c) /\ reply'[c].material # None =>
         \E r \in versions :
            /\ r.cipher.aad \in reply'[c].metas
            /\ r.cipher.aad.status = "active"
            /\ r.cipher.plain = reply'[c].material]_vars

(***************************************************************************)
(* Whole-reference revocation that returns leaves no version of the        *)
(* reference active and every other reference's rows as they were, in this *)
(* workspace and the others; exact-version revocation leaves every row but *)
(* the one it names as it was.  (Of refused revocations: RefusalsChange-   *)
(* Nothing.)                                                               *)
(***************************************************************************)
RevocationScope ==
    [][\A c \in Calls : Returned(c) =>
         /\ reply'[c].outcome = "revoked-all" =>
              /\ \A r \in versions' :
                   r.meta.ws = reply'[c].ask.ws /\ r.meta.secret = reply'[c].ask.secret
                   => r.meta.status = "revoked" /\ r.meta \in reply'[c].metas
              /\ \A r \in versions :
                   r.meta.ws # reply'[c].ask.ws \/ r.meta.secret # reply'[c].ask.secret
                   => r \in versions'
         /\ reply'[c].outcome = "version-revoked" =>
              \A r \in versions :
                 r.meta.version # reply'[c].ask.version => r \in versions']_vars

(***************************************************************************)
(* A call that is refused changes no table, whatever its transaction had   *)
(* done by then: whole-reference revocation that meets a row which does not*)
(* open takes back the rows it sealed before, and a generation or an exact *)
(* revocation that cannot be audited leaves neither its key, its sealed row*)
(* nor its replay record for the retry to collide with.                    *)
(***************************************************************************)
RefusalsChangeNothing ==
    [][\A c \in Calls :
         Returned(c) /\ reply'[c].outcome \in Failures => UNCHANGED tables]_vars

(***************************************************************************)
(* The reading of README's version policy under which "the current active  *)
(* version" is the newest version that is active: a first use that names   *)
(* no version is refused as revoked only when no version is active.        *)
(***************************************************************************)
ActiveVersionIsSelected ==
    [][\A c \in Calls :
         /\ Returned(c)
         /\ reply'[c].ask.op = "resolve" /\ reply'[c].ask.version = None
         /\ PriorSelections(reply'[c].ask) = {}
         /\ reply'[c].outcome = "SecretRevoked"
         => \A r \in Rows(reply'[c].ask) : r.meta.status # "active"]_vars
=============================================================================
