-------------------------- MODULE SecretStoreProofs --------------------------
(***************************************************************************)
(* Theorems about SecretStore, for every set of calls, requests and rows.  *)
(*                                                                         *)
(* Every step of the store does one of three things to the version table:  *)
(* nothing, one row added, or every row rewritten in a way that keeps its  *)
(* origin.  The lemma TableStep says so once; the invariants rest on it.   *)
(***************************************************************************)
EXTENDS SecretStore, TLAPS

\* What a row was when it was written.
Origin(r) == [r.meta EXCEPT !.status = "active", !.revoked_at = None]

Kin(r, s) == Origin(s) = Origin(r) /\ s.cipher.plain = r.cipher.plain

\* What a step may make of a row: revoke it for good, or damage its bytes.
Heir(r, s) ==
    /\ Kin(r, s)
    /\ \/ s.cipher.aad = r.cipher.aad
       \/ r.cipher.aad.status = "active" /\ s.cipher.aad.status = "revoked"
    /\ \/ s = r
       \/ Opens(s) /\ s.cipher.aad.status = "revoked"
       \/ /\ r.meta.version \in damaged'
          /\ s \in {FlipStatus(r), SpoilCiphertext(r)}

AddedFor(q) ==
    \E id \in VersionIds, n \in Nat, L \in Labels, p \in Material :
        /\ FreshVersion(id)
        /\ versions' = versions \cup {NewRow(q, id, n, L, p)}
        /\ \/ n = 1 /\ ~FirstVersionTaken(q)
           \/ /\ q.op = "rotate" /\ L.intent = q.intent
              /\ \E latest \in versions : /\ IsLatest(latest, q) /\ Expected(latest, q)
                                          /\ n = latest.meta.number + 1

RowAdded == \E q \in Requests : AddedFor(q)

RowsRewritten ==
    \E F \in [versions -> Row] :
        /\ versions' = {F[r] : r \in versions}
        /\ \A r \in versions : Heir(r, F[r])

-----------------------------------------------------------------------------
(* Rows *)

LEMMA NewRowFacts ==
    ASSUME NEW q \in Request, NEW id \in VersionIds, NEW n \in Nat,
           NEW L \in Labels, NEW p \in Material
    PROVE  /\ NewRow(q, id, n, L, p) \in Row
           /\ NewRow(q, id, n, L, p).meta.ws = q.ws
           /\ NewRow(q, id, n, L, p).meta.secret = q.secret
           /\ NewRow(q, id, n, L, p).meta.version = id
           /\ NewRow(q, id, n, L, p).meta.number = n
           /\ NewRow(q, id, n, L, p).meta.labels = L
           /\ NewRow(q, id, n, L, p).cipher.plain = p
           /\ Opens(NewRow(q, id, n, L, p))
           /\ NewRow(q, id, n, L, p).cipher.aad.status = "active"
           /\ NewRow(q, id, n, L, p).cipher.aad.revoked_at = None
           /\ NewRow(q, id, n, L, p).meta.revoked_at = None
BY DEF NewRow, Encrypt, Row, Cipher, Metadata, Request, Status, Opt, Opens

LEMMA RevokeRowFacts ==
    ASSUME NEW r \in Row, NEW c \in Calls
    PROVE  /\ RevokedMetadata(r, c) \in Metadata
           /\ RevokeRow(r, c) \in Row
           /\ RevokeRow(r, c).meta = RevokedMetadata(r, c)
           /\ Kin(r, RevokeRow(r, c))
           /\ Opens(RevokeRow(r, c))
           /\ RevokeRow(r, c).cipher.aad.status = "revoked"
BY DEF RevokeRow, RevokedMetadata, Encrypt, Row, Cipher, Metadata, Status, Opt,
       Origin, Kin, Opens

LEMMA OriginFacts ==
    ASSUME NEW r \in Row, NEW s \in Row, Kin(r, s)
    PROVE  /\ s.meta.ws = r.meta.ws
           /\ s.meta.secret = r.meta.secret
           /\ s.meta.version = r.meta.version
           /\ s.meta.number = r.meta.number
           /\ s.meta.labels = r.meta.labels
           /\ s.cipher.plain = r.cipher.plain
BY DEF Kin, Origin, Row, Metadata

LEMMA AlteredFacts ==
    ASSUME NEW r \in Row
    PROVE  /\ FlipStatus(r) \in Row /\ SpoilCiphertext(r) \in Row
           /\ Kin(r, FlipStatus(r)) /\ Kin(r, SpoilCiphertext(r))
           /\ FlipStatus(r).cipher.aad = r.cipher.aad
           /\ SpoilCiphertext(r).cipher.aad = r.cipher.aad
           /\ FlipStatus(r).meta.revoked_at = r.meta.revoked_at
           /\ SpoilCiphertext(r).meta.revoked_at = r.meta.revoked_at
BY DEF Row, Cipher, Metadata, Status, Flip, FlipStatus, SpoilCiphertext, Origin, Kin

LEMMA LabelFacts ==
    /\ \A q \in Requests : WrittenLabels(q) \in Labels /\ WrittenLabels(q).intent = q.intent
    /\ \A i \in Opt(Intents), u \in Opt(Purposes), s \in Opt(Issuers), k \in KeyPairs :
         FamilyLabels(i, u, s, k) \in Labels
BY RequestsAssumption DEF WrittenLabels, FamilyLabels, Labels, Request, Opt

LEMMA RequestFacts ==
    ASSUME NEW q \in Requests
    PROVE  /\ q \in Request
           /\ q.op \in {"create", "rotate"} => q.value \in Values
           /\ q.op = "revoke-version" => q.version \in VersionIds
           /\ q.op = "resolve" => q.intent \in Intents
BY RequestsAssumption DEF Request, Opt

LEMMA SelectedRows ==
    ASSUME NEW q, NEW id, NEW r \in SelectRow(q, id)
    PROVE  r \in versions
BY DEF SelectRow, Rows, IsLatest
-----------------------------------------------------------------------------
(* What a step does to the version table *)

LEMMA CreateStep ==
    ASSUME TypeOK, NEW c \in Calls, NEW q \in Requests, q.op = "create", CreateSecret(c, q)
    PROVE  UNCHANGED versions \/ AddedFor(q)
<1>1. CASE \E f \in Failures : Refuse(c, q, f)
  BY <1>1 DEF Refuse, tables
<1>2. CASE ~ \E f \in Failures : Refuse(c, q, f)
  <2>1. PICK id \in VersionIds :
           /\ FreshVersion(id)
           /\ versions' = versions \cup {NewRow(q, id, 1, WrittenLabels(q), q.value)}
    BY <1>2 DEF CreateSecret, Failures
  <2>2. ~FirstVersionTaken(q)
    BY <1>2 DEF CreateSecret, Failures
  <2>3. WrittenLabels(q) \in Labels /\ q.value \in Material
    BY RequestFacts, LabelFacts DEF Material
  <2> QED BY <2>1, <2>2, <2>3 DEF AddedFor
<1> QED BY <1>1, <1>2

LEMMA RotateStep ==
    ASSUME TypeOK, NEW c \in Calls, NEW q \in Requests, q.op = "rotate", RotateSecret(c, q)
    PROVE  UNCHANGED versions \/ AddedFor(q)
<1>1. CASE \E f \in Failures : Refuse(c, q, f)
  BY <1>1 DEF Refuse, tables
<1>2. CASE ~ \E f \in Failures : Refuse(c, q, f)
  <2>1. PICK latest \in Rows(q) :
           /\ IsLatest(latest, q) /\ Expected(latest, q)
           /\ \E id \in VersionIds :
                /\ FreshVersion(id)
                /\ versions' = versions \cup
                     {NewRow(q, id, NextNumber(latest, q), WrittenLabels(q), q.value)}
    BY <1>2 DEF RotateSecret, Failures
  <2>2. latest \in versions /\ NextNumber(latest, q) \in Nat
        /\ NextNumber(latest, q) = latest.meta.number + 1
    BY <2>1 DEF Rows, NextNumber, TypeOK, Row, Metadata
  <2>3. /\ WrittenLabels(q) \in Labels /\ q.value \in Material
        /\ WrittenLabels(q).intent = q.intent
    BY RequestFacts, LabelFacts DEF Material
  <2> QED BY <2>1, <2>2, <2>3 DEF AddedFor
<1> QED BY <1>1, <1>2

LEMMA RevokeStep ==
    ASSUME TypeOK, NEW c \in Calls, NEW q \in Requests, RevokeSecret(c, q)
    PROVE  UNCHANGED versions \/ RowsRewritten
<1>1. CASE \E f \in Failures : Refuse(c, q, f)
  BY <1>1 DEF Refuse, tables
<1>2. CASE ~ \E f \in Failures : Refuse(c, q, f)
  <2> DEFINE F == [r \in versions |-> IF r \in ToRevoke(q) THEN RevokeRow(r, c) ELSE r]
  <2>1. versions' = (versions \ ToRevoke(q)) \cup {RevokeRow(r, c) : r \in ToRevoke(q)}
    BY <1>2 DEF RevokeSecret, MeetTampered, Failures
  <2>2. ToRevoke(q) \subseteq versions
    BY DEF ToRevoke, Rows
  <2>3. versions' = {F[r] : r \in versions}
    BY <2>1, <2>2
  <2>4. \A r \in ToRevoke(q) : r.meta.status = "active" /\ Opens(r)
    BY <1>2 DEF RevokeSecret, MeetTampered, Failures, ToRevoke
  <2>5. F \in [versions -> Row]
    BY RevokeRowFacts DEF TypeOK
  <2>6. \A r \in versions : Heir(r, F[r])
    BY <2>4, RevokeRowFacts DEF TypeOK, Heir, Kin, Opens
  <2> QED BY <2>3, <2>5, <2>6 DEF RowsRewritten
<1> QED BY <1>1, <1>2

\* One row replaced by an heir of it.
LEMMA OneRowRewritten ==
    ASSUME TypeOK, NEW r \in versions, NEW s \in Row, Heir(r, s),
           versions' = (versions \ {r}) \cup {s}
    PROVE  RowsRewritten
<1> DEFINE F == [t \in versions |-> IF t = r THEN s ELSE t]
<1>1. versions' = {F[t] : t \in versions}
  OBVIOUS
<1>2. F \in [versions -> Row] /\ \A t \in versions : Heir(t, F[t])
  BY DEF TypeOK, Heir, Kin
<1> QED BY <1>1, <1>2 DEF RowsRewritten

LEMMA RevokeVersionStep ==
    ASSUME TypeOK, NEW c \in Calls, NEW q \in Requests, RevokeSecretVersion(c, q)
    PROVE  UNCHANGED versions \/ RowsRewritten
<1>1. CASE UNCHANGED versions
  BY <1>1
<1>2. CASE ~UNCHANGED versions
  <2>1. PICK r \in SelectRow(q, q.version) :
           /\ RevokeOneVersion(c, q, r)
           /\ r.meta.status = "active" /\ Opens(r)
    BY <1>2 DEF RevokeSecretVersion, FirstRevocation, ReplayRevocation, Refuse,
                 tables, Revocable
  <2>2. r \in versions /\ r \in Row
    BY SelectedRows DEF TypeOK
  <2>3. versions' = (versions \ {r}) \cup {RevokeRow(r, c)}
    BY <2>1 DEF RevokeOneVersion
  <2>4. Heir(r, RevokeRow(r, c)) /\ RevokeRow(r, c) \in Row
    BY <2>1, <2>2, RevokeRowFacts DEF Heir, Opens
  <2> QED BY <2>2, <2>3, <2>4, OneRowRewritten
<1> QED BY <1>1, <1>2

LEMMA GenerateStep ==
    ASSUME TypeOK, NEW c \in Calls, NEW q \in Requests, GenerateDelegationKey(c, q)
    PROVE  UNCHANGED versions \/ AddedFor(q)
<1>1. CASE UNCHANGED versions
  BY <1>1
<1>2. CASE ~UNCHANGED versions
  <2>1. PICK id \in VersionIds, key \in KeyPairs :
           /\ AdmittedFamily(q.purpose, q.intent)
           /\ FreshVersion(id) /\ InsertGeneration(c, q, id, key)
           /\ ~FirstVersionTaken(q)
    BY <1>2 DEF GenerateDelegationKey, FirstGeneration, ReplayGeneration, Refuse, tables
  <2>2. FamilyLabels(q.intent, q.purpose, q.issuer, key) \in Labels /\ key \in Material
    BY RequestFacts, LabelFacts DEF Material, Request
  <2>3. versions' = versions \cup
          {NewRow(q, id, 1, FamilyLabels(q.intent, q.purpose, q.issuer, key), key)}
    BY <2>1 DEF InsertGeneration
  <2> QED BY <2>1, <2>2, <2>3 DEF AddedFor
<1> QED BY <1>1, <1>2

LEMMA ReadStep ==
    ASSUME NEW c \in Calls, NEW q \in Requests,
           ResolveSecretForUse(c, q) \/ ResolveSecret(c, q) \/ ReadMetadata(c, q)
    PROVE  UNCHANGED versions
BY DEF ResolveSecretForUse, Deliver, ResolveSecret, ReadMetadata, Refuse, tables

LEMMA DamageStep ==
    ASSUME TypeOK, NEW r \in versions, DamageRow(r)
    PROVE  RowsRewritten
<1>1. r \in Row
  BY DEF TypeOK
<1>2. PICK s \in {FlipStatus(r), SpoilCiphertext(r)} : versions' = (versions \ {r}) \cup {s}
  BY DEF DamageRow
<1>3. r.meta.version \in damaged'
  BY DEF DamageRow
<1> QED BY <1>1, <1>2, <1>3, AlteredFacts, OneRowRewritten DEF Heir

LEMMA OperationStep ==
    ASSUME TypeOK, NEW c \in Calls, NEW q \in Requests, Operation(c, q)
    PROVE  UNCHANGED versions \/ AddedFor(q) \/ RowsRewritten
BY CreateStep, RotateStep, RevokeStep, RevokeVersionStep, GenerateStep, ReadStep
   DEF Operation

LEMMA TableStep ==
    ASSUME TypeOK, [Next]_vars
    PROVE  UNCHANGED versions \/ RowAdded \/ RowsRewritten
<1>1. CASE UNCHANGED vars
  BY <1>1 DEF vars
<1>2. CASE \E r \in versions : DamageRow(r)
  BY <1>2, DamageStep
<1>3. ASSUME NEW c \in Calls, NEW q \in Requests, Operation(c, q)
      PROVE  UNCHANGED versions \/ RowAdded \/ RowsRewritten
  BY <1>3, OperationStep DEF RowAdded
<1> QED BY <1>1, <1>2, <1>3 DEF Next
-----------------------------------------------------------------------------
(* Types *)

LEMMA RowsTyped ==
    ASSUME TypeOK, UNCHANGED versions \/ RowAdded \/ RowsRewritten
    PROVE  versions' \subseteq Row
<1>1. CASE RowAdded
  BY <1>1, RequestFacts, NewRowFacts DEF RowAdded, AddedFor, TypeOK
<1> QED BY <1>1 DEF RowsRewritten, TypeOK

\* A reply that is well formed keeps the replies well formed.
LEMMA ReplyTyped ==
    ASSUME TypeOK, NEW c \in Calls, NEW q \in Requests,
           NEW o \in Successes \cup Failures, NEW M \in SUBSET Metadata,
           NEW p \in Opt(Material), NEW k \in Opt(KeyPairs), Answer(c, q, o, M, p, k)
    PROVE  reply' \in [Calls -> Opt(Reply)]
BY DEF Answer, TypeOK, Reply, Opt

LEMMA RefusalTyped ==
    ASSUME TypeOK, NEW c \in Calls, NEW q \in Requests, NEW f \in Failures, Refuse(c, q, f)
    PROVE  TypeOK'
<1>1. reply' \in [Calls -> Opt(Reply)]
  BY ReplyTyped DEF Refuse, Opt
<1> QED BY <1>1 DEF Refuse, tables, TypeOK

LEMMA OperationTyped ==
    ASSUME TypeOK, NEW c \in Calls, NEW q \in Requests, Operation(c, q)
    PROVE  TypeOK'
<1> USE DEF Successes
<1>1. CASE \E f \in Failures : Refuse(c, q, f)
  BY <1>1, RefusalTyped
<1> SUFFICES ASSUME ~ \E f \in Failures : Refuse(c, q, f)
             PROVE  TypeOK'
  BY <1>1
<1>r. \A f \in {"SecretMissing", "SecretAlreadyExists", "SecretRevoked",
                "SecretTampered", "SecretIntentMismatch", "SecretMetadataInvalid",
                "SecretResolutionConflict", "SecretVersionRevocationConflict",
                "DelegationKeyGenerationConflict", "AuditUnavailable"} : ~Refuse(c, q, f)
  BY DEF Failures
<1>v. versions' \subseteq Row
  BY RowsTyped, OperationStep DEF RowAdded
<1>m. \A r \in versions : r.meta \in Metadata /\ r.cipher.plain \in Material
                          /\ RevokedMetadata(r, c) \in Metadata
  BY RevokeRowFacts DEF TypeOK, Row, Cipher
<1>q. q \in Request
  BY RequestFacts
<1>2. CASE q.op = "create" /\ CreateSecret(c, q)
  <2>1. PICK id \in VersionIds :
           /\ Answer(c, q, "stored", {NewRow(q, id, 1, WrittenLabels(q), q.value).meta}, None, None)
           /\ UNCHANGED <<selections, generations, revocations, audit, damaged>>
    BY <1>2, <1>r DEF CreateSecret
  <2>2. NewRow(q, id, 1, WrittenLabels(q), q.value).meta \in Metadata
    BY <1>2, <1>q, RequestFacts, LabelFacts, NewRowFacts DEF Material, Row
  <2>3. reply' \in [Calls -> Opt(Reply)]
    BY <2>1, <2>2, ReplyTyped DEF Opt
  <2> QED BY <2>1, <2>3, <1>v DEF TypeOK
<1>3. CASE q.op = "rotate" /\ RotateSecret(c, q)
  <2>1. PICK latest \in Rows(q), id \in VersionIds :
           /\ Answer(c, q, "rotated", {NewRow(q, id, NextNumber(latest, q),
                                              WrittenLabels(q), q.value).meta}, None, None)
           /\ UNCHANGED <<selections, generations, revocations, audit, damaged>>
    BY <1>3, <1>r DEF RotateSecret
  <2>2. NextNumber(latest, q) \in Nat
    BY DEF Rows, NextNumber, TypeOK, Row, Metadata
  <2>3. NewRow(q, id, NextNumber(latest, q), WrittenLabels(q), q.value).meta \in Metadata
    BY <1>3, <1>q, <2>2, RequestFacts, LabelFacts, NewRowFacts DEF Material, Row
  <2>4. reply' \in [Calls -> Opt(Reply)]
    BY <2>1, <2>3, ReplyTyped DEF Opt
  <2> QED BY <2>1, <2>4, <1>v DEF TypeOK
<1>4. CASE RevokeSecret(c, q)
  <2>1. /\ Answer(c, q, "revoked-all",
                 {r.meta : r \in Rows(q) \ ToRevoke(q)}
                     \cup {RevokedMetadata(r, c) : r \in ToRevoke(q)}, None, None)
        /\ UNCHANGED <<selections, generations, revocations, audit, damaged>>
    BY <1>4, <1>r DEF RevokeSecret, MeetTampered
  <2>2. {r.meta : r \in Rows(q) \ ToRevoke(q)}
          \cup {RevokedMetadata(r, c) : r \in ToRevoke(q)} \in SUBSET Metadata
    BY <1>m DEF Rows, ToRevoke
  <2>3. reply' \in [Calls -> Opt(Reply)]
    BY <2>1, <2>2, ReplyTyped DEF Opt
  <2> QED BY <2>1, <2>3, <1>v DEF TypeOK
<1>5. CASE q.op = "revoke-version" /\ RevokeSecretVersion(c, q)
  <2>0. q.version \in VersionIds
    BY <1>5, RequestFacts
  <2>1. PICK r \in versions :
           \/ RevokeOneVersion(c, q, r)
           \/ /\ AppendInTransaction(c, "secret-version-revocation-replayed", q.version)
              /\ Answer(c, q, "revocation-replayed", {r.meta}, None, None)
              /\ UNCHANGED <<versions, selections, generations, revocations, damaged>>
    BY <1>5, <1>r, SelectedRows DEF RevokeSecretVersion, FirstRevocation, ReplayRevocation
  <2>2. audit' \subseteq AuditRecord
    BY <2>0, <2>1 DEF AppendInTransaction, RevokeOneVersion, AuditRecord, StoreCodes, TypeOK, Opt
  <2>3. revocations' \subseteq Revocation
    BY <2>0, <2>1, <1>q DEF RevokeOneVersion, Revocation, Request, TypeOK
  <2>4. reply' \in [Calls -> Opt(Reply)]
    <3>1. CASE RevokeOneVersion(c, q, r)
      BY <3>1, <1>m, ReplyTyped DEF RevokeOneVersion, Opt
    <3>2. CASE Answer(c, q, "revocation-replayed", {r.meta}, None, None)
      BY <3>2, <1>m, ReplyTyped DEF Opt
    <3> QED BY <2>1, <3>1, <3>2
  <2> QED BY <2>1, <2>2, <2>3, <2>4, <1>v DEF RevokeOneVersion, TypeOK
<1>6. CASE GenerateDelegationKey(c, q)
  <2>1. CASE \E g \in PriorGenerations(q), r \in versions :
               /\ AppendInTransaction(c, "delegation-key-generation-replayed", g.version)
               /\ Answer(c, q, "generation-replayed", {r.meta}, None, g.key)
               /\ UNCHANGED <<versions, selections, generations, revocations, damaged>>
    <3>1. PICK g \in PriorGenerations(q), r \in versions :
               /\ AppendInTransaction(c, "delegation-key-generation-replayed", g.version)
               /\ Answer(c, q, "generation-replayed", {r.meta}, None, g.key)
               /\ UNCHANGED <<versions, selections, generations, revocations, damaged>>
      BY <2>1
    <3>2. g.version \in VersionIds /\ g.key \in KeyPairs
      BY DEF PriorGenerations, TypeOK, Generation
    <3>3. audit' \subseteq AuditRecord
      BY <3>1, <3>2 DEF AppendInTransaction, AuditRecord, StoreCodes, TypeOK, Opt
    <3>4. reply' \in [Calls -> Opt(Reply)]
      BY <3>1, <3>2, <1>m, ReplyTyped DEF Opt
    <3> QED BY <3>1, <3>3, <3>4, <1>v DEF TypeOK
  <2>2. CASE \E id \in VersionIds, key \in KeyPairs :
               AdmittedFamily(q.purpose, q.intent) /\ InsertGeneration(c, q, id, key)
    <3>1. PICK id \in VersionIds, key \in KeyPairs :
               AdmittedFamily(q.purpose, q.intent) /\ InsertGeneration(c, q, id, key)
      BY <2>2
    <3> DEFINE row == NewRow(q, id, 1, FamilyLabels(q.intent, q.purpose, q.issuer, key), key)
    <3>2. row.meta \in Metadata
      BY <1>q, LabelFacts, NewRowFacts DEF Material, Row, Request
    <3>3. audit' \subseteq AuditRecord
      BY <3>1 DEF InsertGeneration, AppendInTransaction, AuditRecord, StoreCodes, TypeOK, Opt
    <3>4. generations' \subseteq Generation
      BY <3>1, <1>q DEF InsertGeneration, AdmittedFamily, Generation, Request, TypeOK
    <3>5. reply' \in [Calls -> Opt(Reply)]
      BY <3>1, <3>2, ReplyTyped DEF InsertGeneration, Opt
    <3> QED BY <3>1, <3>3, <3>4, <3>5, <1>v DEF InsertGeneration, TypeOK
  <2> QED BY <1>6, <1>r, <2>1, <2>2, SelectedRows
          DEF GenerateDelegationKey, FirstGeneration, ReplayGeneration
<1>7. CASE q.op = "resolve" /\ ResolveSecretForUse(c, q)
  <2>1. PICK r \in versions :
           /\ Answer(c, q, "resolved", {r.meta}, r.cipher.plain, None)
           /\ selections' = selections \cup {SelectionOf(q, r.meta.version)}
           /\ UNCHANGED <<versions, generations, revocations, audit, damaged>>
    BY <1>7, <1>r, SelectedRows DEF ResolveSecretForUse, Deliver
  <2>2. SelectionOf(q, r.meta.version) \in Selection
    BY <1>7, <1>q, <1>m, RequestFacts DEF SelectionOf, Selection, Request, Metadata
  <2>3. reply' \in [Calls -> Opt(Reply)]
    BY <2>1, <1>m, ReplyTyped DEF Opt
  <2> QED BY <2>1, <2>2, <2>3, <1>v DEF TypeOK
<1>9. CASE ResolveSecret(c, q)
  <2>1. PICK r \in versions :
           /\ Answer(c, q, "resolved-unpinned", {r.meta}, r.cipher.plain, None)
           /\ UNCHANGED <<tables, damaged>>
    BY <1>9, <1>r, SelectedRows DEF ResolveSecret
  <2>2. reply' \in [Calls -> Opt(Reply)]
    BY <2>1, <1>m, ReplyTyped DEF Opt
  <2> QED BY <2>1, <2>2, <1>v DEF TypeOK, tables
<1>8. CASE ReadMetadata(c, q)
  <2>1. PICK r \in versions : /\ Answer(c, q, "metadata", {r.meta}, None, None)
                              /\ UNCHANGED <<tables, damaged>>
    BY <1>8, <1>r, SelectedRows DEF ReadMetadata
  <2>2. reply' \in [Calls -> Opt(Reply)]
    BY <2>1, <1>m, ReplyTyped DEF Opt
  <2> QED BY <2>1, <2>2, <1>v DEF TypeOK, tables
<1> QED BY <1>2, <1>3, <1>4, <1>5, <1>6, <1>7, <1>8, <1>9 DEF Operation

LEMMA TypeStep == TypeOK /\ [Next]_vars => TypeOK'
<1> SUFFICES ASSUME TypeOK, [Next]_vars PROVE TypeOK'
  OBVIOUS
<1>1. CASE UNCHANGED vars
  BY <1>1 DEF vars, TypeOK
<1>2. ASSUME NEW r \in versions, DamageRow(r) PROVE TypeOK'
  <2>1. versions' \subseteq Row
    BY <1>2, DamageStep, RowsTyped
  <2>2. damaged' \subseteq VersionIds
    BY <1>2 DEF DamageRow, TypeOK, Row, Metadata
  <2> QED BY <1>2, <2>1, <2>2 DEF DamageRow, TypeOK
<1> QED BY <1>1, <1>2, OperationTyped DEF Next

(***************************************************************************)
(* Every table holds well-formed rows and every reply is well formed: no   *)
(* operation stores NULL where the schema says NOT NULL, or answers with   *)
(* metadata that no row could have.                                        *)
(***************************************************************************)
THEOREM TypeCorrect == Spec => []TypeOK
<1>1. Init => TypeOK
  BY DEF Init, TypeOK, Opt
<1> QED BY <1>1, TypeStep, PTL DEF Spec
-----------------------------------------------------------------------------
(* Numbers and identities *)

\* A version id names one row.
Identified == \A r, s \in versions : r.meta.version = s.meta.version => r = s

\* Version 1 of a reference is never lost: what create and generate test.
FirstVersionKept == \A r \in versions : FirstVersionTaken(r.meta)

TableInv == Identified /\ FirstVersionKept /\ VersionNumbering

LEMMA AddedKeepsTable ==
    ASSUME TypeOK, TableInv, RowAdded
    PROVE  TableInv'
<1>1. PICK q \in Requests, id \in VersionIds, n \in Nat, L \in Labels, p \in Material :
        /\ FreshVersion(id)
        /\ versions' = versions \cup {NewRow(q, id, n, L, p)}
        /\ \/ n = 1 /\ ~FirstVersionTaken(q)
           \/ \E latest \in versions : IsLatest(latest, q) /\ n = latest.meta.number + 1
  BY DEF RowAdded, AddedFor
<1> DEFINE row == NewRow(q, id, n, L, p)
<1>2. /\ row \in Row /\ row.meta.ws = q.ws /\ row.meta.secret = q.secret
      /\ row.meta.version = id /\ row.meta.number = n /\ row.meta.labels = L
  BY NewRowFacts, RequestFacts
<1>t. \A r \in versions : r \in Row /\ r.meta.number \in Nat
  BY DEF TypeOK, Row, Metadata
<1>3. versions' = versions \cup {row}
  BY <1>1
<1> HIDE DEF row
<1>4. \A r \in versions : r.meta.version # id
  BY <1>1 DEF FreshVersion
<1>5. CASE n = 1 /\ ~FirstVersionTaken(q)
  <2>1. \A r \in versions : ~(r.meta.ws = q.ws /\ r.meta.secret = q.secret)
    BY <1>5 DEF TableInv, FirstVersionKept, FirstVersionTaken, Rows
  <2>2. Identified'
    BY <1>2, <1>3, <1>4 DEF TableInv, Identified
  <2>3. FirstVersionKept'
    BY <1>2, <1>3, <1>5 DEF TableInv, FirstVersionKept, FirstVersionTaken, Rows
  <2>4. VersionNumbering'
    BY <1>2, <1>3, <1>5, <2>1 DEF TableInv, VersionNumbering, Rows
  <2> QED BY <2>2, <2>3, <2>4 DEF TableInv
<1>6. ASSUME NEW latest \in versions, IsLatest(latest, q), n = latest.meta.number + 1
      PROVE  TableInv'
  <2>1. /\ latest.meta.ws = q.ws /\ latest.meta.secret = q.secret
        /\ \A r \in versions : r.meta.ws = q.ws /\ r.meta.secret = q.secret
                                 => r.meta.number < n
    BY <1>6, <1>t DEF IsLatest, Rows
  <2>2. Identified'
    BY <1>2, <1>3, <1>4 DEF TableInv, Identified
  <2>3. FirstVersionKept'
    BY <1>2, <1>3, <2>1 DEF TableInv, FirstVersionKept, FirstVersionTaken, Rows
  <2>4. VersionNumbering'
    <3>1. ASSUME NEW r \in versions'
          PROVE  r.meta.number >= 1
      BY <1>2, <1>3, <1>6, <1>t, <3>1 DEF TableInv, VersionNumbering
    <3>2. ASSUME NEW r \in versions', NEW s \in Rows(r.meta)', s.meta.number = r.meta.number
          PROVE  s = r
      BY <1>2, <1>3, <1>t, <2>1, <3>2 DEF TableInv, VersionNumbering, Rows
    <3>3. ASSUME NEW r \in versions', r.meta.number > 1
          PROVE  \E s \in Rows(r.meta)' : s.meta.number + 1 = r.meta.number
      <4>1. CASE r \in versions
        BY <1>3, <3>3, <4>1 DEF TableInv, VersionNumbering, Rows
      <4>2. CASE r = row
        BY <1>2, <1>3, <1>6, <2>1, <4>2 DEF Rows
      <4> QED BY <1>3, <4>1, <4>2
    <3> QED BY <3>1, <3>2, <3>3 DEF VersionNumbering
  <2> QED BY <2>2, <2>3, <2>4 DEF TableInv
<1> QED BY <1>1, <1>5, <1>6

LEMMA RewrittenKeepsTable ==
    ASSUME TypeOK, TableInv, RowsRewritten
    PROVE  TableInv'
<1>1. PICK F \in [versions -> Row] :
        /\ versions' = {F[r] : r \in versions}
        /\ \A r \in versions : Heir(r, F[r])
  BY DEF RowsRewritten
<1>2. \A r \in versions :
        /\ F[r].meta.ws = r.meta.ws
        /\ F[r].meta.secret = r.meta.secret
        /\ F[r].meta.version = r.meta.version
        /\ F[r].meta.number = r.meta.number
        /\ F[r].meta.labels = r.meta.labels
  BY <1>1, OriginFacts DEF TypeOK, Heir
<1>3. Identified'
  BY <1>1, <1>2 DEF TableInv, Identified
<1>4. FirstVersionKept'
  <2> SUFFICES ASSUME NEW r \in versions
               PROVE  \E s \in versions' : /\ s.meta.ws = F[r].meta.ws
                                           /\ s.meta.secret = F[r].meta.secret
                                           /\ s.meta.number = 1
    BY <1>1 DEF FirstVersionKept, FirstVersionTaken, Rows
  <2>1. PICK s \in versions : /\ s.meta.ws = r.meta.ws /\ s.meta.secret = r.meta.secret
                              /\ s.meta.number = 1
    BY DEF TableInv, FirstVersionKept, FirstVersionTaken, Rows
  <2> QED BY <1>1, <1>2, <2>1
<1>5. VersionNumbering'
  <2> SUFFICES ASSUME NEW r \in versions
               PROVE  /\ F[r].meta.number >= 1
                      /\ \A s \in versions :
                           /\ F[s].meta.ws = F[r].meta.ws
                           /\ F[s].meta.secret = F[r].meta.secret
                           /\ F[s].meta.number = F[r].meta.number
                           => F[s] = F[r]
                      /\ F[r].meta.number > 1 =>
                           \E s \in versions :
                              /\ F[s].meta.ws = F[r].meta.ws
                              /\ F[s].meta.secret = F[r].meta.secret
                              /\ F[s].meta.number + 1 = F[r].meta.number
    BY <1>1 DEF VersionNumbering, Rows
  <2> QED BY <1>2 DEF TableInv, VersionNumbering, Rows
<1> QED BY <1>3, <1>4, <1>5 DEF TableInv

LEMMA TableInvStep == TypeOK /\ TableInv /\ [Next]_vars => TableInv'
<1> SUFFICES ASSUME TypeOK, TableInv, [Next]_vars PROVE TableInv'
  OBVIOUS
<1>1. CASE UNCHANGED versions
  BY <1>1 DEF TableInv, Identified, FirstVersionKept, FirstVersionTaken,
              VersionNumbering, Rows
<1> QED BY <1>1, TableStep, AddedKeepsTable, RewrittenKeepsTable

THEOREM TableCorrect == Spec => []TableInv
<1>1. Init => TableInv
  BY DEF Init, TableInv, Identified, FirstVersionKept, VersionNumbering
<1> QED BY <1>1, TableInvStep, TypeCorrect, PTL DEF Spec

(***************************************************************************)
(* Version numbers of a reference never collide and never skip, over every *)
(* interleaving of uploads, rotations and revocations (rotate_secret reads *)
(* the latest number and inserts the next one in one transaction).         *)
(***************************************************************************)
THEOREM NumbersNeverCollide == Spec => []VersionNumbering
BY TableCorrect, PTL DEF TableInv

-----------------------------------------------------------------------------
(* Seals *)

\* Whatever is altered, a row with a revocation time is sealed as revoked.
SealInv ==
    /\ UndamagedRowsAuthenticate
    /\ \A r \in versions :
         /\ r.cipher.aad.status = "active" => r.cipher.aad.revoked_at = None
         /\ r.meta.revoked_at = r.cipher.aad.revoked_at

LEMMA DamageOnlyGrows == [Next]_vars => damaged \subseteq damaged'
<1>1. ASSUME NEW c \in Calls, NEW q \in Requests, Operation(c, q)
      PROVE  UNCHANGED damaged
  <2>1. CASE CreateSecret(c, q) \/ RotateSecret(c, q) \/ RevokeSecret(c, q)
    BY <2>1 DEF CreateSecret, RotateSecret, RevokeSecret, MeetTampered, Refuse
  <2>2. CASE RevokeSecretVersion(c, q)
    BY <2>2 DEF RevokeSecretVersion, FirstRevocation, ReplayRevocation,
                RevokeOneVersion, Refuse
  <2>3. CASE GenerateDelegationKey(c, q)
    BY <2>3 DEF GenerateDelegationKey, FirstGeneration, ReplayGeneration,
                InsertGeneration, Refuse
  <2>4. CASE ResolveSecretForUse(c, q) \/ ResolveSecret(c, q) \/ ReadMetadata(c, q)
    BY <2>4 DEF ResolveSecretForUse, Deliver, ResolveSecret, ReadMetadata, Refuse
  <2> QED BY <1>1, <2>1, <2>2, <2>3, <2>4 DEF Operation
<1>2. ASSUME NEW r \in versions, DamageRow(r)
      PROVE  damaged \subseteq damaged'
  BY <1>2 DEF DamageRow
<1> QED BY <1>1, <1>2 DEF Next, vars

LEMMA SealInvStep == TypeOK /\ SealInv /\ [Next]_vars => SealInv'
<1> SUFFICES ASSUME TypeOK, SealInv, [Next]_vars PROVE SealInv'
  OBVIOUS
<1>d. damaged \subseteq damaged'
  BY DamageOnlyGrows
<1>1. CASE UNCHANGED versions
  BY <1>1, <1>d DEF SealInv, UndamagedRowsAuthenticate
<1>2. CASE RowAdded
  <2>1. PICK row \in Row : /\ versions' = versions \cup {row}
                           /\ Opens(row)
                           /\ row.cipher.aad.revoked_at = None
                           /\ row.meta.revoked_at = None
    BY <1>2, NewRowFacts, RequestFacts DEF RowAdded, AddedFor
  <2> QED BY <1>d, <2>1 DEF SealInv, UndamagedRowsAuthenticate
<1>3. CASE RowsRewritten
  <2>1. PICK F \in [versions -> Row] : /\ versions' = {F[r] : r \in versions}
                                       /\ \A r \in versions : Heir(r, F[r])
    BY <1>3 DEF RowsRewritten
  <2> SUFFICES ASSUME NEW r \in versions
               PROVE  /\ F[r].meta.version \notin damaged' => Opens(F[r])
                      /\ F[r].cipher.aad.status = "active" => F[r].cipher.aad.revoked_at = None
                      /\ F[r].meta.revoked_at = F[r].cipher.aad.revoked_at
    BY <2>1 DEF SealInv, UndamagedRowsAuthenticate
  <2>2. F[r].meta.version = r.meta.version
    BY <2>1, OriginFacts DEF Heir, TypeOK
  <2>3. F[r].meta.revoked_at = F[r].cipher.aad.revoked_at
    <3>1. r \in Row /\ r.meta.revoked_at = r.cipher.aad.revoked_at /\ Heir(r, F[r])
      BY <2>1 DEF SealInv, TypeOK
    <3>2. CASE F[r] \in {FlipStatus(r), SpoilCiphertext(r)}
      BY <3>1, <3>2, AlteredFacts
    <3> QED BY <3>1, <3>2 DEF Heir, Opens
  <2> QED BY <1>d, <2>1, <2>2, <2>3 DEF Heir, SealInv, UndamagedRowsAuthenticate
<1> QED BY <1>1, <1>2, <1>3, TableStep

THEOREM SealsHold == Spec => []SealInv
<1>1. Init => SealInv
  BY DEF Init, SealInv, UndamagedRowsAuthenticate
<1> QED BY <1>1, SealInvStep, TypeCorrect, PTL DEF Spec

(***************************************************************************)
(* The store never makes an integrity failure of its own: a row it wrote,  *)
(* or rewrote to revoke it, opens under the metadata stored beside it      *)
(* unless somebody else altered the row.                                   *)
(***************************************************************************)
THEOREM RowsStayAuthentic == Spec => []UndamagedRowsAuthenticate
BY SealsHold, PTL DEF SealInv
-----------------------------------------------------------------------------
(* Pinned resolution *)

Resolved(c) == Succeeded(c, {"resolved"})

\* The primary key of secret_resolution_selections.
OneSelection ==
    \A s, t \in selections : s.ws = t.ws /\ s.corr = t.corr => s = t

\* A delivered value is that of a row that is still there, as it was written.
RepliesBacked ==
    \A c \in Calls : Resolved(c) =>
        \E r \in versions :
            /\ reply[c].metas = {Origin(r)}
            /\ reply[c].material = r.cipher.plain
            /\ SelectionOf(reply[c].ask, r.meta.version) \in selections

PinInv == OneSelection /\ RepliesBacked

Delivery(c, q, r) ==
    /\ Answer(c, q, "resolved", {r.meta}, r.cipher.plain, None)
    /\ selections' = selections \cup {SelectionOf(q, r.meta.version)}
    /\ PriorSelections(q) = {} \/ SelectionOf(q, r.meta.version) \in selections
    /\ r.meta.status = "active" /\ Opens(r)
    /\ UNCHANGED <<versions, generations, revocations, audit, damaged>>

NothingDelivered ==
    /\ UNCHANGED selections
    /\ \A c \in Calls : Resolved(c)' => Resolved(c) /\ reply'[c] = reply[c]

LEMMA OtherAnswer ==
    ASSUME TypeOK, NEW c \in Calls, NEW q, NEW o, NEW M, NEW p, NEW k,
           o # "resolved", Answer(c, q, o, M, p, k)
    PROVE  \A d \in Calls : Resolved(d)' => Resolved(d) /\ reply'[d] = reply[d]
BY DEF Answer, TypeOK, Resolved, Succeeded

LEMMA ResolveStep ==
    ASSUME TypeOK, NEW c \in Calls, NEW q \in Requests, ResolveSecretForUse(c, q)
    PROVE  NothingDelivered \/ \E r \in versions : Delivery(c, q, r)
<1>1. CASE \E f \in Failures : Refuse(c, q, f)
  <2>1. PICK f \in Failures : Refuse(c, q, f)
    BY <1>1
  <2>2. f # "resolved"
    BY DEF Failures
  <2> QED BY <2>1, <2>2, OtherAnswer DEF Refuse, tables, NothingDelivered
<1>2. CASE PriorSelections(q) = {} /\ ~ \E f \in Failures : Refuse(c, q, f)
  <2>1. PICK r \in SelectRow(q, q.version) : Deliver(c, q, r)
    BY <1>2 DEF ResolveSecretForUse, Failures
  <2>2. r \in versions
    BY <2>1, SelectedRows
  <2> QED BY <1>2, <2>1, <2>2 DEF Deliver, Delivery, MayDeliver, Failures
<1>3. CASE PriorSelections(q) # {} /\ ~ \E f \in Failures : Refuse(c, q, f)
  <2>0. PICK s \in PriorSelections(q) :
          /\ SameSelection(s, q)
          /\ \E r \in SelectRow(q, PinnedVersion(s)) : Deliver(c, q, r)
    BY <1>3 DEF ResolveSecretForUse, Failures
  <2>1. PICK r \in SelectRow(q, PinnedVersion(s)) : Deliver(c, q, r)
    BY <2>0
  <2>2. s \in Selection /\ s \in selections /\ s.ws = q.ws /\ s.corr = q.corr
    BY DEF PriorSelections, TypeOK
  <2>3. r \in versions /\ r.meta.version = s.version
    BY <2>1, <2>2, SelectedRows, NoneAssumption DEF SelectRow, PinnedVersion, Selection
  <2>4. SelectionOf(q, r.meta.version) = s
    BY <2>0, <2>2, <2>3 DEF SelectionOf, SameSelection, Selection
  <2> QED BY <1>3, <2>1, <2>2, <2>3, <2>4 DEF Deliver, Delivery, MayDeliver, Failures
<1> QED BY <1>1, <1>2, <1>3

LEMMA SelectionStep ==
    ASSUME TypeOK, [Next]_vars
    PROVE  \/ NothingDelivered
           \/ \E c \in Calls, q \in Requests, r \in versions : Delivery(c, q, r)
<1>1. CASE UNCHANGED <<selections, reply>>
  BY <1>1 DEF NothingDelivered, Resolved, Succeeded
<1>2. ASSUME NEW c \in Calls, NEW q \in Requests, Operation(c, q)
      PROVE  NothingDelivered \/ \E r \in versions : Delivery(c, q, r)
  <2>1. CASE ResolveSecretForUse(c, q)
    BY <2>1, ResolveStep
  <2>2. CASE ~ResolveSecretForUse(c, q)
    <3>1. PICK o \in Successes \cup Failures :
            /\ o # "resolved" /\ UNCHANGED selections
            /\ \E M, p, k : Answer(c, q, o, M, p, k)
      <4>1. CASE \E f \in Failures : Refuse(c, q, f)
        BY <4>1 DEF Refuse, tables, Failures
      <4>2. CASE ~ \E f \in Failures : Refuse(c, q, f)
        BY <1>2, <2>2, <4>2
           DEF Operation, CreateSecret, RotateSecret, RevokeSecret, MeetTampered,
               RevokeSecretVersion, FirstRevocation, ReplayRevocation, RevokeOneVersion,
               GenerateDelegationKey, FirstGeneration, ReplayGeneration,
               InsertGeneration, ResolveSecret, ReadMetadata, tables, Failures, Successes
      <4> QED BY <4>1, <4>2
    <3> QED BY <3>1, OtherAnswer DEF NothingDelivered
  <2> QED BY <2>1, <2>2
<1> QED BY <1>1, <1>2 DEF Next, vars, DamageRow

\* Every row has an heir of the same origin.
LEMMA OriginsPersist ==
    ASSUME TypeOK, [Next]_vars, NEW r \in versions
    PROVE  \E s \in versions' : Kin(r, s) /\ s.meta.version = r.meta.version
<1>1. CASE RowsRewritten
  BY <1>1, OriginFacts DEF RowsRewritten, Heir, TypeOK
<1>2. CASE UNCHANGED versions \/ RowAdded
  BY <1>2 DEF RowAdded, AddedFor, Kin
<1> QED BY <1>1, <1>2, TableStep

LEMMA PinInvStep == TypeOK /\ SealInv /\ PinInv /\ [Next]_vars => PinInv'
<1> SUFFICES ASSUME TypeOK, SealInv, PinInv, [Next]_vars PROVE PinInv'
  OBVIOUS
<1>1. CASE NothingDelivered
  <2>1. OneSelection'
    BY <1>1 DEF NothingDelivered, PinInv, OneSelection
  <2>2. ASSUME NEW c \in Calls, Resolved(c)'
        PROVE  \E s \in versions' :
                 /\ reply'[c].metas = {Origin(s)}
                 /\ reply'[c].material = s.cipher.plain
                 /\ SelectionOf(reply'[c].ask, s.meta.version) \in selections'
    <3>1. Resolved(c) /\ reply'[c] = reply[c] /\ selections' = selections
      BY <1>1, <2>2 DEF NothingDelivered
    <3>2. PICK r \in versions : /\ reply[c].metas = {Origin(r)}
                                /\ reply[c].material = r.cipher.plain
                                /\ SelectionOf(reply[c].ask, r.meta.version) \in selections
      BY <3>1 DEF PinInv, RepliesBacked
    <3> QED BY <3>1, <3>2, OriginsPersist DEF Kin
  <2> QED BY <2>1, <2>2 DEF PinInv, RepliesBacked
<1>2. ASSUME NEW c \in Calls, NEW q \in Requests, NEW r \in versions, Delivery(c, q, r)
      PROVE  PinInv'
  <2>1. OneSelection'
    BY <1>2 DEF Delivery, PriorSelections, SelectionOf, PinInv, OneSelection
  <2>2. Origin(r) = r.meta
    BY <1>2 DEF Delivery, Opens, SealInv, Origin, TypeOK, Row, Metadata
  <2>3. ASSUME NEW d \in Calls, Resolved(d)'
        PROVE  \E s \in versions' :
                 /\ reply'[d].metas = {Origin(s)}
                 /\ reply'[d].material = s.cipher.plain
                 /\ SelectionOf(reply'[d].ask, s.meta.version) \in selections'
    <3>1. CASE d = c
      BY <1>2, <2>2, <3>1 DEF Delivery, Answer, TypeOK
    <3>2. CASE d # c
      <4>1. Resolved(d) /\ reply'[d] = reply[d]
        BY <1>2, <2>3, <3>2 DEF Delivery, Answer, TypeOK, Resolved, Succeeded
      <4> QED BY <1>2, <4>1 DEF Delivery, PinInv, RepliesBacked
    <3> QED BY <3>1, <3>2
  <2> QED BY <2>1, <2>3 DEF PinInv, RepliesBacked
<1> QED BY <1>1, <1>2, SelectionStep

LEMMA PinsHold == Spec => []PinInv
<1>1. Init => PinInv
  BY DEF Init, PinInv, OneSelection, RepliesBacked, Resolved, Succeeded
<1> QED BY <1>1, PinInvStep, TypeCorrect, SealsHold, PTL DEF Spec

LEMMA PinInvImplies == TypeOK /\ TableInv /\ PinInv => PinnedResolution
<1> SUFFICES ASSUME TypeOK, TableInv, PinInv, NEW c \in Calls, NEW d \in Calls,
                    Resolved(c), Resolved(d), SameKey(c, d)
             PROVE  /\ reply[c].ask.secret = reply[d].ask.secret
                    /\ reply[c].ask.caller = reply[d].ask.caller
                    /\ reply[c].ask.intent = reply[d].ask.intent
                    /\ reply[c].material = reply[d].material
                    /\ reply[c].metas = reply[d].metas
  BY DEF PinnedResolution, Resolved
<1>1. PICK r \in versions : /\ reply[c].metas = {Origin(r)}
                            /\ reply[c].material = r.cipher.plain
                            /\ SelectionOf(reply[c].ask, r.meta.version) \in selections
  BY DEF PinInv, RepliesBacked
<1>2. PICK s \in versions : /\ reply[d].metas = {Origin(s)}
                            /\ reply[d].material = s.cipher.plain
                            /\ SelectionOf(reply[d].ask, s.meta.version) \in selections
  BY DEF PinInv, RepliesBacked
<1>3. SelectionOf(reply[c].ask, r.meta.version) = SelectionOf(reply[d].ask, s.meta.version)
  BY <1>1, <1>2 DEF PinInv, OneSelection, SelectionOf, SameKey
<1>4. r = s
  BY <1>3 DEF SelectionOf, TableInv, Identified
<1> QED BY <1>1, <1>2, <1>3, <1>4 DEF SelectionOf

(***************************************************************************)
(* Pinned for retry: uses of one workspace and correlation receive one     *)
(* version of one secret, to one caller, for one intent, whatever is       *)
(* rotated, revoked or damaged between them, for any number of callers.    *)
(***************************************************************************)
THEOREM ResolutionIsPinned == Spec => []PinnedResolution
BY PinInvImplies, PinsHold, TypeCorrect, TableCorrect, PTL
-----------------------------------------------------------------------------
(* History *)

LEMMA SuccessionStep ==
    ASSUME TypeOK, [Next]_vars, NEW r \in versions
    PROVE  Succession(r)
<1>1. CASE RowsRewritten
  BY <1>1, OriginFacts DEF RowsRewritten, Heir, TypeOK, Succession
<1>2. CASE UNCHANGED versions \/ RowAdded
  BY <1>2 DEF RowAdded, AddedFor, Succession
<1> QED BY <1>1, <1>2, TableStep

(***************************************************************************)
(* Nothing the store does loses a version, changes its number, labels or   *)
(* material, or touches the seal of a revoked one (revocation is not       *)
(* erasure, and it is not undone).                                         *)
(***************************************************************************)
THEOREM HistoryIsKept == Spec => VersionsPersist
<1>1. TypeOK /\ [Next]_vars => [\A r \in versions : Succession(r)]_vars
  BY SuccessionStep
<1> QED BY <1>1, TypeCorrect, PTL DEF Spec, VersionsPersist
-----------------------------------------------------------------------------
(* Revocation *)

\* What a step that hands material to call c rests on.
Sourced(c) ==
    reply'[c].material # None =>
        \E r \in versions :
            /\ r.cipher.aad \in reply'[c].metas
            /\ r.cipher.aad.status = "active"
            /\ r.cipher.plain = reply'[c].material

LEMMA AnswerOf ==
    ASSUME TypeOK, NEW c \in Calls, NEW q, NEW o, NEW M, NEW p, NEW k,
           Answer(c, q, o, M, p, k)
    PROVE  /\ reply'[c].metas = M /\ reply'[c].material = p
           /\ \A d \in Calls : d # c => reply'[d] = reply[d]
BY DEF Answer, TypeOK

LEMMA OperationSourced ==
    ASSUME TypeOK, NEW c \in Calls, NEW q \in Requests, Operation(c, q)
    PROVE  /\ Sourced(c)
           /\ \A d \in Calls : d # c => reply'[d] = reply[d]
<1>1. CASE \E o, M, k : Answer(c, q, o, M, None, k)
  BY <1>1, AnswerOf DEF Sourced
<1>2. CASE \E r \in versions : \E o :
             /\ Answer(c, q, o, {r.meta}, r.cipher.plain, None)
             /\ r.meta.status = "active" /\ Opens(r)
  BY <1>2, AnswerOf DEF Sourced, Opens
<1>3. CASE ResolveSecretForUse(c, q)
  <2>1. CASE \E f : Refuse(c, q, f)
    BY <1>1, <2>1 DEF Refuse
  <2>2. CASE ~ \E f : Refuse(c, q, f)
    <3>1. PICK id : \E r \in SelectRow(q, id) : Deliver(c, q, r)
      BY <1>3, <2>2 DEF ResolveSecretForUse
    <3>2. PICK r \in SelectRow(q, id) : Deliver(c, q, r)
      BY <3>1
    <3>3. r \in versions
      BY <3>2 DEF SelectRow, Rows
    <3>4. Answer(c, q, "resolved", {r.meta}, r.cipher.plain, None)
             /\ r.meta.status = "active" /\ Opens(r)
      BY <2>2, <3>2 DEF Deliver, MayDeliver
    <3> QED BY <1>2, <3>3, <3>4
  <2> QED BY <2>1, <2>2
<1>4. CASE ResolveSecret(c, q)
  <2>1. CASE \E f : Refuse(c, q, f)
    BY <1>1, <2>1 DEF Refuse
  <2>2. CASE ~ \E f : Refuse(c, q, f)
    <3>1. PICK r \in SelectRow(q, q.version) :
            /\ Answer(c, q, "resolved-unpinned", {r.meta}, r.cipher.plain, None)
            /\ r.meta.status = "active" /\ Opens(r)
      BY <1>4, <2>2 DEF ResolveSecret
    <3>2. r \in versions
      BY <3>1 DEF SelectRow, Rows
    <3> QED BY <1>2, <3>1, <3>2
  <2> QED BY <2>1, <2>2
<1>5. CASE CreateSecret(c, q) \/ RotateSecret(c, q) \/ RevokeSecret(c, q)
  BY <1>1, <1>5 DEF CreateSecret, RotateSecret, RevokeSecret, MeetTampered, Refuse
<1>6. CASE RevokeSecretVersion(c, q)
  BY <1>1, <1>6 DEF RevokeSecretVersion, FirstRevocation, ReplayRevocation,
                    RevokeOneVersion, Refuse
<1>7. CASE GenerateDelegationKey(c, q) \/ ReadMetadata(c, q)
  BY <1>1, <1>7 DEF GenerateDelegationKey, FirstGeneration, ReplayGeneration,
                    InsertGeneration, ReadMetadata, Refuse
<1> QED BY <1>3, <1>4, <1>5, <1>6, <1>7 DEF Operation

(***************************************************************************)
(* Revocation holds against the file: material is handed out only from a   *)
(* ciphertext that is sealed as active, whatever its status column says,   *)
(* by the resolution that pins and by the one that does not.               *)
(***************************************************************************)
THEOREM RevokedStaysWithheld == Spec => NoMaterialAfterRevocation
<1> DEFINE Withheld == \A c \in Calls : Returned(c) => Sourced(c)
<1>1. TypeOK /\ [Next]_vars => [Withheld]_vars
  <2> SUFFICES ASSUME TypeOK, Next PROVE Withheld
    OBVIOUS
  <2>1. ASSUME NEW c \in Calls, NEW q \in Requests, Operation(c, q) PROVE Withheld
    BY <2>1, OperationSourced DEF Returned
  <2>2. ASSUME NEW r \in versions, DamageRow(r) PROVE Withheld
    BY <2>2 DEF DamageRow, Returned
  <2> QED BY <2>1, <2>2 DEF Next
<1>2. Withheld =>
        \A c \in Calls : Returned(c) /\ reply'[c].material # None =>
          \E r \in versions :
            /\ r.cipher.aad \in reply'[c].metas
            /\ r.cipher.aad.status = "active"
            /\ r.cipher.plain = reply'[c].material
  BY DEF Sourced
<1>3. TypeOK /\ [Next]_vars =>
        [\A c \in Calls : Returned(c) /\ reply'[c].material # None =>
          \E r \in versions :
            /\ r.cipher.aad \in reply'[c].metas
            /\ r.cipher.aad.status = "active"
            /\ r.cipher.plain = reply'[c].material]_vars
  BY <1>1, <1>2
<1> QED BY <1>3, TypeCorrect, PTL DEF Spec, NoMaterialAfterRevocation
-----------------------------------------------------------------------------
(* The lifecycle of versions *)

\* An answered call keeps its answer.
LEMMA AnswersStay ==
    TypeOK /\ [Next]_vars => \A d \in Calls : reply[d] # None => reply'[d] = reply[d]
<1> SUFFICES ASSUME TypeOK, [Next]_vars
             PROVE  \A d \in Calls : reply[d] # None => reply'[d] = reply[d]
  OBVIOUS
<1>1. ASSUME NEW c \in Calls, NEW q \in Requests, reply[c] = None, Operation(c, q)
      PROVE  \A d \in Calls : reply[d] # None => reply'[d] = reply[d]
  BY <1>1, OperationSourced
<1>2. CASE (\E r \in versions : DamageRow(r)) \/ UNCHANGED vars
  BY <1>2 DEF DamageRow, vars
<1> QED BY <1>1, <1>2 DEF Next

LEMMA SealedStatusFacts ==
    ASSUME TypeOK, Identified
    PROVE  /\ SealedStatus \in [VersionIds -> {"absent", "active", "revoked"}]
           /\ \A r \in versions : /\ r.meta.version \in VersionIds
                                  /\ SealedStatus[r.meta.version] = r.cipher.aad.status
           /\ \A id \in VersionIds : FreshVersion(id) <=> SealedStatus[id] = "absent"
<1>1. \A r \in versions : r.meta.version \in VersionIds /\ r.cipher.aad.status \in Status
  BY DEF TypeOK, Row, Cipher, Metadata
<1>2. ASSUME NEW r \in versions
      PROVE  SealedStatus[r.meta.version] = r.cipher.aad.status
  BY <1>1 DEF SealedStatus, Identified, Status
<1> QED BY <1>1, <1>2 DEF SealedStatus, FreshVersion, Status

LEMMA IssueStep ==
    ASSUME TypeOK, Identified, RowAdded
    PROVE  \E id \in VersionIds : /\ SealedStatus[id] = "absent"
                                  /\ SealedStatus' = [SealedStatus EXCEPT ![id] = "active"]
<1>1. PICK id \in VersionIds, row \in Row :
         /\ FreshVersion(id)
         /\ versions' = versions \cup {row}
         /\ row.meta.version = id
         /\ row.cipher.aad.status = "active"
  BY NewRowFacts, RequestFacts DEF RowAdded, AddedFor
<1>2. SealedStatus[id] = "absent"
  BY <1>1, SealedStatusFacts
<1>3. SealedStatus' \in [VersionIds -> {"absent", "active", "revoked"}]
  BY DEF SealedStatus
<1>4. \A v \in VersionIds : SealedStatus'[v] = IF v = id THEN "active" ELSE SealedStatus[v]
  BY <1>1 DEF SealedStatus, FreshVersion
<1> QED BY <1>2, <1>3, <1>4, SealedStatusFacts

LEMMA RetireStep ==
    ASSUME TypeOK, Identified, RowsRewritten
    PROVE  \E S \in SUBSET {v \in VersionIds : SealedStatus[v] = "active"} :
             SealedStatus' = [v \in VersionIds |-> IF v \in S THEN "revoked" ELSE SealedStatus[v]]
<1>1. PICK F \in [versions -> Row] :
         /\ versions' = {F[r] : r \in versions}
         /\ \A r \in versions : Heir(r, F[r])
  BY DEF RowsRewritten
<1>2. \A r \in versions : F[r].meta.version = r.meta.version
  BY <1>1, OriginFacts DEF Heir, TypeOK
<1> DEFINE S == {v \in VersionIds : \E r \in versions :
                    /\ r.meta.version = v
                    /\ r.cipher.aad.status = "active"
                    /\ F[r].cipher.aad.status = "revoked"}
<1>3. S \in SUBSET {v \in VersionIds : SealedStatus[v] = "active"}
  BY SealedStatusFacts
<1>4. ASSUME NEW v \in VersionIds
      PROVE  SealedStatus'[v] = IF v \in S THEN "revoked" ELSE SealedStatus[v]
  <2>1. CASE \A r \in versions : r.meta.version # v
    BY <1>1, <1>2, <2>1 DEF SealedStatus
  <2>2. ASSUME NEW r \in versions, r.meta.version = v
        PROVE  SealedStatus'[v] = IF v \in S THEN "revoked" ELSE SealedStatus[v]
    <3>1. \A t \in versions : t.meta.version = v => t = r
      BY <2>2 DEF Identified
    <3>2. /\ \A s \in versions' : s.meta.version = v => s = F[r]
          /\ F[r] \in versions' /\ F[r].meta.version = v
      BY <1>1, <1>2, <2>2, <3>1
    <3>3. SealedStatus[v] = r.cipher.aad.status
      BY <2>2, SealedStatusFacts
    <3>4. SealedStatus'[v] = IF F[r].cipher.aad.status = "revoked" THEN "revoked" ELSE "active"
      BY <3>2 DEF SealedStatus
    <3>5. r.cipher.aad.status \in Status /\ F[r].cipher.aad.status \in Status
      BY <1>1 DEF TypeOK, Row, Cipher, Metadata
    <3>6. \/ F[r].cipher.aad.status = r.cipher.aad.status
          \/ r.cipher.aad.status = "active" /\ F[r].cipher.aad.status = "revoked"
      BY <1>1 DEF Heir
    <3>7. v \in S <=> r.cipher.aad.status = "active" /\ F[r].cipher.aad.status = "revoked"
      BY <2>2, <3>1
    <3> QED BY <3>3, <3>4, <3>5, <3>6, <3>7 DEF Status
  <2> QED BY <2>1, <2>2
<1>5. SealedStatus' = [v \in VersionIds |-> IF v \in S THEN "revoked" ELSE SealedStatus[v]]
  BY <1>4 DEF SealedStatus
<1> QED BY <1>3, <1>5

\* The pair a resolution delivers.
PairOf(q, m) == <<<<q.ws, q.corr>>, m.version>>

LEMMA DeliveredFacts ==
    \A x : x \in DeliveredPairs <=>
        \E c \in Calls : Resolved(c) /\ \E m \in reply[c].metas : x = PairOf(reply[c].ask, m)
BY DEF DeliveredPairs, Resolved, PairOf

LEMMA QuietStep ==
    ASSUME TypeOK, [Next]_vars, NothingDelivered
    PROVE  Pinned' = Pinned /\ DeliveredPairs' = DeliveredPairs
<1>1. \A c \in Calls : Resolved(c)' <=> Resolved(c)
  BY AnswersStay DEF NothingDelivered, Resolved, Succeeded
<1>2. \A c \in Calls : Resolved(c) => reply'[c] = reply[c]
  BY AnswersStay DEF Resolved, Succeeded
<1>3. DeliveredPairs' = DeliveredPairs
  BY <1>1, <1>2 DEF DeliveredPairs, Resolved
<1> QED BY <1>3 DEF NothingDelivered, Pinned

LEMMA DeliverStep ==
    ASSUME TypeOK, TableInv, PinInv, [Next]_vars,
           NEW c \in Calls, NEW q \in Requests, NEW r \in versions, Delivery(c, q, r)
    PROVE  Promise!Deliver(<<q.ws, q.corr>>, r.meta.version)
<1> DEFINE k == <<q.ws, q.corr>>
           v == r.meta.version
<1>1. v \in Promise!Active
  BY SealedStatusFacts DEF Delivery, Opens, TableInv, Promise!Active
<1>2. ASSUME NEW w \in VersionIds, <<k, w>> \in Pinned PROVE w = v
  <2>1. PICK s \in selections : s.ws = q.ws /\ s.corr = q.corr /\ s.version = w
    BY <1>2 DEF Pinned
  <2>2. SelectionOf(q, v) \in selections
    BY <2>1 DEF Delivery, PriorSelections
  <2>3. SelectionOf(q, v) = s
    BY <2>1, <2>2 DEF PinInv, OneSelection, SelectionOf
  <2> QED BY <2>1, <2>3 DEF SelectionOf
<1>3. Pinned' = Pinned \cup {<<k, v>>}
  BY DEF Delivery, Pinned, SelectionOf
<1>4. DeliveredPairs' = DeliveredPairs \cup {<<k, v>>}
  <2>1. reply' = [reply EXCEPT ![c] = [ask |-> q, outcome |-> "resolved", metas |-> {r.meta},
                                       material |-> r.cipher.plain, public |-> None]]
    BY DEF Delivery, Answer
  <2>2. reply'[c] = [ask |-> q, outcome |-> "resolved", metas |-> {r.meta},
                     material |-> r.cipher.plain, public |-> None]
    BY <2>1 DEF TypeOK
  <2>3. r.meta \in Metadata /\ r.cipher.plain \in Material
    BY DEF TypeOK, Row, Cipher
  <2>4. reply'[c] \in Reply
    BY <2>2, <2>3 DEF Reply, Successes, Opt
  <2>5. Resolved(c)' /\ reply'[c].ask = q /\ reply'[c].metas = {r.meta}
    BY <2>2, <2>4, ReplyAssumption DEF Resolved, Succeeded
  <2>6. \A d \in Calls : d # c => reply'[d] = reply[d]
    BY <2>1 DEF TypeOK
  <2>7. \A d \in Calls : Resolved(d) => Resolved(d)' /\ reply'[d] = reply[d]
    BY AnswersStay DEF Resolved, Succeeded
  <2>8. \A d \in Calls : d # c /\ Resolved(d)' => Resolved(d)
    BY <2>6 DEF Resolved, Succeeded
  <2>9. <<k, v>> = PairOf(reply'[c].ask, r.meta)
    BY <2>5 DEF PairOf
  <2>a. \A x : x \in DeliveredPairs' <=>
           \E d \in Calls :
              Resolved(d)' /\ \E m \in reply'[d].metas : x = PairOf(reply'[d].ask, m)
    BY DEF DeliveredPairs, Resolved, PairOf
  <2>b. \A x : x \in DeliveredPairs => x \in DeliveredPairs'
    BY <2>7, <2>a, DeliveredFacts
  <2>c. <<k, v>> \in DeliveredPairs'
    BY <2>5, <2>9, <2>a
  <2>d. \A x \in DeliveredPairs' : x = <<k, v>> \/ x \in DeliveredPairs
    BY <2>5, <2>6, <2>8, <2>9, <2>a, DeliveredFacts
  <2> QED BY <2>b, <2>c, <2>d
<1>5. UNCHANGED SealedStatus
  BY DEF Delivery, SealedStatus
<1> QED BY <1>1, <1>2, <1>3, <1>4, <1>5 DEF Promise!Deliver

LEMMA LifecycleStep ==
    ASSUME TypeOK, TableInv, PinInv, [Next]_vars
    PROVE  [Promise!Next]_<<SealedStatus, Pinned, DeliveredPairs>>
<1>1. CASE NothingDelivered
  <2>1. UNCHANGED <<Pinned, DeliveredPairs>>
    BY <1>1, QuietStep
  <2>2. CASE UNCHANGED versions
    BY <2>1, <2>2 DEF SealedStatus
  <2>3. CASE RowAdded
    <3>1. PICK id \in VersionIds : Promise!Issue(id)
      BY <2>1, <2>3, IssueStep DEF TableInv, Promise!Issue
    <3> QED BY <3>1 DEF Promise!Next
  <2>4. CASE RowsRewritten
    <3>1. PICK S \in SUBSET Promise!Active : Promise!Retire(S)
      BY <2>1, <2>4, RetireStep DEF TableInv, Promise!Active, Promise!Retire
    <3> QED BY <3>1 DEF Promise!Next
  <2> QED BY <2>2, <2>3, <2>4, TableStep
<1>2. ASSUME NEW c \in Calls, NEW q \in Requests, NEW r \in versions, Delivery(c, q, r)
      PROVE  Promise!Next
  <2>1. <<q.ws, q.corr>> \in Workspaces \X Correlations /\ r.meta.version \in VersionIds
    BY RequestFacts DEF Request, TypeOK, Row, Metadata
  <2>2. Promise!Deliver(<<q.ws, q.corr>>, r.meta.version)
    BY <1>2, DeliverStep
  <2> QED BY <2>1, <2>2 DEF Promise!Next
<1> QED BY <1>1, <1>2, SelectionStep

(***************************************************************************)
(* The store implements VersionLifecycle: with any calls in flight and any *)
(* rows damaged, a version is issued once, retired for good and delivered  *)
(* only while active, and a key stays with the first version it was given. *)
(***************************************************************************)
THEOREM StoreImplementsLifecycle == Spec => ImplementsLifecycle
<1>1. Init => Promise!Init
  BY DEF Init, Promise!Init, SealedStatus, Pinned, DeliveredPairs, Succeeded
<1> QED BY <1>1, LifecycleStep, TypeCorrect, TableCorrect, PinsHold, PTL
        DEF Spec, ImplementsLifecycle, Promise!Spec, Promise!vars
=============================================================================
