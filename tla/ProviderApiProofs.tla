--------------------------- MODULE ProviderApiProofs ---------------------------
(***************************************************************************)
(* Theorems about the HTTP handlers, for every set of clients, credentials *)
(* and requests, any interleaving of the handlers, any failed transaction, *)
(* any number of crashes, and any number of rows altered again and again.  *)
(*                                                                         *)
(* A step of the handlers is a step of the store, or an audit record of    *)
(* their own, or leaves the store alone.  The store's invariants hold      *)
(* therefore under the handlers too, and what they say of a reply carries  *)
(* over the audit loop to what the client is told.                         *)
(***************************************************************************)
EXTENDS ProviderApi, SecretStoreRecordsProofs

-----------------------------------------------------------------------------
(* What the reply of one store operation tells *)

\* The successes of each operation.
SuccessOf(op, o) ==
    \/ op = "create" /\ o = "stored"
    \/ op = "rotate" /\ o = "rotated"
    \/ op = "revoke" /\ o = "revoked-all"
    \/ op = "revoke-version" /\ o \in Revoked
    \/ op = "generate" /\ o \in Generated
    \/ op = "resolve" /\ o = "resolved"
    \/ op = "resolve-unpinned" /\ o = "resolved-unpinned"
    \/ op = "metadata" /\ o = "metadata"

\* The outcomes for which a client needs a grant on the intent of the version.
Granted == {"stored", "rotated", "resolved"} \cup Generated

WellFormed(R) ==
    /\ R.outcome \in Successes => SuccessOf(R.ask.op, R.outcome)
    /\ R.outcome = "SecretVersionRevocationConflict" => R.ask.op = "revoke-version"
    /\ R.outcome = "SecretRevoked" => R.ask.op # "metadata"
    /\ R.material # None => R.outcome \in {"resolved", "resolved-unpinned"}
    /\ R.outcome \in Granted =>
         \A m \in R.metas : m.ws = R.ask.ws /\ m.labels.intent = R.ask.intent

Known(id) == \E r \in versions : r.meta.version = id

\* Out of reach for good, whatever its status column says by now.
Sealed(id) == \E r \in versions : r.meta.version = id /\ r.cipher.aad.status = "revoked"

\* What a record of a revocation stands for.
Gone(id) == id \in damaged \/ Sealed(id)

\* The outcomes that take versions away.
Withdrawn == {"revoked-all", "version-revoked", "revocation-replayed"}

\* A version returned with a revocation time is sealed.
SealedIfTimed(m) == m.revoked_at # None => Sealed(m.version)

Tells(c, q) ==
    /\ reply'[c] # None /\ reply'[c].ask = q
    /\ WellFormed(reply'[c])
    /\ \A m \in reply'[c].metas : Known(m.version)'
    /\ reply'[c].outcome = "revoked-all" => \A m \in reply'[c].metas : Gone(m.version)'
    /\ reply'[c].outcome \in Withdrawn => \A m \in reply'[c].metas : SealedIfTimed(m)'
    /\ reply'[c].outcome = "resolved" => \A m \in reply'[c].metas : ~Sealed(m.version)
    /\ reply'[c].outcome = "SecretRevoked" /\ q.op = "resolve" /\ q.version # None =>
         \A id \in {q.version} : Gone(id)'

LEMMA ReplyIs ==
    ASSUME TypeOK, NEW c \in Calls, NEW q \in Requests,
           NEW o \in Successes \cup Failures, NEW M \in SUBSET Metadata,
           NEW p \in Opt(Material), NEW k \in Opt(KeyPairs), Answer(c, q, o, M, p, k)
    PROVE  /\ reply'[c].ask = q /\ reply'[c].outcome = o
           /\ reply'[c].metas = M /\ reply'[c].material = p
           /\ reply'[c] # None
<1>1. reply'[c] = [ask |-> q, outcome |-> o, metas |-> M, material |-> p, public |-> k]
  BY DEF Answer, TypeOK
<1>2. reply'[c] \in Reply
  BY <1>1 DEF Reply
<1> QED BY <1>1, <1>2, ReplyAssumption

\* A refusal tells nothing, unless a resolution is refused as revoked.
LEMMA RefusalTells ==
    ASSUME TypeOK, NEW c \in Calls, NEW q \in Requests, NEW f \in Failures, Refuse(c, q, f),
           f = "SecretVersionRevocationConflict" => q.op = "revoke-version",
           f = "SecretRevoked" => q.op # "metadata",
           f = "SecretRevoked" /\ q.op = "resolve" /\ q.version # None => Gone(q.version)
    PROVE  Tells(c, q)
<1>1. /\ reply'[c].ask = q /\ reply'[c].outcome = f
      /\ reply'[c].metas = {} /\ reply'[c].material = None
      /\ reply'[c] # None
  <2>1. f \in Successes \cup Failures /\ {} \in SUBSET Metadata
        /\ None \in Opt(Material) /\ None \in Opt(KeyPairs)
    BY DEF Opt
  <2>2. Answer(c, q, f, {}, None, None)
    BY DEF Refuse
  <2> QED BY <2>1, <2>2, ReplyIs
<1>2. versions' = versions /\ damaged' = damaged
  BY DEF Refuse, tables
<1>3. f \notin Successes /\ f \notin Withdrawn /\ f # "resolved"
  BY DEF Failures, Successes, Withdrawn
<1>4. f \notin Granted
  BY DEF Failures, Granted, Generated
<1>5. WellFormed(reply'[c])
  BY <1>1, <1>3, <1>4 DEF WellFormed
<1>6. f = "SecretRevoked" /\ q.op = "resolve" /\ q.version # None =>
        \A id \in {q.version} : Gone(id)'
  BY <1>2 DEF Gone, Sealed
<1> QED BY <1>1, <1>3, <1>5, <1>6 DEF Tells, Failures

\* An operation that returns one version tells what it says of that version.
LEMMA AnswerTells ==
    ASSUME TypeOK, NEW c \in Calls, NEW q \in Requests, NEW o \in Successes,
           NEW m \in Metadata, NEW p \in Opt(Material), NEW k \in Opt(KeyPairs),
           Answer(c, q, o, {m}, p, k),
           SuccessOf(q.op, o),
           p # None => o \in {"resolved", "resolved-unpinned"},
           o \in Granted => m.ws = q.ws /\ m.labels.intent = q.intent,
           Known(m.version)',
           o # "revoked-all",
           o \in Withdrawn => SealedIfTimed(m)',
           o = "resolved" => ~Sealed(m.version)
    PROVE  Tells(c, q)
<1>1. o \in Successes \cup Failures /\ {m} \in SUBSET Metadata
  OBVIOUS
<1>2. /\ reply'[c].ask = q /\ reply'[c].outcome = o
      /\ reply'[c].metas = {m} /\ reply'[c].material = p
      /\ reply'[c] # None
  BY <1>1, ReplyIs
<1>3. o \notin {"SecretVersionRevocationConflict", "SecretRevoked"}
  BY DEF Successes
<1>4. WellFormed(reply'[c])
  BY <1>2, <1>3 DEF WellFormed
<1> QED BY <1>2, <1>3, <1>4 DEF Tells

LEMMA NewRowTells ==
    ASSUME TypeOK, NEW c \in Calls, NEW q \in Requests, NEW o \in {"stored", "rotated", "generated"},
           NEW id \in VersionIds, NEW n \in Nat, NEW L \in Labels, NEW v \in Material,
           NEW k \in Opt(KeyPairs),
           versions' = versions \cup {NewRow(q, id, n, L, v)},
           Answer(c, q, o, {NewRow(q, id, n, L, v).meta}, None, k),
           SuccessOf(q.op, o), L.intent = q.intent
    PROVE  Tells(c, q)
<1> DEFINE row == NewRow(q, id, n, L, v)
<1>1. /\ row \in Row /\ row.meta.ws = q.ws
      /\ row.meta.version = id /\ row.meta.labels = L
  BY NewRowFacts, RequestFacts
<1>2. row \in versions' /\ Answer(c, q, o, {row.meta}, None, k)
  OBVIOUS
<1> HIDE DEF row
<1>3. row.meta \in Metadata /\ Known(row.meta.version)'
  BY <1>1, <1>2 DEF Row, Known
<1>4. None \in Opt(Material)
  BY DEF Opt
<1>5. o \in Successes /\ o \notin Withdrawn /\ o # "resolved" /\ o # "revoked-all"
  BY DEF Successes, Withdrawn
<1> QED BY <1>1, <1>2, <1>3, <1>4, <1>5, AnswerTells

LEMMA CreateTells ==
    ASSUME TypeOK, NEW c \in Calls, NEW q \in Requests, q.op = "create", CreateSecret(c, q)
    PROVE  Tells(c, q)
<1>1. CASE \E f \in Failures : Refuse(c, q, f) /\ f \notin {"SecretVersionRevocationConflict", "SecretRevoked"}
  BY <1>1, RefusalTells
<1>2. CASE ~ \E f \in Failures : Refuse(c, q, f) /\ f \notin {"SecretVersionRevocationConflict", "SecretRevoked"}
  <2>1. PICK id \in VersionIds :
           /\ versions' = versions \cup {NewRow(q, id, 1, WrittenLabels(q), q.value)}
           /\ Answer(c, q, "stored", {NewRow(q, id, 1, WrittenLabels(q), q.value).meta}, None, None)
    BY <1>2 DEF CreateSecret, Failures
  <2>2. /\ WrittenLabels(q) \in Labels /\ q.value \in Material
        /\ WrittenLabels(q).intent = q.intent /\ None \in Opt(KeyPairs)
    BY RequestFacts, LabelFacts DEF Material, Opt
  <2> QED BY <2>1, <2>2, NewRowTells DEF SuccessOf
<1> QED BY <1>1, <1>2

LEMMA RotateTells ==
    ASSUME TypeOK, NEW c \in Calls, NEW q \in Requests, q.op = "rotate", RotateSecret(c, q)
    PROVE  Tells(c, q)
<1>1. CASE \E f \in Failures : Refuse(c, q, f) /\ f \notin {"SecretVersionRevocationConflict", "SecretRevoked"}
  BY <1>1, RefusalTells
<1>2. CASE ~ \E f \in Failures : Refuse(c, q, f) /\ f \notin {"SecretVersionRevocationConflict", "SecretRevoked"}
  <2>1. PICK latest \in Rows(q), id \in VersionIds :
           LET row == NewRow(q, id, NextNumber(latest, q), WrittenLabels(q), q.value) IN
           versions' = versions \cup {row} /\ Answer(c, q, "rotated", {row.meta}, None, None)
    BY <1>2 DEF RotateSecret, Failures
  <2>2. /\ WrittenLabels(q) \in Labels /\ q.value \in Material
        /\ WrittenLabels(q).intent = q.intent /\ None \in Opt(KeyPairs)
    BY RequestFacts, LabelFacts DEF Material, Opt
  <2>3. NextNumber(latest, q) \in Nat
    BY DEF Rows, NextNumber, TypeOK, Row, Metadata
  <2> QED BY <2>1, <2>2, <2>3, NewRowTells DEF SuccessOf
<1> QED BY <1>1, <1>2

LEMMA RevokeTells ==
    ASSUME TypeOK, SealInv, NEW c \in Calls, NEW q \in Requests, q.op = "revoke",
           RevokeSecret(c, q)
    PROVE  Tells(c, q)
<1>1. CASE \E f \in Failures : Refuse(c, q, f) /\ f \notin {"SecretVersionRevocationConflict", "SecretRevoked"}
  BY <1>1, RefusalTells
<1>2. CASE ~ \E f \in Failures : Refuse(c, q, f) /\ f \notin {"SecretVersionRevocationConflict", "SecretRevoked"}
  <2> DEFINE kept == {r.meta : r \in Rows(q) \ ToRevoke(q)}
             lost == {RevokedMetadata(r, c) : r \in ToRevoke(q)}
  <2>1. /\ versions' = (versions \ ToRevoke(q)) \cup {RevokeRow(r, c) : r \in ToRevoke(q)}
        /\ Answer(c, q, "revoked-all", kept \cup lost, None, None)
        /\ damaged' = damaged
    BY <1>2 DEF RevokeSecret, MeetTampered, Failures
  <2>2. ASSUME NEW r \in Rows(q) \ ToRevoke(q)
        PROVE  /\ r.meta \in Metadata /\ Known(r.meta.version)'
               /\ Gone(r.meta.version)' /\ SealedIfTimed(r.meta)'
    <3>1. r \in versions' /\ r \in Row /\ r \in versions
      BY <2>1 DEF Rows, TypeOK
    <3>2. r.meta.status = "revoked"
      BY <3>1 DEF ToRevoke, Row, Metadata, Status
    <3>3. r.meta.version \notin damaged => r.cipher.aad.status = "revoked"
      BY <3>1, <3>2 DEF SealInv, UndamagedRowsAuthenticate, Opens
    <3>4. r.meta.revoked_at # None => r.cipher.aad.status = "revoked"
      BY <3>1 DEF SealInv, Row, Cipher, Metadata, Status
    <3> QED BY <2>1, <3>1, <3>3, <3>4 DEF Row, Known, Gone, Sealed, SealedIfTimed
  <2>3. ASSUME NEW r \in ToRevoke(q)
        PROVE  /\ RevokedMetadata(r, c) \in Metadata /\ Known(RevokedMetadata(r, c).version)'
               /\ Gone(RevokedMetadata(r, c).version)' /\ SealedIfTimed(RevokedMetadata(r, c))'
    <3>1. r \in Row
      BY DEF ToRevoke, Rows, TypeOK
    <3>2. RevokeRow(r, c) \in versions'
      BY <2>1
    <3> QED BY <3>1, <3>2, RevokeRowFacts DEF Known, Gone, Sealed, SealedIfTimed
  <2>4. /\ kept \cup lost \in SUBSET Metadata
        /\ \A m \in kept \cup lost : Known(m.version)' /\ Gone(m.version)' /\ SealedIfTimed(m)'
    BY <2>2, <2>3
  <2> HIDE DEF kept, lost
  <2>6. "revoked-all" \in Successes \cup Failures /\ None \in Opt(Material) /\ None \in Opt(KeyPairs)
    BY DEF Successes, Opt
  <2>7. /\ reply'[c].ask = q /\ reply'[c].outcome = "revoked-all"
        /\ reply'[c].metas = kept \cup lost /\ reply'[c].material = None
        /\ reply'[c] # None
    BY <2>1, <2>4, <2>6, ReplyIs
  <2>8. WellFormed(reply'[c])
    BY <2>7 DEF WellFormed, SuccessOf, Granted, Generated
  <2> QED BY <2>4, <2>7, <2>8 DEF Tells
<1> QED BY <1>1, <1>2

LEMMA RevokeVersionTells ==
    ASSUME TypeOK, SealInv, NEW c \in Calls, NEW q \in Requests, q.op = "revoke-version",
           RevokeSecretVersion(c, q)
    PROVE  Tells(c, q)
<1>0. /\ None \in Opt(Material) /\ None \in Opt(KeyPairs)
      /\ \A o \in Revoked : /\ SuccessOf(q.op, o) /\ o \in Successes
                              /\ o \notin Granted /\ o # "resolved" /\ o # "revoked-all"
  BY DEF Opt, Revoked, SuccessOf, Successes, Granted, Generated
<1>1. CASE \E f \in Failures : Refuse(c, q, f)
  BY <1>1, RefusalTells
<1>2. CASE \E r \in SelectRow(q, q.version) : RevokeOneVersion(c, q, r)
  <2>1. PICK r \in SelectRow(q, q.version) : RevokeOneVersion(c, q, r)
    BY <1>2
  <2>2. r \in Row
    BY SelectedRows DEF TypeOK
  <2>3. /\ Answer(c, q, "version-revoked", {RevokedMetadata(r, c)}, None, None)
        /\ RevokeRow(r, c) \in versions'
    BY <2>1 DEF RevokeOneVersion
  <2>4. /\ RevokedMetadata(r, c) \in Metadata
        /\ SealedIfTimed(RevokedMetadata(r, c))' /\ Known(RevokedMetadata(r, c).version)'
    BY <2>2, <2>3, RevokeRowFacts DEF SealedIfTimed, Sealed, Known
  <2>5. "version-revoked" \in Revoked
    BY DEF Revoked
  <2> QED BY <1>0, <2>3, <2>4, <2>5, AnswerTells
<1>3. CASE \E r \in versions : /\ Answer(c, q, "revocation-replayed", {r.meta}, None, None)
                               /\ UNCHANGED versions
  <2>1. PICK r \in versions : /\ Answer(c, q, "revocation-replayed", {r.meta}, None, None)
                              /\ UNCHANGED versions
    BY <1>3
  <2>2. r.meta \in Metadata /\ Known(r.meta.version)'
    BY <2>1 DEF TypeOK, Row, Known
  <2>3. "revocation-replayed" \in Revoked
    BY DEF Revoked
  <2>4. r.meta.revoked_at # None => r.cipher.aad.status = "revoked"
    BY DEF SealInv, TypeOK, Row, Cipher, Metadata, Status
  <2>5. SealedIfTimed(r.meta)'
    BY <2>1, <2>4 DEF SealedIfTimed, Sealed
  <2> QED BY <1>0, <2>1, <2>2, <2>3, <2>5, AnswerTells
<1> QED BY <1>1, <1>2, <1>3, SelectedRows
        DEF RevokeSecretVersion, FirstRevocation, ReplayRevocation, Failures

LEMMA GenerateTells ==
    ASSUME TypeOK, NEW c \in Calls, NEW q \in Requests, q.op = "generate",
           GenerateDelegationKey(c, q)
    PROVE  Tells(c, q)
<1>1. CASE \E f \in Failures : Refuse(c, q, f) /\ f # "SecretVersionRevocationConflict"
  BY <1>1, RefusalTells
<1>2. CASE ~ \E f \in Failures : Refuse(c, q, f) /\ f # "SecretVersionRevocationConflict"
  <2>1. CASE \E id \in VersionIds, key \in KeyPairs : InsertGeneration(c, q, id, key)
    <3>1. PICK id \in VersionIds, key \in KeyPairs : InsertGeneration(c, q, id, key)
      BY <2>1
    <3> DEFINE L == FamilyLabels(q.intent, q.purpose, q.issuer, key)
    <3>2. L \in Labels /\ key \in Material /\ L.intent = q.intent /\ key \in Opt(KeyPairs)
      BY RequestFacts, LabelFacts DEF Material, Request, FamilyLabels, Opt
    <3>3. /\ versions' = versions \cup {NewRow(q, id, 1, L, key)}
          /\ Answer(c, q, "generated", {NewRow(q, id, 1, L, key).meta}, None, key)
      BY <3>1 DEF InsertGeneration
    <3>4. SuccessOf(q.op, "generated")
      BY DEF SuccessOf, Generated
    <3> HIDE DEF L
    <3> QED BY <3>2, <3>3, <3>4, NewRowTells
  <2>2. CASE ~ \E id \in VersionIds, key \in KeyPairs : InsertGeneration(c, q, id, key)
    <3>1. PICK g \in PriorGenerations(q) : ReplayGeneration(c, q, g)
      BY <1>2, <2>2 DEF GenerateDelegationKey, FirstGeneration, Failures
    <3>2. PICK r \in SelectRow(q, g.version) :
             /\ MaterialMatches(g, q, r)
             /\ Answer(c, q, "generation-replayed", {r.meta}, None, g.key)
             /\ UNCHANGED versions
      BY <1>2, <3>1 DEF ReplayGeneration, Failures
    <3>3. /\ r \in versions /\ r.meta \in Metadata /\ Known(r.meta.version)'
          /\ r.meta.ws = q.ws /\ r.meta.labels.intent = q.intent
      BY <3>2 DEF SelectRow, Rows, TypeOK, Row, Known, MaterialMatches, FamilyLabels
    <3>4. g.key \in Opt(KeyPairs) /\ None \in Opt(Material)
      BY DEF PriorGenerations, TypeOK, Generation, Opt
    <3>5. /\ SuccessOf(q.op, "generation-replayed") /\ "generation-replayed" \in Successes
          /\ "generation-replayed" \notin Withdrawn
      BY DEF SuccessOf, Generated, Successes, Withdrawn
    <3> QED BY <3>2, <3>3, <3>4, <3>5, AnswerTells
  <2> QED BY <2>1, <2>2
<1> QED BY <1>1, <1>2

\* A resolution comes down to one row, the one it names if it names one.
LEMMA ResolutionSelects ==
    ASSUME TypeOK, NEW c \in Calls, NEW q \in Requests, ResolveSecretForUse(c, q)
    PROVE  \/ Refuse(c, q, "SecretMissing") \/ Refuse(c, q, "SecretResolutionConflict")
           \/ \E r \in Rows(q) : /\ q.version # None => r.meta.version = q.version
                                 /\ Deliver(c, q, r)
<1>1. CASE \E r \in SelectRow(q, q.version) : Deliver(c, q, r)
  BY <1>1 DEF SelectRow
<1>2. ASSUME NEW s \in PriorSelections(q), SameSelection(s, q),
             \E r \in SelectRow(q, PinnedVersion(s)) : Deliver(c, q, r)
      PROVE  \E r \in Rows(q) : /\ q.version # None => r.meta.version = q.version
                                /\ Deliver(c, q, r)
  <2>1. s.version \in VersionIds /\ s.version # None
    BY NoneAssumption DEF PriorSelections, TypeOK, Selection
  <2>2. PICK r \in SelectRow(q, s.version) : Deliver(c, q, r)
    BY <1>2 DEF PinnedVersion
  <2> QED BY <1>2, <2>1, <2>2 DEF SelectRow, SameSelection
<1> QED BY <1>1, <1>2 DEF ResolveSecretForUse

LEMMA ResolveTells ==
    ASSUME TypeOK, SealInv, Identified, NEW c \in Calls, NEW q \in Requests, q.op = "resolve",
           ResolveSecretForUse(c, q)
    PROVE  Tells(c, q)
<1>1. CASE \E f \in Failures : Refuse(c, q, f) /\ f \notin {"SecretVersionRevocationConflict", "SecretRevoked"}
  BY <1>1, RefusalTells
<1>2. CASE ~ \E f \in Failures : Refuse(c, q, f) /\ f \notin {"SecretVersionRevocationConflict", "SecretRevoked"}
  <2>1. PICK r \in Rows(q) : /\ q.version # None => r.meta.version = q.version
                             /\ Deliver(c, q, r)
    BY <1>2, ResolutionSelects DEF Failures
  <2>2. r \in versions /\ r \in Row /\ r.meta.ws = q.ws
    BY DEF Rows, TypeOK
  <2>3. CASE r.meta.status = "revoked" /\ Refuse(c, q, "SecretRevoked")
    <3>1. q.version # None => Gone(q.version)
      BY <2>1, <2>2, <2>3 DEF SealInv, UndamagedRowsAuthenticate, Opens, Gone, Sealed
    <3>2. "SecretRevoked" \in Failures /\ "SecretRevoked" # "SecretVersionRevocationConflict"
      BY DEF Failures
    <3> QED BY <2>3, <3>1, <3>2, RefusalTells
  <2>4. CASE /\ MayDeliver(r, q) /\ Opens(r)
             /\ Answer(c, q, "resolved", {r.meta}, r.cipher.plain, None)
             /\ UNCHANGED versions
    <3>1. /\ r.meta \in Metadata /\ r.cipher.plain \in Opt(Material) /\ None \in Opt(KeyPairs)
          /\ Known(r.meta.version)' /\ r.meta.labels.intent = q.intent
      BY <2>2, <2>4 DEF Row, Cipher, Opt, Known, MayDeliver, HasIntent
    <3>2. ~Sealed(r.meta.version)
      BY <2>2, <2>4 DEF Sealed, Identified, Opens, MayDeliver
    <3>3. /\ SuccessOf(q.op, "resolved") /\ "resolved" \in Successes
          /\ "resolved" \notin Withdrawn
      BY DEF SuccessOf, Successes, Withdrawn
    <3> QED BY <2>2, <2>4, <3>1, <3>2, <3>3, AnswerTells
  <2> QED BY <1>2, <2>1, <2>3, <2>4 DEF Deliver, Failures
<1> QED BY <1>1, <1>2

LEMMA ReadTells ==
    ASSUME TypeOK, NEW c \in Calls, NEW q \in Requests, q.op = "metadata", ReadMetadata(c, q)
    PROVE  Tells(c, q)
<1>1. CASE Refuse(c, q, "SecretMissing")
  BY <1>1, RefusalTells DEF Failures
<1>2. CASE ~Refuse(c, q, "SecretMissing")
  <2>1. PICK r \in SelectRow(q, q.version) :
           Answer(c, q, "metadata", {r.meta}, None, None) /\ UNCHANGED versions
    BY <1>2 DEF ReadMetadata, tables
  <2>2. r.meta \in Metadata /\ Known(r.meta.version)' /\ None \in Opt(Material) /\ None \in Opt(KeyPairs)
    BY <2>1, SelectedRows DEF TypeOK, Row, Known, Opt
  <2>3. /\ SuccessOf(q.op, "metadata") /\ "metadata" \in Successes
        /\ "metadata" \notin Withdrawn /\ "metadata" \notin Granted
    BY DEF SuccessOf, Successes, Withdrawn, Granted, Generated
  <2> QED BY <2>1, <2>2, <2>3, AnswerTells
<1> QED BY <1>1, <1>2

LEMMA OperationTells ==
    ASSUME TypeOK, SealInv, Identified, NEW c \in Calls, NEW q \in Requests,
           q.op # "resolve-unpinned", Operation(c, q)
    PROVE  Tells(c, q)
BY CreateTells, RotateTells, RevokeTells, RevokeVersionTells, GenerateTells, ResolveTells,
   ReadTells DEF Operation
-----------------------------------------------------------------------------
(* Requests, checks and codes *)

PendingRecord == [code: HandlerCodes, version: Opt(VersionIds), rank: Nat]

\* The codes of records that claim something of a version.
Issuing == {"secret-stored", "secret-rotated", "secret-resolved", "delegation-key-generated"}
Revoking == {"secret-revoked", "secret-version-revoked"}

LEMMA RequestKept ==
    ASSUME NEW a \in ApiRequests
    PROVE  /\ StoreRequest(a) \in Requests
           /\ StoreRequest(a).op = a.ask.op /\ a.ask.op # "resolve-unpinned"
           /\ StoreRequest(a).ws = a.ask.ws
           /\ StoreRequest(a).version = a.ask.version
           /\ a.ask.version \in Opt(VersionIds)
<1>1. a.ask \in Request
  BY ApiAssumption DEF ApiRequest
<1> QED BY <1>1, ApiAssumption DEF StoreRequest, GenerationRequest, Request

\* The checks of a handler, one by one.
LEMMA TwoChecks ==
    ASSUME NEW s, NEW x, NEW y, s = <<x, y>>
    PROVE  2 \in DOMAIN s /\ s[2] = y /\ \A i \in DOMAIN s : s[i] \in {x, y}
OBVIOUS

LEMMA ThreeChecks ==
    ASSUME NEW s, NEW x, NEW y, NEW z, s = <<x, y, z>>
    PROVE  3 \in DOMAIN s /\ s[3] = z /\ \A i \in DOMAIN s : s[i] \in {x, y, z}
OBVIOUS

LEMMA FiveChecks ==
    ASSUME NEW s, NEW x, NEW y, NEW z, NEW v, NEW w, s = <<x, y, z, v, w>>
    PROVE  3 \in DOMAIN s /\ s[3] = z /\ \A i \in DOMAIN s : s[i] \in {x, y, z, v, w}
OBVIOUS

\* Each handler has a scope check, and audits under codes of its own.
LEMMA ChecksTell ==
    ASSUME NEW a \in ApiRequests
    PROVE  /\ \A i \in DOMAIN Checks[a] :
                /\ Checks[a][i].code \in AnswerCodes \ (Issuing \cup Revoking)
                /\ Checks[a][i].audited => Checks[a][i].code \in HandlerCodes
           /\ Admitted(a) => InScope(a)
<1> DEFINE Tidy(k) == /\ k.code \in AnswerCodes \ (Issuing \cup Revoking)
                      /\ k.audited => k.code \in HandlerCodes
           labels == Check(a.labelsAgree, "intent-label-conflict", TRUE)
           decoding == Check(a.decodes, "invalid-secret-material", FALSE)
           naming == Check(a.ask.purpose \in Purposes /\ a.wellNamed,
                           "invalid-delegation-key-generation", TRUE)
<1>0. /\ Tidy(Authentication(a)) /\ Tidy(IntentKnown(a))
      /\ Tidy(Scope(a, TRUE)) /\ Tidy(Scope(a, FALSE))
      /\ Tidy(labels) /\ Tidy(decoding) /\ Tidy(naming)
      /\ Scope(a, TRUE).passes => InScope(a)
      /\ Scope(a, FALSE).passes => InScope(a)
  BY DEF Check, Authentication, Scope, IntentKnown, HandlerCodes, AnswerCodes, Issuing, Revoking
<1>1. CASE a.ask.op \in {"create", "rotate"}
  <2>1. Checks[a] = <<Authentication(a), IntentKnown(a), Scope(a, TRUE), labels, decoding>>
    BY <1>1 DEF Checks
  <2> HIDE DEF labels, decoding
  <2>2. /\ 3 \in DOMAIN Checks[a] /\ Checks[a][3] = Scope(a, TRUE)
        /\ \A i \in DOMAIN Checks[a] : Checks[a][i] \in {Authentication(a), IntentKnown(a), Scope(a, TRUE), labels, decoding}
    BY <2>1, FiveChecks
  <2>3. \A i \in DOMAIN Checks[a] : Tidy(Checks[a][i])
    BY <1>0, <2>2
  <2>4. Admitted(a) => InScope(a)
    BY <1>0, <2>2 DEF Admitted
  <2> QED BY <2>3, <2>4
<1>2. CASE a.ask.op = "generate"
  <2>1. Checks[a] = <<Authentication(a), naming, Scope(a, TRUE)>>
    BY <1>2 DEF Checks
  <2> HIDE DEF naming
  <2>2. /\ 3 \in DOMAIN Checks[a] /\ Checks[a][3] = Scope(a, TRUE)
        /\ \A i \in DOMAIN Checks[a] : Checks[a][i] \in {Authentication(a), naming, Scope(a, TRUE)}
    BY <2>1, ThreeChecks
  <2>3. \A i \in DOMAIN Checks[a] : Tidy(Checks[a][i])
    BY <1>0, <2>2
  <2>4. Admitted(a) => InScope(a)
    BY <1>0, <2>2 DEF Admitted
  <2> QED BY <2>3, <2>4
<1>3. CASE a.ask.op = "resolve"
  <2>1. Checks[a] = <<Authentication(a), IntentKnown(a), Scope(a, TRUE)>>
    BY <1>3 DEF Checks
  <2>2. /\ 3 \in DOMAIN Checks[a] /\ Checks[a][3] = Scope(a, TRUE)
        /\ \A i \in DOMAIN Checks[a] : Checks[a][i] \in {Authentication(a), IntentKnown(a), Scope(a, TRUE)}
    BY <2>1, ThreeChecks
  <2>3. \A i \in DOMAIN Checks[a] : Tidy(Checks[a][i])
    BY <1>0, <2>2
  <2>4. Admitted(a) => InScope(a)
    BY <1>0, <2>2 DEF Admitted
  <2> QED BY <2>3, <2>4
<1>4. CASE a.ask.op \notin {"create", "rotate", "generate", "resolve"}
  <2>1. Checks[a] = <<Authentication(a), Scope(a, FALSE)>>
    BY <1>4 DEF Checks
  <2>2. /\ 2 \in DOMAIN Checks[a] /\ Checks[a][2] = Scope(a, FALSE)
        /\ \A i \in DOMAIN Checks[a] : Checks[a][i] \in {Authentication(a), Scope(a, FALSE)}
    BY <2>1, TwoChecks
  <2>3. \A i \in DOMAIN Checks[a] : Tidy(Checks[a][i])
    BY <1>0, <2>2
  <2>4. Admitted(a) => InScope(a)
    BY <1>0, <2>2 DEF Admitted
  <2> QED BY <2>3, <2>4
<1> QED BY <1>1, <1>2, <1>3, <1>4

\* What a handler is about to record of a reply, and why it may.
LEMMA RecordsTell ==
    ASSUME NEW R \in Reply, WellFormed(R), R.ask.op # "resolve-unpinned",
           NEW p \in Records(R.ask.op, R)
    PROVE  /\ p \in PendingRecord
           /\ p.code \in Issuing => \E m \in R.metas : p.version = m.version
           /\ p.code \in Revoking /\ p.version # None =>
                \/ R.outcome = "revoked-all" /\ \E m \in R.metas : p.version = m.version
                \/ /\ R.outcome = "SecretRevoked" /\ R.ask.op = "resolve"
                   /\ p.version = R.ask.version
<1> USE DEF Code, Rec
<1>0. R.ask \in Request /\ R.ask.version \in Opt(VersionIds)
  BY RequestFacts DEF Reply, Request
<1>1. CASE R.outcome \in Successes
  <2>1. PICK m \in R.metas : p = Rec(Code(R.ask.op, R.outcome), m.version, m.number)
    BY <1>1 DEF Records
  <2>2. m \in Metadata
    BY DEF Reply
  <2>3. R.outcome \in {"stored", "rotated", "revoked-all", "resolved", "metadata"}
    BY <1>1 DEF WellFormed, SuccessOf, Successes, Records, Revoked, Generated
  <2>4. /\ Code(R.ask.op, R.outcome) \in HandlerCodes
        /\ Code(R.ask.op, R.outcome) \in Revoking => R.outcome = "revoked-all"
    BY <2>3 DEF HandlerCodes, Revoking
  <2> QED BY <2>1, <2>2, <2>4 DEF PendingRecord, Metadata, Opt
<1>2. CASE R.outcome \notin Successes
  <2>1. p = Rec(Code(R.ask.op, R.outcome),
              IF R.ask.op \in {"resolve", "metadata"} THEN R.ask.version ELSE None, 0)
    BY <1>2 DEF Records
  <2>2. R.outcome \in Failures \ {"AuditUnavailable", "SecretVersionRevocationConflict"}
    BY <1>2 DEF Reply, Records, WellFormed
  <2> DEFINE code == Code(R.ask.op, R.outcome)
  <2>3. /\ code \in HandlerCodes
        /\ code \notin Issuing
        /\ code \in Revoking => R.outcome = "SecretRevoked"
    BY <2>2 DEF HandlerCodes, Failures, Issuing, Revoking
  <2>4. p.code = code /\ p.version \in {R.ask.version, None} /\ p.rank = 0
    BY <2>1
  <2>5. p \in PendingRecord
    BY <1>0, <2>1, <2>3 DEF PendingRecord, Opt
  <2>6. p.version # None => R.ask.op \in {"resolve", "metadata"} /\ p.version = R.ask.version
    BY <2>1
  <2> QED BY <2>3, <2>4, <2>5, <2>6 DEF WellFormed
<1> QED BY <1>1, <1>2

LEMMA CodeTyped ==
    ASSUME NEW R \in Reply, R.outcome # "resolved-unpinned"
    PROVE  Code(R.ask.op, R.outcome) \in AnswerCodes
<1>1. R.outcome \in Successes \cup Failures
  BY DEF Reply
<1> QED BY <1>1 DEF Code, Successes, Failures, AnswerCodes, HandlerCodes
-----------------------------------------------------------------------------
(* The store under the handlers *)

StoreInv ==
    /\ TypeOK /\ TableInv /\ SealInv /\ PinInv
    /\ GenerationBacked /\ IdentityInv
    /\ SealAgrees /\ RevocationInv
    /\ EffectsRecorded

LEMMA StoreInvStep == StoreInv /\ [Next]_vars => StoreInv'
<1>1. TableInv => Identified
  BY DEF TableInv
<1> QED BY <1>1, TypeStep, TableInvStep, SealInvStep, PinInvStep, BackedStep, IdentityInvStep,
           SealAgreesStep, RevocationInvStep, RecordedStep DEF StoreInv

\* All of the store but its audit table.
StoreRest == <<versions, selections, generations, revocations, reply, damaged>>

\* A record that a handler appends on its own.
Appends(c, p) ==
    /\ audit' = audit \cup {[call |-> c, code |-> p.code, version |-> p.version]}
    /\ UNCHANGED StoreRest

LEMMA AppendKeepsStore ==
    ASSUME StoreInv, NEW c \in Calls, NEW p \in PendingRecord, Appends(c, p)
    PROVE  StoreInv'
<1> USE DEF StoreInv, Appends, StoreRest
<1>1. TypeOK'
  BY DEF TypeOK, PendingRecord, AuditRecord
<1>2. TableInv'
  BY DEF TableInv, Identified, FirstVersionKept, FirstVersionTaken, VersionNumbering, Rows
<1>3. SealInv' /\ SealAgrees'
  BY DEF SealInv, UndamagedRowsAuthenticate, SealAgrees
<1>4. PinInv'
  BY DEF PinInv, OneSelection, RepliesBacked, Resolved, Succeeded
<1>5. GenerationBacked' /\ IdentityInv'
  BY DEF GenerationBacked, Rows, IdentityInv, Succeeded
<1>6. RevocationInv'
  BY DEF RevocationInv, Succeeded
<1>7. EffectsRecorded'
  BY DEF EffectsRecorded, PendingRecord, HandlerCodes, StoreCodes
<1> QED BY <1>1, <1>2, <1>3, <1>4, <1>5, <1>6, <1>7

HandlerTypes ==
    /\ at \in [Calls -> Stages]
    /\ asked \in [Calls -> Opt(ApiRequests)]
    /\ pending \in [Calls -> SUBSET PendingRecord]
    /\ answer \in [Calls -> Opt([code: AnswerCodes, material: Opt(Material)])]
    /\ before \in [Calls -> SUBSET Calls]
    /\ crashes \in 0..MaxCrashes

\* How far a handler has come, and what that says of what it holds.
StagedCall(c) ==
    /\ at[c] # "idle" => asked[c] \in ApiRequests
    /\ at[c] = "store" => Admitted(asked[c]) /\ reply[c] = None
    /\ at[c] # "finish" => pending[c] = {}
    /\ answer[c] # None => at[c] = "done"
    /\ reply[c] # None =>
         /\ at[c] \in {"finish", "done", "lost"}
         /\ Admitted(asked[c])
         /\ reply[c].ask = StoreRequest(asked[c])
         /\ WellFormed(reply[c])
    /\ at[c] = "finish" =>
         \/ Admitted(asked[c]) /\ reply[c] # None
         \/ ~Admitted(asked[c]) /\ \E i \in DOMAIN Checks[asked[c]] : FirstFailing(asked[c], i)

Staged == \A c \in Calls : StagedCall(c)

HandlerInv == HandlerTypes /\ Staged

\* A step of the handlers is, to the store, an operation that is due, a record
\* that is pending, damage, or nothing.
LEMMA StoreStep ==
    ASSUME StoreInv, HandlerInv, [ApiNext]_allVars
    PROVE  \/ \E c \in Calls : RunStore(c)
           \/ \E c \in Calls, p \in PendingRecord : AppendAudit(c) /\ Appends(c, p) /\ p \in pending[c]
           \/ (\E r \in versions : DamageRow(r)) /\ UNCHANGED apiVars
           \/ UNCHANGED vars
<1>1. ASSUME NEW c \in Calls, AppendAudit(c)
      PROVE  \E p \in PendingRecord : Appends(c, p) /\ p \in pending[c]
  BY <1>1 DEF AppendAudit, Appends, StoreRest, HandlerInv, HandlerTypes
<1>2. ASSUME NEW c \in Calls, NEW a \in ApiRequests, Receive(c, a)
      PROVE  UNCHANGED vars
  BY <1>2 DEF Receive
<1>3. ASSUME NEW c \in Calls, StoreUnavailable(c) \/ AuditFails(c) \/ Return(c)
      PROVE  UNCHANGED vars
  BY <1>3 DEF StoreUnavailable, AuditFails, Return
<1> QED BY <1>1, <1>2, <1>3 DEF ApiNext, Handle, Crash, allVars

LEMMA RunStoreIsNext ==
    ASSUME StoreInv, HandlerInv, NEW c \in Calls, RunStore(c)
    PROVE  /\ asked[c] \in ApiRequests /\ Admitted(asked[c]) /\ reply[c] = None
           /\ StoreRequest(asked[c]) \in Requests
           /\ Operation(c, StoreRequest(asked[c]))
           /\ Tells(c, StoreRequest(asked[c]))
           /\ \A d \in Calls : d # c => reply'[d] = reply[d]
           /\ Next
<1>1. /\ asked[c] \in ApiRequests /\ Admitted(asked[c]) /\ reply[c] = None
      /\ Operation(c, StoreRequest(asked[c]))
  BY DEF RunStore, HandlerInv, Staged, StagedCall
<1>2. StoreRequest(asked[c]) \in Requests /\ StoreRequest(asked[c]).op # "resolve-unpinned"
  BY <1>1, RequestKept
<1>3. TypeOK /\ SealInv /\ Identified
  BY DEF StoreInv, TableInv
<1> QED BY <1>1, <1>2, <1>3, OperationTells, OperationSourced DEF Next

LEMMA StoreInvHolds == StoreInv /\ HandlerInv /\ [ApiNext]_allVars => StoreInv'
<1> SUFFICES ASSUME StoreInv, HandlerInv, [ApiNext]_allVars PROVE StoreInv'
  OBVIOUS
<1>1. (\E r \in versions : DamageRow(r)) => Next
  BY DEF Next
<1> QED BY <1>1, StoreStep, RunStoreIsNext, AppendKeepsStore, StoreInvStep
-----------------------------------------------------------------------------
(* The stages of a handler *)

\* A call that a step does not touch stays where it is.
Untouched(d) ==
    /\ at'[d] = at[d] /\ asked'[d] = asked[d] /\ pending'[d] = pending[d]
    /\ answer'[d] = answer[d] /\ reply'[d] = reply[d]

LEMMA UntouchedStays ==
    ASSUME NEW d \in Calls, StagedCall(d), Untouched(d)
    PROVE  StagedCall(d)'
BY DEF StagedCall, Untouched

LEMMA RefusalRecordsTyped ==
    ASSUME NEW a \in ApiRequests, NEW i \in DOMAIN Checks[a]
    PROVE  RefusalRecords(a, i) \subseteq PendingRecord
BY ChecksTell, RequestKept DEF RefusalRecords, Rec, PendingRecord, Opt

LEMMA ReceiveStep ==
    ASSUME StoreInv, HandlerInv, NEW c \in Calls, NEW a \in ApiRequests, Receive(c, a)
    PROVE  HandlerInv'
<1> USE DEF HandlerInv
<1>t. "internal-error" \in AnswerCodes /\ None \in Opt(Material)
  BY DEF AnswerCodes, Opt
<1>0. /\ asked' = [asked EXCEPT ![c] = a] /\ reply' = reply /\ crashes' = crashes
      /\ before' = [before EXCEPT ![c] = {d \in Calls : answer[d] # None /\ AsksRevocation(asked[d])}]
      /\ at[c] = "idle" /\ reply[c] = None /\ answer[c] = None /\ pending[c] = {}
  BY DEF Receive, vars, Staged, StagedCall
<1>1. PICK s \in {"store", "finish", "done"} : at' = [at EXCEPT ![c] = s]
  BY DEF Receive, Respond, Finish
<1>2. /\ at' \in [Calls -> Stages]
      /\ asked' \in [Calls -> Opt(ApiRequests)]
      /\ before' \in [Calls -> SUBSET Calls]
      /\ crashes' \in 0..MaxCrashes
  BY <1>0, <1>1 DEF HandlerTypes, Stages, Opt
<1>3. /\ pending' \in [Calls -> SUBSET PendingRecord]
      /\ answer' \in [Calls -> Opt([code: AnswerCodes, material: Opt(Material)])]
  <2>1. CASE Respond(c, "internal-error", None)
    BY <2>1, <1>t DEF Respond, HandlerTypes, Opt
  <2>2. CASE UNCHANGED <<pending, answer>>
    BY <2>2 DEF HandlerTypes
  <2>3. CASE \E i \in DOMAIN Checks[a] : Finish(c, RefusalRecords(a, i))
    <3>1. PICK i \in DOMAIN Checks[a] : Finish(c, RefusalRecords(a, i))
      BY <2>3
    <3>2. RefusalRecords(a, i) \subseteq PendingRecord
      BY RefusalRecordsTyped
    <3> QED BY <3>1, <3>2 DEF Finish, HandlerTypes
  <2> QED BY <2>1, <2>2, <2>3 DEF Receive
<1>4. ASSUME NEW d \in Calls, d # c PROVE StagedCall(d)'
  <2>1. Untouched(d)
    BY <1>0, <1>4 DEF Untouched, Receive, Respond, Finish, HandlerTypes
  <2> QED BY <2>1, UntouchedStays DEF Staged
<1>5. StagedCall(c)'
  <2>0. asked'[c] = a /\ reply'[c] = None
    BY <1>0 DEF HandlerTypes
  <2>1. CASE Respond(c, "internal-error", None)
    BY <2>0, <2>1 DEF Respond, HandlerTypes, StagedCall
  <2>2. CASE Admitted(a) /\ at' = [at EXCEPT ![c] = "store"] /\ UNCHANGED <<pending, answer>>
    BY <1>0, <2>0, <2>2 DEF HandlerTypes, StagedCall
  <2>3. ASSUME NEW i \in DOMAIN Checks[a], FirstFailing(a, i), Finish(c, RefusalRecords(a, i))
        PROVE  StagedCall(c)'
    <3>1. ~Admitted(a)
      BY <2>3 DEF FirstFailing, Admitted
    <3>2. at'[c] = "finish" /\ answer'[c] = None
      BY <1>0, <2>3 DEF Finish, HandlerTypes
    <3> QED BY <2>0, <2>3, <3>1, <3>2 DEF StagedCall
  <2> QED BY <2>1, <2>2, <2>3 DEF Receive
<1> QED BY <1>2, <1>3, <1>4, <1>5 DEF Staged, HandlerTypes

LEMMA RunStoreStep ==
    ASSUME StoreInv, HandlerInv, NEW c \in Calls, RunStore(c)
    PROVE  /\ HandlerInv'
           /\ \A d \in Calls : d # c => Untouched(d)
           /\ reply'[c] \in Reply /\ reply'[c].ask.op = asked[c].ask.op
           /\ pending'[c] = Records(asked[c].ask.op, reply'[c])
<1> USE DEF HandlerInv
<1>0. /\ pending' = [pending EXCEPT ![c] = Records(asked[c].ask.op, reply'[c])]
      /\ at' = [at EXCEPT ![c] = "finish"]
      /\ at[c] = "store" /\ answer[c] = None
      /\ UNCHANGED <<answer, asked, before, crashes>>
  BY DEF RunStore, Finish, Staged, StagedCall
<1>1. /\ asked[c] \in ApiRequests /\ Admitted(asked[c])
      /\ Tells(c, StoreRequest(asked[c]))
      /\ \A d \in Calls : d # c => reply'[d] = reply[d]
  BY RunStoreIsNext
<1>2. reply'[c] \in Reply
  <2>1. TypeOK'
    BY RunStoreIsNext, TypeStep DEF StoreInv
  <2> QED BY <1>1, <2>1 DEF TypeOK, Tells, Opt
<1>3. reply'[c].ask.op = asked[c].ask.op /\ asked[c].ask.op # "resolve-unpinned"
  BY <1>1, RequestKept DEF Tells
<1>4. Records(asked[c].ask.op, reply'[c]) \subseteq PendingRecord
  BY <1>1, <1>2, <1>3, RecordsTell DEF Tells
<1>5. HandlerTypes'
  BY <1>0, <1>4 DEF HandlerTypes, Stages
<1>6. \A d \in Calls : d # c => Untouched(d)
  BY <1>0, <1>1 DEF Untouched, HandlerTypes
<1>7. StagedCall(c)'
  BY <1>0, <1>1 DEF HandlerTypes, StagedCall, Tells
<1>8. Staged'
  BY <1>6, <1>7, UntouchedStays DEF Staged
<1>9. pending'[c] = Records(asked[c].ask.op, reply'[c])
  BY <1>0 DEF HandlerTypes
<1> QED BY <1>2, <1>3, <1>5, <1>6, <1>8, <1>9

LEMMA ResponseTyped ==
    ASSUME StoreInv, HandlerInv, NEW c \in Calls, at[c] = "finish"
    PROVE  Response(c).code \in AnswerCodes /\ Response(c).material \in Opt(Material)
<1>1. CASE Admitted(asked[c])
  <2>1. /\ reply[c] # None /\ WellFormed(reply[c]) /\ asked[c] \in ApiRequests
        /\ reply[c].ask = StoreRequest(asked[c])
    BY <1>1 DEF HandlerInv, Staged, StagedCall
  <2>2. reply[c] \in Reply
    BY <2>1 DEF StoreInv, TypeOK, Opt
  <2>3. reply[c].ask.op = asked[c].ask.op /\ reply[c].ask.op # "resolve-unpinned"
    BY <2>1, RequestKept
  <2>4. reply[c].outcome # "resolved-unpinned"
    BY <2>1, <2>3 DEF WellFormed, SuccessOf, Successes, Revoked, Generated
  <2>5. Code(asked[c].ask.op, reply[c].outcome) \in AnswerCodes /\ reply[c].material \in Opt(Material)
    BY <2>2, <2>3, <2>4, CodeTyped DEF Reply
  <2> QED BY <1>1, <2>5 DEF Response
<1>2. CASE ~Admitted(asked[c])
  <2> DEFINE i == CHOOSE j \in DOMAIN Checks[asked[c]] : FirstFailing(asked[c], j)
  <2>1. asked[c] \in ApiRequests /\ i \in DOMAIN Checks[asked[c]]
    BY <1>2 DEF HandlerInv, Staged, StagedCall
  <2>2. Response(c) = [code |-> Checks[asked[c]][i].code, material |-> None]
    BY <1>2 DEF Response
  <2> HIDE DEF i
  <2> QED BY <2>1, <2>2, ChecksTell DEF Opt
<1> QED BY <1>1, <1>2

LEMMA HandlerInvStep == StoreInv /\ HandlerInv /\ [ApiNext]_allVars => HandlerInv'
<1> SUFFICES ASSUME StoreInv, HandlerInv, [ApiNext]_allVars PROVE HandlerInv'
  OBVIOUS
<1> USE DEF HandlerInv
<1>1. ASSUME NEW c \in Calls, NEW code \in AnswerCodes, NEW m \in Opt(Material),
             at[c] \in {"store", "finish"}, Respond(c, code, m),
             UNCHANGED <<vars, asked, before, crashes>>
      PROVE  HandlerInv'
  <2>1. HandlerTypes'
    BY <1>1 DEF Respond, HandlerTypes, Stages, Opt
  <2>2. \A d \in Calls : d # c => Untouched(d)
    BY <1>1 DEF Respond, HandlerTypes, Untouched, vars
  <2>3. StagedCall(c)'
    BY <1>1 DEF Respond, HandlerTypes, Staged, StagedCall, vars
  <2> QED BY <2>1, <2>2, <2>3, UntouchedStays DEF Staged
<1>t. "internal-error" \in AnswerCodes /\ "audit-unavailable" \in AnswerCodes /\ None \in Opt(Material)
  BY DEF AnswerCodes, Opt
<1>2. ASSUME NEW c \in Calls, StoreUnavailable(c) \/ AuditFails(c) PROVE HandlerInv'
  BY <1>1, <1>2, <1>t DEF StoreUnavailable, AuditFails
<1>3. ASSUME NEW c \in Calls, Return(c) PROVE HandlerInv'
  BY <1>1, <1>3, ResponseTyped DEF Return, Ready
<1>4. ASSUME NEW c \in Calls, AppendAudit(c) PROVE HandlerInv'
  <2>1. PICK p : pending' = [pending EXCEPT ![c] = @ \ {p}]
    BY <1>4 DEF AppendAudit
  <2>2. UNCHANGED <<reply, at, asked, answer, before, crashes>>
    BY <1>4 DEF AppendAudit
  <2>3. HandlerTypes'
    BY <2>1, <2>2 DEF HandlerTypes
  <2>4. ASSUME NEW d \in Calls PROVE StagedCall(d)'
    BY <2>1, <2>2 DEF HandlerTypes, Staged, StagedCall
  <2> QED BY <2>3, <2>4 DEF Staged
<1>5. CASE Crash
  <2>1. crashes' \in 0..MaxCrashes
    BY <1>5, ApiAssumption DEF Crash, HandlerTypes
  <2>2. at' \in [Calls -> Stages]
    BY <1>5 DEF Crash, InFlight, HandlerTypes, Stages
  <2>3. pending' \in [Calls -> SUBSET PendingRecord]
    BY <1>5 DEF Crash
  <2>4. HandlerTypes'
    BY <1>5, <2>1, <2>2, <2>3 DEF Crash, HandlerTypes
  <2>5. ASSUME NEW d \in Calls PROVE StagedCall(d)'
    BY <1>5 DEF Crash, InFlight, vars, HandlerTypes, Staged, StagedCall
  <2> QED BY <2>4, <2>5 DEF Staged
<1>6. CASE UNCHANGED apiVars /\ UNCHANGED reply
  BY <1>6 DEF apiVars, HandlerTypes, Staged, StagedCall
<1>7. CASE \E r \in versions : DamageRow(r) /\ UNCHANGED apiVars
  BY <1>6, <1>7 DEF DamageRow
<1> QED BY <1>2, <1>3, <1>4, <1>5, <1>6, <1>7, ReceiveStep, RunStoreStep
        DEF ApiNext, Handle, allVars, vars
-----------------------------------------------------------------------------
(* What the audit table says *)

\* What a record with this code claims of this version.
Truthful(code, id) ==
    /\ code \in Issuing => Known(id)
    /\ code \in Revoking /\ id # None => Gone(id)

AuditInv ==
    /\ \A e \in audit : Truthful(e.code, e.version)
    /\ \A c \in Calls : \A p \in pending[c] : Truthful(p.code, p.version)

LEMMA SealedSurvives ==
    ASSUME StoreInv, [Next]_vars, NEW id, Sealed(id)
    PROVE  Sealed(id)'
<1>1. PICK r \in versions : r.meta.version = id /\ r.cipher.aad.status = "revoked"
  BY DEF Sealed
<1> QED BY <1>1, SuccessionStep DEF StoreInv, Succession, Sealed

LEMMA GoneSurvives ==
    ASSUME StoreInv, [Next]_vars, NEW id, Gone(id)
    PROVE  Gone(id)'
BY SealedSurvives, DamageOnlyGrows DEF Gone

LEMMA KnownSurvives ==
    ASSUME StoreInv, [Next]_vars, NEW id, Known(id)
    PROVE  Known(id)'
BY SuccessionStep DEF StoreInv, Known, Succession

LEMMA TruthSurvives ==
    ASSUME StoreInv, [Next]_vars, NEW code, NEW id, Truthful(code, id)
    PROVE  Truthful(code, id)'
BY KnownSurvives, GoneSurvives DEF Truthful

\* The records a store operation writes in its own transaction.
LEMMA TransactionTruth ==
    ASSUME StoreInv, AuditInv, NEW c \in Calls, NEW q \in Requests, Operation(c, q), Next
    PROVE  \A e \in audit' : Truthful(e.code, e.version)'
<1>0. StoreInv' /\ \A e \in audit : Truthful(e.code, e.version)'
  BY StoreInvStep, TruthSurvives DEF AuditInv
<1>1. CASE NothingAudited
  BY <1>0, <1>1 DEF NothingAudited
<1>2. ASSUME NEW id, ReplayAudited(c, id) PROVE \A e \in audit' : Truthful(e.code, e.version)'
  BY <1>0, <1>2 DEF ReplayAudited, Entry, Truthful, Issuing, Revoking
<1>3. ASSUME NEW id, GenerationAudited(c, id) PROVE \A e \in audit' : Truthful(e.code, e.version)'
  <2>1. Known(id)'
    BY <1>0, <1>3 DEF GenerationAudited, StoreInv, GenerationBacked, Rows, Known
  <2> QED BY <1>0, <1>3, <2>1 DEF GenerationAudited, Entry, Truthful, Issuing, Revoking
<1>4. ASSUME NEW id, RevocationAudited(c, id) PROVE \A e \in audit' : Truthful(e.code, e.version)'
  <2>1. Gone(id)'
    BY <1>0, <1>4 DEF RevocationAudited, StoreInv, RevocationInv, Revokes, Gone, Sealed
  <2> QED BY <1>0, <1>4, <2>1 DEF RevocationAudited, Entry, Truthful, Issuing, Revoking
<1> QED BY <1>1, <1>2, <1>3, <1>4, AuditStep DEF StoreInv, SomethingAudited

\* The records a handler appends afterwards.
LEMMA PendingTruth ==
    ASSUME StoreInv, HandlerInv, NEW c \in Calls, RunStore(c)
    PROVE  \A p \in pending'[c] : Truthful(p.code, p.version)'
<1>1. /\ reply'[c] \in Reply /\ reply'[c].ask.op = asked[c].ask.op
      /\ pending'[c] = Records(reply'[c].ask.op, reply'[c])
      /\ asked[c].ask.op # "resolve-unpinned"
  BY RunStoreStep, RunStoreIsNext, RequestKept
<1>2. Tells(c, StoreRequest(asked[c]))
  BY RunStoreIsNext
<1> SUFFICES ASSUME NEW p \in Records(reply'[c].ask.op, reply'[c])
             PROVE  Truthful(p.code, p.version)'
  BY <1>1
<1>3. /\ p.code \in Issuing => \E m \in reply'[c].metas : p.version = m.version
      /\ p.code \in Revoking /\ p.version # None =>
                \/ reply'[c].outcome = "revoked-all" /\ \E m \in reply'[c].metas : p.version = m.version
                \/ /\ reply'[c].outcome = "SecretRevoked" /\ reply'[c].ask.op = "resolve"
                   /\ p.version = reply'[c].ask.version
  BY <1>1, <1>2, RecordsTell DEF Tells
<1>4. p.code \in Issuing => Known(p.version)'
  BY <1>2, <1>3 DEF Tells, Known
<1>5. ASSUME p.code \in Revoking, p.version # None PROVE Gone(p.version)'
  <2>1. CASE reply'[c].outcome = "revoked-all" /\ \E m \in reply'[c].metas : p.version = m.version
    <3>1. \A m \in reply'[c].metas : Gone(m.version)'
      BY <1>2, <2>1 DEF Tells
    <3> QED BY <2>1, <3>1 DEF Gone, Sealed
  <2>2. CASE /\ reply'[c].outcome = "SecretRevoked" /\ reply'[c].ask.op = "resolve"
             /\ p.version = reply'[c].ask.version
    <3>1. /\ StoreRequest(asked[c]).op = "resolve"
          /\ p.version \in {StoreRequest(asked[c]).version}
      BY <1>2, <2>2 DEF Tells
    <3> QED BY <1>2, <1>5, <2>2, <3>1 DEF Tells
  <2> QED BY <1>3, <1>5, <2>1, <2>2
<1> QED BY <1>4, <1>5 DEF Truthful

LEMMA RefusalTruth ==
    ASSUME NEW a \in ApiRequests, NEW i \in DOMAIN Checks[a], NEW p \in RefusalRecords(a, i)
    PROVE  Truthful(p.code, p.version)'
BY ChecksTell DEF RefusalRecords, Rec, Truthful

LEMMA AuditInvHolds ==
    StoreInv /\ HandlerInv /\ AuditInv /\ [ApiNext]_allVars => AuditInv'
<1> SUFFICES ASSUME StoreInv, HandlerInv, AuditInv, [ApiNext]_allVars PROVE AuditInv'
  OBVIOUS
<1>1. ASSUME NEW c \in Calls, RunStore(c) PROVE AuditInv'
  <2>1. /\ StoreRequest(asked[c]) \in Requests /\ Operation(c, StoreRequest(asked[c])) /\ Next
        /\ \A d \in Calls : d # c => pending'[d] = pending[d]
    BY <1>1, RunStoreIsNext, RunStoreStep DEF Untouched
  <2>2. \A e \in audit' : Truthful(e.code, e.version)'
    BY <2>1, TransactionTruth
  <2>3. \A d \in Calls : d # c => \A p \in pending'[d] : Truthful(p.code, p.version)'
    BY <2>1, TruthSurvives DEF AuditInv
  <2> QED BY <1>1, <2>2, <2>3, PendingTruth DEF AuditInv
<1>2. ASSUME NEW r \in versions, DamageRow(r), UNCHANGED apiVars PROVE AuditInv'
  <2>1. Next
    BY <1>2 DEF Next
  <2> QED BY <1>2, <2>1, TruthSurvives DEF AuditInv, DamageRow, apiVars
<1>3. ASSUME UNCHANGED <<versions, damaged>>,
             \A e \in audit' : e \in audit \/ \E c \in Calls : \E p \in pending[c] :
                                    e.code = p.code /\ e.version = p.version,
             \A c \in Calls : \A p \in pending'[c] :
                 p \in pending[c] \/ \E a \in ApiRequests : \E i \in DOMAIN Checks[a] : p \in RefusalRecords(a, i)
      PROVE  AuditInv'
  <2>1. \A code, id : Truthful(code, id) => Truthful(code, id)'
    BY <1>3 DEF Truthful, Known, Gone, Sealed
  <2> QED BY <1>3, <2>1, RefusalTruth DEF AuditInv
<1>4. ASSUME NEW c \in Calls, NEW a \in ApiRequests, Receive(c, a) PROVE AuditInv'
  BY <1>3, <1>4 DEF Receive, vars, Respond, Finish, HandlerInv, HandlerTypes
<1>5. ASSUME NEW c \in Calls, StoreUnavailable(c) \/ AuditFails(c) \/ Return(c) PROVE AuditInv'
  BY <1>3, <1>5 DEF StoreUnavailable, AuditFails, Return, vars, Respond, HandlerInv, HandlerTypes
<1>6. ASSUME NEW c \in Calls, AppendAudit(c) PROVE AuditInv'
  BY <1>3, <1>6 DEF AppendAudit, HandlerInv, HandlerTypes
<1>7. CASE Crash \/ UNCHANGED allVars
  BY <1>3, <1>7 DEF Crash, vars, allVars, apiVars
<1> QED BY <1>1, <1>2, <1>4, <1>5, <1>6, <1>7 DEF ApiNext, Handle
-----------------------------------------------------------------------------
(* The audit loop and the answer *)

\* Each record of a reply is in the table or still to come.
LoopCall(c) ==
    at[c] = "finish" /\ reply[c] # None =>
        \A p \in Records(asked[c].ask.op, reply[c]) :
            p \in pending[c] \/ Audited(c, p.code, p.version)

\* An answer reports an error, or a reply whose records are all in.
AnswerCall(c) ==
    answer[c] # None =>
        \/ /\ answer[c].code \in {"internal-error", "audit-unavailable"} \/ reply[c] = None
           /\ answer[c].material = None
        \/ /\ reply[c] # None
           /\ answer[c].code = Code(asked[c].ask.op, reply[c].outcome)
           /\ answer[c].material = reply[c].material
           /\ \A p \in Records(asked[c].ask.op, reply[c]) : Audited(c, p.code, p.version)

AnswerInv == \A c \in Calls : LoopCall(c) /\ AnswerCall(c)

LEMMA AuditGrows ==
    ASSUME StoreInv, HandlerInv, [ApiNext]_allVars
    PROVE  audit \subseteq audit'
<1>1. ASSUME NEW c \in Calls, RunStore(c) PROVE audit \subseteq audit'
  BY <1>1, RunStoreIsNext, AuditStep
     DEF StoreInv, NothingAudited, SomethingAudited, ReplayAudited, GenerationAudited, RevocationAudited
<1> QED BY <1>1, StoreStep DEF Appends, DamageRow, vars

LEMMA UntouchedAnswer ==
    ASSUME NEW d \in Calls, Untouched(d), audit \subseteq audit', LoopCall(d), AnswerCall(d)
    PROVE  LoopCall(d)' /\ AnswerCall(d)'
BY DEF Untouched, LoopCall, AnswerCall, Audited

LEMMA RespondUntouched ==
    ASSUME HandlerInv, NEW c \in Calls, NEW code, NEW m, Respond(c, code, m),
           UNCHANGED <<vars, asked, before, crashes>>
    PROVE  /\ \A d \in Calls : d # c => Untouched(d)
           /\ at'[c] = "done" /\ reply'[c] = reply[c] /\ asked'[c] = asked[c]
           /\ answer'[c].code = code /\ answer'[c].material = m
BY DEF Respond, vars, HandlerInv, HandlerTypes, Untouched

LEMMA AnswerInvHolds ==
    StoreInv /\ HandlerInv /\ AnswerInv /\ [ApiNext]_allVars => AnswerInv'
<1> SUFFICES ASSUME StoreInv, HandlerInv, AnswerInv, [ApiNext]_allVars PROVE AnswerInv'
  OBVIOUS
<1>g. audit \subseteq audit'
  BY AuditGrows
<1>u. ASSUME NEW c \in Calls, \A d \in Calls : d # c => Untouched(d), LoopCall(c)', AnswerCall(c)'
      PROVE  AnswerInv'
  BY <1>g, <1>u, UntouchedAnswer DEF AnswerInv
<1>1. ASSUME NEW c \in Calls, RunStore(c) PROVE AnswerInv'
  <2>1. /\ \A d \in Calls : d # c => Untouched(d)
        /\ pending'[c] = Records(asked[c].ask.op, reply'[c])
    BY <1>1, RunStoreStep
  <2>2. asked' = asked /\ answer'[c] = None
    BY <1>1 DEF RunStore, Finish, HandlerInv, Staged, StagedCall
  <2>3. LoopCall(c)' /\ AnswerCall(c)'
    BY <2>1, <2>2 DEF LoopCall, AnswerCall
  <2> QED BY <1>u, <2>1, <2>3
<1>2. ASSUME NEW c \in Calls, NEW a \in ApiRequests, Receive(c, a) PROVE AnswerInv'
  <2>1. \A d \in Calls : d # c => Untouched(d)
    BY <1>2 DEF Untouched, Receive, Respond, Finish, vars, HandlerInv, HandlerTypes
  <2>2. reply'[c] = None /\ answer[c] = None
    BY <1>2 DEF Receive, vars, HandlerInv, Staged, StagedCall
  <2>3. answer'[c] = None \/ answer'[c].material = None
    BY <1>2, <2>2 DEF Receive, Respond, Finish, HandlerInv, HandlerTypes
  <2>4. LoopCall(c)' /\ AnswerCall(c)'
    BY <2>2, <2>3 DEF LoopCall, AnswerCall
  <2> QED BY <1>u, <2>1, <2>4
<1>3. ASSUME NEW c \in Calls, StoreUnavailable(c) \/ AuditFails(c) PROVE AnswerInv'
  <2>1. PICK code \in {"internal-error", "audit-unavailable"} :
           Respond(c, code, None) /\ UNCHANGED <<vars, asked, before, crashes>>
    BY <1>3 DEF StoreUnavailable, AuditFails
  <2>2. /\ \A d \in Calls : d # c => Untouched(d)
        /\ at'[c] = "done" /\ answer'[c].code = code /\ answer'[c].material = None
    BY <2>1, RespondUntouched
  <2>3. LoopCall(c)' /\ AnswerCall(c)'
    BY <2>2 DEF LoopCall, AnswerCall
  <2> QED BY <1>u, <2>2, <2>3
<1>4. ASSUME NEW c \in Calls, Return(c) PROVE AnswerInv'
  <2>1. /\ \A d \in Calls : d # c => Untouched(d)
        /\ at'[c] = "done" /\ reply'[c] = reply[c] /\ asked'[c] = asked[c]
        /\ answer'[c].code = Response(c).code /\ answer'[c].material = Response(c).material
    BY <1>4, RespondUntouched DEF Return
  <2>2. at[c] = "finish" /\ pending[c] = {}
    BY <1>4 DEF Return, Ready
  <2>3. LoopCall(c)'
    BY <2>1 DEF LoopCall
  <2>4. CASE Admitted(asked[c]) /\ reply[c] # None
    <3>1. \A p \in Records(asked[c].ask.op, reply[c]) : Audited(c, p.code, p.version)'
      BY <1>g, <2>2, <2>4 DEF AnswerInv, LoopCall, Audited
    <3>2. /\ answer'[c].code = Code(asked[c].ask.op, reply[c].outcome)
          /\ answer'[c].material = reply[c].material
      BY <2>1, <2>4 DEF Response
    <3>3. AnswerCall(c)'
      BY <2>1, <2>4, <3>1, <3>2 DEF AnswerCall
    <3> QED BY <1>u, <2>1, <2>3, <3>3
  <2>5. CASE ~Admitted(asked[c])
    <3>1. reply[c] = None
      BY <2>5 DEF HandlerInv, Staged, StagedCall
    <3>2. answer'[c].material = None
      BY <2>1, <2>5 DEF Response
    <3>3. AnswerCall(c)'
      BY <2>1, <3>1, <3>2 DEF AnswerCall
    <3> QED BY <1>u, <2>1, <2>3, <3>3
  <2> QED BY <2>2, <2>4, <2>5 DEF HandlerInv, Staged, StagedCall
<1>5. ASSUME NEW c \in Calls, AppendAudit(c) PROVE AnswerInv'
  <2>1. PICK p \in pending[c] :
           /\ audit' = audit \cup {[call |-> c, code |-> p.code, version |-> p.version]}
           /\ pending' = [pending EXCEPT ![c] = @ \ {p}]
           /\ UNCHANGED <<reply, at, asked, answer>>
    BY <1>5 DEF AppendAudit
  <2>2. \A d \in Calls : d # c => Untouched(d)
    BY <2>1 DEF Untouched, HandlerInv, HandlerTypes
  <2>3. Audited(c, p.code, p.version)' /\ pending'[c] = pending[c] \ {p}
    BY <2>1 DEF Audited, HandlerInv, HandlerTypes
  <2>4. LoopCall(c)' /\ AnswerCall(c)'
    BY <1>g, <2>1, <2>3 DEF AnswerInv, LoopCall, AnswerCall, Audited
  <2> QED BY <1>u, <2>2, <2>4
<1>6. CASE Crash
  <2>1. \A d \in Calls : at'[d] # "finish"
    BY <1>6 DEF Crash, InFlight, HandlerInv, HandlerTypes
  <2> QED BY <1>6, <2>1 DEF Crash, vars, AnswerInv, LoopCall, AnswerCall, Audited
<1>7. CASE UNCHANGED apiVars /\ UNCHANGED <<reply, audit>>
  BY <1>7 DEF apiVars, AnswerInv, LoopCall, AnswerCall, Audited
<1> QED BY <1>1, <1>2, <1>3, <1>4, <1>5, <1>6, <1>7
        DEF ApiNext, Handle, DamageRow, allVars, vars
-----------------------------------------------------------------------------
(* Revocations that were answered *)

Withdraws(d) == Succeeded(d, Withdrawn)

\* What a reply took away is sealed, a call knows of answers given before it
\* arrived, and was handed nothing that those had taken away.
WithdrawnInv ==
    \A d \in Calls : Withdraws(d) => \A n \in reply[d].metas : SealedIfTimed(n)

BeforeInv == \A c \in Calls : \A d \in before[c] : d \in Calls /\ answer[d] # None

HonourInv ==
    \A c \in Calls : \A d \in before[c] :
        Resolved(c) /\ Withdraws(d) =>
            \A m \in reply[c].metas : \A n \in reply[d].metas :
                n.revoked_at # None => m.version # n.version

RevokedInv == WithdrawnInv /\ BeforeInv /\ HonourInv

LEMMA RevokedInvHolds ==
    StoreInv /\ HandlerInv /\ RevokedInv /\ [ApiNext]_allVars => RevokedInv'
<1> SUFFICES ASSUME StoreInv, HandlerInv, RevokedInv, [ApiNext]_allVars PROVE RevokedInv'
  OBVIOUS
<1>1. ASSUME NEW c \in Calls, RunStore(c) PROVE RevokedInv'
  <2>1. /\ Tells(c, StoreRequest(asked[c])) /\ Next /\ reply[c] = None
        /\ \A d \in Calls : d # c => reply'[d] = reply[d]
    BY <1>1, RunStoreIsNext
  <2>2. UNCHANGED <<before, answer>> /\ answer[c] = None
    BY <1>1 DEF RunStore, Finish, HandlerInv, Staged, StagedCall
  <2>3. ASSUME NEW d \in Calls, Withdraws(d)', NEW n \in reply'[d].metas PROVE SealedIfTimed(n)'
    <3>1. CASE d = c
      BY <2>1, <2>3, <3>1 DEF Tells, Withdraws, Succeeded
    <3>2. CASE d # c
      <4>1. SealedIfTimed(n)
        BY <2>1, <2>3, <3>2 DEF RevokedInv, WithdrawnInv, Withdraws, Succeeded
      <4> QED BY <2>1, <4>1, SealedSurvives DEF SealedIfTimed
    <3> QED BY <3>1, <3>2
  <2>4. BeforeInv'
    BY <2>2 DEF RevokedInv, BeforeInv
  <2>5. ASSUME NEW d \in Calls, NEW e \in before'[d], Resolved(d)', Withdraws(e)',
               NEW m \in reply'[d].metas, NEW n \in reply'[e].metas, n.revoked_at # None
        PROVE  m.version # n.version
    <3>1. /\ e \in before[d] /\ e \in Calls /\ e # c /\ reply'[e] = reply[e]
          /\ Withdraws(e) /\ n \in reply[e].metas
      BY <2>1, <2>2, <2>5 DEF RevokedInv, BeforeInv, Withdraws, Succeeded
    <3>2. CASE d = c
      <4>1. ~Sealed(m.version)
        BY <2>1, <2>5, <3>2 DEF Tells, Resolved, Succeeded
      <4>2. Sealed(n.version)
        BY <2>5, <3>1 DEF RevokedInv, WithdrawnInv, SealedIfTimed
      <4> QED BY <4>1, <4>2
    <3>3. CASE d # c
      BY <2>1, <2>5, <3>1, <3>3 DEF RevokedInv, HonourInv, Resolved, Succeeded
    <3> QED BY <3>2, <3>3
  <2> QED BY <2>3, <2>4, <2>5 DEF RevokedInv, WithdrawnInv, HonourInv
<1>2. ASSUME UNCHANGED reply, UNCHANGED <<versions, damaged>> \/ Next,
             \A c \in Calls : \A d \in before'[c] :
                /\ d \in Calls /\ answer'[d] # None
                /\ d \in before[c] \/ reply[c] = None
      PROVE  RevokedInv'
  <2>1. \A id : Sealed(id) => Sealed(id)'
    BY <1>2, SealedSurvives DEF Sealed
  <2>2. WithdrawnInv'
    BY <1>2, <2>1 DEF RevokedInv, WithdrawnInv, SealedIfTimed, Withdraws, Succeeded
  <2>3. BeforeInv'
    BY <1>2 DEF BeforeInv
  <2>4. HonourInv'
    BY <1>2 DEF RevokedInv, HonourInv, Withdraws, Resolved, Succeeded
  <2> QED BY <2>2, <2>3, <2>4 DEF RevokedInv
<1>3. ASSUME NEW c \in Calls, NEW a \in ApiRequests, Receive(c, a) PROVE RevokedInv'
  <2>1. /\ UNCHANGED vars /\ reply[c] = None /\ answer[c] = None
        /\ before' = [before EXCEPT ![c] = {d \in Calls : answer[d] # None /\ AsksRevocation(asked[d])}]
        /\ \A d \in Calls : d # c => answer'[d] = answer[d]
    BY <1>3 DEF Receive, Respond, Finish, HandlerInv, HandlerTypes, Staged, StagedCall
  <2>2. \A e \in Calls : \A d \in before'[e] :
            /\ d \in Calls /\ answer[d] # None
            /\ d \in before[e] \/ reply[e] = None
    BY <2>1 DEF RevokedInv, BeforeInv, HandlerInv, HandlerTypes
  <2> QED BY <1>2, <2>1, <2>2 DEF vars
<1>4. ASSUME NEW c \in Calls, StoreUnavailable(c) \/ AuditFails(c) \/ Return(c) PROVE RevokedInv'
  <2>1. /\ UNCHANGED vars /\ UNCHANGED before /\ answer[c] = None
        /\ \A d \in Calls : d # c => answer'[d] = answer[d]
    BY <1>4 DEF StoreUnavailable, AuditFails, Return, Ready, Respond, HandlerInv, HandlerTypes,
                Staged, StagedCall
  <2> QED BY <1>2, <2>1 DEF RevokedInv, BeforeInv, vars
<1>5. CASE UNCHANGED <<reply, before, answer, versions, damaged>>
  BY <1>2, <1>5 DEF RevokedInv, BeforeInv
<1>6. ASSUME NEW r \in versions, DamageRow(r), UNCHANGED apiVars PROVE RevokedInv'
  BY <1>2, <1>6 DEF Next, DamageRow, apiVars, RevokedInv, BeforeInv
<1> QED BY <1>1, <1>3, <1>4, <1>5, <1>6
        DEF ApiNext, Handle, AppendAudit, Crash, allVars, apiVars, vars
-----------------------------------------------------------------------------
(* Theorems *)

ApiInv == StoreInv /\ HandlerInv /\ AuditInv /\ AnswerInv /\ RevokedInv

LEMMA ApiInvInit == ApiInit => ApiInv
<1> SUFFICES ASSUME ApiInit PROVE ApiInv
  OBVIOUS
<1> USE DEF ApiInit, Init
<1>1. StoreInv
  BY DEF StoreInv, TypeOK, TableInv, Identified, FirstVersionKept, VersionNumbering,
         SealInv, UndamagedRowsAuthenticate, PinInv, OneSelection,
         RepliesBacked, Resolved, GenerationBacked, IdentityInv, SealAgrees, RevocationInv, EffectsRecorded,
         Succeeded, Opt
<1>2. HandlerInv
  BY ApiAssumption DEF HandlerInv, HandlerTypes, Staged, StagedCall, Stages, Opt
<1>3. AuditInv /\ AnswerInv
  BY DEF AuditInv, AnswerInv, LoopCall, AnswerCall
<1>4. RevokedInv
  BY DEF RevokedInv, WithdrawnInv, BeforeInv, HonourInv, Withdraws, Succeeded
<1> QED BY <1>1, <1>2, <1>3, <1>4 DEF ApiInv

(***************************************************************************)
(* The inductive invariant of the handlers: the invariants of the store,   *)
(* how far each handler has come, what the audit table says, what answers  *)
(* rest on, and what answered revocations took away.                       *)
(***************************************************************************)
THEOREM HandlersCorrect == ApiSpec => []ApiInv
<1>1. ApiInv /\ [ApiNext]_allVars => ApiInv'
  BY StoreInvHolds, HandlerInvStep, AuditInvHolds, AnswerInvHolds, RevokedInvHolds DEF ApiInv
<1> QED BY ApiInvInit, <1>1, PTL DEF ApiSpec

(***************************************************************************)
(* Handlers, their audit records and their answers stay well formed.       *)
(***************************************************************************)
THEOREM HandlersTyped == ApiSpec => []ApiTypeOK
<1>1. ApiInv => ApiTypeOK
  <2> SUFFICES ASSUME ApiInv PROVE ApiTypeOK
    OBVIOUS
  <2>1. HandlerTypes /\ TypeOK
    BY DEF ApiInv, HandlerInv, StoreInv
  <2>2. \A c \in Calls : answer[c] # None =>
          answer[c].code \in AnswerCodes /\ answer[c].material \in Opt(Material)
    BY <2>1 DEF HandlerTypes, Opt
  <2> QED BY <2>1, <2>2 DEF ApiTypeOK, HandlerTypes, PendingRecord
<1> QED BY <1>1, HandlersCorrect, PTL

\* What an invariant says of one reply.
LEMMA ReplyFacts ==
    ASSUME ApiInv, NEW c \in Calls, reply[c] # None
    PROVE  /\ reply[c] \in Reply /\ WellFormed(reply[c])
           /\ asked[c] \in ApiRequests /\ Admitted(asked[c])
           /\ reply[c].ask = StoreRequest(asked[c])
           /\ reply[c].ask.op = asked[c].ask.op
           /\ reply[c].ask.ws = asked[c].ask.ws
           /\ reply[c].ask.op # "resolve-unpinned"
<1>1. /\ WellFormed(reply[c]) /\ asked[c] \in ApiRequests /\ Admitted(asked[c])
      /\ reply[c].ask = StoreRequest(asked[c])
  BY DEF ApiInv, HandlerInv, Staged, StagedCall
<1>2. reply[c] \in Reply
  BY DEF ApiInv, StoreInv, TypeOK, Opt
<1> QED BY <1>1, <1>2, RequestKept

\* Material comes from a resolution that pins, and of one version.
LEMMA MaterialFacts ==
    ASSUME ApiInv, NEW c \in Calls, answer[c] # None, answer[c].material # None
    PROVE  /\ Resolved(c) /\ reply[c].ask.op = "resolve" /\ asked[c].ask.op = "resolve"
           /\ \E r \in versions : reply[c].metas = {Origin(r)}
           /\ \A p \in Records(asked[c].ask.op, reply[c]) : Audited(c, p.code, p.version)
<1>1. /\ reply[c] # None /\ reply[c].material # None
      /\ \A p \in Records(asked[c].ask.op, reply[c]) : Audited(c, p.code, p.version)
  BY DEF ApiInv, AnswerInv, AnswerCall
<1>2. reply[c].outcome = "resolved" /\ reply[c].ask.op = "resolve"
  BY <1>1, ReplyFacts DEF WellFormed, SuccessOf, Successes, Revoked, Generated
<1>3. Resolved(c)
  BY <1>1, <1>2 DEF Resolved, Succeeded
<1>4. \E r \in versions : reply[c].metas = {Origin(r)}
  BY <1>3 DEF ApiInv, StoreInv, PinInv, RepliesBacked
<1> QED BY <1>1, <1>2, <1>3, <1>4, ReplyFacts

(***************************************************************************)
(* Resolution fails closed: whoever holds material, the audit table said so*)
(* first, with every other handler, a lost audit transaction or a crash in *)
(* between.                                                                *)
(***************************************************************************)
THEOREM MaterialLeavesAudited == ApiSpec => []MaterialIsAudited
<1>1. ApiInv => MaterialIsAudited
  <2> SUFFICES ASSUME ApiInv, NEW c \in Calls, answer[c] # None, answer[c].material # None
               PROVE  \E m \in reply[c].metas : Audited(c, "secret-resolved", m.version)
    BY DEF MaterialIsAudited
  <2>1. PICK m : m \in reply[c].metas
    BY MaterialFacts
  <2>2. reply[c].outcome = "resolved" /\ asked[c].ask.op = "resolve"
    BY MaterialFacts DEF Resolved, Succeeded
  <2>3. Rec("secret-resolved", m.version, m.number) \in Records(asked[c].ask.op, reply[c])
    BY <2>1, <2>2 DEF Records, Code, Successes
  <2>4. Audited(c, "secret-resolved", m.version)
    BY <2>3, MaterialFacts DEF Rec
  <2> QED BY <2>1, <2>4
<1> QED BY <1>1, HandlersCorrect, PTL

(***************************************************************************)
(* An upload, a rotation or a whole revocation that a client was told of is*)
(* in the audit table under every version it touched.                      *)
(***************************************************************************)
THEOREM EffectsAreAudited == ApiSpec => []EffectsAnsweredAreAudited
<1>1. ApiInv => EffectsAnsweredAreAudited
  <2> SUFFICES ASSUME ApiInv, NEW c \in Calls, answer[c] # None, reply[c] # None,
                      answer[c].code = Code(asked[c].ask.op, reply[c].outcome),
                      reply[c].outcome \in {"stored", "rotated", "revoked-all"},
                      NEW m \in reply[c].metas
               PROVE  Audited(c, answer[c].code, m.version)
    BY DEF EffectsAnsweredAreAudited
  <2>1. answer[c].code \in {"secret-stored", "secret-rotated", "secret-revoked"}
    BY DEF Code
  <2>2. \A p \in Records(asked[c].ask.op, reply[c]) : Audited(c, p.code, p.version)
    BY <2>1 DEF ApiInv, AnswerInv, AnswerCall
  <2>3. asked[c].ask.op # "revoke-version"
    BY ReplyFacts DEF WellFormed, SuccessOf, Successes, Revoked
  <2>4. Rec(answer[c].code, m.version, m.number) \in Records(asked[c].ask.op, reply[c])
    BY <2>3 DEF Records, Successes
  <2> QED BY <2>2, <2>4 DEF Rec
<1> QED BY <1>1, HandlersCorrect, PTL

(***************************************************************************)
(* No record of the audit table tells of a version that does not exist, or *)
(* of a revocation that did not happen, whichever of the store and the     *)
(* handlers wrote it and whatever happened to the handler since.           *)
(***************************************************************************)
THEOREM AuditTableIsTruthful == ApiSpec => []AuditIsTruthful
<1>1. ApiInv => AuditIsTruthful
  <2> SUFFICES ASSUME ApiInv, NEW e \in audit
               PROVE  /\ e.code \in Issuing => \E r \in versions : r.meta.version = e.version
                      /\ e.code \in Revoking /\ e.version \notin {None} \cup damaged =>
                           \E r \in versions : /\ r.meta.version = e.version
                                               /\ r.cipher.aad.status = "revoked"
    BY DEF AuditIsTruthful, Issuing, Revoking
  <2>1. Truthful(e.code, e.version)
    BY DEF ApiInv, AuditInv
  <2> QED BY <2>1 DEF Truthful, Known, Gone, Sealed
<1> QED BY <1>1, HandlersCorrect, PTL

(***************************************************************************)
(* The grants of the client that asked cover the intent sealed with every  *)
(* version written, generated or resolved for it, in that version's        *)
(* workspace.                                                              *)
(***************************************************************************)
THEOREM GrantsBindVersions == ApiSpec => []WithinGrants
<1>1. ApiInv => WithinGrants
  <2> SUFFICES ASSUME ApiInv, NEW c \in Calls, reply[c] # None, reply[c].outcome \in Granted,
                      NEW m \in reply[c].metas
               PROVE  Require(Authenticate(asked[c].token), Action(asked[c].ask.op),
                              m.ws, m.labels.intent)
    BY DEF WithinGrants, Succeeded, Granted, Generated
  <2>1. m.ws = asked[c].ask.ws /\ m.labels.intent = StoreRequest(asked[c]).intent
    BY ReplyFacts DEF WellFormed
  <2>2. asked[c].ask.op \notin {"revoke", "revoke-version", "metadata"}
    BY ReplyFacts DEF WellFormed, SuccessOf, Successes, Granted, Generated, Revoked
  <2>3. InScope(asked[c])
    BY ReplyFacts, ChecksTell
  <2> QED BY <2>1, <2>2, <2>3 DEF InScope, AskedIntent
<1> QED BY <1>1, HandlersCorrect, PTL

(***************************************************************************)
(* After a revocation was answered, no later request is given material of a*)
(* version answered with a revocation time, whatever it is pinned to and   *)
(* however often rows are altered: that version stays sealed.              *)
(***************************************************************************)
THEOREM AnsweredRevocationHolds == ApiSpec => []RevocationIsHonoured
<1>1. ApiInv => RevocationIsHonoured
  <2> SUFFICES ASSUME ApiInv, NEW c \in Calls, NEW d \in before[c], Withdraws(d),
                      answer[c] # None, answer[c].material # None
               PROVE  \A m \in reply[c].metas : \A n \in reply[d].metas :
                          n.revoked_at # None => m.version # n.version
    BY DEF RevocationIsHonoured, Withdraws, Withdrawn
  <2> QED BY MaterialFacts DEF ApiInv, RevokedInv, HonourInv
<1> QED BY <1>1, HandlersCorrect, PTL

(***************************************************************************)
(* What the store promises of its tables it promises under the handlers,   *)
(* which call it from many threads, crash between its transactions and     *)
(* write to its audit table on their own.                                  *)
(***************************************************************************)
THEOREM StorePromisesHold ==
    ApiSpec => [](/\ VersionNumbering /\ UndamagedRowsAuthenticate
                  /\ PinnedResolution /\ RevocationBinding
                  /\ GenerationBacked /\ OneIdentityPerGeneration
                  /\ EffectsRecorded)
<1>1. StoreInv => /\ VersionNumbering /\ UndamagedRowsAuthenticate /\ GenerationBacked
                  /\ PinnedResolution /\ OneIdentityPerGeneration /\ RevocationBinding
                  /\ EffectsRecorded
  BY PinInvImplies, IdentityInvImplies, RevocationInvImplies
     DEF StoreInv, TableInv, SealInv
<1>2. ApiInv => StoreInv
  BY DEF ApiInv
<1> QED BY <1>1, <1>2, HandlersCorrect, PTL

-----------------------------------------------------------------------------
(* One intent per reference *)

\* A rotation by a handler expects the intent it writes.
LEMMA RotationExpects ==
    ASSUME NEW a \in ApiRequests, StoreRequest(a).op = "rotate"
    PROVE  StoreRequest(a).expected = StoreRequest(a).intent /\ StoreRequest(a).intent # None
<1>1. a.ask \in Request /\ a.ask.op = "rotate"
  BY RequestKept, ApiAssumption DEF ApiRequest
<1>2. a.ask.intent # None
  BY <1>1, ApiAssumption
<1> QED BY <1>1, <1>2 DEF StoreRequest, Request

LEMMA AddedKeepsIntent ==
    ASSUME StoreInv, OneIntentPerReference, NEW a \in ApiRequests, AddedFor(StoreRequest(a))
    PROVE  OneIntentPerReference'
<1> DEFINE q == StoreRequest(a)
<1>0. q \in Requests /\ q \in Request
  BY RequestKept, RequestFacts
<1>e. q.op = "rotate" => q.expected = q.intent /\ q.intent # None
  BY RotationExpects
<1>f. AddedFor(q)
  OBVIOUS
<1> HIDE DEF q
<1>1. PICK id \in VersionIds, n \in Nat, L \in Labels, p \in Material :
         /\ versions' = versions \cup {NewRow(q, id, n, L, p)}
         /\ \/ ~FirstVersionTaken(q)
            \/ /\ q.op = "rotate" /\ L.intent = q.intent
               /\ \E latest \in versions : IsLatest(latest, q) /\ Expected(latest, q)
  BY <1>f DEF AddedFor
<1> DEFINE row == NewRow(q, id, n, L, p)
<1>2. row.meta.ws = q.ws /\ row.meta.secret = q.secret /\ row.meta.labels = L
  BY <1>0, NewRowFacts
<1>3. versions' = versions \cup {row}
  BY <1>1
<1> HIDE DEF row
<1>4. \A r \in Rows(q) : r.meta.labels.intent = L.intent
  <2>1. CASE ~FirstVersionTaken(q)
    BY <2>1 DEF StoreInv, TableInv, FirstVersionKept, FirstVersionTaken, Rows
  <2>2. ASSUME NEW latest \in versions, q.op = "rotate", L.intent = q.intent,
               IsLatest(latest, q), Expected(latest, q)
        PROVE  \A r \in Rows(q) : r.meta.labels.intent = L.intent
    <3>1. latest \in Rows(q) /\ latest.meta.labels.intent = L.intent
      BY <1>e, <2>2 DEF IsLatest, Expected, HasIntent
    <3> QED BY <3>1 DEF OneIntentPerReference, Rows
  <2> QED BY <1>1, <2>1, <2>2
<1> QED BY <1>2, <1>3, <1>4 DEF OneIntentPerReference, Rows

LEMMA RewrittenKeepsIntent ==
    ASSUME TypeOK, OneIntentPerReference, RowsRewritten
    PROVE  OneIntentPerReference'
<1>1. PICK F \in [versions -> Row] : /\ versions' = {F[r] : r \in versions}
                                     /\ \A r \in versions : Heir(r, F[r])
  BY DEF RowsRewritten
<1>2. \A r \in versions : /\ F[r].meta.ws = r.meta.ws /\ F[r].meta.secret = r.meta.secret
                           /\ F[r].meta.labels = r.meta.labels
  BY <1>1, OriginFacts DEF Heir, TypeOK
<1> QED BY <1>1, <1>2 DEF OneIntentPerReference, Rows

LEMMA IntentStep ==
    StoreInv /\ HandlerInv /\ OneIntentPerReference /\ [ApiNext]_allVars
        => OneIntentPerReference'
<1> SUFFICES ASSUME StoreInv, HandlerInv, OneIntentPerReference, [ApiNext]_allVars
             PROVE  OneIntentPerReference'
  OBVIOUS
<1>0. TypeOK
  BY DEF StoreInv
<1>1. ASSUME NEW c \in Calls, RunStore(c) PROVE OneIntentPerReference'
  <2>1. /\ asked[c] \in ApiRequests /\ StoreRequest(asked[c]) \in Requests
        /\ Operation(c, StoreRequest(asked[c]))
    BY <1>1, RunStoreIsNext
  <2>2. UNCHANGED versions \/ AddedFor(StoreRequest(asked[c])) \/ RowsRewritten
    BY <1>0, <2>1, OperationStep
  <2>3. CASE UNCHANGED versions
    BY <2>3 DEF OneIntentPerReference, Rows
  <2> QED BY <1>0, <2>1, <2>2, <2>3, AddedKeepsIntent, RewrittenKeepsIntent
<1>2. ASSUME NEW r \in versions, DamageRow(r) PROVE OneIntentPerReference'
  BY <1>0, <1>2, DamageStep, RewrittenKeepsIntent
<1>3. CASE UNCHANGED versions
  BY <1>3 DEF OneIntentPerReference, Rows
<1> QED BY <1>1, <1>2, <1>3, StoreStep DEF Appends, StoreRest, vars

(***************************************************************************)
(* Under the handlers a reference keeps the intent it was first written    *)
(* with, whoever rotates it: the handler states the intent it was asked    *)
(* for as the expected one.  Of the store alone this is false, since its   *)
(* rotation compares no intent unless one is expected.                     *)
(***************************************************************************)
THEOREM IntentIsPermanent == ApiSpec => []OneIntentPerReference
<1>1. ApiInit => OneIntentPerReference
  BY DEF ApiInit, Init, OneIntentPerReference
<1>2. ApiInv => StoreInv /\ HandlerInv
  BY DEF ApiInv
<1> QED BY <1>1, <1>2, IntentStep, HandlersCorrect, PTL DEF ApiSpec

-----------------------------------------------------------------------------
(* Answers and records agree *)

Cut == {"audit-unavailable", "internal-error"}

Heard(c) == answer[c] # None /\ answer[c].code \notin Cut

Denied(c) == asked[c].ask.op = "resolve" /\ ~Admitted(asked[c])

\* The verdict on a request is fixed before its first record is written: what
\* is recorded, what is pending and what is answered carry the same one, and
\* the denial of a use is on its way to the table.
VerdictCall(c) ==
    /\ \A e \in audit : e.call = c /\ e.code \in HandlerCodes =>
         at[c] \in {"finish", "done", "lost"} /\ e.code = Response(c).code
    /\ \A p \in pending[c] : p.code = Response(c).code
    /\ Heard(c) => /\ answer[c].code = Response(c).code
                   /\ Admitted(asked[c]) => reply[c] # None
                   /\ Denied(c) => answer[c].code \notin Issuing
    /\ (at[c] = "finish" \/ Heard(c)) /\ Denied(c) =>
         \/ Audited(c, Response(c).code, asked[c].ask.version)
         \/ \E p \in pending[c] : p.code = Response(c).code /\ p.version = asked[c].ask.version

VerdictInv == \A c \in Calls : VerdictCall(c)

\* Only one check can be the first to fail.
LEMMA FirstFailingIsOne ==
    ASSUME NEW a \in ApiRequests, NEW i, NEW j, FirstFailing(a, i), FirstFailing(a, j)
    PROVE  i = j
<1>1. \E n \in Nat : DOMAIN Checks[a] = 1..n
  <2>1. \A u, v : DOMAIN <<u, v>> = 1..2
    OBVIOUS
  <2>2. \A u, v, w : DOMAIN <<u, v, w>> = 1..3
    OBVIOUS
  <2>3. \A u, v, w, x, y : DOMAIN <<u, v, w, x, y>> = 1..5
    OBVIOUS
  <2>4. CASE a.ask.op \in {"create", "rotate"}
    BY <2>3, <2>4 DEF Checks
  <2>5. CASE a.ask.op \in {"generate", "resolve"}
    BY <2>2, <2>5 DEF Checks
  <2>6. CASE a.ask.op \notin {"create", "rotate", "generate", "resolve"}
    BY <2>1, <2>6 DEF Checks
  <2> QED BY <2>4, <2>5, <2>6
<1>2. i \in Nat /\ j \in Nat /\ i >= 1 /\ j >= 1
  BY <1>1 DEF FirstFailing
<1>3. ~(i < j) /\ ~(j < i)
  <2>1. i < j => i \in 1..(j - 1)
    BY <1>2
  <2>2. j < i => j \in 1..(i - 1)
    BY <1>2
  <2> QED BY <2>1, <2>2 DEF FirstFailing
<1> QED BY <1>2, <1>3

\* Whatever denies a use is audited.
LEMMA DenialsAudited ==
    ASSUME NEW a \in ApiRequests, a.ask.op = "resolve", NEW i \in DOMAIN Checks[a]
    PROVE  Checks[a][i].audited
<1>1. Checks[a] = <<Authentication(a), IntentKnown(a), Scope(a, TRUE)>>
  BY DEF Checks
<1>2. \A j \in DOMAIN Checks[a] : Checks[a][j] \in {Authentication(a), IntentKnown(a), Scope(a, TRUE)}
  BY <1>1, ThreeChecks
<1>3. Authentication(a).audited /\ IntentKnown(a).audited /\ Scope(a, TRUE).audited
  BY DEF Authentication, IntentKnown, Scope, Check
<1> QED BY <1>2, <1>3

LEMMA RecordsVerdict ==
    ASSUME NEW op, NEW R, NEW p \in Records(op, R)
    PROVE  p.code = Code(op, R.outcome)
BY DEF Records, Rec

LEMMA UntouchedVerdict ==
    ASSUME NEW d \in Calls, Untouched(d), audit \subseteq audit', VerdictCall(d),
           \A e \in audit' : e.call = d /\ e.code \in HandlerCodes => e \in audit
    PROVE  VerdictCall(d)'
<1>1. Response(d)' = Response(d)
  BY DEF Untouched, Response
<1> QED BY <1>1 DEF Untouched, VerdictCall, Heard, Denied, Audited

\* The records of a transaction are the store's, not the handler's.
LEMMA TransactionCodes ==
    ASSUME StoreInv, HandlerInv, NEW c \in Calls, RunStore(c)
    PROVE  \A e \in audit' : e.code \in HandlerCodes => e \in audit
BY RunStoreIsNext, AuditStep
   DEF StoreInv, NothingAudited, SomethingAudited, ReplayAudited, GenerationAudited,
       RevocationAudited, Entry, HandlerCodes

LEMMA VerdictInvHolds ==
    StoreInv /\ HandlerInv /\ VerdictInv /\ [ApiNext]_allVars => VerdictInv'
<1> SUFFICES ASSUME StoreInv, HandlerInv, VerdictInv, [ApiNext]_allVars PROVE VerdictInv'
  OBVIOUS
<1>g. audit \subseteq audit'
  BY AuditGrows
<1>u. ASSUME NEW c \in Calls, \A d \in Calls : d # c => Untouched(d), VerdictCall(c)',
             \A e \in audit' : e.call # c /\ e.code \in HandlerCodes => e \in audit
      PROVE  VerdictInv'
  BY <1>g, <1>u, UntouchedVerdict DEF VerdictInv
<1>1. ASSUME NEW c \in Calls, RunStore(c) PROVE VerdictInv'
  <2>1. /\ \A d \in Calls : d # c => Untouched(d)
        /\ pending'[c] = Records(asked[c].ask.op, reply'[c])
    BY <1>1, RunStoreStep
  <2>2. /\ asked'[c] = asked[c] /\ answer'[c] = None /\ at[c] = "store"
        /\ Admitted(asked[c])
    BY <1>1 DEF RunStore, Finish, HandlerInv, Staged, StagedCall
  <2>3. Response(c)'.code = Code(asked[c].ask.op, reply'[c].outcome)
    BY <2>2 DEF Response
  <2>4. \A e \in audit' : e.code \in HandlerCodes => e \in audit
    BY <1>1, TransactionCodes
  <2>5. \A e \in audit : ~(e.call = c /\ e.code \in HandlerCodes)
    BY <2>2 DEF VerdictInv, VerdictCall
  <2>6. \A p \in pending'[c] : p.code = Response(c)'.code
    BY <2>1, <2>3, RecordsVerdict
  <2>7. VerdictCall(c)'
    BY <2>2, <2>4, <2>5, <2>6 DEF VerdictCall, Heard, Denied
  <2> QED BY <1>u, <2>1, <2>4, <2>7
<1>2. ASSUME NEW c \in Calls, NEW a \in ApiRequests, Receive(c, a) PROVE VerdictInv'
  <2>1. \A d \in Calls : d # c => Untouched(d)
    BY <1>2 DEF Untouched, Receive, Respond, Finish, vars, HandlerInv, HandlerTypes
  <2>2. /\ asked'[c] = a /\ at[c] = "idle" /\ pending[c] = {} /\ answer[c] = None
        /\ audit' = audit
    BY <1>2 DEF Receive, vars, HandlerInv, HandlerTypes, Staged, StagedCall
  <2>3. \A e \in audit' : ~(e.call = c /\ e.code \in HandlerCodes)
    BY <2>2 DEF VerdictInv, VerdictCall
  <2>4. CASE Respond(c, "internal-error", None)
    <3>1. answer'[c].code = "internal-error" /\ pending'[c] = {} /\ at'[c] = "done"
      BY <2>4 DEF Respond, HandlerInv, HandlerTypes
    <3>2. VerdictCall(c)'
      BY <2>3, <3>1 DEF VerdictCall, Heard, Cut
    <3> QED BY <1>u, <2>1, <2>2, <3>2
  <2>5. CASE at' = [at EXCEPT ![c] = "store"] /\ UNCHANGED <<pending, answer>>
    <3>1. at'[c] = "store" /\ pending'[c] = {} /\ answer'[c] = None
      BY <2>2, <2>5 DEF HandlerInv, HandlerTypes
    <3>2. VerdictCall(c)'
      BY <2>3, <3>1 DEF VerdictCall, Heard
    <3> QED BY <1>u, <2>1, <2>2, <3>2
  <2>6. ASSUME NEW i \in DOMAIN Checks[a], FirstFailing(a, i), Finish(c, RefusalRecords(a, i))
        PROVE  VerdictInv'
    <3>1. at'[c] = "finish" /\ answer'[c] = None /\ pending'[c] = RefusalRecords(a, i)
      BY <2>2, <2>6 DEF Finish, HandlerInv, HandlerTypes
    <3>2. ~Admitted(a)
      BY <2>6 DEF FirstFailing, Admitted
    <3>3. Response(c)'.code = Checks[a][i].code
      <4> DEFINE j == CHOOSE k \in DOMAIN Checks[a] : FirstFailing(a, k)
      <4>1. FirstFailing(a, j)
        BY <2>6
      <4>2. Response(c)' = [code |-> Checks[a][j].code, material |-> None]
        BY <2>2, <3>2 DEF Response
      <4> HIDE DEF j
      <4>3. i = j
        BY <2>6, <4>1, FirstFailingIsOne
      <4> QED BY <4>2, <4>3
    <3>4. \A p \in pending'[c] : p.code = Response(c)'.code
      BY <3>1, <3>3 DEF RefusalRecords, Rec
    <3>5. a.ask.op = "resolve" => Checks[a][i].audited
      BY DenialsAudited
    <3>6. a.ask.op = "resolve" =>
            \E p \in pending'[c] : p.code = Response(c)'.code /\ p.version = a.ask.version
      <4>1. a.ask.op = "resolve" =>
              RefusalRecords(a, i) = {Rec(Checks[a][i].code, a.ask.version, 0)}
        BY <3>5 DEF RefusalRecords
      <4> DEFINE p == Rec(Checks[a][i].code, a.ask.version, 0)
      <4>2. p.code = Checks[a][i].code /\ p.version = a.ask.version
        BY DEF Rec
      <4> HIDE DEF p
      <4>3. a.ask.op = "resolve" => p \in pending'[c]
        BY <3>1, <4>1 DEF p
      <4> QED BY <3>3, <4>2, <4>3
    <3>7. VerdictCall(c)'
      BY <2>2, <2>3, <3>1, <3>4, <3>6 DEF VerdictCall, Heard, Denied
    <3> QED BY <1>u, <2>1, <2>2, <3>7
  <2> QED BY <1>2, <2>4, <2>5, <2>6 DEF Receive
<1>3. ASSUME NEW c \in Calls, StoreUnavailable(c) \/ AuditFails(c) PROVE VerdictInv'
  <2>1. PICK code \in Cut :
           Respond(c, code, None) /\ UNCHANGED <<vars, asked, before, crashes>>
    BY <1>3 DEF StoreUnavailable, AuditFails, Cut
  <2>2. /\ \A d \in Calls : d # c => Untouched(d)
        /\ at'[c] = "done" /\ answer'[c].code = code
        /\ reply'[c] = reply[c] /\ asked'[c] = asked[c]
    BY <2>1, RespondUntouched
  <2>3. pending'[c] = {} /\ audit' = audit
    BY <2>1 DEF Respond, vars, HandlerInv, HandlerTypes
  <2>4. Response(c)' = Response(c)
    BY <2>2 DEF Response
  <2>5. VerdictCall(c)'
    BY <2>2, <2>3, <2>4 DEF VerdictInv, VerdictCall, Heard
  <2> QED BY <1>u, <2>2, <2>3, <2>5
<1>4. ASSUME NEW c \in Calls, Return(c) PROVE VerdictInv'
  <2>1. /\ \A d \in Calls : d # c => Untouched(d)
        /\ at'[c] = "done" /\ reply'[c] = reply[c] /\ asked'[c] = asked[c]
        /\ answer'[c].code = Response(c).code
    BY <1>4, RespondUntouched DEF Return
  <2>2. /\ at[c] = "finish" /\ pending[c] = {} /\ pending'[c] = {} /\ audit' = audit
    BY <1>4 DEF Return, Ready, Respond, vars, HandlerInv, HandlerTypes
  <2>3. Response(c)' = Response(c)
    BY <2>1 DEF Response
  <2>4. Admitted(asked[c]) => reply[c] # None
    BY <2>2 DEF HandlerInv, Staged, StagedCall
  <2>6. Denied(c) => Response(c).code \notin Issuing
    <3> DEFINE i == CHOOSE j \in DOMAIN Checks[asked[c]] : FirstFailing(asked[c], j)
    <3>1. SUFFICES ASSUME ~Admitted(asked[c]) PROVE Response(c).code \notin Issuing
      BY DEF Denied
    <3>2. asked[c] \in ApiRequests /\ i \in DOMAIN Checks[asked[c]]
      BY <2>2, <3>1 DEF HandlerInv, Staged, StagedCall
    <3>3. Response(c) = [code |-> Checks[asked[c]][i].code, material |-> None]
      BY <3>1 DEF Response
    <3> HIDE DEF i
    <3> QED BY <3>2, <3>3, ChecksTell
  <2>5. VerdictCall(c)'
    BY <2>1, <2>2, <2>3, <2>4, <2>6 DEF VerdictInv, VerdictCall, Heard, Denied, Audited
  <2> QED BY <1>u, <2>1, <2>2, <2>5
<1>5. ASSUME NEW c \in Calls, AppendAudit(c) PROVE VerdictInv'
  <2>1. PICK p \in pending[c] :
           /\ audit' = audit \cup {[call |-> c, code |-> p.code, version |-> p.version]}
           /\ pending' = [pending EXCEPT ![c] = @ \ {p}]
           /\ at[c] = "finish" /\ UNCHANGED <<reply, at, asked, answer>>
    BY <1>5 DEF AppendAudit
  <2>2. \A d \in Calls : d # c => Untouched(d)
    BY <2>1 DEF Untouched, HandlerInv, HandlerTypes
  <2>3. Audited(c, p.code, p.version)' /\ pending'[c] = pending[c] \ {p}
    BY <2>1 DEF Audited, HandlerInv, HandlerTypes
  <2>4. Response(c)' = Response(c) /\ p.code = Response(c).code
    BY <2>1 DEF Response, VerdictInv, VerdictCall
  <2>5. \A e \in audit' : e.call = c /\ e.code \in HandlerCodes => e.code = Response(c).code
    BY <2>1, <2>4 DEF VerdictInv, VerdictCall
  <2>6. VerdictCall(c)'
    BY <1>g, <2>1, <2>3, <2>4, <2>5 DEF VerdictInv, VerdictCall, Heard, Denied, Audited
  <2> QED BY <1>u, <2>1, <2>2, <2>6
<1>6. CASE Crash
  <2>1. ASSUME NEW d \in Calls PROVE VerdictCall(d)'
    <3>1. Response(d)' = Response(d)
      BY <1>6 DEF Crash, vars, Response
    <3>2. /\ pending'[d] = {} /\ at'[d] # "finish" /\ audit' = audit
          /\ at[d] \in {"finish", "done", "lost"} => at'[d] \in {"done", "lost"}
          /\ UNCHANGED <<answer, asked, reply>>
      BY <1>6 DEF Crash, InFlight, vars, HandlerInv, HandlerTypes
    <3>3. answer[d] # None => pending[d] = {}
      BY DEF HandlerInv, Staged, StagedCall
    <3> QED BY <3>1, <3>2, <3>3 DEF VerdictInv, VerdictCall, Heard, Denied, Audited
  <2> QED BY <2>1 DEF VerdictInv
<1>7. CASE UNCHANGED apiVars /\ UNCHANGED <<reply, audit>>
  <2>1. \A d \in Calls : Untouched(d)
    BY <1>7 DEF apiVars, Untouched
  <2> QED BY <1>7, <2>1, UntouchedVerdict DEF VerdictInv
<1> QED BY <1>1, <1>2, <1>3, <1>4, <1>5, <1>6, <1>7
        DEF ApiNext, Handle, DamageRow, allVars, vars

LEMMA VerdictsMatch == ApiInv /\ VerdictInv => AnswersMatchRecords
<1> SUFFICES ASSUME ApiInv, VerdictInv, NEW c \in Calls, Heard(c)
             PROVE  /\ \A e \in audit : e.call = c /\ e.code \in HandlerCodes => e.code = answer[c].code
                    /\ asked[c].ask.op = "resolve" =>
                         IF answer[c].code = "secret-resolved"
                         THEN \E m \in reply[c].metas : Audited(c, "secret-resolved", m.version)
                         ELSE Audited(c, answer[c].code, asked[c].ask.version)
  BY DEF AnswersMatchRecords, Heard, Cut
<1>1. \A e \in audit : e.call = c /\ e.code \in HandlerCodes => e.code = answer[c].code
  BY DEF VerdictInv, VerdictCall
<1>2. at[c] = "done" /\ pending[c] = {} /\ asked[c] \in ApiRequests
  BY DEF ApiInv, HandlerInv, Staged, StagedCall, Heard
<1>3. ASSUME asked[c].ask.op = "resolve", ~Admitted(asked[c])
      PROVE  answer[c].code # "secret-resolved" /\ Audited(c, answer[c].code, asked[c].ask.version)
  <2>1. Audited(c, answer[c].code, asked[c].ask.version)
    BY <1>2, <1>3 DEF VerdictInv, VerdictCall, Denied
  <2>3. answer[c].code # "secret-resolved"
    BY <1>3 DEF VerdictInv, VerdictCall, Denied, Issuing
  <2> QED BY <2>1, <2>3
<1>4. ASSUME asked[c].ask.op = "resolve", Admitted(asked[c])
      PROVE  IF answer[c].code = "secret-resolved"
             THEN \E m \in reply[c].metas : Audited(c, "secret-resolved", m.version)
             ELSE Audited(c, answer[c].code, asked[c].ask.version)
  <2>1. /\ reply[c] # None /\ reply[c] \in Reply /\ WellFormed(reply[c])
        /\ reply[c].ask.op = "resolve" /\ reply[c].ask.version = asked[c].ask.version
    BY <1>2, <1>4, ReplyFacts, RequestKept DEF VerdictInv, VerdictCall
  <2>2. /\ answer[c].code = Code("resolve", reply[c].outcome)
        /\ \A p \in Records("resolve", reply[c]) : Audited(c, p.code, p.version)
    BY <1>4, <2>1 DEF ApiInv, AnswerInv, AnswerCall, Heard, Cut
  <2>3. CASE reply[c].outcome \in Successes
    <3>1. reply[c].outcome = "resolved"
      BY <2>1, <2>3 DEF WellFormed, SuccessOf, Successes, Revoked, Generated
    <3>2. PICK m : m \in reply[c].metas
      BY <2>1, <3>1 DEF ApiInv, StoreInv, PinInv, RepliesBacked, Resolved, Succeeded
    <3>3. Rec("secret-resolved", m.version, m.number) \in Records("resolve", reply[c])
      BY <3>1, <3>2 DEF Records, Code, Successes
    <3>4. Audited(c, "secret-resolved", m.version) /\ answer[c].code = "secret-resolved"
      BY <2>2, <3>1, <3>3 DEF Rec, Code
    <3> QED BY <3>2, <3>4
  <2>4. CASE reply[c].outcome \notin Successes
    <3>1. reply[c].outcome \in Failures /\ reply[c].outcome # "AuditUnavailable"
      BY <2>1, <2>2, <2>4 DEF Reply, Code, Heard, Cut
    <3>2. answer[c].code # "secret-resolved"
      BY <2>2, <3>1 DEF Code, Failures
    <3>3. Rec(answer[c].code, asked[c].ask.version, 0) \in Records("resolve", reply[c])
      BY <2>1, <2>2, <2>4, <3>1 DEF Records, Failures
    <3> QED BY <2>2, <3>2, <3>3 DEF Rec
  <2> QED BY <2>3, <2>4
<1> QED BY <1>1, <1>3, <1>4

(***************************************************************************)
(* No record of a request carries another verdict than the client was      *)
(* given, and every use a client heard about is on record, denied or       *)
(* delivered, unless a failed transaction cut the answer short.            *)
(***************************************************************************)
THEOREM AnswersAgreeWithRecords == ApiSpec => []AnswersMatchRecords
<1>1. ApiInit => VerdictInv
  BY DEF ApiInit, Init, VerdictInv, VerdictCall, Heard
<1>2. ApiInv => StoreInv /\ HandlerInv
  BY DEF ApiInv
<1>3. ApiSpec => []VerdictInv
  BY <1>1, <1>2, VerdictInvHolds, HandlersCorrect, PTL DEF ApiSpec
<1> QED BY <1>3, VerdictsMatch, HandlersCorrect, PTL
-----------------------------------------------------------------------------
(* The store's steps under the handlers *)

\* The handlers' own steps leave the abstract state alone.
LEMMA HandlersLifecycleStep ==
    ASSUME StoreInv, HandlerInv, [ApiNext]_allVars
    PROVE  [Promise!Next]_<<SealedStatus, Pinned, DeliveredPairs>>
<1>1. CASE [Next]_vars
  BY <1>1, LifecycleStep DEF StoreInv
<1>2. CASE UNCHANGED <<versions, selections, reply>>
  BY <1>2 DEF SealedStatus, Pinned, DeliveredPairs, Succeeded
<1>3. (\E r \in versions : DamageRow(r)) => Next
  BY DEF Next
<1> QED BY <1>1, <1>2, <1>3, StoreStep, RunStoreIsNext DEF Appends, StoreRest

(***************************************************************************)
(* The provider as its clients meet it implements VersionLifecycle: any    *)
(* interleaving of handlers, crashes and failed transactions included, a   *)
(* version is issued once, retired for good, and delivered only while it is*)
(* active, to the correlation that is pinned to it.                        *)
(***************************************************************************)
THEOREM HandlersImplementLifecycle == ApiSpec => ImplementsLifecycle
<1>1. ApiInit => Promise!Init
  BY DEF ApiInit, Init, Promise!Init, SealedStatus, Pinned, DeliveredPairs, Succeeded
<1>2. ApiInv => StoreInv /\ HandlerInv
  BY DEF ApiInv
<1> QED BY <1>1, <1>2, HandlersLifecycleStep, HandlersCorrect, PTL
        DEF ApiSpec, ImplementsLifecycle, Promise!Spec, Promise!vars

\* A call that returned in this step is the one whose operation ran.
LEMMA OnlyRunStoreReturns ==
    ASSUME StoreInv, HandlerInv, [ApiNext]_allVars, NEW d \in Calls, Returned(d)
    PROVE  Sourced(d) /\ Reaches(d) /\ LeavesNoTrace(d)
<1>1. PICK c \in Calls : RunStore(c)
  BY StoreStep DEF Appends, StoreRest, DamageRow, Returned, vars
<1>2. d = c
  BY <1>1, RunStoreIsNext DEF Returned
<1> QED BY <1>1, <1>2, RunStoreIsNext, OperationSourced, OperationReaches, OperationAnswers
        DEF StoreInv

LEMMA HandlersSuccession ==
    ASSUME StoreInv, HandlerInv, [ApiNext]_allVars, NEW r \in versions
    PROVE  Succession(r)
<1>1. CASE [Next]_vars
  BY <1>1, SuccessionStep DEF StoreInv
<1>2. CASE UNCHANGED versions
  BY <1>2 DEF Succession
<1>3. (\E t \in versions : DamageRow(t)) => Next
  BY DEF Next
<1> QED BY <1>1, <1>2, <1>3, StoreStep, RunStoreIsNext DEF Appends, StoreRest

(***************************************************************************)
(* No step of the provider loses or rewrites a version, hands out material *)
(* of a revoked one, or revokes more, or less, than it was asked to, and a *)
(* request that the store refuses leaves nothing behind.                   *)
(***************************************************************************)
THEOREM HandlersKeepHistory ==
    ApiSpec => /\ VersionsPersist /\ NoMaterialAfterRevocation
               /\ RevocationScope /\ RefusalsChangeNothing
<1>1. ApiInv /\ [ApiNext]_allVars => [\A r \in versions : Succession(r)]_vars
  BY HandlersSuccession DEF ApiInv
<1>2. ApiInv /\ [ApiNext]_allVars =>
        [\A c \in Calls : Returned(c) /\ reply'[c].material # None =>
          \E r \in versions :
            /\ r.cipher.aad \in reply'[c].metas
            /\ r.cipher.aad.status = "active"
            /\ r.cipher.plain = reply'[c].material]_vars
  BY OnlyRunStoreReturns DEF ApiInv, Sourced
<1>3. ApiInv /\ [ApiNext]_allVars => [\A c \in Calls : Returned(c) => Reaches(c)]_vars
  BY OnlyRunStoreReturns DEF ApiInv
<1>4. ApiInv /\ [ApiNext]_allVars =>
        [\A c \in Calls :
           Returned(c) /\ reply'[c].outcome \in Failures => UNCHANGED tables]_vars
  BY OnlyRunStoreReturns DEF ApiInv, LeavesNoTrace
<1> QED BY <1>1, <1>2, <1>3, <1>4, HandlersCorrect, PTL
        DEF ApiSpec, VersionsPersist, NoMaterialAfterRevocation, RevocationScope, Reaches,
            RefusalsChangeNothing
=============================================================================
