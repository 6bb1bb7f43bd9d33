----------------------- MODULE SecretStoreRecordsProofs -----------------------
(***************************************************************************)
(* Theorems about the records SecretStore keeps beside the versions: the   *)
(* audit records of its own transactions, generations and revocations.    *)
(* Each rests on what one operation does to one table, and on what the     *)
(* theorems of SecretStoreProofs say of the rows behind a record.          *)
(***************************************************************************)
EXTENDS SecretStoreProofs

(* Audit records written inside the store's transactions *)

Entry(c, code, id) == [call |-> c, code |-> code, version |-> id]

NothingAudited == UNCHANGED <<generations, revocations, audit>>

ReplayAudited(c, id) ==
    /\ \/ audit' = audit \cup {Entry(c, "delegation-key-generation-replayed", id)}
       \/ audit' = audit \cup {Entry(c, "secret-version-revocation-replayed", id)}
    /\ UNCHANGED <<generations, revocations>>

GenerationAudited(c, id) ==
    /\ audit' = audit \cup {Entry(c, "delegation-key-generated", id)}
    /\ \E g : g.version = id /\ generations' = generations \cup {g}
    /\ UNCHANGED revocations

RevocationAudited(c, id) ==
    /\ audit' = audit \cup {Entry(c, "secret-version-revoked", id)}
    /\ \E b : /\ b.version = id /\ b.revoked_at = c
             /\ revocations' = revocations \cup {b}
    /\ UNCHANGED generations

\* An operation that audits records what it does, and succeeds.
SomethingAudited(c) ==
    /\ \E o \in Successes, q \in Requests, M \in SUBSET Metadata, k \in Opt(KeyPairs) :
         Answer(c, q, o, M, None, k)
    /\ \E id : ReplayAudited(c, id) \/ GenerationAudited(c, id) \/ RevocationAudited(c, id)

LEMMA AuditStep ==
    ASSUME TypeOK, NEW c \in Calls, NEW q \in Requests, Operation(c, q)
    PROVE  NothingAudited \/ SomethingAudited(c)
<1> USE DEF NothingAudited, tables
<1>m. \A r \in versions : {r.meta} \in SUBSET Metadata
                          /\ {RevokedMetadata(r, c)} \in SUBSET Metadata
  BY RevokeRowFacts DEF TypeOK, Row
<1>n. None \in Opt(KeyPairs)
  BY DEF Opt
<1>1. CASE \E f : Refuse(c, q, f)
  BY <1>1 DEF Refuse
<1>2. CASE RevokeSecretVersion(c, q) /\ ~ \E f : Refuse(c, q, f)
  <2>1. CASE \E r \in versions : RevokeOneVersion(c, q, r)
    <3>1. RevocationAudited(c, q.version)
      <4> DEFINE b == [ws |-> q.ws, corr |-> q.corr, secret |-> q.secret, version |-> q.version,
                       number |-> q.number, caller |-> q.caller, revoked_at |-> c]
      <4>1. b.version = q.version /\ b.revoked_at = c /\ revocations' = revocations \cup {b}
        BY <2>1 DEF RevokeOneVersion
      <4>2. /\ audit' = audit \cup {Entry(c, "secret-version-revoked", q.version)}
            /\ UNCHANGED generations
        BY <2>1 DEF RevokeOneVersion, AppendInTransaction, Entry
      <4> QED BY <4>1, <4>2 DEF RevocationAudited
    <3>2. \E M \in SUBSET Metadata : Answer(c, q, "version-revoked", M, None, None)
      BY <1>m, <2>1 DEF RevokeOneVersion
    <3> QED BY <1>n, <3>1, <3>2 DEF SomethingAudited, Successes
  <2>2. CASE ~ \E r \in versions : RevokeOneVersion(c, q, r)
    <3>1. /\ ReplayAudited(c, q.version)
          /\ \E M \in SUBSET Metadata : Answer(c, q, "revocation-replayed", M, None, None)
      BY <1>m, <1>2, <2>2, SelectedRows DEF RevokeSecretVersion, FirstRevocation, ReplayRevocation,
         AppendInTransaction, Entry, ReplayAudited
    <3> QED BY <1>n, <3>1 DEF SomethingAudited, Successes
  <2> QED BY <2>1, <2>2
<1>3. CASE GenerateDelegationKey(c, q) /\ ~ \E f : Refuse(c, q, f)
  <2>1. CASE \E id \in VersionIds, key \in KeyPairs : InsertGeneration(c, q, id, key)
    <3>1. PICK id \in VersionIds, key \in KeyPairs : InsertGeneration(c, q, id, key)
      BY <2>1
    <3>2. GenerationAudited(c, id)
      <4> DEFINE g == [ws |-> q.ws, corr |-> q.corr, secret |-> q.secret,
                       reference |-> q.reference, purpose |-> q.purpose, issuer |-> q.issuer,
                       caller |-> q.caller, version |-> id, key |-> key]
      <4>1. g.version = id /\ generations' = generations \cup {g}
        BY <3>1 DEF InsertGeneration
      <4>2. /\ audit' = audit \cup {Entry(c, "delegation-key-generated", id)}
            /\ UNCHANGED revocations
        BY <3>1 DEF InsertGeneration, AppendInTransaction, Entry
      <4> QED BY <4>1, <4>2 DEF GenerationAudited
    <3>3. \E M \in SUBSET Metadata : Answer(c, q, "generated", M, None, key)
      <4> DEFINE row == NewRow(q, id, 1, FamilyLabels(q.intent, q.purpose, q.issuer, key), key)
      <4>1. row.meta \in Metadata
        BY RequestFacts, LabelFacts, NewRowFacts DEF Material, Row, Request
      <4>2. Answer(c, q, "generated", {row.meta}, None, key)
        BY <3>1 DEF InsertGeneration
      <4> QED BY <4>1, <4>2
    <3>4. key \in Opt(KeyPairs)
      BY DEF Opt
    <3> QED BY <3>4, <3>2, <3>3 DEF SomethingAudited, Successes
  <2>2. CASE ~ \E id \in VersionIds, key \in KeyPairs : InsertGeneration(c, q, id, key)
    <3>1. PICK g \in generations : ReplayGeneration(c, q, g)
      BY <1>3, <2>2 DEF GenerateDelegationKey, FirstGeneration, PriorGenerations
    <3>2. /\ ReplayAudited(c, g.version)
          /\ \E M \in SUBSET Metadata : Answer(c, q, "generation-replayed", M, None, g.key)
      BY <1>m, <1>3, <3>1, SelectedRows
         DEF ReplayGeneration, AppendInTransaction, Entry, ReplayAudited
    <3>3. g.key \in Opt(KeyPairs)
      BY DEF TypeOK, Generation, Opt
    <3> QED BY <3>2, <3>3 DEF SomethingAudited, Successes
  <2> QED BY <2>1, <2>2
<1>4. CASE /\ ~RevokeSecretVersion(c, q) /\ ~GenerateDelegationKey(c, q)
           /\ ~ \E f : Refuse(c, q, f)
  BY <1>4 DEF Operation, CreateSecret, RotateSecret, RevokeSecret, MeetTampered, ResolveSecretForUse, Deliver,
     ResolveSecret, ReadMetadata
<1> QED BY <1>1, <1>2, <1>3, <1>4

\* AuditedAtomically, of the records with a code that the store itself writes;
\* beside the handlers there are others.
EffectsRecorded ==
    /\ \A g \in generations : \E a \in audit :
         a.code = "delegation-key-generated" /\ a.version = g.version
    /\ \A b \in revocations : \E a \in audit :
         a.code = "secret-version-revoked" /\ a.version = b.version
    /\ \A a \in audit :
         /\ a.code = "delegation-key-generated" =>
              \E g \in generations : g.version = a.version
         /\ a.code = "secret-version-revoked" =>
              \E b \in revocations : b.version = a.version /\ b.revoked_at = a.call
         /\ a.code \in StoreCodes =>
              reply[a.call] # None /\ reply[a.call].outcome \in Successes

LEMMA RecordedStep == TypeOK /\ TypeOK' /\ EffectsRecorded /\ [Next]_vars => EffectsRecorded'
<1> SUFFICES ASSUME TypeOK, TypeOK', EffectsRecorded, [Next]_vars PROVE EffectsRecorded'
  OBVIOUS
<1>1. ASSUME NothingAudited,
             \A d \in Calls : reply[d] # None => reply'[d] = reply[d]
      PROVE  EffectsRecorded'
  BY <1>1 DEF NothingAudited, EffectsRecorded, TypeOK, AuditRecord
<1>2. ASSUME NEW c \in Calls, reply[c] = None, SomethingAudited(c) PROVE EffectsRecorded'
  <2>1. /\ reply'[c] # None /\ reply'[c].outcome \in Successes
        /\ \A d \in Calls : d # c => reply'[d] = reply[d]
    <3>1. PICK o \in Successes, q \in Requests, M \in SUBSET Metadata, k \in Opt(KeyPairs) :
             Answer(c, q, o, M, None, k)
      BY <1>2 DEF SomethingAudited
    <3>2. reply'[c] = [ask |-> q, outcome |-> o, metas |-> M, material |-> None, public |-> k]
      BY <3>1 DEF Answer, TypeOK
    <3>3. reply'[c].outcome = o
      BY <3>2
    <3>4. reply'[c] \in Reply
      BY <3>2 DEF Reply, Opt
    <3>5. \A d \in Calls : d # c => reply'[d] = reply[d]
      BY <3>1 DEF Answer, TypeOK
    <3> QED BY <3>3, <3>4, <3>5, ReplyAssumption
  <2>2. \A a \in audit : a.code \in StoreCodes =>
           a.call \in Calls /\ a.call # c /\ reply'[a.call] = reply[a.call]
    BY <1>2, <2>1 DEF EffectsRecorded, TypeOK, AuditRecord
  <2>3. PICK id : ReplayAudited(c, id) \/ GenerationAudited(c, id) \/ RevocationAudited(c, id)
    BY <1>2 DEF SomethingAudited
  <2>4. CASE ReplayAudited(c, id)
    BY <2>1, <2>2, <2>4 DEF ReplayAudited, Entry, EffectsRecorded
  <2>5. CASE GenerationAudited(c, id)
    <3> DEFINE e == Entry(c, "delegation-key-generated", id)
    <3>1. PICK g : g.version = id /\ generations' = generations \cup {g}
      BY <2>5 DEF GenerationAudited
    <3>2. audit' = audit \cup {e} /\ revocations' = revocations
      BY <2>5 DEF GenerationAudited
    <3>3. e.call = c /\ e.code = "delegation-key-generated" /\ e.version = id
      BY DEF Entry
    <3> HIDE DEF e
    <3>4. \A h \in generations' : \E a \in audit' :
             a.code = "delegation-key-generated" /\ a.version = h.version
      BY <3>1, <3>2, <3>3 DEF EffectsRecorded
    <3>5. \A b \in revocations' : \E a \in audit' :
             a.code = "secret-version-revoked" /\ a.version = b.version
      BY <3>2 DEF EffectsRecorded
    <3>6. \A a \in audit' : a.code = "delegation-key-generated" =>
             \E h \in generations' : h.version = a.version
      BY <3>1, <3>2, <3>3 DEF EffectsRecorded
    <3>7. \A a \in audit' : a.code = "secret-version-revoked" =>
             \E b \in revocations' : b.version = a.version /\ b.revoked_at = a.call
      BY <3>2, <3>3 DEF EffectsRecorded
    <3>8. \A a \in audit' : a.code \in StoreCodes =>
             reply'[a.call] # None /\ reply'[a.call].outcome \in Successes
      BY <2>1, <2>2, <3>2, <3>3 DEF EffectsRecorded
    <3> QED BY <3>4, <3>5, <3>6, <3>7, <3>8 DEF EffectsRecorded
  <2>6. CASE RevocationAudited(c, id)
    <3> DEFINE e == Entry(c, "secret-version-revoked", id)
    <3>1. PICK b : b.version = id /\ b.revoked_at = c /\ revocations' = revocations \cup {b}
      BY <2>6 DEF RevocationAudited
    <3>2. audit' = audit \cup {e} /\ generations' = generations
      BY <2>6 DEF RevocationAudited
    <3>3. e.call = c /\ e.code = "secret-version-revoked" /\ e.version = id
      BY DEF Entry
    <3> HIDE DEF e
    <3>4. \A h \in generations' : \E a \in audit' :
             a.code = "delegation-key-generated" /\ a.version = h.version
      BY <3>2 DEF EffectsRecorded
    <3>5. \A d \in revocations' : \E a \in audit' :
             a.code = "secret-version-revoked" /\ a.version = d.version
      BY <3>1, <3>2, <3>3 DEF EffectsRecorded
    <3>6. \A a \in audit' : a.code = "delegation-key-generated" =>
             \E h \in generations' : h.version = a.version
      BY <3>2, <3>3 DEF EffectsRecorded
    <3>7. \A a \in audit' : a.code = "secret-version-revoked" =>
             \E d \in revocations' : d.version = a.version /\ d.revoked_at = a.call
      BY <3>1, <3>2, <3>3 DEF EffectsRecorded
    <3>8. \A a \in audit' : a.code \in StoreCodes =>
             reply'[a.call] # None /\ reply'[a.call].outcome \in Successes
      BY <2>1, <2>2, <3>2, <3>3 DEF EffectsRecorded
    <3> QED BY <3>4, <3>5, <3>6, <3>7, <3>8 DEF EffectsRecorded
  <2> QED BY <2>3, <2>4, <2>5, <2>6
<1>3. ASSUME NEW c \in Calls, NEW q \in Requests, reply[c] = None, Operation(c, q)
      PROVE  EffectsRecorded'
  BY <1>1, <1>2, <1>3, AuditStep, OperationSourced
<1>4. CASE (\E r \in versions : DamageRow(r)) \/ UNCHANGED vars
  BY <1>1, <1>4 DEF DamageRow, vars, NothingAudited
<1> QED BY <1>3, <1>4 DEF Next

\* The store writes no other codes.
OnlyStoreCodes == \A a \in audit : a.code \in StoreCodes

LEMMA OnlyStoreCodesStep == TypeOK /\ OnlyStoreCodes /\ [Next]_vars => OnlyStoreCodes'
<1> SUFFICES ASSUME TypeOK, OnlyStoreCodes, [Next]_vars PROVE OnlyStoreCodes'
  OBVIOUS
<1>1. ASSUME NEW c \in Calls, SomethingAudited(c) PROVE OnlyStoreCodes'
  BY <1>1 DEF SomethingAudited, ReplayAudited, GenerationAudited, RevocationAudited, Entry,
              OnlyStoreCodes, StoreCodes
<1>2. CASE NothingAudited
  BY <1>2 DEF NothingAudited, OnlyStoreCodes
<1>3. CASE (\E r \in versions : DamageRow(r)) \/ UNCHANGED vars
  BY <1>3 DEF DamageRow, vars, OnlyStoreCodes
<1> QED BY <1>1, <1>2, <1>3, AuditStep DEF Next

(***************************************************************************)
(* A generation and an exact revocation have their audit record, and the   *)
(* record its effect and its successful answer, in every reachable state.  *)
(***************************************************************************)
THEOREM AuditIsAtomic == Spec => []AuditedAtomically
<1>1. Init => EffectsRecorded /\ OnlyStoreCodes
  BY DEF Init, EffectsRecorded, OnlyStoreCodes
<1>2. EffectsRecorded /\ OnlyStoreCodes => AuditedAtomically
  BY DEF EffectsRecorded, OnlyStoreCodes, AuditedAtomically
<1> QED BY <1>1, <1>2, RecordedStep, OnlyStoreCodesStep, TypeCorrect, PTL DEF Spec
-----------------------------------------------------------------------------
(* Generations *)

InsertedBy(c, q) ==
    \E id \in VersionIds, key \in KeyPairs :
        /\ AdmittedFamily(q.purpose, q.intent)
        /\ ~FirstVersionTaken(q)
        /\ PriorGenerations(q) = {}
        /\ FreshKey(key)
        /\ InsertGeneration(c, q, id, key)

LEMMA GenerationsStep ==
    ASSUME TypeOK, NEW c \in Calls, NEW q \in Requests, Operation(c, q)
    PROVE  UNCHANGED generations \/ InsertedBy(c, q)
<1> USE DEF tables, Refuse
<1>1. CASE GenerateDelegationKey(c, q)
  BY <1>1 DEF GenerateDelegationKey, FirstGeneration, ReplayGeneration, InsertedBy
<1>2. CASE RevokeSecretVersion(c, q)
  BY <1>2 DEF RevokeSecretVersion, FirstRevocation, ReplayRevocation, RevokeOneVersion
<1>3. CASE ~GenerateDelegationKey(c, q) /\ ~RevokeSecretVersion(c, q)
  BY <1>3 DEF Operation, CreateSecret, RotateSecret, RevokeSecret, MeetTampered, ResolveSecretForUse, Deliver,
     ResolveSecret, ReadMetadata
<1> QED BY <1>1, <1>2, <1>3

\* The row that backs a generation.
Backs(r, g) ==
    /\ r.meta.ws = g.ws /\ r.meta.secret = g.secret
    /\ r.meta.version = g.version
    /\ r.meta.number = 1
    /\ r.cipher.plain = g.key
    /\ r.meta.labels = FamilyLabels(SigningIntent[g.purpose], g.purpose, g.issuer, g.key)

LEMMA BackedByRows ==
    GenerationBacked <=>
        /\ \A g, h \in generations : h.ws = g.ws /\ h.secret = g.secret => h = g
        /\ \A g \in generations : \E r \in versions : Backs(r, g)
BY DEF GenerationBacked, Backs, Rows

\* A row that backs a generation has an heir that does.
LEMMA BackingSurvives ==
    ASSUME TypeOK, UNCHANGED versions \/ RowAdded \/ RowsRewritten,
           NEW g, NEW r \in versions, Backs(r, g)
    PROVE  \E s \in versions' : Backs(s, g)
<1>1. CASE RowAdded
  BY <1>1 DEF RowAdded, AddedFor
<1>2. CASE RowsRewritten
  <2>1. PICK F \in [versions -> Row] :
           /\ versions' = {F[t] : t \in versions}
           /\ \A t \in versions : Heir(t, F[t])
    BY <1>2 DEF RowsRewritten
  <2>2. F[r] \in versions' /\ Kin(r, F[r]) /\ r \in Row /\ F[r] \in Row
    BY <2>1 DEF Heir, TypeOK
  <2> QED BY <2>2, OriginFacts DEF Backs
<1> QED BY <1>1, <1>2

LEMMA BackedStep ==
    TypeOK /\ GenerationBacked /\ [Next]_vars => GenerationBacked'
<1> SUFFICES ASSUME TypeOK, GenerationBacked, [Next]_vars PROVE GenerationBacked'
  OBVIOUS
<1>1. \A g \in generations : \E s \in versions' : Backs(s, g)
  BY TableStep, BackedByRows, BackingSurvives
<1>2. CASE UNCHANGED generations
  BY <1>1, <1>2 DEF GenerationBacked, Backs, Rows
<1>3. ASSUME NEW c \in Calls, NEW q \in Requests, InsertedBy(c, q) PROVE GenerationBacked'
  <2>1. PICK id \in VersionIds, key \in KeyPairs :
           /\ AdmittedFamily(q.purpose, q.intent)
           /\ ~FirstVersionTaken(q)
           /\ InsertGeneration(c, q, id, key)
    BY <1>3 DEF InsertedBy
  <2> DEFINE row == NewRow(q, id, 1, FamilyLabels(q.intent, q.purpose, q.issuer, key), key)
             g == [ws |-> q.ws, corr |-> q.corr, secret |-> q.secret,
                   reference |-> q.reference, purpose |-> q.purpose, issuer |-> q.issuer,
                   caller |-> q.caller, version |-> id, key |-> key]
  <2>2. generations' = generations \cup {g} /\ row \in versions'
    BY <2>1 DEF InsertGeneration
  <2>3. Backs(row, g)
    <3>1. FamilyLabels(q.intent, q.purpose, q.issuer, key) \in Labels /\ key \in Material
      BY RequestFacts, LabelFacts DEF Material, Request
    <3>2. SigningIntent[q.purpose] = q.intent
      BY <2>1 DEF AdmittedFamily
    <3>3. row.meta.ws = q.ws /\ row.meta.secret = q.secret /\ row.meta.version = id
      BY <3>1, RequestFacts, NewRowFacts
    <3>4. /\ row.meta.number = 1 /\ row.cipher.plain = key
          /\ row.meta.labels = FamilyLabels(q.intent, q.purpose, q.issuer, key)
      BY <3>1, RequestFacts, NewRowFacts
    <3>5. g.ws = q.ws /\ g.secret = q.secret /\ g.version = id /\ g.key = key
          /\ g.purpose = q.purpose /\ g.issuer = q.issuer
      OBVIOUS
    <3> HIDE DEF row, g
    <3> QED BY <3>2, <3>3, <3>4, <3>5 DEF Backs
  <2>4. \A h \in generations : ~(h.ws = g.ws /\ h.secret = g.secret)
    <3>1. SUFFICES ASSUME NEW h \in generations, h.ws = q.ws, h.secret = q.secret PROVE FALSE
      OBVIOUS
    <3>2. PICK r \in versions : Backs(r, h)
      BY BackedByRows
    <3>3. r \in Rows(q) /\ r.meta.number = 1
      BY <3>1, <3>2 DEF Backs, Rows
    <3> QED BY <2>1, <3>3 DEF FirstVersionTaken
  <2> HIDE DEF g, row
  <2>5. \A h \in generations' : \E s \in versions' : Backs(s, h)
    BY <1>1, <2>2, <2>3
  <2>6. \A h, k \in generations' : k.ws = h.ws /\ k.secret = h.secret => k = h
    BY <2>2, <2>4, BackedByRows
  <2> QED BY <2>5, <2>6 DEF GenerationBacked, Backs, Rows
<1>4. CASE (\E r \in versions : DamageRow(r)) \/ UNCHANGED vars
  BY <1>2, <1>4 DEF DamageRow, vars
<1> QED BY <1>2, <1>3, <1>4, GenerationsStep DEF Next

(***************************************************************************)
(* Every generation stays backed by version 1 of its reference, with the   *)
(* labels and the private half recorded, and a reference has one at most.  *)
(***************************************************************************)
THEOREM GenerationsAreBacked == Spec => []GenerationBacked
<1>1. Init => GenerationBacked
  BY DEF Init, GenerationBacked
<1> QED BY <1>1, BackedStep, TypeCorrect, PTL DEF Spec
-----------------------------------------------------------------------------
(* One identity per generation *)

LEMMA AnswerFacts ==
    ASSUME TypeOK, NEW c \in Calls, NEW q \in Requests, NEW o \in Successes \cup Failures,
           NEW M \in SUBSET Metadata, NEW k \in Opt(KeyPairs), Answer(c, q, o, M, None, k)
    PROVE  /\ reply'[c] # None
           /\ reply'[c].ask = q /\ reply'[c].outcome = o
           /\ reply'[c].metas = M /\ reply'[c].public = k
<1>1. reply'[c] = [ask |-> q, outcome |-> o, metas |-> M, material |-> None, public |-> k]
  BY DEF Answer, TypeOK
<1>2. reply'[c] \in Reply
  BY <1>1 DEF Reply, Opt
<1> QED BY <1>1, <1>2, ReplyAssumption

\* Only an answer with one of the outcomes S is a new success of that kind.
LEMMA OtherOutcome ==
    ASSUME TypeOK, NEW c \in Calls, NEW q, NEW o, NEW M, NEW p, NEW k,
           Answer(c, q, o, M, p, k), NEW S, o \notin S
    PROVE  \A d \in Calls : Succeeded(d, S)' => Succeeded(d, S) /\ reply'[d] = reply[d]
BY DEF Answer, TypeOK, Succeeded

Generated == {"generated", "generation-replayed"}

GenerationReplayed(c, q) ==
    \E g \in PriorGenerations(q), M \in SUBSET Metadata :
        /\ Answer(c, q, "generation-replayed", M, None, g.key)
        /\ UNCHANGED generations

NothingGenerated ==
    /\ UNCHANGED generations
    /\ \A d \in Calls : Succeeded(d, Generated)' => Succeeded(d, Generated) /\ reply'[d] = reply[d]

LEMMA IdentityStep ==
    ASSUME TypeOK, NEW c \in Calls, NEW q \in Requests, Operation(c, q)
    PROVE  NothingGenerated \/ InsertedBy(c, q) \/ GenerationReplayed(c, q)
<1>1. CASE \E f \in Failures : Refuse(c, q, f)
  BY <1>1, OtherOutcome DEF Refuse, tables, Failures, Generated, NothingGenerated
<1>2. CASE GenerateDelegationKey(c, q) /\ ~ \E f \in Failures : Refuse(c, q, f)
  <2>1. CASE ~InsertedBy(c, q)
    <3>1. PICK g \in PriorGenerations(q), r \in versions :
             Answer(c, q, "generation-replayed", {r.meta}, None, g.key) /\ UNCHANGED generations
      BY <1>2, <2>1, SelectedRows
      DEF GenerateDelegationKey, FirstGeneration, ReplayGeneration, InsertedBy, Failures
    <3>2. {r.meta} \in SUBSET Metadata
      BY DEF TypeOK, Row
    <3> QED BY <3>1, <3>2 DEF GenerationReplayed
  <2> QED BY <2>1
<1>3. CASE ~GenerateDelegationKey(c, q) /\ ~ \E f \in Failures : Refuse(c, q, f)
  <2>1. PICK o \in Successes : /\ o \notin Generated
                               /\ \E M, p, k : Answer(c, q, o, M, p, k)
                               /\ UNCHANGED generations
    BY <1>3 DEF Operation, CreateSecret, RotateSecret, RevokeSecret, MeetTampered, RevokeSecretVersion,
       FirstRevocation, ReplayRevocation, RevokeOneVersion, ResolveSecretForUse, Deliver,
       ResolveSecret, ReadMetadata, tables, Failures, Successes, Generated
  <2> QED BY <2>1, OtherOutcome DEF NothingGenerated
<1> QED BY <1>1, <1>2, <1>3

\* The primary key of delegation_key_generations, fresh pairs, and the record
\* behind an answer.
IdentityInv ==
    /\ \A g, h \in generations : g.ws = h.ws /\ g.corr = h.corr => g = h
    /\ \A g, h \in generations : g.key = h.key => g = h
    /\ \A c \in Calls : Succeeded(c, Generated) =>
         \E g \in generations : /\ g.ws = reply[c].ask.ws /\ g.corr = reply[c].ask.corr
                                /\ g.key = reply[c].public

LEMMA IdentityInvStep ==
    TypeOK /\ GenerationBacked /\ IdentityInv /\ [Next]_vars => IdentityInv'
<1> SUFFICES ASSUME TypeOK, GenerationBacked, IdentityInv, [Next]_vars PROVE IdentityInv'
  OBVIOUS
<1>1. CASE NothingGenerated
  BY <1>1 DEF NothingGenerated, IdentityInv
<1>2. ASSUME NEW c \in Calls, NEW q \in Requests, InsertedBy(c, q) PROVE IdentityInv'
  <2>1. PICK id \in VersionIds, key \in KeyPairs :
           /\ PriorGenerations(q) = {} /\ FreshKey(key)
           /\ InsertGeneration(c, q, id, key)
    BY <1>2 DEF InsertedBy
  <2> DEFINE g == [ws |-> q.ws, corr |-> q.corr, secret |-> q.secret,
                   reference |-> q.reference, purpose |-> q.purpose, issuer |-> q.issuer,
                   caller |-> q.caller, version |-> id, key |-> key]
             row == NewRow(q, id, 1, FamilyLabels(q.intent, q.purpose, q.issuer, key), key)
  <2>2. /\ generations' = generations \cup {g}
        /\ Answer(c, q, "generated", {row.meta}, None, key)
    BY <2>1 DEF InsertGeneration
  <2>3. row.meta \in Metadata
    BY RequestFacts, LabelFacts, NewRowFacts DEF Material, Row, Request
  <2>4. /\ reply'[c].ask = q /\ reply'[c].public = key
        /\ \A d \in Calls : d # c => reply'[d] = reply[d]
    BY <2>2, <2>3, AnswerFacts, AnswerOf DEF Successes, Opt
  <2>5. g.ws = q.ws /\ g.corr = q.corr /\ g.key = key
    OBVIOUS
  <2> HIDE DEF g, row
  <2>6. \A h \in generations : ~(h.ws = q.ws /\ h.corr = q.corr)
    BY <2>1 DEF PriorGenerations
  <2>7. \A h \in generations : h.key # key
    BY <2>1, BackedByRows DEF FreshKey, Backs
  <2>8. ASSUME NEW d \in Calls, Succeeded(d, Generated)'
        PROVE  \E h \in generations' : /\ h.ws = reply'[d].ask.ws /\ h.corr = reply'[d].ask.corr
                                       /\ h.key = reply'[d].public
    <3>1. CASE d = c
      BY <2>2, <2>4, <2>5, <3>1
    <3>2. CASE d # c
      BY <2>2, <2>4, <2>8, <3>2 DEF IdentityInv, Succeeded
    <3> QED BY <3>1, <3>2
  <2> QED BY <2>2, <2>5, <2>6, <2>7, <2>8 DEF IdentityInv
<1>3. ASSUME NEW c \in Calls, NEW q \in Requests, GenerationReplayed(c, q) PROVE IdentityInv'
  <2>1. PICK g \in PriorGenerations(q), M \in SUBSET Metadata :
           Answer(c, q, "generation-replayed", M, None, g.key) /\ UNCHANGED generations
    BY <1>3 DEF GenerationReplayed
  <2>2. g \in generations /\ g.ws = q.ws /\ g.corr = q.corr /\ g.key \in Opt(KeyPairs)
    BY DEF PriorGenerations, TypeOK, Generation, Opt
  <2>3. /\ reply'[c].ask = q /\ reply'[c].public = g.key
        /\ \A d \in Calls : d # c => reply'[d] = reply[d]
    BY <2>1, <2>2, AnswerFacts, AnswerOf DEF Successes
  <2> QED BY <2>1, <2>2, <2>3 DEF IdentityInv, Succeeded
<1>4. CASE (\E r \in versions : DamageRow(r)) \/ UNCHANGED vars
  BY <1>1, <1>4 DEF DamageRow, vars, NothingGenerated, Succeeded
<1> QED BY <1>1, <1>2, <1>3, <1>4, IdentityStep DEF Next

LEMMA IdentitiesHold == Spec => []IdentityInv
<1>1. Init => IdentityInv
  BY DEF Init, IdentityInv, Succeeded
<1> QED BY <1>1, IdentityInvStep, TypeCorrect, GenerationsAreBacked, PTL DEF Spec

LEMMA IdentityInvImplies == IdentityInv => OneIdentityPerGeneration
BY DEF IdentityInv, OneIdentityPerGeneration, SameKey, Generated

(***************************************************************************)
(* A retried generation returns the public identity of the first attempt,  *)
(* and no two correlations are given the same one.                         *)
(***************************************************************************)
THEOREM IdentityIsStable == Spec => []OneIdentityPerGeneration
BY IdentityInvImplies, IdentitiesHold, PTL
-----------------------------------------------------------------------------
(* Revocations *)

\* A row is stored with the metadata it is sealed under, its status apart.
SealAgrees ==
    \A r \in versions : r.cipher.aad = [r.meta EXCEPT !.status = r.cipher.aad.status]

LEMMA SealAgreesStep == TypeOK /\ SealAgrees /\ [Next]_vars => SealAgrees'
<1> SUFFICES ASSUME TypeOK, SealAgrees, [Next]_vars PROVE SealAgrees'
  OBVIOUS
<1> SUFFICES ASSUME NEW s \in versions'
             PROVE  s.cipher.aad = [s.meta EXCEPT !.status = s.cipher.aad.status]
  BY Zenon DEF SealAgrees
<1>1. ASSUME s \in Row, Opens(s)
      PROVE  s.cipher.aad = [s.meta EXCEPT !.status = s.cipher.aad.status]
  BY <1>1 DEF Opens, Row, Metadata
<1>2. CASE UNCHANGED versions
  BY <1>2 DEF SealAgrees
<1>3. CASE RowAdded
  BY <1>1, <1>3, NewRowFacts, RequestFacts DEF RowAdded, AddedFor, SealAgrees
<1>4. CASE RowsRewritten
  <2>1. PICK r \in versions :
           s \in Row /\ (s = r \/ Opens(s) \/ s \in {FlipStatus(r), SpoilCiphertext(r)})
    BY <1>4 DEF RowsRewritten, Heir
  <2>2. CASE s \in {FlipStatus(r), SpoilCiphertext(r)}
    <3>1. r \in Row /\ r.cipher.aad = [r.meta EXCEPT !.status = r.cipher.aad.status]
      BY DEF TypeOK, SealAgrees
    <3> QED BY <2>2, <3>1 DEF FlipStatus, SpoilCiphertext, Row, Cipher, Metadata
  <2> QED BY <1>1, <2>1, <2>2 DEF SealAgrees
<1> QED BY <1>2, <1>3, <1>4, TableStep

\* The row that a revocation record is about.
Revokes(r, b) ==
    /\ r.meta.ws = b.ws /\ r.meta.secret = b.secret
    /\ r.meta.version = b.version
    /\ r.meta.number = b.number
    /\ r.cipher.aad.status = "revoked"
    /\ r.cipher.aad.revoked_at = b.revoked_at

LEMMA RevokesSurvives ==
    ASSUME TypeOK, UNCHANGED versions \/ RowAdded \/ RowsRewritten,
           NEW b, NEW r \in versions, Revokes(r, b)
    PROVE  \E s \in versions' : Revokes(s, b) /\ s.cipher.aad = r.cipher.aad
<1>1. CASE RowAdded
  BY <1>1 DEF RowAdded, AddedFor
<1>2. CASE RowsRewritten
  <2>1. PICK F \in [versions -> Row] :
           /\ versions' = {F[t] : t \in versions}
           /\ \A t \in versions : Heir(t, F[t])
    BY <1>2 DEF RowsRewritten
  <2>2. /\ F[r] \in versions' /\ Kin(r, F[r]) /\ r \in Row /\ F[r] \in Row
        /\ F[r].cipher.aad = r.cipher.aad
    BY <2>1 DEF Heir, TypeOK, Revokes
  <2> QED BY <2>2, OriginFacts DEF Revokes
<1> QED BY <1>1, <1>2

Revoked == {"version-revoked", "revocation-replayed"}

FirstRevoked(c, q) ==
    \E r \in SelectRow(q, q.version) :
        /\ q.version \in VersionIds
        /\ PriorRevocations(q) = {} /\ ~ClaimedTarget(q)
        /\ Revocable(r, q)
        /\ RevokeOneVersion(c, q, r)

RevocationReplayed(c, q) ==
    \E b \in PriorRevocations(q), r \in SelectRow(q, q.version) :
        /\ q.version \in VersionIds
        /\ SameRevocation(b, q)
        /\ r.meta.status = "revoked"
        /\ Answer(c, q, "revocation-replayed", {r.meta}, None, None)
        /\ UNCHANGED <<versions, revocations>>

NothingRevoked ==
    /\ UNCHANGED revocations
    /\ \A d \in Calls : Succeeded(d, Revoked)' => Succeeded(d, Revoked) /\ reply'[d] = reply[d]

LEMMA RevocationStep ==
    ASSUME TypeOK, NEW c \in Calls, NEW q \in Requests, Operation(c, q)
    PROVE  NothingRevoked \/ FirstRevoked(c, q) \/ RevocationReplayed(c, q)
<1>1. CASE \E f \in Failures : Refuse(c, q, f)
  BY <1>1, OtherOutcome DEF Refuse, tables, Failures, Revoked, NothingRevoked
<1>2. CASE /\ q.op = "revoke-version" /\ RevokeSecretVersion(c, q)
           /\ ~ \E f \in Failures : Refuse(c, q, f)
  <2>1. q.version \in VersionIds
    BY <1>2, RequestFacts
  <2>2. CASE PriorRevocations(q) = {} /\ FirstRevocation(c, q)
    BY <1>2, <2>1, <2>2 DEF FirstRevocation, FirstRevoked, Failures
  <2>3. CASE \E b \in PriorRevocations(q) : ReplayRevocation(c, q, b)
    BY <1>2, <2>1, <2>3 DEF ReplayRevocation, RevocationReplayed, Failures
  <2> QED BY <1>2, <2>2, <2>3 DEF RevokeSecretVersion
<1>3. CASE /\ ~(q.op = "revoke-version" /\ RevokeSecretVersion(c, q))
           /\ ~ \E f \in Failures : Refuse(c, q, f)
  <2>1. PICK o \in Successes : /\ o \notin Revoked
                               /\ \E M, p, k : Answer(c, q, o, M, p, k)
                               /\ UNCHANGED revocations
    BY <1>3 DEF Operation, CreateSecret, RotateSecret, RevokeSecret, MeetTampered, GenerateDelegationKey,
       FirstGeneration, ReplayGeneration, InsertGeneration, ResolveSecretForUse, Deliver,
       ResolveSecret, ReadMetadata, tables, Failures, Successes, Revoked
  <2> QED BY <2>1, OtherOutcome DEF NothingRevoked
<1> QED BY <1>1, <1>2, <1>3

\* The keys of secret_version_revocations, and the record behind an answer.
RevocationInv ==
    /\ \A b, d \in revocations : b.ws = d.ws /\ b.corr = d.corr => b = d
    /\ \A b, d \in revocations : b.ws = d.ws /\ b.version = d.version => b = d
    /\ \A b \in revocations : \E r \in versions : Revokes(r, b)
    /\ \A c \in Calls : Succeeded(c, Revoked) =>
         \E b \in revocations, r \in versions :
            /\ b.ws = reply[c].ask.ws /\ b.corr = reply[c].ask.corr
            /\ Revokes(r, b)
            /\ reply[c].metas = {r.cipher.aad}

LEMMA RevocationInvStep ==
    TypeOK /\ Identified /\ SealAgrees /\ RevocationInv /\ [Next]_vars => RevocationInv'
<1> SUFFICES ASSUME TypeOK, Identified, SealAgrees, RevocationInv, [Next]_vars
             PROVE  RevocationInv'
  OBVIOUS
<1>s. \A b \in revocations, r \in versions :
        Revokes(r, b) => \E s \in versions' : Revokes(s, b) /\ s.cipher.aad = r.cipher.aad
  BY TableStep, RevokesSurvives
<1>b. \A b \in revocations : \E s \in versions' : Revokes(s, b)
  BY <1>s DEF RevocationInv
\* An answer that stays keeps its record and an heir of its row.
<1>a. ASSUME NEW d \in Calls, Succeeded(d, Revoked), reply'[d] = reply[d],
             revocations \subseteq revocations'
      PROVE  \E b \in revocations', r \in versions' :
                /\ b.ws = reply'[d].ask.ws /\ b.corr = reply'[d].ask.corr
                /\ Revokes(r, b)
                /\ reply'[d].metas = {r.cipher.aad}
  <2>1. PICK b \in revocations, r \in versions :
           /\ b.ws = reply[d].ask.ws /\ b.corr = reply[d].ask.corr
           /\ Revokes(r, b)
           /\ reply[d].metas = {r.cipher.aad}
    BY <1>a DEF RevocationInv
  <2>2. PICK s \in versions' : Revokes(s, b) /\ s.cipher.aad = r.cipher.aad
    BY <1>s, <2>1
  <2> QED BY <1>a, <2>1, <2>2
<1>1. CASE NothingRevoked
  <2>1. revocations' = revocations
    BY <1>1 DEF NothingRevoked
  <2>2. \A d \in Calls : Succeeded(d, Revoked)' => Succeeded(d, Revoked) /\ reply'[d] = reply[d]
    BY <1>1 DEF NothingRevoked
  <2>3. \A d \in Calls : Succeeded(d, Revoked)' =>
          \E b \in revocations', r \in versions' :
                /\ b.ws = reply'[d].ask.ws /\ b.corr = reply'[d].ask.corr
                /\ Revokes(r, b)
                /\ reply'[d].metas = {r.cipher.aad}
    BY <1>a, <2>1, <2>2
  <2> QED BY <1>b, <2>1, <2>3 DEF RevocationInv, Revokes
<1>2. ASSUME NEW c \in Calls, NEW q \in Requests, FirstRevoked(c, q) PROVE RevocationInv'
  <2>1. PICK r \in SelectRow(q, q.version) :
           /\ q.version \in VersionIds
           /\ PriorRevocations(q) = {} /\ ~ClaimedTarget(q)
           /\ Revocable(r, q)
           /\ RevokeOneVersion(c, q, r)
    BY <1>2 DEF FirstRevoked
  <2> DEFINE b == [ws |-> q.ws, corr |-> q.corr, secret |-> q.secret, version |-> q.version,
                   number |-> q.number, caller |-> q.caller, revoked_at |-> c]
             s == RevokeRow(r, c)
  <2>2. /\ r \in versions /\ r \in Row
        /\ r.meta.ws = q.ws /\ r.meta.secret = q.secret /\ r.meta.version = q.version
        /\ r.meta.number = q.number
    BY <2>1, SelectedRows, NoneAssumption DEF SelectRow, Rows, TypeOK, Revocable
  <2>3. /\ revocations' = revocations \cup {b}
        /\ s \in versions'
        /\ Answer(c, q, "version-revoked", {RevokedMetadata(r, c)}, None, None)
    BY <2>1 DEF RevokeOneVersion
  <2>4. Revokes(s, b) /\ s.cipher.aad = RevokedMetadata(r, c)
    <3>1. s.cipher.aad = RevokedMetadata(r, c) /\ s.meta = RevokedMetadata(r, c)
      BY DEF RevokeRow, Encrypt
    <3>2. /\ RevokedMetadata(r, c).ws = q.ws /\ RevokedMetadata(r, c).secret = q.secret
          /\ RevokedMetadata(r, c).version = q.version
          /\ RevokedMetadata(r, c).number = q.number
          /\ RevokedMetadata(r, c).status = "revoked"
          /\ RevokedMetadata(r, c).revoked_at = c
      BY <2>2 DEF RevokedMetadata, Row, Metadata
    <3> QED BY <3>1, <3>2 DEF Revokes
  <2>5. /\ reply'[c].ask = q /\ reply'[c].metas = {RevokedMetadata(r, c)}
        /\ \A d \in Calls : d # c => reply'[d] = reply[d]
    <3>1. {RevokedMetadata(r, c)} \in SUBSET Metadata
      BY <2>2, RevokeRowFacts
    <3> QED BY <2>3, <3>1, AnswerFacts, AnswerOf DEF Successes, Opt
  <2>6. b.ws = q.ws /\ b.corr = q.corr /\ b.version = q.version
    OBVIOUS
  <2> HIDE DEF b, s
  <2>7. \A d \in revocations : ~(d.ws = q.ws /\ d.corr = q.corr)
    BY <2>1 DEF PriorRevocations
  <2>8. \A d \in revocations : ~(d.ws = q.ws /\ d.version = q.version)
    <3>1. SUFFICES ASSUME NEW d \in revocations, d.ws = q.ws, d.version = q.version PROVE FALSE
      OBVIOUS
    <3>2. PICK t \in versions : Revokes(t, d)
      BY DEF RevocationInv
    <3>3. t = r
      BY <2>2, <3>1, <3>2 DEF Identified, Revokes
    <3> QED BY <2>1, <2>2, <3>1, <3>2, <3>3 DEF ClaimedTarget, Revokes
  <2>9. ASSUME NEW d \in Calls, Succeeded(d, Revoked)'
        PROVE  \E e \in revocations', t \in versions' :
                  /\ e.ws = reply'[d].ask.ws /\ e.corr = reply'[d].ask.corr
                  /\ Revokes(t, e)
                  /\ reply'[d].metas = {t.cipher.aad}
    <3>1. CASE d = c
      BY <2>3, <2>4, <2>5, <2>6, <3>1
    <3>2. CASE d # c
      <4>1. Succeeded(d, Revoked) /\ reply'[d] = reply[d]
        BY <2>5, <2>9, <3>2 DEF Succeeded
      <4> QED BY <1>a, <2>3, <4>1
    <3> QED BY <3>1, <3>2
  <2>10. \A e \in revocations' : \E t \in versions' : Revokes(t, e)
    BY <1>b, <2>3, <2>4
  <2>11. /\ \A e, d \in revocations' : e.ws = d.ws /\ e.corr = d.corr => e = d
         /\ \A e, d \in revocations' : e.ws = d.ws /\ e.version = d.version => e = d
    BY <2>3, <2>6, <2>7, <2>8 DEF RevocationInv
  <2> QED BY <2>9, <2>10, <2>11 DEF RevocationInv, Revokes
<1>3. ASSUME NEW c \in Calls, NEW q \in Requests, RevocationReplayed(c, q)
      PROVE  RevocationInv'
  <2>1. PICK b \in PriorRevocations(q), r \in SelectRow(q, q.version) :
           /\ q.version \in VersionIds
           /\ SameRevocation(b, q)
           /\ r.meta.status = "revoked"
           /\ Answer(c, q, "revocation-replayed", {r.meta}, None, None)
           /\ UNCHANGED <<versions, revocations>>
    BY <1>3 DEF RevocationReplayed
  <2>2. /\ r \in versions /\ r.meta \in Metadata /\ r.meta.version = q.version
        /\ b \in revocations /\ b.ws = q.ws /\ b.corr = q.corr
    BY <2>1, SelectedRows, NoneAssumption DEF SelectRow, PriorRevocations, TypeOK, Row
  <2>3. Revokes(r, b)
    <3>1. PICK t \in versions : Revokes(t, b)
      BY <2>2 DEF RevocationInv
    <3>2. t = r
      BY <2>1, <2>2, <3>1 DEF Identified, Revokes, SameRevocation
    <3> QED BY <3>1, <3>2
  <2>4. r.meta = r.cipher.aad
    BY <2>1, <2>2, <2>3 DEF SealAgrees, Revokes, Metadata
  <2>5. /\ reply'[c].ask = q /\ reply'[c].metas = {r.meta}
        /\ \A d \in Calls : d # c => reply'[d] = reply[d]
    <3>1. {r.meta} \in SUBSET Metadata
      BY <2>2
    <3> QED BY <2>1, <3>1, AnswerFacts, AnswerOf DEF Successes, Opt
  <2>6. ASSUME NEW d \in Calls, Succeeded(d, Revoked)'
        PROVE  \E e \in revocations', t \in versions' :
                  /\ e.ws = reply'[d].ask.ws /\ e.corr = reply'[d].ask.corr
                  /\ Revokes(t, e)
                  /\ reply'[d].metas = {t.cipher.aad}
    <3>1. CASE d = c
      BY <2>1, <2>2, <2>3, <2>4, <2>5, <3>1
    <3>2. CASE d # c
      <4>1. Succeeded(d, Revoked) /\ reply'[d] = reply[d]
        BY <2>5, <2>6, <3>2 DEF Succeeded
      <4> QED BY <1>a, <2>1, <4>1
    <3> QED BY <3>1, <3>2
  <2> QED BY <2>1, <2>6 DEF RevocationInv, Revokes
<1>4. CASE (\E r \in versions : DamageRow(r)) \/ UNCHANGED vars
  BY <1>1, <1>4 DEF DamageRow, vars, NothingRevoked, Succeeded
<1> QED BY <1>1, <1>2, <1>3, <1>4, RevocationStep DEF Next

LEMMA RevocationsHold == Spec => [](SealAgrees /\ RevocationInv)
<1>1. Init => SealAgrees /\ RevocationInv
  BY DEF Init, SealAgrees, RevocationInv, Succeeded
<1>2. TableInv => Identified
  BY DEF TableInv
<1> QED BY <1>1, <1>2, SealAgreesStep, RevocationInvStep, TypeCorrect, TableCorrect, PTL DEF Spec

LEMMA RevocationInvImplies ==
    TypeOK /\ Identified /\ SealAgrees /\ RevocationInv => RevocationBinding
<1> SUFFICES ASSUME TypeOK, Identified, SealAgrees, RevocationInv PROVE RevocationBinding
  OBVIOUS
<1>1. \A b \in revocations :
        /\ \A d \in revocations : d.ws = b.ws /\ d.version = b.version => d = b
        /\ \E r \in Rows(b) : /\ r.meta.version = b.version
                              /\ r.meta.number = b.number
                              /\ r.cipher.aad.status = "revoked"
                              /\ r.cipher.aad.revoked_at = b.revoked_at
  BY DEF RevocationInv, Revokes, Rows
<1>2. ASSUME NEW c \in Calls, NEW d \in Calls, Succeeded(c, Revoked), Succeeded(d, Revoked)
      PROVE  /\ SameKey(c, d) => reply[c].metas = reply[d].metas
             /\ ~SameKey(c, d) => reply[c].metas # reply[d].metas
  <2>1. PICK b \in revocations, r \in versions :
           /\ b.ws = reply[c].ask.ws /\ b.corr = reply[c].ask.corr
           /\ Revokes(r, b) /\ reply[c].metas = {r.cipher.aad}
    BY <1>2 DEF RevocationInv
  <2>2. PICK e \in revocations, s \in versions :
           /\ e.ws = reply[d].ask.ws /\ e.corr = reply[d].ask.corr
           /\ Revokes(s, e) /\ reply[d].metas = {s.cipher.aad}
    BY <1>2 DEF RevocationInv
  <2>3. /\ r.cipher.aad.ws = b.ws /\ r.cipher.aad.version = b.version
        /\ s.cipher.aad.ws = e.ws /\ s.cipher.aad.version = e.version
    <3>1. \A t \in versions : /\ t.cipher.aad.ws = t.meta.ws
                              /\ t.cipher.aad.version = t.meta.version
      BY DEF SealAgrees, TypeOK, Row, Metadata
    <3> QED BY <2>1, <2>2, <3>1 DEF Revokes
  <2>4. CASE SameKey(c, d)
    <3>1. b = e
      BY <2>1, <2>2, <2>4 DEF SameKey, RevocationInv
    <3>2. r = s
      BY <2>1, <2>2, <3>1 DEF Identified, Revokes
    <3> QED BY <2>1, <2>2, <2>4, <3>2
  <2>5. CASE ~SameKey(c, d)
    <3>1. b # e
      BY <2>1, <2>2, <2>5 DEF SameKey
    <3>2. r.cipher.aad # s.cipher.aad
      BY <2>3, <3>1 DEF RevocationInv
    <3> QED BY <2>1, <2>2, <2>5, <3>2
  <2> QED BY <2>4, <2>5
<1> QED BY <1>1, <1>2 DEF RevocationBinding, Revoked

(***************************************************************************)
(* Revocation records and sealed rows agree, no version has two records,   *)
(* and an exact replay, and nothing else, is answered with the metadata of *)
(* the first revocation, also after somebody altered rows.                 *)
(***************************************************************************)
THEOREM RevocationsBind == Spec => []RevocationBinding
<1>1. TableInv => Identified
  BY DEF TableInv
<1> QED BY <1>1, RevocationInvImplies, RevocationsHold, TypeCorrect, TableCorrect, PTL
-----------------------------------------------------------------------------
(* The reach of a revocation *)

\* What the answer of call c promises about the rows.
Reaches(c) ==
    /\ reply'[c].outcome = "revoked-all" =>
         /\ \A r \in versions' :
              r.meta.ws = reply'[c].ask.ws /\ r.meta.secret = reply'[c].ask.secret
              => r.meta.status = "revoked" /\ r.meta \in reply'[c].metas
         /\ \A r \in versions :
              r.meta.ws # reply'[c].ask.ws \/ r.meta.secret # reply'[c].ask.secret
              => r \in versions'
    /\ reply'[c].outcome = "version-revoked" =>
         \A r \in versions :
            r.meta.version # reply'[c].ask.version => r \in versions'

LEMMA OutcomeOf ==
    ASSUME TypeOK, NEW c \in Calls, NEW q, NEW o, NEW M, NEW p, NEW k,
           Answer(c, q, o, M, p, k)
    PROVE  reply'[c].ask = q /\ reply'[c].outcome = o /\ reply'[c].metas = M
BY DEF Answer, TypeOK

LEMMA OperationReaches ==
    ASSUME TypeOK, NEW c \in Calls, NEW q \in Requests, Operation(c, q)
    PROVE  Reaches(c)
<1>1. CASE \E o, M, p, k : /\ o \notin {"revoked-all", "version-revoked"}
                           /\ Answer(c, q, o, M, p, k)
  BY <1>1, OutcomeOf DEF Reaches
<1>2. CASE \E f \in Failures : Refuse(c, q, f)
  BY <1>1, <1>2 DEF Refuse, Failures
<1>3. CASE RevokeSecret(c, q) /\ ~ \E f \in Failures : Refuse(c, q, f)
  <2> DEFINE kept == {r.meta : r \in Rows(q) \ ToRevoke(q)}
             lost == {RevokedMetadata(r, c) : r \in ToRevoke(q)}
  <2>1. /\ versions' = (versions \ ToRevoke(q)) \cup {RevokeRow(r, c) : r \in ToRevoke(q)}
        /\ Answer(c, q, "revoked-all", kept \cup lost, None, None)
    BY <1>3 DEF RevokeSecret, MeetTampered, Failures
  <2>2. reply'[c].ask = q /\ reply'[c].outcome = "revoked-all" /\ reply'[c].metas = kept \cup lost
    BY <2>1, OutcomeOf
  <2>3. ASSUME NEW r \in versions', r.meta.ws = q.ws, r.meta.secret = q.secret
        PROVE  r.meta.status = "revoked" /\ r.meta \in kept \cup lost
    <3>1. CASE r \in versions \ ToRevoke(q)
      <4>1. r \in Rows(q) \ ToRevoke(q)
        BY <2>3, <3>1 DEF Rows
      <4>2. r.meta.status \in Status
        BY <3>1 DEF TypeOK, Row, Metadata
      <4> QED BY <4>1, <4>2 DEF ToRevoke, Status
    <3>2. ASSUME NEW t \in ToRevoke(q), r = RevokeRow(t, c)
          PROVE  r.meta.status = "revoked" /\ r.meta \in kept \cup lost
      <4>1. t \in Row
        BY DEF ToRevoke, Rows, TypeOK
      <4>2. r.meta = RevokedMetadata(t, c) /\ RevokedMetadata(t, c).status = "revoked"
        BY <3>2, <4>1 DEF RevokeRow, Encrypt, RevokedMetadata, Row, Metadata
      <4> QED BY <4>2
    <3> QED BY <2>1, <3>1, <3>2
  <2>4. \A r \in versions : r.meta.ws # q.ws \/ r.meta.secret # q.secret => r \in versions'
    BY <2>1 DEF ToRevoke, Rows
  <2> QED BY <2>2, <2>3, <2>4 DEF Reaches
<1>4. CASE /\ q.op = "revoke-version" /\ RevokeSecretVersion(c, q)
           /\ ~ \E f \in Failures : Refuse(c, q, f)
  <2>1. CASE \E r \in SelectRow(q, q.version) : RevokeOneVersion(c, q, r)
    <3>1. PICK r \in SelectRow(q, q.version) : RevokeOneVersion(c, q, r)
      BY <2>1
    <3>2. r.meta.version = q.version
      BY <1>4, RequestFacts, NoneAssumption DEF SelectRow
    <3>3. /\ versions' = (versions \ {r}) \cup {RevokeRow(r, c)}
          /\ Answer(c, q, "version-revoked", {RevokedMetadata(r, c)}, None, None)
      BY <3>1 DEF RevokeOneVersion
    <3>4. reply'[c].ask = q /\ reply'[c].outcome = "version-revoked"
      BY <3>3, OutcomeOf
    <3> QED BY <3>2, <3>3, <3>4 DEF Reaches
  <2>2. CASE ~ \E r \in SelectRow(q, q.version) : RevokeOneVersion(c, q, r)
    <3>1. \E r : Answer(c, q, "revocation-replayed", {r.meta}, None, None)
      BY <1>4, <2>2 DEF RevokeSecretVersion, FirstRevocation, ReplayRevocation, Failures
    <3> QED BY <1>1, <3>1
  <2> QED BY <2>1, <2>2
<1>5. CASE /\ ~RevokeSecret(c, q)
           /\ ~(q.op = "revoke-version" /\ RevokeSecretVersion(c, q))
           /\ ~ \E f \in Failures : Refuse(c, q, f)
  <2>1. PICK o \in Successes : /\ o \notin {"revoked-all", "version-revoked"}
                               /\ \E M, p, k : Answer(c, q, o, M, p, k)
    BY <1>5 DEF Operation, CreateSecret, RotateSecret, GenerateDelegationKey,
       FirstGeneration, ReplayGeneration, InsertGeneration, ResolveSecretForUse, Deliver,
       ResolveSecret, ReadMetadata, Failures, Successes
  <2> QED BY <1>1, <2>1
<1> QED BY <1>2, <1>3, <1>4, <1>5

(***************************************************************************)
(* A whole-reference revocation leaves nothing of its reference active and *)
(* nothing of any other touched; an exact one touches one row.             *)
(***************************************************************************)
THEOREM RevocationReach == Spec => RevocationScope
<1> DEFINE Reach == \A c \in Calls : Returned(c) => Reaches(c)
<1>1. TypeOK /\ [Next]_vars => [Reach]_vars
  <2> SUFFICES ASSUME TypeOK, Next PROVE Reach
    OBVIOUS
  <2>1. ASSUME NEW c \in Calls, NEW q \in Requests, Operation(c, q) PROVE Reach
    BY <2>1, OperationReaches, OperationSourced DEF Returned
  <2>2. ASSUME NEW r \in versions, DamageRow(r) PROVE Reach
    BY <2>2 DEF DamageRow, Returned
  <2> QED BY <2>1, <2>2 DEF Next
<1> QED BY <1>1, TypeCorrect, PTL DEF Spec, RevocationScope, Reaches
-----------------------------------------------------------------------------
(* Refusals *)

\* What the refusal of call c promises about the tables.
LeavesNoTrace(c) == reply'[c].outcome \in Failures => UNCHANGED tables

LEMMA OperationAnswers ==
    ASSUME TypeOK, NEW c \in Calls, NEW q \in Requests, Operation(c, q)
    PROVE  LeavesNoTrace(c)
<1>1. CASE \E f \in Failures : Refuse(c, q, f)
  BY <1>1 DEF Refuse, LeavesNoTrace
<1>2. CASE ~ \E f \in Failures : Refuse(c, q, f)
  <2>1. PICK o \in Successes : \E M, p, k : Answer(c, q, o, M, p, k)
    <3>1. CASE RevokeSecret(c, q)
      BY <1>2, <3>1 DEF RevokeSecret, MeetTampered, Failures, Successes
    <3>2. CASE RevokeSecretVersion(c, q)
      BY <1>2, <3>2 DEF RevokeSecretVersion, FirstRevocation, ReplayRevocation,
         RevokeOneVersion, Failures, Successes
    <3>3. CASE GenerateDelegationKey(c, q)
      BY <1>2, <3>3 DEF GenerateDelegationKey, FirstGeneration, ReplayGeneration,
         InsertGeneration, Failures, Successes
    <3>4. CASE CreateSecret(c, q) \/ RotateSecret(c, q)
      BY <1>2, <3>4 DEF CreateSecret, RotateSecret, Failures, Successes
    <3>5. CASE ResolveSecretForUse(c, q) \/ ResolveSecret(c, q) \/ ReadMetadata(c, q)
      BY <1>2, <3>5 DEF ResolveSecretForUse, Deliver, ResolveSecret, ReadMetadata,
         Failures, Successes
    <3> QED BY <3>1, <3>2, <3>3, <3>4, <3>5 DEF Operation
  <2>2. o \notin Failures
    BY DEF Successes, Failures
  <2> QED BY <2>1, <2>2, OutcomeOf DEF LeavesNoTrace
<1> QED BY <1>1, <1>2

(***************************************************************************)
(* A refused call leaves every table as it found it: whole-reference       *)
(* revocation that meets a row which does not open takes back the rows it  *)
(* sealed before, and an effect that cannot be audited is not recorded.    *)
(***************************************************************************)
THEOREM RefusalsAreRolledBack == Spec => RefusalsChangeNothing
<1> DEFINE Traceless == \A c \in Calls : Returned(c) => LeavesNoTrace(c)
<1>1. TypeOK /\ [Next]_vars => [Traceless]_vars
  <2> SUFFICES ASSUME TypeOK, Next PROVE Traceless
    OBVIOUS
  <2>1. ASSUME NEW c \in Calls, NEW q \in Requests, Operation(c, q) PROVE Traceless
    BY <2>1, OperationAnswers, OperationSourced DEF Returned
  <2>2. ASSUME NEW r \in versions, DamageRow(r) PROVE Traceless
    BY <2>2 DEF DamageRow, Returned
  <2> QED BY <2>1, <2>2 DEF Next
<1>2. Traceless => \A c \in Calls :
         Returned(c) /\ reply'[c].outcome \in Failures => UNCHANGED tables
  BY DEF LeavesNoTrace
<1> QED BY <1>1, <1>2, TypeCorrect, PTL DEF Spec, RefusalsChangeNothing
=============================================================================
