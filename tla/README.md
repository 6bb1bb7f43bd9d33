# A TLA+ model of control-plane-kit-secrets

`control_plane_kit_secrets` is a FastAPI service in front of one SQLite
database. It keeps encrypted secret versions, delivers them to authorised
callers for a declared intent, generates Ed25519 delegation keys, revokes
versions, and leaves an audit record of all of that. This directory models it in
TLA+, checks the model with TLC on small instances, and proves with TLAPS, for
every instance, each safety property that those runs check. Paths below are relative to
`src/src/control_plane_kit_secrets/`.

To check one run: `tlc -workers 2 -config <run>.cfg <module>.tla`, with the pairs
of the table under "Runs". To check the proofs: `tlapm SecretStoreProofs.tla`
(and the same for `SecretStoreRecordsProofs`, `ProviderApiProofs`,
`ConnectionsProofs`, `StartupProofs`, `BootstrapFilesProofs` and
`BootstrapCredentialsProofs`); each takes less than a minute.

## Inventory

| Component | State | Operations | What makes it correct |
|---|---|---|---|
| Encrypted store (`store.py`, `crypto.py`, `models.py`) | tables `secret_versions`, `secret_resolution_selections`, `delegation_key_generations`, `secret_version_revocations` | create, rotate, revoke, revoke one version, generate, resolve for use, resolve, metadata | numbering without gaps, pinned uses, refusals that leave no trace, revocation that is final and exact, idempotent generation, rows that authenticate |
| Audit store (`audit.py`) | table `audit_records` | append (own transaction), append inside the store's transaction | no material and no claimed effect without its record, and no record without its effect |
| Connections (`_connect`, `_connection` of `store.py` and `audit.py`) | SQLite's locks | begin, read, insert, commit, time out | one transaction behaves as one step; no thread waits for itself or in a circle; an answer says what is durable, and comes |
| Authorizer (`auth.py`) | the credentials, fixed | authenticate, require | grants hold for action, workspace and intent together |
| Handlers (`api.py`) | none of their own; each request in flight | one handler a route | checks before effects, answers that agree with what committed and with the audit table, one intent a reference |
| Signing families (`_delegation_signing.py`) | none | purpose to intent | closed, exact map |
| Custody admission (`custody.py`) | table `provider_custody_binding`, the schema | admit | one identity a database, formed at once, never adopted or rebound |
| Startup (`server.py`, end of `api.py`) | the application being built | build | nothing is served before custody is admitted; a refused start opens no database |
| Credentials document (`bootstrap.py`) | none | load | each token authenticates as its own credential, with the grants written down |
| Protected files (`bootstrap_files.py`, key loading in `crypto.py`) | the file being read | read | the file that was opened decides, and all of it is read |
| Public control (`control.py`) | configuration file | read once, decode | what is read is the file at one moment; the codec is an SDK's |

**Interactions.** Handlers run in worker threads and share nothing but the
database. A handler authenticates, checks, and calls the store, which does its
work in one `BEGIN IMMEDIATE` transaction on a connection of its own; then the
handler appends its audit records, each through another connection in another
transaction; then it answers. Generation and exact-version revocation are the
exceptions: they append to the audit table inside the store's own transaction
and pass their failure on as a rollback. Custody admission runs once in each
starting process, before the routes are live, against a database that other
starts may be admitting at the same time; the start has by then read its public
control file, installed the host's routes, and read the two private files.

**What is hard.** Transactions of different requests interleave in any order
between the steps of a handler; a use is pinned at its first effect and retried
after rotations and revocations; an answer may be lost after the store committed
and before the audit record did; revocation rewrites ciphertexts, several rows
at a time; a status column can be altered by whoever can write the file;
processes start together on an empty file; a transaction that reads before it
writes competes for one lock, and gives up after five seconds; a configuration
file is replaced or rewritten while it is read. `PROJECT.json` lists each of these
hazards at its line with the properties that would catch it.

## Modules

| Module | Models |
|---|---|
| `DelegationSigning` | the purpose-to-intent map |
| `SecretStore` | the store's tables and operations, the audit table as the store writes it, and damage to stored rows |
| `VersionLifecycle` | abstract: what the store promises of a version and a key |
| `ProviderAuth` | credentials and grants |
| `ProviderApi` | handlers over `SecretStore` and `ProviderAuth`, with failing transactions and crashes |
| `Connections` | handler threads on SQLite's locks, statement by statement |
| `Transactions` | abstract: transactions that are one step, which `SecretStore` and `ProviderApi` take for granted |
| `Custody` | overlapping starts admitting one database |
| `Startup` | composes `Custody` with the rest of a start: inputs before it, serving after it |
| `ProviderIdentity` | abstract: the identity of a database is chosen once, and nobody else serves it |
| `BootstrapFiles` | the reads of private and public configuration, against a process that changes the files |
| `BootstrapCredentials` | the credentials document, composed with `ProviderAuth` on what was loaded |
| `SecretStoreProofs`, `SecretStoreRecordsProofs` | theorems about the versions of `SecretStore`, and about its audit, generation and revocation records |
| `ProviderApiProofs` | theorems about `ProviderApi`, which carry those of the store over to the handlers |
| `ConnectionsProofs`, `StartupProofs` | theorems about `Connections`, and about `Startup` with `Custody` |
| `BootstrapFilesProofs`, `BootstrapCredentialsProofs` | theorems about `BootstrapFiles` and `BootstrapCredentials` |
| `MCSecretStore`, `MCProviderApi`, `MCConnections`, `MCStartup`, `MCBootstrapFiles`, `MCBootstrapCredentials` | the small instances |

### SecretStore

Each table is a variable, a set of records with the columns that decisions read.
`reply[c]` is what call `c` returned; a call is made once, and a retry is
another call with an equal request. Each public operation is one action, since
`_connection` commits on return and rolls back on any exception, and every
writing operation takes `BEGIN IMMEDIATE` before it reads. The early returns
are the disjuncts, in the order and under the conditions of the code; `Refuse`
is an exception leaving the scope, so it changes no table.

Data abstracted: a ciphertext is what it decrypts to (`plain`), the metadata it
was sealed under (`aad`) and whether its bytes are intact; it `Opens` exactly
when the bytes are intact and the row's metadata is that `aad`, which is what
AES-GCM with `_aad` promises. A timestamp is named by the call that read the
clock. Labels are the intent and the three fields generation adds.
`wellLabelled` says whether `_clean_labels` accepts the caller's labels.

`uuid4()` and key generation draw values not drawn before (`FreshVersion`,
`FreshKey`); collisions of random values are left out. `DamageRow` is the
environment altering a stored row: flipping its status column either way, or
spoiling its ciphertext bytes. It does so to at most `MaxDamage` rows, and to
each of them as often as it likes, so that a row may be flipped, passed over by a
revocation and flipped back. Other columns are left alone by it. A failing
append inside a store transaction is the nondeterministic `AuditUnavailable`.

`rotate_secret` compares intents only if it is given an `expected_intent`, which
defaults to `None`; `expected` and `Expected` model both. By itself the store
therefore lets a rotation change the intent of a reference, and the runs of the
store have such rotations. That a reference keeps one intent is a property of
the handlers, which always state the one they expect (`StoreRequest`).

`revoke_secret` skips rows whose column says "revoked" without opening them. A
row that somebody flipped to "revoked" is thus listed in the answer, without a
revocation time, and not sealed; flipped back it is active again. The model does
the same, and the properties say where this matters (`RevocationIsHonoured`,
and the abstract status of `VersionLifecycle`).

`ResolveSecret` is the public method that neither pins nor checks an intent; no
route calls it, so it is in the store's runs and not in the API's. Not in this
module: `raw_rows_for_tests`, the branches that meet a missing row which a
foreign key guarantees, and locks (`Connections`).

### Connections and Transactions

Each request has a thread, and may have a store connection and later an audit
connection (`Handles`). `stage[r]` is the statement the thread is at. The kinds
of request are the seven ways in which the handlers use the database: `write`
(upload, rotation, whole-reference revocation, first use: store transaction, then an
audit transaction), `atomic` (generation and exact revocation: the audit row
inside the transaction), `replay` (an exact retry of those two: the audit row is
all that the transaction writes), `declined` (a store transaction that finds
nothing to write and is audited afterwards: a refusal, or the replay of a use),
`rejected` (an exact revocation that the store refuses, which nobody audits),
`read` (metadata: a SELECT, then an audit transaction) and `refusal` (only an
audit transaction). A whole-reference revocation audits several versions; one
stands for them.

SQLite is external. Its rules, in the rollback-journal mode that the code leaves
in force: any number of connections read, one has the write lock, and a commit
first keeps new readers out and then waits for those that are in. `TimeOut` is
possible wherever a lock is not free, and the connection is then closed by its
scope. Since a timeout or a crash is always possible while a thread waits,
TLC's deadlock check could see no circle of waits; `NoWaitCycle` states it
directly, and `WaitsEnd` that every handler is answered although nothing forces a
wait into its timeout: the locks that others give back are enough. A store's
contents are a revision number, and `draft[r]` the revision that `r` computed
from what it read: committing an outdated draft is the lost update, which
`Transactions` does not have.

### VersionLifecycle

A version is absent, then active, then revoked; a key is a workspace with a
correlation; material is delivered under a key only from an active version and
only the one the key is pinned to. `SecretStore` implements it under the mapping
`Promise` at the end of that module. The abstract status is the one *sealed* in
the ciphertext, not the column: an altered column moves nothing, and the store
must still never deliver under it. Pins are the selection rows, deliveries are
read from the replies.

### ProviderApi

`at[c]` is where the handler of request `c` is:
`idle` -> `store` -> `finish` -> `done`, or `lost` if the process crashes under
it. `Receive` runs the checks of the route in their order (`Checks`) and either
admits the request or goes to the refusal's audit record; `RunStore` is the
store transaction; `AppendAudit` writes one pending record (the loop of
whole-reference revocation writes its records in the order of the version
numbers, one transaction each); `AuditFails` answers 503 and leaves committed
effects in place; `StoreUnavailable` is the uncaught `sqlite3.OperationalError`
(500); `Return` answers. `answer[c]` is what the client received, and `before`
remembers which revocations had been answered when a request arrived.
`append` turns an `sqlite3.Error` into `AuditUnavailable`; an `OSError` from making
the directory would be 500 with the same effects, and is not told apart here.

`ProviderAuth` compares the token with the credentials in their order.
`compare_digest` fails with a `TypeError` on text that is not ASCII, which
`credential` does not catch: such a request is answered 500, with no record
(`AuthenticateRaises` in `Receive`).

Left out: the validation of request bodies by pydantic (a request that fails it
reaches no handler), response formatting, the health and capability routes,
which read nothing that changes.

### Custody

The file has a kind, the set of schema objects, and the binding rows; a binding
row has the `provider_id` column and the identity its witness was sealed with.
A start goes through the statements of `admit_provider_custody` one by one, on
the copy that its transaction sees; `Fail` is any `sqlite3.Error` or `OSError`
and `Die` a crash, and both roll back, which is SQLite's part. Schema texts are
compared whole in the code; here they are the three groups of objects the code
creates, and `"foreign"` for anything that differs.

### Startup and ProviderIdentity

`passed[s]` counts the inputs that start `s` has admitted, in the order of
`app_from_environment` and `create_app`: the database setting, the public
control, the host with the SDK's routes, the master key, the credentials. An
input is lawful or not when it is looked at. After the last one the start takes
the steps of `Custody`, and an admitted start serves. It may die anywhere.
`ProviderIdentity` is what this amounts to: an identity is chosen for a database
at most once, and starts of that identity alone serve it. A database that
nobody can be admitted to, whatever is wrong with it, has the identity `Foreign`.

### BootstrapFiles

One read, from `open` to its outcome, of a private file or of the public
control file. `fd` is the file that was opened, `entry` what the path names at
the moment; `Interfere` changes a file in place, its length or its mode, or puts
something else at the path. Bytes are cells marked with the file and the change
that wrote them, so that a mixture can be told from a file's contents. External,
and assumed: every change to a file gives it a later `st_mtime_ns` or
`st_ctime_ns` than before, which is what the comparison in `control.py` relies
on. `os.read` returns one cell at a time, the finest of its short reads. A read
stops at the first end of file it meets.

### BootstrapCredentials

A text is a word with the form that the rules look at: clean, padded with
blanks, with accents, with a control character, blank, not a string. A document
is a sequence of items; a payload that is too long, not UTF-8, not JSON, or not
an array is no list. `Load` is the whole of `load_provider_credentials`. The
properties are not about the rules but about what they are for: they ask
`ProviderAuth` what each loaded token then opens, and compare it with
what `README.md` (99-118) says of the document.

## Runs

| Run | Module | What it asks | Bounds |
|---|---|---|---|
| `store_resolution` | MCSecretStore | numbering, pins, revocation and the refinement of `VersionLifecycle`, with exact and changed replays | 5 calls, 3 version ids, 2 correlations, 2 callers |
| `store_generation` | MCSecretStore | idempotent generation, its audit and that of exact revocation in the transaction | 4 calls, 2 version ids, 2 references, 2 key pairs |
| `store_damage` | MCSecretStore | revocation and delivery beside a damaged row; refusals leave no trace; nothing crosses references or workspaces | 4 calls, 2 workspaces x 2 references, 3 version ids, 1 row damaged any number of times |
| `newest_revoked` | MCSecretStore | the finding below | 4 calls |
| `api_effects` | MCProviderApi | audit, grants and intents as clients see them | 3 requests, 2 version ids, 1 crash, 1 row damaged any number of times |
| `api_revocation` | MCProviderApi | what an answered revocation takes away | 4 requests, 1 version id, 1 row damaged any number of times, no crash |
| `api_refusals` | MCProviderApi | answers and records agree | 2 requests over every early return, 1 crash, 1 row damaged any number of times |
| `custody` | MCStartup | who is admitted and served, who is refused and leaves no trace, what the file becomes; the refinement of `ProviderIdentity` | 3 starts, 10 initial files |
| `connections` | MCConnections | no lost update, no circle of waits, answers that say what is durable and that come; the refinement of `Transactions` | 3 requests of any kinds, any number of timeouts, crashes at any step |
| `files` | MCBootstrapFiles | what is read is what was checked | 2 files, 3 changes, lengths 0 to 3, maximum 2 |
| `files_fifo` | MCBootstrapFiles | the second finding below | 1 file, 1 change |
| `credentials` | MCBootstrapCredentials | what a loaded token opens | documents of 0 to 2 items, one odd field each, all settings |

**Why the bounds are enough.** The longest scenario the store's rules relate is
upload, use, rotation, revocation, retry: five calls. Three versions leave room
for two rotations, and for two versions beside a "current" one. Scope needs two
references in each of two workspaces but only short histories; a revocation that
fails half way needs two versions, one of them damaged, and the revocation.
A violation of an audit property needs one effect, one competing effect and one
failure or crash; three requests give every pair of requests one more to prepare
the table. What an answered revocation takes away needs upload, use, revocation
and another use: `api_revocation` has these four, of one version, and leaves
crashes out, since a crash only loses answers and the property speaks of answers
that were given. A second crash could only lose requests that arrived after the
first, which the first covers by coming later. Three
starts are a start beside a rival of another key, and one that comes again after
either has died. A circle of waits needs two threads, or one with two
connections; three threads add a reader that a
committing writer waits for. Two files tell the one that was opened from the one at the path, and
three changes are a change before the first fstat, one during the reads, and one
that undoes the other's length. Lengths reach one above the maximum, where
"the maximum plus one" matters. Two credentials are enough for one to shadow
the other, since the comparison goes through them in order. Symmetry over calls,
version ids, key pairs and files is used in safety runs only: nothing
orders them. Only `connections` leaves the deadlock check on, finished requests
being allowed to rest (`Quiet`); in the other runs all calls may have been made,
and a read or a start ends.

What each property says is stated over its definition. The most telling ones:
`PinnedResolution` and `ImplementsLifecycle` (uses), `VersionNumbering`
(rotation), `RevocationScope`, `RevocationBinding`, `RefusalsChangeNothing` and
`NoMaterialAfterRevocation` (revocation), `AuditedAtomically` and
`GenerationBacked` (generation), `MaterialIsAudited`,
`EffectsAnsweredAreAudited`, `AuditIsTruthful`, `WithinGrants`,
`OneIntentPerReference`, `AnswersMatchRecords` and `RevocationIsHonoured` (the
API), `AdmittedServesItsOwn`, `RejectedByAnother`,
`FormedAtOnce` and `ImplementsIdentity` (starts), `ImplementsTransactions`,
`NoWaitCycle`, `WaitsEnd` and `AnswersAreDurable` (connections), `OpenedFileDecides`,
`NothingBeyondPayload` and `ControlIsSnapshot` (files), and
`EachTokenIsItsOwnKey` (credentials). Operators marked "Mutant" are wrong versions of the
operator after them; with one put in its place, the property `PROJECT.json` names
beside it fails.

**Fairness.** `connections` assumes weak fairness of each thread's own next
statement (`Proceed`), and of nothing else. Handlers run in threads of one
process, and SQLite's busy handler polls a lock until it is free, so a statement
that stays possible is executed. Nobody is obliged to send a request, no wait is
obliged to run into its timeout, and the process need not crash; so `WaitsEnd`
shows that the scopes give their locks back by themselves. SQLite has no queue:
among endlessly many requests one could be overtaken for ever, which finitely many
requests leave out. `files_fifo` has weak fairness of the reading
process's own steps: a system call that can return does; nobody is obliged to
change a file or to open a FIFO. The other runs check safety only.

**Findings.** (1) `README.md` (182-183) says that the first use "atomically selects
the current active version". `_latest_row` takes the row with the highest
number whatever its status. After the exact-version revocation of the newest
version, a first use that names no version is refused as revoked although an
older version is active. If "current active" means "the newest, provided it is
active", the sentence agrees with the code; the run `newest_revoked` shows the
history on which the two readings part.

(2) `README.md` (136-137) says that "Invalid private configuration still exits".
`read_protected_bootstrap_file` opens its path without `O_NONBLOCK`. If that
path is a FIFO, `open` waits for a writer before the check for a regular file is
reached, and the start neither continues nor exits. `control.py` passes the
flag, and the same path is refused there.

## Proofs

`SecretStoreProofs` proves, for any sets of calls, requests, workspaces,
references, intents, versions and values, and any number of damaged rows, each
damaged any number of times:

| Theorem | Establishes |
|---|---|
| `TypeCorrect` | `[]TypeOK` |
| `TableCorrect` | `[]TableInv`: ids unique, version 1 kept, numbering |
| `NumbersNeverCollide` | `[]VersionNumbering` |
| `RowsStayAuthentic` | `[]UndamagedRowsAuthenticate` |
| `ResolutionIsPinned` | `[]PinnedResolution` |
| `HistoryIsKept` | `VersionsPersist` |
| `RevokedStaysWithheld` | `NoMaterialAfterRevocation` |
| `StoreImplementsLifecycle` | `ImplementsLifecycle`: `Spec` implies `VersionLifecycle!Spec` |

`SecretStoreRecordsProofs` proves, for the same constants:

| Theorem | Establishes |
|---|---|
| `AuditIsAtomic` | `[]AuditedAtomically` |
| `GenerationsAreBacked`, `IdentityIsStable` | `[]GenerationBacked`, `[]OneIdentityPerGeneration` |
| `RevocationsBind`, `RevocationReach` | `[]RevocationBinding`, `RevocationScope` |
| `RefusalsAreRolledBack` | `RefusalsChangeNothing` |

With these, every property that the runs check of `SecretStore` is a theorem
(`ActiveVersionIsSelected`, the reading that the code refutes, is no property of
it).

`ProviderApiProofs` proves, for any clients, credentials and requests, any number
of crashes and any number of altered rows:

| Theorem | Establishes |
|---|---|
| `HandlersCorrect` | `[]ApiInv`, the inductive invariant of the handlers |
| `HandlersTyped` | `[]ApiTypeOK` |
| `MaterialLeavesAudited` | `[]MaterialIsAudited` |
| `EffectsAreAudited` | `[]EffectsAnsweredAreAudited` |
| `AuditTableIsTruthful` | `[]AuditIsTruthful` |
| `GrantsBindVersions` | `[]WithinGrants` |
| `IntentIsPermanent` | `[]OneIntentPerReference` |
| `AnsweredRevocationHolds` | `[]RevocationIsHonoured` |
| `AnswersAgreeWithRecords` | `[]AnswersMatchRecords` |
| `StorePromisesHold` | the state invariants of the store, under the handlers |
| `HandlersKeepHistory` | `VersionsPersist`, `NoMaterialAfterRevocation`, `RevocationScope` and `RefusalsChangeNothing`, under the handlers |
| `HandlersImplementLifecycle` | `ImplementsLifecycle`: `ApiSpec` implies `VersionLifecycle!Spec` |

Of the store's properties one is weaker under the handlers: `AuditedAtomically`
says that whoever has a record succeeded, and handlers also record refusals.
`EffectsRecorded` is what remains, the same of the records that the store's own
transactions write.

`ConnectionsProofs` proves, for any set of requests of any kinds:

| Theorem | Establishes |
|---|---|
| `ConnectionsAreTyped` | `[]ConnectionsTypeOK` |
| `AnswersHold` | `[]AnswersAreDurable` |
| `ThreadsNeverDeadlock` | `[]NoWaitCycle` |
| `HandlersImplementTransactions` | `ImplementsTransactions`: `Spec` implies `Transactions!Spec` |

`StartupProofs` proves, for any number of starts with any identities, on any file:

| Theorem | Establishes |
|---|---|
| `StartsAreTyped` | `[]StartupTypeOK` |
| `AdmissionIsExclusive`, `RejectionIsDeserved` | `[]AdmittedServesItsOwn`, `[]RejectedByAnother` |
| `RefusalsLeaveNoTrace` | `[]RefusedStartsLeaveNoTrace` |
| `DatabaseIsFormedAtOnce` | `FormedAtOnce` |
| `StartsImplementIdentity` | `ImplementsIdentity`: `StartupSpec` implies `ProviderIdentity!Spec` |

`BootstrapFilesProofs` proves, for any files of any length, any maximum and any
number of changes:

| Theorem | Establishes |
|---|---|
| `ReadsCorrect` | `[]FilesInv`, the inductive invariant of a read |
| `ReadsTyped` | `[]FilesTypeOK` |
| `QuietFilesDecide` | `[]OpenedFileDecides` |
| `AcceptedWhole`, `ControlIsWhole` | `NothingBeyondPayload`, `ControlIsSnapshot` |

`BootstrapCredentialsProofs` proves, for any settings and any document:

| Theorem | Establishes |
|---|---|
| `TokensAreKeys` | `[]EachTokenIsItsOwnKey` |
| `DocumentIsAuthority` | `[]LoadedAsConfigured` |

The assumptions are named ASSUMEs. `Connections` has none. Those of `Custody`
and `Startup` type the constants, keep `None` and `Foreign` apart from what they
stand beside, and say that a file with binding rows has their table. Those of
`SecretStore`: requests are well typed, uploads carry a value, exact revocations
name a version, and `None` is none of the values and no reply.
`ProviderApi` adds that `Unstated` is `None`, that `MaxCrashes` is a number, that
what its handlers ask of the store is among the store's requests, that the known
intents are intents, that the issuer of a generation is bounded, and that no
route calls `resolve_secret`. `BootstrapFiles` types its bounds and keeps `None`
and the other things a path may name apart from the files. `BootstrapCredentials`
says that an array has a length and that its fields are texts or absent.

The arguments. For the store, `TableStep` shows that every action leaves the version table
alone, adds one row whose number is 1 (with none there before) or the latest
plus one, or rewrites rows one for one, keeping
identity, number, labels and material. Everything else follows from these three
shapes rather than from the eight operations.

- *Numbering.* `VersionNumbering` is not inductive: `create` inserts number 1
  if there is none, so it could leave a gap below an existing number unless
  version 1 is known to stay; and a rewrite could merge two rows unless their
  ids are known to differ. `TableInv` adds both (`FirstVersionKept`,
  `Identified`).
- *Authenticity.* `SealInv` says that sealed and stored metadata differ in the
  status column at most, and agree entirely where nobody did damage; revocation
  seals again what it stores.
- *Pinning.* Replies are compared with replies, but a step only sees tables.
  `PinInv` ties them: one selection row for a key (`OneSelection`), and behind
  every delivery the selection row, the version row it names and the material
  in it (`RepliesBacked`). Two deliveries under one key then have one row
  behind them; that rows never change material is the rewriting shape again.
- *Revocation.* A revoked row is one whose seal says so. By `HistoryIsKept` no
  step rewrites that seal, and by `OperationSourced` every value that a step
  puts in a reply comes from a row that opens and whose column says active;
  opening means that the seal agrees. So an altered column cannot bring the
  value back.
- *Lifecycle.* The abstract status of a version is the one it is sealed under.
  A step that delivers nothing issues an id, retires a set of them or leaves them
  alone, one for each shape of `TableStep`; a step that delivers leaves the table
  alone, and `OneSelection` says that its key is pinned to that version or to
  none.
- *Records.* `AuditedAtomically` is inductive because an operation that writes a
  record also answers with success in the same step. `OneIdentityPerGeneration`
  compares answers, so `IdentityInv` puts a generation row behind every answer,
  one per key; a fresh pair differs from the recorded ones because each of them
  is, by `GenerationBacked`, the material of a row. `RevocationInv` does the same
  for revocations. A replay answers with the stored metadata of a row that
  anybody may have altered; `SealAgrees` says that alteration reaches the status
  only, and the replay has just found that one to be "revoked", as sealed.
- *Connections.* `ConnectionsInv` has five parts beside the types: one
  connection at most has the write lock (`OneWriter`); between `BEGIN IMMEDIATE`
  and the commit it is the handler's, and its draft is the current revision plus
  one (`Guarded`); where a handler may be when one of its connections is locked
  (`Held`); which handlers have a committed change and a record (`Accounted`,
  `OnCourse`). `Guarded` is what makes the refinement go through: nobody else
  can move the revision while a draft is open. No circle: a reader waits for
  nobody while it holds its lock, the one writer waits for readers only, and
  whoever holds nothing blocks nobody.
- *Starts.* `AdmittedServesItsOwn` is not inductive: a commit could replace the
  file under an admitted start unless the committing transaction is known to
  work on the file itself, or on one it found empty (`Faithful`) and has by then
  bound to its own start (`Forming`); a rejection needs the same of a check that
  fails (`Judged`). These hold because whoever is inside a transaction has the
  lock. `Progress` ties the outcomes to where the admission is. A file that
  anybody was admitted to has one identity (`OneIdentity`), so the abstract
  identity is well defined and is chosen by the one commit that changes the file.
- *Handlers.* To the store, a step of a handler is an operation, one record of
  its own, damage, or nothing (`StoreStep`); so the store's inductive
  invariants, kept by the first and the third, hold under the handlers too,
  since none of them reads the handlers' records. The rest is about what
  happens between the transaction and the answer. `Tells` says what the reply
  of one operation implies in the state that made it: that its outcome is one
  that its operation has, that its versions exist, that those it revoked are
  `Gone`. `AuditIsTruthful` speaks of later states, so `Gone`, and the existence
  of a version, are shown to last (`TruthSurvives`), and are claimed of pending
  records as well as of written ones (`AuditInv`).
- *The audit loop.* `MaterialIsAudited` is not inductive: nothing in it says
  what a handler that is halfway through its records has yet to write. By
  `LoopCall` each record of a reply is in the table or pending, and nothing is
  pending any more when the handler answers: `AnswerCall` then says that an
  answer reports an error without material, or has all of its records.
- *Answered revocations.* `RevocationIsHonoured` compares two clients. Any row
  may be altered at any time, so what can be relied on is a seal. A whole or an
  exact revocation seals what it answers with a time. The replay of an exact one
  trusts a column, but a row with a revocation time in it was sealed with it. Seals last (`HistoryIsKept`), so what an answered
  revocation took away is still sealed when a later request arrives
  (`WithdrawnInv`), and a use delivers nothing that is.
- *Answers and records.* `AnswersMatchRecords` compares the answer with the
  table. By `VerdictInv` the verdict on a request is fixed before its first
  record is written: what is recorded, pending and answered carries the same
  code, that of the first failing check or of the store's reply, and the denial
  of a use is pending or recorded until it is answered.
- *Intents.* `OneIntentPerReference` is inductive beside the invariants of the
  table and the handlers: a rotation by a handler states the intent of its labels
  as the expected one (`RotationExpects`), so the row it adds has the intent of
  the latest.
- *Grants.* A handler is in the store only if its checks passed
  (`StagedCall`), and a successful reply has the workspace and intent that were
  asked for, by the intent check of a use and the labels of an upload
  (`WellFormed`).
- *Reads.* `OpenedFileDecides` is not inductive, as it only speaks of ends.
  What holds throughout is about stamps: no stamp runs ahead of the clock
  (`TimesInv`), so a change makes the opened file's stamp differ from the one
  that was seen and from the time of opening; while they agree the payload
  begins the file's cells (`StampInv`), and they agree as long as nobody changed
  the file (`QuietInv`). The end of the file or the extra byte then decides.
- *Credentials.* As many tokens as items makes the map from items to tokens
  injective (`TokensDiffer`, by the library's theorem on surjections of finite
  sets), and a lawful token is clean; so at most one credential ends the loop of
  `authenticate` for an ASCII text (`OneIsDecisive`), whatever its position.

**What the proofs changed in the model.** The alternatives of `Source` (of
`BootstrapCredentials`) overlapped: with both settings nonempty its value was
one of two, where `load_provider_credentials` refuses. They are now tried in the
order of the code.

**Only model-checked.** Liveness (`WaitsEnd`), which the prover cannot do. The readings that the code refutes (`ActiveVersionIsSelected`,
`InvalidConfigurationExits`) are nobody's theorems.

## Plan

Done: store, lifecycle, connections, API, starts, files and credentials with
their runs, and a theorem for each safety property that a run checks. Left:

1. **One transaction, one step**: `SecretStore` takes for granted what
   `Transactions` promises. The two meet in prose; a store whose operations run
   through the stages of `Connections` would let them meet in a theorem.
2. **Private reads**: nothing is stated of a private file that is rewritten in
   place with the same length while it is read, because nothing is promised.

## Not modelled

Pydantic models, JSON and PEM formats, HTTP, the length and character rules of
identifiers; the cryptography itself (only what AES-GCM and Ed25519 promise);
clock order of records; the reads that only tests use (`raw_rows_for_tests`,
`rows_for_tests`); the control codec, which belongs to another package, so that
`control.py` is modelled as far as the bytes it hands over; the decoding of a
master key, one of the ways an input of a start is refused; `boundaries.py` and
`__init__.py`, constants and exports; `test_support/package_integrity.py`, which
inspects built distributions and is no part of the running provider. Durability
and recovery of SQLite are taken as external: a committed transaction stays, an
uncommitted one vanishes.
