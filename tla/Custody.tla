------------------------------- MODULE Custody -------------------------------
(***************************************************************************)
(* Admission of a provider database by the processes that start on it      *)
(* (src/control_plane_kit_secrets/custody.py).                             *)
(*                                                                         *)
(* Each start opens the file and, in one BEGIN IMMEDIATE transaction,      *)
(* creates the schema and its own binding if the database is empty, then   *)
(* compares what is there with what it expects.  Starts overlap, and any of*)
(* them may fail or die at any statement; SQLite (external) then rolls its *)
(* transaction back.                                                       *)
(***************************************************************************)
EXTENDS FiniteSets

CONSTANTS
    Starts,         \* starts of provider processes; a restart is one of its own
    Providers, Keys,
    Identity,       \* the provider id and the master key each start is given
    InitialFiles,   \* what the path may hold before the first start
    None

Identities == [provider: Providers, key: Keys]

\* A row of provider_custody_binding: the provider_id column, and the identity
\* whose key and context the witness was encrypted with.
Binding == [column: Providers, sealed: Identities]

\* What the schema declares; "foreign" stands for any object or definition
\* that custody does not declare.
Objects == {"store", "audit", "binding", "foreign"}

File == [kind: {"database", "corrupt", "not-a-file"},
         objects: SUBSET Objects,
         rows: SUBSET Binding]

EmptyFile == [kind |-> "database", objects |-> {}, rows |-> {}]

ASSUME CustodyAssumption ==
    /\ Identity \in [Starts -> Identities]
    /\ InitialFiles \subseteq File
    /\ \A f \in InitialFiles : f.rows # {} => "binding" \in f.objects
    /\ None \notin Starts

VARIABLES
    file,   \* the committed contents
    work,   \* what the transaction of each start sees
    at,     \* where each start is
    lock    \* the holder of SQLite's write lock

vars == <<file, work, at, lock>>

Outcomes == {"admitted", "rejected", "unavailable", "dead"}
Transacting == {"begun", "creating", "checking", "committing"}

\* The lock belongs to the one start that is inside its transaction.
CustodyTypeOK ==
    /\ file \in File
    /\ work \in [Starts -> File]
    /\ at \in [Starts -> {"idle", "opened"} \cup Transacting \cup Outcomes]
    /\ lock \in Starts \cup {None}
    /\ \A s \in Starts : lock = s <=> at[s] \in Transacting

Init ==
    /\ file \in InitialFiles
    /\ work = [s \in Starts |-> EmptyFile]
    /\ at = [s \in Starts |-> "idle"]
    /\ lock = None
-----------------------------------------------------------------------------
Goto(s, stage) == at' = [at EXCEPT ![s] = stage]

\* Mutant: the connection of a start that failed is not closed.
EndWithoutClosing(s, outcome) == Goto(s, outcome) /\ UNCHANGED <<file, work, lock>>

\* The end of a start: its transaction, if it has one, is rolled back.
End(s, outcome) ==
    /\ Goto(s, outcome)
    /\ lock' = IF lock = s THEN None ELSE lock
    /\ UNCHANGED <<file, work>>

Open(s) ==
    /\ at[s] = "idle"
    /\ \/ file.kind = "not-a-file" /\ End(s, "rejected")
       \/ file.kind # "not-a-file" /\ Goto(s, "opened") /\ UNCHANGED <<file, work, lock>>

\* BEGIN IMMEDIATE waits for the write lock; SQLITE_NOTADB is a rejection.
Begin(s) ==
    /\ at[s] = "opened"
    /\ \/ file.kind = "corrupt" /\ End(s, "rejected")
       \/ /\ file.kind = "database" /\ lock = None
          /\ lock' = s
          /\ work' = [work EXCEPT ![s] = file]
          /\ Goto(s, "begun")
          /\ UNCHANGED file

\* Mutant: an unbound schema is adopted.
LacksBinding(f) == "binding" \notin f.objects

IsEmpty(f) == f.objects = {}

Inspect(s) ==
    /\ at[s] = "begun"
    /\ Goto(s, IF IsEmpty(work[s]) THEN "creating" ELSE "checking")
    /\ UNCHANGED <<file, work, lock>>

\* Mutant: the schema is compared without the table of the binding.
StoreAndAudit == {"store", "audit"}

ExpectedSchema == {"store", "audit", "binding"}

Created(s, o) == o \in work[s].objects

\* CREATE of the store's objects, of the audit store's, of the binding.
CreateObject(s) ==
    /\ at[s] = "creating"
    /\ \E o \in {"store", "audit", "binding"} :
         /\ ~Created(s, o)
         /\ o # "store" => Created(s, "store")
         /\ o = "binding" => Created(s, "audit")
         /\ work' = [work EXCEPT ![s].objects = @ \cup {o}]
    /\ UNCHANGED <<file, at, lock>>

InsertBinding(s) ==
    /\ at[s] = "creating" /\ Created(s, "binding")
    /\ work' = [work EXCEPT ![s].rows =
                  {[column |-> Identity[s].provider, sealed |-> Identity[s]]}]
    /\ Goto(s, "checking")
    /\ UNCHANGED <<file, lock>>

\* Mutant: the provider_id column is compared and the witness is not opened.
ColumnVerifies(f, id) == \A b \in f.rows : b.column = id.provider

\* _verify_binding: one row, for this provider, whose witness this key opens.
BindingVerifies(f, id) == f.rows = {[column |-> id.provider, sealed |-> id]}

Check(s) ==
    /\ at[s] = "checking"
    /\ \/ /\ work[s].objects = ExpectedSchema /\ BindingVerifies(work[s], Identity[s])
          /\ Goto(s, "committing")
          /\ UNCHANGED <<file, work, lock>>
       \/ /\ work[s].objects # ExpectedSchema \/ ~BindingVerifies(work[s], Identity[s])
          /\ End(s, "rejected")

Commit(s) ==
    /\ at[s] = "committing"
    /\ file' = work[s]
    /\ lock' = None
    /\ Goto(s, "admitted")
    /\ UNCHANGED work

\* A lock not free within five seconds, a full disk, an unreadable file.
Fail(s) == at[s] \in {"opened"} \cup Transacting /\ End(s, "unavailable")

Die(s) == at[s] \in {"opened"} \cup Transacting /\ End(s, "dead")

Step(s) == Open(s) \/ Begin(s) \/ Inspect(s) \/ CreateObject(s) \/ InsertBinding(s)
             \/ Check(s) \/ Commit(s) \/ Fail(s)

Next == \E s \in Starts : Step(s) \/ Die(s)

Spec == Init /\ [][Next]_vars
-----------------------------------------------------------------------------
(* Properties *)

BoundTo(f, id) ==
    /\ f.kind = "database" /\ f.objects = ExpectedSchema
    /\ BindingVerifies(f, id)

(***************************************************************************)
(* A start that was admitted serves a database bound to its own provider   *)
(* and key, for good: no start before, beside or after it binds it to      *)
(* another.  So all admitted starts have one identity.                     *)
(***************************************************************************)
AdmittedServesItsOwn ==
    /\ \A s \in Starts : at[s] = "admitted" => file.rows = {[column |-> Identity[s].provider,
                                                             sealed |-> Identity[s]]}
    /\ \A s, t \in Starts :
         at[s] = "admitted" /\ at[t] = "admitted" => Identity[s] = Identity[t]

(***************************************************************************)
(* The database goes from empty to complete in one step, schema and binding*)
(* together, and never changes again: a start that is refused, fails or    *)
(* dies leaves it as it was, and an unbound schema is not adopted.         *)
(***************************************************************************)
FormedAtOnce ==
    [][file' # file =>
         /\ file = EmptyFile
         /\ file'.objects = {"store", "audit", "binding"}
         /\ \E s \in Starts :
              /\ at[s] = "committing"
              /\ file'.rows = {[column |-> Identity[s].provider, sealed |-> Identity[s]]}]_vars

(***************************************************************************)
(* A start is rejected only by a database that holds something else: never *)
(* by an empty one, never by what a crashed start left behind, and never by*)
(* one that is bound to the start itself.                                  *)
(***************************************************************************)
RejectedByAnother ==
    \A s \in Starts : at[s] = "rejected" =>
        file # EmptyFile /\ ~BoundTo(file, Identity[s])
=============================================================================
