----------------------------- MODULE Connections ----------------------------
(***************************************************************************)
(* The connections that handler threads open to the one SQLite database,   *)
(* and the locks they wait for (store.py, _connect and _connection;        *)
(* audit.py, append and _connection; the locks are SQLite's, external).    *)
(*                                                                         *)
(* Each request is served by a thread of its own.  A writing handler runs  *)
(* its store transaction on one connection, closes it, and appends its     *)
(* audit record through another one.  A wait for a lock ends after five    *)
(* seconds with an error.                                                  *)
(***************************************************************************)
EXTENDS Naturals

CONSTANT Requests

VARIABLES
    kind,       \* what each handler does with the database
    stage,      \* where it is
    lock,       \* the lock each connection holds
    draft,      \* the revision each transaction is about to write
    revision, wrote, records    \* the committed tables, as in Transactions

tables == <<revision, wrote, records>>
vars == <<kind, stage, lock, draft, tables>>

\* "write" audits after its transaction, "atomic" inside it (generation and
\* exact-version revocation), and so does "replay", which has nothing else to
\* write (an exact retry of those two); "declined" finds in its transaction that
\* there is nothing to write and audits that afterwards (a refusal of the store,
\* the replay of a use); "rejected" is an exact-version revocation that the store
\* refuses, which nobody audits; "read" is a metadata read; "refusal" only audits.
Kinds == {"write", "atomic", "replay", "declined", "rejected", "read", "refusal"}

Handles == Requests \X {"store", "audit"}

\* "pending" stands for SQLite's PENDING and EXCLUSIVE.
Locks == {"none", "shared", "reserved", "pending"}

StoreStages == {"begin", "read", "insert", "audit", "commit", "select", "selected"}
AuditStages == {"append", "commit-audit"}
Answers == {"ok", "error", "unavailable", "lost"}   \* 200, 500, 503, crashed

\* A request outside its store scope, or its audit append, holds no lock there.
ConnectionsTypeOK ==
    /\ kind \in [Requests -> Kinds]
    /\ stage \in [Requests -> {"new"} \cup StoreStages \cup AuditStages \cup Answers]
    /\ lock \in [Handles -> Locks]
    /\ draft \in [Requests -> Nat]
    /\ revision \in Nat /\ wrote \in [Requests -> Nat] /\ records \subseteq Requests
    /\ \A r \in Requests :
         /\ lock[<<r, "store">>] # "none" => stage[r] \in StoreStages
         /\ lock[<<r, "audit">>] # "none" => stage[r] \in AuditStages

Init ==
    /\ kind \in [Requests -> Kinds]
    /\ stage = [r \in Requests |-> "new"]
    /\ lock = [c \in Handles |-> "none"]
    /\ draft = [r \in Requests |-> 0]
    /\ revision = 0
    /\ wrote = [r \in Requests |-> 0]
    /\ records = {}
-----------------------------------------------------------------------------
(* SQLite's rules *)

Store(r) == <<r, "store">>
Audit(r) == <<r, "audit">>

NoOther(c, levels) == \A d \in Handles : d # c => lock[d] \notin levels

MayShare(c) == NoOther(c, {"pending"})
MayReserve(c) == NoOther(c, {"reserved", "pending"})
MayWrite(c) == NoOther(c, {"shared"})

Take(c, level) == lock' = [lock EXCEPT ![c] = level]

Goto(r, s) == stage' = [stage EXCEPT ![r] = s]
-----------------------------------------------------------------------------
(* The handlers *)

FirstStage ==
    [write |-> "begin", atomic |-> "begin", replay |-> "begin",
     declined |-> "begin", rejected |-> "begin",
     read |-> "select", refusal |-> "append"]

Receive(r) ==
    /\ stage[r] = "new"
    /\ Goto(r, FirstStage[kind[r]])
    /\ UNCHANGED <<kind, lock, draft, tables>>

\* Mutant: without BEGIN IMMEDIATE sqlite3 begins at the first INSERT.
BeginsLater == "none"

BeginImmediate == "reserved"

Begin(r) ==
    /\ stage[r] = "begin" /\ MayReserve(Store(r))
    /\ Take(Store(r), BeginImmediate)
    /\ Goto(r, "read")
    /\ UNCHANGED <<kind, draft, tables>>

Read(r) ==
    /\ stage[r] = "read" /\ MayShare(Store(r))
    /\ draft' = [draft EXCEPT ![r] = revision + 1]
    /\ Goto(r, "insert")
    /\ UNCHANGED <<kind, lock, tables>>

\* Mutant: the handler appends its record before it leaves the store scope.
AppendInScope(r) == IF kind[r] = "atomic" THEN "audit" ELSE "append"

AfterInsert(r) == IF kind[r] = "atomic" THEN "audit" ELSE "commit"

Insert(r) ==
    /\ stage[r] = "insert" /\ kind[r] \in {"write", "atomic"} /\ MayReserve(Store(r))
    /\ Take(Store(r), "reserved")
    /\ Goto(r, AfterInsert(r))
    /\ UNCHANGED <<kind, draft, tables>>

\* A replay writes its audit record only, on the connection of the store.
Replay(r) ==
    /\ stage[r] = "insert" /\ kind[r] = "replay"
    /\ Goto(r, "audit")
    /\ UNCHANGED <<kind, lock, draft, tables>>

\* Rollback, or a commit that has nothing to write; then the audit record, but
\* none for an exact-version revocation.
Decline(r) ==
    /\ stage[r] = "insert" /\ kind[r] \in {"declined", "rejected"}
    /\ Take(Store(r), "none")
    /\ Goto(r, IF kind[r] = "declined" THEN "append" ELSE "ok")
    /\ UNCHANGED <<kind, draft, tables>>

\* Mutant: the connection outlives the scope.
EndUnclosed(r, answer) == Goto(r, answer) /\ UNCHANGED <<kind, lock, draft, tables>>

\* The scope is left by an exception: rollback and close.
End(r, answer) ==
    /\ Goto(r, answer)
    /\ lock' = [lock EXCEPT ![Store(r)] = "none", ![Audit(r)] = "none"]
    /\ UNCHANGED <<kind, draft, tables>>

\* append_in_transaction
AppendInTransaction(r) ==
    /\ stage[r] = "audit" /\ MayReserve(Store(r))
    /\ \/ /\ Take(Store(r), "reserved")
          /\ Goto(r, "commit")
          /\ UNCHANGED <<kind, draft, tables>>
       \/ End(r, "unavailable")

\* A commit first keeps new readers out, then waits for those that are in.
Pend(r) ==
    \/ stage[r] = "commit" /\ lock[Store(r)] = "reserved" /\ Take(Store(r), "pending")
       /\ UNCHANGED <<kind, stage, draft, tables>>
    \/ stage[r] = "commit-audit" /\ lock[Audit(r)] = "reserved" /\ Take(Audit(r), "pending")
       /\ UNCHANGED <<kind, stage, draft, tables>>

Commit(r) ==
    /\ stage[r] = "commit" /\ lock[Store(r)] = "pending" /\ MayWrite(Store(r))
    /\ Take(Store(r), "none")
    /\ \/ kind[r] = "replay" /\ UNCHANGED <<revision, wrote>>
       \/ /\ kind[r] # "replay"
          /\ revision' = draft[r]
          /\ wrote' = [wrote EXCEPT ![r] = draft[r]]
    /\ \/ kind[r] = "write" /\ UNCHANGED records /\ Goto(r, "append")
       \/ kind[r] # "write" /\ records' = records \cup {r} /\ Goto(r, "ok")
    /\ UNCHANGED <<kind, draft>>

\* metadata: a SELECT outside any transaction, then the scope is left.
Select(r) ==
    /\ stage[r] = "select" /\ MayShare(Store(r))
    /\ Take(Store(r), "shared")
    /\ Goto(r, "selected")
    /\ UNCHANGED <<kind, draft, tables>>

Selected(r) ==
    /\ stage[r] = "selected"
    /\ Take(Store(r), "none")
    /\ Goto(r, "append")
    /\ UNCHANGED <<kind, draft, tables>>

\* append: sqlite3 begins a deferred transaction, the INSERT takes the lock.
Append(r) ==
    /\ stage[r] = "append" /\ MayReserve(Audit(r))
    /\ Take(Audit(r), "reserved")
    /\ Goto(r, "commit-audit")
    /\ UNCHANGED <<kind, draft, tables>>

CommitAudit(r) ==
    /\ stage[r] = "commit-audit" /\ lock[Audit(r)] = "pending" /\ MayWrite(Audit(r))
    /\ records' = records \cup {r}
    /\ Take(Audit(r), "none")
    /\ Goto(r, "ok")
    /\ UNCHANGED <<kind, draft, revision, wrote>>

\* Connection d is in the way of the lock that r needs next.
Blocks(d, r) ==
    \/ /\ stage[r] \in {"begin", "insert", "audit"} /\ d # Store(r)
       /\ lock[d] \in {"reserved", "pending"}
    \/ stage[r] = "append" /\ d # Audit(r) /\ lock[d] \in {"reserved", "pending"}
    \/ stage[r] \in {"read", "select"} /\ d # Store(r) /\ lock[d] = "pending"
    \/ stage[r] = "commit" /\ lock[Store(r)] = "pending" /\ d # Store(r) /\ lock[d] = "shared"
    \/ stage[r] = "commit-audit" /\ lock[Audit(r)] = "pending" /\ d # Audit(r) /\ lock[d] = "shared"

Blocked(r) == \E d \in Handles : Blocks(d, r)

\* Mutant: a record that cannot be written does not matter.
BestEffortAudit(r) == IF stage[r] \in AuditStages THEN "ok" ELSE "error"

\* The audit store turns sqlite3.Error into AuditUnavailable, the store does not.
OnTimeout(r) == IF stage[r] \in AuditStages THEN "unavailable" ELSE "error"

\* SQLITE_BUSY after timeout=5.0 and busy_timeout, or after sqlite3's default.
TimeOut(r) == Blocked(r) /\ End(r, OnTimeout(r))

InFlight == {r \in Requests : stage[r] \in StoreStages \cup AuditStages}

\* The process dies; SQLite drops its locks and rolls back what is unfinished.
Crash ==
    /\ InFlight # {}
    /\ stage' = [r \in Requests |-> IF r \in InFlight THEN "lost" ELSE stage[r]]
    /\ lock' = [c \in Handles |-> "none"]
    /\ UNCHANGED <<kind, draft, tables>>

Proceed(r) ==
    \/ Begin(r) \/ Read(r) \/ Insert(r) \/ Replay(r) \/ Decline(r)
    \/ AppendInTransaction(r) \/ Select(r) \/ Selected(r) \/ Append(r)
    \/ Pend(r) \/ Commit(r) \/ CommitAudit(r)

Handle(r) == Proceed(r) \/ TimeOut(r)

\* Nothing is left to do.
Quiet == (\A r \in Requests : stage[r] \in Answers) /\ UNCHANGED vars

Next == (\E r \in Requests : Receive(r) \/ Handle(r)) \/ Crash \/ Quiet

Spec == Init /\ [][Next]_vars

\* A thread that can take its next step takes it in the end.  Nothing makes a
\* wait run into its timeout, and nothing makes the process crash.
FairSpec == Spec /\ \A r \in Requests : WF_vars(Proceed(r))
-----------------------------------------------------------------------------
(* Properties *)

WaitsFor(r, q) == Blocks(Store(q), r) \/ Blocks(Audit(q), r)

(***************************************************************************)
(* No threads wait on each other in a circle, and none on itself: in every *)
(* group of requests one waits for no lock of the group.  So a wait always *)
(* ends by the lock becoming free, unless five seconds do not suffice.     *)
(***************************************************************************)
NoWaitCycle ==
    \A group \in (SUBSET Requests) \ {{}} :
        \E r \in group : \A q \in group : ~WaitsFor(r, q)

(***************************************************************************)
(* An answer says what is durable: "ok" that the record is committed, with *)
(* the change where there is one (and neither for a rejected revocation),  *)
(* 500 that nothing is, 503 that the record is not and that the change is  *)
(* exactly if the handler audits it after committing it.  Timeouts, crashes*)
(* and other threads' commits do not make it otherwise.                    *)
(***************************************************************************)
AnswersAreDurable ==
    \A r \in Requests :
        /\ stage[r] = "ok" =>
             /\ r \in records <=> kind[r] # "rejected"
             /\ wrote[r] # 0 <=> kind[r] \in {"write", "atomic"}
        /\ stage[r] = "error" => r \notin records /\ wrote[r] = 0
        /\ stage[r] = "unavailable" =>
             r \notin records /\ (wrote[r] # 0 <=> kind[r] = "write")

(***************************************************************************)
(* Every handler that has begun gets its answer without a timeout having to*)
(* end a wait: each path through a scope gives its locks back, also the    *)
(* path of an audit record that cannot be written, and a commit that keeps *)
(* new readers out is not kept waiting by them.                            *)
(***************************************************************************)
WaitsEnd ==
    \A r \in Requests :
        stage[r] \in StoreStages \cup AuditStages ~> stage[r] \in Answers

T == INSTANCE Transactions

(***************************************************************************)
(* Handlers that lock, read, write and commit step by step implement the   *)
(* transactions that are one step: no change is computed from tables that  *)
(* another one has replaced (no lost update), and no record comes early.   *)
(***************************************************************************)
ImplementsTransactions == T!Spec
=============================================================================
