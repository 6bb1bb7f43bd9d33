-------------------------- MODULE ConnectionsProofs --------------------------
(***************************************************************************)
(* Theorems about Connections, for any number of handler threads: an answer*)
(* says what is durable, and the handlers implement Transactions.          *)
(***************************************************************************)
EXTENDS Connections, TLAPS

Writing(c) == lock[c] \in {"reserved", "pending"}

\* SQLite's write lock has one holder.
OneWriter == \A c, d \in Handles : Writing(c) /\ Writing(d) => c = d

\* Between BEGIN IMMEDIATE and the end of its scope a handler holds it, so that
\* what it read stays the current revision.
Inside == {"read", "insert", "audit", "commit"}

Guarded ==
    \A r \in Requests :
        /\ stage[r] \in Inside => Writing(Store(r))
        /\ stage[r] \in Inside \ {"read"} => draft[r] = revision + 1
        /\ stage[r] = "commit-audit" => Writing(Audit(r))

\* The stages in which a connection holds a lock.
Held ==
    \A r \in Requests :
        /\ Writing(Store(r)) => stage[r] \in Inside
        /\ lock[Store(r)] = "shared" => stage[r] = "selected"
        /\ lock[Audit(r)] # "none" => stage[r] = "commit-audit" /\ Writing(Audit(r))

\* What a request in flight has committed so far.
Accounted ==
    \A r \in Requests :
        /\ stage[r] \in {"new"} \cup StoreStages => wrote[r] = 0 /\ r \notin records
        /\ stage[r] \in AuditStages =>
             r \notin records /\ (wrote[r] # 0 <=> kind[r] = "write")

\* The stages each kind of handler passes through.
BeginningKinds == {"write", "atomic", "replay", "declined", "rejected"}

OnCourse ==
    \A r \in Requests :
        /\ stage[r] \in {"begin", "read", "insert"} => kind[r] \in BeginningKinds
        /\ stage[r] = "commit" => kind[r] \in {"write", "atomic", "replay"}
        /\ stage[r] = "audit" => kind[r] \in {"atomic", "replay"}
        /\ stage[r] \in {"select", "selected"} => kind[r] = "read"
        /\ stage[r] \in AuditStages => kind[r] \notin {"atomic", "replay", "rejected"}

ConnectionsInv ==
    /\ ConnectionsTypeOK
    /\ OneWriter
    /\ Guarded
    /\ Held
    /\ Accounted
    /\ OnCourse
    /\ AnswersAreDurable

LEMMA HandleFacts ==
    /\ \A r \in Requests : Store(r) \in Handles /\ Audit(r) \in Handles
    /\ \A r, q \in Requests : Store(r) # Audit(q)
    /\ \A r, q \in Requests : Store(r) = Store(q) => r = q
    /\ \A r, q \in Requests : Audit(r) = Audit(q) => r = q
BY DEF Store, Audit, Handles

LEMMA InvInit == Init => ConnectionsInv
<1> SUFFICES ASSUME Init PROVE ConnectionsInv
  OBVIOUS
<1>1. ConnectionsTypeOK
  <2>1. \A r \in Requests : lock[Store(r)] = "none" /\ lock[Audit(r)] = "none"
    BY HandleFacts DEF Init
  <2>2. lock \in [Handles -> Locks]
    BY DEF Init, Locks
  <2>3. draft \in [Requests -> Nat] /\ wrote \in [Requests -> Nat] /\ revision \in Nat
    BY DEF Init
  <2>4. stage \in [Requests -> {"new"} \cup StoreStages \cup AuditStages \cup Answers]
    BY DEF Init
  <2> QED BY <2>1, <2>2, <2>3, <2>4 DEF Init, ConnectionsTypeOK, Store, Audit
<1>2. OneWriter
  BY DEF Init, OneWriter, Writing
<1>3. \A r \in Requests : stage[r] = "new" /\ wrote[r] = 0 /\ r \notin records
  BY DEF Init
<1>5. Held
  BY HandleFacts DEF Init, Held, Writing
<1>4. Guarded /\ Accounted /\ OnCourse /\ AnswersAreDurable
  BY <1>3 DEF Guarded, Accounted, OnCourse, AnswersAreDurable, Inside, AuditStages
<1> QED BY <1>1, <1>2, <1>4, <1>5 DEF ConnectionsInv

-----------------------------------------------------------------------------
(* Types *)

LEMMA TypeStep ==
    ASSUME ConnectionsInv, Next
    PROVE  ConnectionsTypeOK'
<1> USE DEF ConnectionsInv, ConnectionsTypeOK, StoreStages, AuditStages, Answers, Kinds, Locks,
            tables
<1>1. CASE Quiet
  BY <1>1 DEF Quiet, vars
<1>2. CASE Crash
  BY <1>2, HandleFacts DEF Crash, InFlight, Store, Audit
<1>3. ASSUME NEW r \in Requests, Receive(r) PROVE ConnectionsTypeOK'
  BY <1>3 DEF Receive, Goto, FirstStage
<1>4. ASSUME NEW r \in Requests, Handle(r) PROVE ConnectionsTypeOK'
  <2>1. CASE Begin(r)
    BY <2>1, HandleFacts DEF Begin, Take, Goto, BeginImmediate, Store, Audit
  <2>2. CASE Read(r) \/ Replay(r)
    BY <2>2 DEF Read, Replay, Goto
  <2>3. CASE Insert(r)
    BY <2>3, HandleFacts DEF Insert, Take, Goto, AfterInsert, Store, Audit
  <2>4. CASE AppendInTransaction(r)
    BY <2>4, HandleFacts DEF AppendInTransaction, Take, Goto, End, Store, Audit
  <2>5. CASE Select(r) \/ Selected(r) \/ Decline(r)
    BY <2>5, HandleFacts DEF Select, Selected, Decline, Take, Goto, Store, Audit
  <2>6. CASE Append(r)
    BY <2>6, HandleFacts DEF Append, Take, Goto, Store, Audit
  <2>7. CASE Pend(r)
    BY <2>7, HandleFacts DEF Pend, Take, Store, Audit
  <2>8. CASE Commit(r)
    <3>1. stage' \in [Requests -> {"new"} \cup StoreStages \cup AuditStages \cup Answers]
      BY <2>8 DEF Commit, Goto
    <3>2. /\ revision' \in Nat /\ wrote' \in [Requests -> Nat] /\ records' \subseteq Requests
          /\ UNCHANGED <<kind, draft>>
      BY <2>8 DEF Commit
    <3>3. lock' \in [Handles -> Locks] /\ lock' = [lock EXCEPT ![Store(r)] = "none"]
      BY <2>8 DEF Commit, Take
    <3>4. \A q \in Requests : q # r => stage'[q] = stage[q]
      BY <2>8 DEF Commit, Goto
    <3>5. stage[r] = "commit" /\ stage'[r] \in {"append", "ok"}
      BY <2>8 DEF Commit, Goto
    <3> QED BY <3>1, <3>2, <3>3, <3>4, <3>5, HandleFacts DEF Store, Audit
  <2>9. CASE CommitAudit(r)
    BY <2>9, HandleFacts DEF CommitAudit, Take, Goto, Store, Audit
  <2>10. CASE TimeOut(r)
    BY <2>10, HandleFacts DEF TimeOut, End, OnTimeout, Goto, Store, Audit
  <2> QED BY <1>4, <2>1, <2>2, <2>3, <2>4, <2>5, <2>6, <2>7, <2>8, <2>9, <2>10 DEF Handle, Proceed
<1> QED BY <1>1, <1>2, <1>3, <1>4 DEF Next
-----------------------------------------------------------------------------
(* Locks *)

LEMMA TakeFacts ==
    ASSUME ConnectionsTypeOK, NEW c \in Handles, NEW level, Take(c, level)
    PROVE  /\ lock'[c] = level
           /\ \A d \in Handles : d # c => lock'[d] = lock[d]
BY DEF Take, ConnectionsTypeOK

LEMMA WriterStep ==
    ASSUME ConnectionsInv, Next
    PROVE  OneWriter'
<1> USE DEF ConnectionsInv, OneWriter, Writing
<1>1. CASE Quiet
  BY <1>1 DEF Quiet, vars
<1>2. CASE Crash
  BY <1>2 DEF Crash
<1>3. ASSUME NEW r \in Requests, Receive(r) PROVE OneWriter'
  BY <1>3 DEF Receive
<1>4. ASSUME NEW r \in Requests, Handle(r) PROVE OneWriter'
  <2>a. ASSUME NEW c \in Handles, MayReserve(c), Take(c, "reserved") PROVE OneWriter'
    BY <2>a, TakeFacts DEF MayReserve, NoOther
  <2>b. ASSUME NEW c \in Handles, NEW level \in {"none", "shared"}, Take(c, level)
        PROVE OneWriter'
    BY <2>b, TakeFacts
  <2>c. ASSUME NEW c \in Handles, Writing(c), Take(c, "pending") PROVE OneWriter'
    BY <2>c, TakeFacts
  <2>d. ASSUME NEW answer, End(r, answer) PROVE OneWriter'
    <3>1. \A c \in Handles : lock'[c] \in {lock[c], "none"}
      BY <2>d, HandleFacts DEF End, ConnectionsTypeOK
    <3> QED BY <3>1
  <2>1. CASE Begin(r) \/ Insert(r) \/ Append(r)
    BY <2>1, <2>a, HandleFacts DEF Begin, Insert, Append, BeginImmediate
  <2>2. CASE Read(r) \/ Replay(r)
    BY <2>2 DEF Read, Replay
  <2>3. CASE AppendInTransaction(r)
    BY <2>3, <2>a, <2>d, HandleFacts DEF AppendInTransaction
  <2>4. CASE Select(r) \/ Selected(r) \/ Decline(r) \/ Commit(r) \/ CommitAudit(r)
    BY <2>4, <2>b, HandleFacts DEF Select, Selected, Decline, Commit, CommitAudit
  <2>5. CASE Pend(r)
    BY <2>5, <2>c, HandleFacts DEF Pend
  <2>6. CASE TimeOut(r)
    BY <2>6, <2>d DEF TimeOut
  <2> QED BY <1>4, <2>1, <2>2, <2>3, <2>4, <2>5, <2>6 DEF Handle, Proceed
<1> QED BY <1>1, <1>2, <1>3, <1>4 DEF Next

\* Where r may go in one step, and what the step then does to the tables.
LEMMA OthersStay ==
    ASSUME ConnectionsInv, NEW r \in Requests, Receive(r) \/ Handle(r)
    PROVE  /\ kind' = kind
           /\ \A q \in Requests : q # r =>
                /\ stage'[q] = stage[q] /\ draft'[q] = draft[q] /\ wrote'[q] = wrote[q]
                /\ q \in records' <=> q \in records
                /\ lock'[Store(q)] = lock[Store(q)] /\ lock'[Audit(q)] = lock[Audit(q)]
<1> USE HandleFacts DEF ConnectionsInv, ConnectionsTypeOK, tables
<1>1. CASE Receive(r) \/ Read(r) \/ Replay(r)
  BY <1>1 DEF Receive, Read, Replay, Goto
<1>2. CASE Begin(r) \/ Insert(r) \/ Append(r) \/ Select(r) \/ Selected(r) \/ Decline(r) \/ Pend(r)
  BY <1>2, TakeFacts DEF Begin, Insert, Append, Select, Selected, Decline, Pend, Goto
<1>3. CASE Commit(r)
  BY <1>3, TakeFacts DEF Commit, Goto
<1>4. CASE CommitAudit(r)
  BY <1>4, TakeFacts DEF CommitAudit, Goto
<1>5. CASE AppendInTransaction(r) \/ TimeOut(r)
  BY <1>5, TakeFacts DEF AppendInTransaction, TimeOut, End, Goto
<1> QED BY <1>1, <1>2, <1>3, <1>4, <1>5 DEF Handle, Proceed

LEMMA NextCases ==
    ASSUME Next
    PROVE  \/ Quiet \/ Crash \/ \E r \in Requests : Receive(r) \/ Handle(r)
BY DEF Next

LEMMA GuardedStep ==
    ASSUME ConnectionsInv, Next
    PROVE  Guarded'
<1> USE DEF ConnectionsInv, Guarded, Inside
<1>1. CASE Quiet
  BY <1>1 DEF Quiet, vars, tables, Writing
<1>2. CASE Crash
  <2>1. \A q \in Requests : stage'[q] \notin Inside \cup {"commit-audit"}
    BY <1>2 DEF Crash, InFlight, StoreStages, AuditStages
  <2> QED BY <2>1
<1>3. ASSUME NEW r \in Requests, Receive(r) \/ Handle(r) PROVE Guarded'
  <2>1. ASSUME NEW q \in Requests, q # r, stage[q] \in Inside
        PROVE  UNCHANGED revision
    <3>1. CASE Commit(r)
      <4>1. Writing(Store(r)) /\ Writing(Store(q))
        BY <2>1, <3>1 DEF Commit
      <4> QED BY <2>1, <4>1, HandleFacts DEF OneWriter
    <3>2. CASE ~Commit(r)
      BY <1>3, <3>2 DEF Handle, Proceed, Replay, Receive, Begin, Read, Insert, AppendInTransaction, End,
         Select, Selected, Decline, Append, Pend, CommitAudit, TimeOut, tables
    <3> QED BY <3>1, <3>2
  <2>2. ASSUME NEW q \in Requests, q # r
        PROVE  /\ stage'[q] \in Inside => Writing(Store(q))'
               /\ stage'[q] \in Inside \ {"read"} => draft'[q] = revision' + 1
               /\ stage'[q] = "commit-audit" => Writing(Audit(q))'
    BY <1>3, <2>1, <2>2, OthersStay DEF Writing
  <2>3. /\ stage'[r] \in Inside => Writing(Store(r))'
        /\ stage'[r] \in Inside \ {"read"} => draft'[r] = revision' + 1
        /\ stage'[r] = "commit-audit" => Writing(Audit(r))'
    <3> USE HandleFacts DEF Writing, Goto, ConnectionsTypeOK, tables
    <3>1. CASE Receive(r)
      BY <3>1 DEF Receive, FirstStage, Kinds
    <3>2. CASE Begin(r)
      BY <3>2, TakeFacts DEF Begin, BeginImmediate
    <3>3. CASE Read(r) \/ Replay(r)
      BY <3>3 DEF Read, Replay
    <3>4. CASE Insert(r)
      BY <3>4, TakeFacts DEF Insert, AfterInsert
    <3>5. CASE AppendInTransaction(r)
      BY <3>5, TakeFacts DEF AppendInTransaction, End
    <3>6. CASE Select(r) \/ Selected(r) \/ Decline(r) \/ Commit(r) \/ CommitAudit(r)
      BY <3>6 DEF Select, Selected, Decline, Commit, CommitAudit
    <3>7. CASE Append(r)
      BY <3>7, TakeFacts DEF Append
    <3>8. CASE Pend(r)
      BY <3>8, TakeFacts DEF Pend
    <3>9. CASE TimeOut(r)
      BY <3>9 DEF TimeOut, End, OnTimeout
    <3> QED BY <1>3, <3>1, <3>2, <3>3, <3>4, <3>5, <3>6, <3>7, <3>8, <3>9 DEF Handle, Proceed
  <2> QED BY <2>2, <2>3
<1> QED BY <1>1, <1>2, <1>3, NextCases

LEMMA HeldStep ==
    ASSUME ConnectionsInv, Next
    PROVE  Held'
<1> USE DEF ConnectionsInv, Held, Inside, Writing
<1>1. CASE Quiet
  BY <1>1 DEF Quiet, vars
<1>2. CASE Crash
  BY <1>2, HandleFacts DEF Crash
<1>3. ASSUME NEW r \in Requests, Receive(r) \/ Handle(r) PROVE Held'
  <2>1. ASSUME NEW q \in Requests, q # r
        PROVE  /\ Writing(Store(q))' => stage'[q] \in Inside
               /\ lock'[Store(q)] = "shared" => stage'[q] = "selected"
               /\ lock'[Audit(q)] # "none" => stage'[q] = "commit-audit" /\ Writing(Audit(q))'
    BY <1>3, <2>1, OthersStay
  <2>2. /\ Writing(Store(r))' => stage'[r] \in Inside
        /\ lock'[Store(r)] = "shared" => stage'[r] = "selected"
        /\ lock'[Audit(r)] # "none" => stage'[r] = "commit-audit" /\ Writing(Audit(r))'
    <3> USE HandleFacts DEF Goto, ConnectionsTypeOK, tables
    <3>1. CASE Receive(r)
      BY <3>1 DEF Receive
    <3>2. CASE Begin(r)
      BY <3>2, TakeFacts DEF Begin, BeginImmediate
    <3>3. CASE Read(r) \/ Replay(r)
      BY <3>3 DEF Read, Replay
    <3>4. CASE Insert(r)
      BY <3>4, TakeFacts DEF Insert, AfterInsert
    <3>5. CASE AppendInTransaction(r)
      BY <3>5, TakeFacts DEF AppendInTransaction, End
    <3>6. CASE Select(r) \/ Selected(r) \/ Decline(r)
      BY <3>6, TakeFacts DEF Select, Selected, Decline
    <3>7. CASE Commit(r)
      BY <3>7, TakeFacts DEF Commit
    <3>8. CASE Append(r)
      BY <3>8, TakeFacts DEF Append
    <3>9. CASE Pend(r)
      BY <3>9, TakeFacts DEF Pend
    <3>10. CASE CommitAudit(r)
      BY <3>10, TakeFacts DEF CommitAudit
    <3>11. CASE TimeOut(r)
      BY <3>11 DEF TimeOut, End, OnTimeout
    <3> QED BY <1>3, <3>1, <3>2, <3>3, <3>4, <3>5, <3>6, <3>7, <3>8, <3>9, <3>10, <3>11 DEF Handle, Proceed
  <2> QED BY <2>1, <2>2
<1> QED BY <1>1, <1>2, <1>3, NextCases
-----------------------------------------------------------------------------
(* Answers *)

LEMMA AccountStep ==
    ASSUME ConnectionsInv, Next
    PROVE  Accounted' /\ OnCourse' /\ AnswersAreDurable'
<1> DEFINE Sound(q) ==
      /\ stage[q] \in {"new"} \cup StoreStages => wrote[q] = 0 /\ q \notin records
      /\ stage[q] \in AuditStages => q \notin records /\ (wrote[q] # 0 <=> kind[q] = "write")
      /\ stage[q] \in {"begin", "read", "insert"} => kind[q] \in BeginningKinds
      /\ stage[q] = "commit" => kind[q] \in {"write", "atomic", "replay"}
      /\ stage[q] = "audit" => kind[q] \in {"atomic", "replay"}
      /\ stage[q] \in {"select", "selected"} => kind[q] = "read"
      /\ stage[q] \in AuditStages => kind[q] \notin {"atomic", "replay", "rejected"}
      /\ stage[q] = "ok" =>
           /\ q \in records <=> kind[q] # "rejected"
           /\ wrote[q] # 0 <=> kind[q] \in {"write", "atomic"}
      /\ stage[q] = "error" => q \notin records /\ wrote[q] = 0
      /\ stage[q] = "unavailable" =>
           q \notin records /\ (wrote[q] # 0 <=> kind[q] = "write")
<1>a. \A q \in Requests : Sound(q)
  BY DEF ConnectionsInv, Accounted, OnCourse, AnswersAreDurable
<1>1. CASE Quiet
  <2>1. \A q \in Requests : Sound(q)'
    BY <1>1, <1>a DEF Quiet, vars, tables
  <2> QED BY <2>1 DEF Accounted, OnCourse, AnswersAreDurable
<1>2. CASE Crash
  <2>1. \A q \in Requests : Sound(q)'
    BY <1>2, <1>a DEF Crash, tables, InFlight, StoreStages, AuditStages
  <2> QED BY <2>1 DEF Accounted, OnCourse, AnswersAreDurable
<1>3. ASSUME NEW r \in Requests, Receive(r) \/ Handle(r)
      PROVE  \A q \in Requests : Sound(q)'
  <2>1. ASSUME NEW q \in Requests, q # r PROVE Sound(q)'
    BY <1>3, <1>a, <2>1, OthersStay
  <2>2. Sound(r)'
    <3> USE <1>a DEF ConnectionsInv, ConnectionsTypeOK, Goto, StoreStages, AuditStages,
            Kinds, tables
    <3>1. CASE Receive(r)
      BY <3>1 DEF Receive, FirstStage, BeginningKinds
    <3>2. CASE Begin(r) \/ Read(r) \/ Select(r) \/ Selected(r) \/ Append(r)
      BY <3>2 DEF Begin, Read, Select, Selected, Append, BeginningKinds
    <3>9. CASE Replay(r) \/ Decline(r)
      BY <3>9 DEF Replay, Decline, BeginningKinds
    <3>3. CASE Insert(r)
      BY <3>3 DEF Insert, AfterInsert
    <3>4. CASE AppendInTransaction(r)
      BY <3>4 DEF AppendInTransaction, End
    <3>5. CASE Pend(r)
      BY <3>5 DEF Pend
    <3>6. CASE Commit(r)
      <4>1. draft[r] = revision + 1 /\ revision \in Nat
        BY <3>6 DEF Commit, Guarded, Inside
      <4>2. kind[r] # "replay" => wrote'[r] # 0
        BY <3>6, <4>1 DEF Commit
      <4>3. kind[r] \in {"write", "atomic", "replay"} /\ wrote[r] = 0 /\ r \notin records
        BY <3>6 DEF Commit
      <4> QED BY <3>6, <4>2, <4>3 DEF Commit
    <3>7. CASE CommitAudit(r)
      BY <3>7 DEF CommitAudit
    <3>8. CASE TimeOut(r)
      <4>1. stage[r] \in StoreStages \cup AuditStages
        BY <3>8 DEF TimeOut, Blocked, Blocks
      <4> QED BY <3>8, <4>1 DEF TimeOut, End, OnTimeout
    <3> QED BY <1>3, <3>1, <3>2, <3>3, <3>4, <3>5, <3>6, <3>7, <3>8, <3>9 DEF Handle, Proceed
  <2> QED BY <2>1, <2>2
<1>4. ASSUME NEW r \in Requests, Receive(r) \/ Handle(r)
      PROVE  Accounted' /\ OnCourse' /\ AnswersAreDurable'
  BY <1>3, <1>4 DEF Accounted, OnCourse, AnswersAreDurable
<1> QED BY <1>1, <1>2, <1>4, NextCases

LEMMA InvHolds == Spec => []ConnectionsInv
<1>1. ConnectionsInv /\ [Next]_vars => ConnectionsInv'
  <2>1. CASE Next
    BY <2>1, TypeStep, WriterStep, GuardedStep, HeldStep, AccountStep DEF ConnectionsInv
  <2>2. CASE UNCHANGED vars
    BY <2>2 DEF vars, tables, ConnectionsInv, ConnectionsTypeOK, OneWriter, Writing, Guarded, Held,
       Inside, Accounted, OnCourse, AnswersAreDurable
  <2> QED BY <2>1, <2>2
<1> QED BY <1>1, InvInit, PTL DEF Spec

(***************************************************************************)
(* Types; a connection holds a lock only while its handler is in its scope.*)
(***************************************************************************)
THEOREM ConnectionsAreTyped == Spec => []ConnectionsTypeOK
<1>1. ConnectionsInv => ConnectionsTypeOK
  BY DEF ConnectionsInv
<1> QED BY <1>1, InvHolds, PTL

(***************************************************************************)
(* An answer says what is durable, for any number of handler threads: 200  *)
(* the change and its record, 500 nothing, 503 the change without a record *)
(* exactly when the handler audits after committing.                       *)
(***************************************************************************)
THEOREM AnswersHold == Spec => []AnswersAreDurable
<1>1. ConnectionsInv => AnswersAreDurable
  BY DEF ConnectionsInv
<1> QED BY <1>1, InvHolds, PTL

\* In a group that holds a reader, the reader waits for nobody; else a writer
\* waits for nobody in it; else nobody in it holds what others wait for.
LEMMA NoCycle == ConnectionsInv => NoWaitCycle
<1> SUFFICES ASSUME ConnectionsInv, NEW group \in (SUBSET Requests) \ {{}}
             PROVE  \E r \in group : \A q \in group : ~WaitsFor(r, q)
  BY DEF NoWaitCycle
<1>a. \A q \in Requests : Store(q) \in Handles /\ Audit(q) \in Handles
  BY HandleFacts
<1>b. \A q \in Requests : lock[Audit(q)] # "shared"
  BY DEF ConnectionsInv, Held, Writing
<1>1. CASE \E r \in group : stage[r] = "selected"
  BY <1>1 DEF WaitsFor, Blocks
<1>2. CASE /\ \A r \in group : stage[r] # "selected"
           /\ \E r \in group : Writing(Store(r)) \/ Writing(Audit(r))
  <2>1. PICK r \in group : Writing(Store(r)) \/ Writing(Audit(r))
    BY <1>2
  <2>2. stage[r] \in Inside \cup {"commit-audit"}
    BY <2>1 DEF ConnectionsInv, Held, Writing
  <2>3. ASSUME NEW q \in group, WaitsFor(r, q) PROVE FALSE
    <3>1. lock[Store(q)] # "shared"
      BY <1>2 DEF ConnectionsInv, Held
    <3>2. CASE stage[r] \in Inside
      <4>1. Writing(Store(r))
        BY <3>2 DEF ConnectionsInv, Guarded
      <4>2. \A d \in Handles : d # Store(r) => ~Writing(d)
        BY <4>1, <1>a DEF ConnectionsInv, OneWriter
      <4>3. PICK d \in {Store(q), Audit(q)} : Blocks(d, r)
        BY <2>3 DEF WaitsFor
      <4>4. d \in Handles /\ lock[d] # "shared"
        BY <1>a, <1>b, <3>1, <4>3
      <4>5. d # Store(r) => lock[d] \notin {"reserved", "pending"}
        BY <4>2, <4>4 DEF Writing
      <4>6. stage[r] \in {"read", "insert", "audit", "commit"}
        BY <3>2 DEF Inside
      <4> HIDE DEF Store, Audit
      <4> QED BY <4>3, <4>4, <4>5, <4>6 DEF Blocks
    <3>3. CASE stage[r] = "commit-audit"
      BY <1>b, <2>3, <3>1, <3>3 DEF WaitsFor, Blocks
    <3> QED BY <2>2, <3>2, <3>3
  <2> QED BY <2>1, <2>3
<1>3. CASE \A r \in group : /\ stage[r] # "selected"
                            /\ ~Writing(Store(r)) /\ ~Writing(Audit(r))
  <2>1. \A q \in group : lock[Store(q)] # "shared"
    BY <1>3 DEF ConnectionsInv, Held
  <2> QED BY <1>3, <1>b, <2>1 DEF WaitsFor, Blocks, Writing
<1> QED BY <1>1, <1>2, <1>3

(***************************************************************************)
(* However many threads serve requests, they never wait for each other's   *)
(* locks in a circle, and none waits for a lock of its own: the audit      *)
(* connection is opened when the store's is closed.                        *)
(***************************************************************************)
THEOREM ThreadsNeverDeadlock == Spec => []NoWaitCycle
BY NoCycle, InvHolds, PTL
-----------------------------------------------------------------------------
(* Refinement *)

LEMMA StepImplements ==
    ASSUME ConnectionsInv, [Next]_vars
    PROVE  [T!Next]_(T!vars)
<1>1. CASE UNCHANGED tables
  BY <1>1 DEF T!vars, tables
<1>2. ASSUME NEW r \in Requests, Commit(r) PROVE T!Next
  <2>a. CASE kind[r] = "replay"
    <3>1. r \notin records /\ records' = records \cup {r} /\ UNCHANGED <<revision, wrote>>
      BY <1>2, <2>a DEF Commit, ConnectionsInv, Accounted, StoreStages
    <3> QED BY <3>1 DEF T!Record, T!Next
  <2>1. wrote[r] = 0 /\ r \notin records /\ draft[r] = revision + 1
    BY <1>2 DEF Commit, ConnectionsInv, Accounted, StoreStages, Guarded, Inside
  <2>b. CASE kind[r] # "replay"
    <3>1. T!Change(r) /\ records' \in {records, records \cup {r}}
      BY <1>2, <2>1, <2>b DEF Commit, T!Change
    <3> QED BY <3>1 DEF T!Next
  <2> QED BY <2>a, <2>b
<1>3. ASSUME NEW r \in Requests, CommitAudit(r) PROVE T!Next
  <2>1. r \notin records
    BY <1>3 DEF CommitAudit, ConnectionsInv, Accounted, AuditStages
  <2> QED BY <1>3, <2>1 DEF CommitAudit, T!Record, T!Next
<1>4. ASSUME NEW r \in Requests, Receive(r) \/ Handle(r), ~Commit(r), ~CommitAudit(r)
      PROVE  UNCHANGED tables
  BY <1>4 DEF Handle, Proceed, Replay, Receive, Begin, Read, Insert, AppendInTransaction, End,
     Select, Selected, Decline, Append, Pend, TimeOut
<1>5. Crash \/ Quiet \/ UNCHANGED vars => UNCHANGED tables
  BY DEF Crash, Quiet, vars
<1> QED BY <1>1, <1>2, <1>3, <1>4, <1>5, NextCases

(***************************************************************************)
(* Any number of handlers that begin, read, write, commit, time out and    *)
(* crash step by step implement transactions that happen at one moment: no *)
(* change is computed from a revision that another one has replaced.       *)
(***************************************************************************)
THEOREM HandlersImplementTransactions == Spec => ImplementsTransactions
<1>1. Init => T!Init
  BY DEF Init, T!Init
<1> QED BY <1>1, StepImplements, InvHolds, PTL DEF Spec, ImplementsTransactions, T!Spec
=============================================================================
