---------------------------- MODULE StartupProofs ----------------------------
(***************************************************************************)
(* Theorems about Startup and the Custody it extends, for any number of    *)
(* starts with any identities, on any file: what admission promises, that  *)
(* refused starts leave no trace, and that an identity is chosen once.     *)
(***************************************************************************)
EXTENDS Startup, TLAPS

Bound(s) == BoundTo(file, Identity[s])

\* A transaction works on the file, or on a database it found empty.
Faithful ==
    \A s \in Starts : at[s] \in Transacting =>
        /\ work[s].kind = "database"
        /\ work[s] = file \/ file = EmptyFile

\* How far the transaction that forms a database has come.
Forming ==
    \A s \in Starts :
        /\ at[s] = "begun" => work[s] = file
        /\ at[s] = "creating" =>
             /\ file = EmptyFile
             /\ work[s].objects \subseteq ExpectedSchema
             /\ "binding" \in work[s].objects => "audit" \in work[s].objects
             /\ "audit" \in work[s].objects => "store" \in work[s].objects
        /\ at[s] = "checking" /\ file = EmptyFile => BoundTo(work[s], Identity[s])
        /\ at[s] = "committing" => BoundTo(work[s], Identity[s])

\* The outcome of an admission is about the file, and stays true of it.
Judged ==
    \A s \in Starts :
        /\ at[s] = "admitted" => Bound(s)
        /\ at[s] = "rejected" => file # EmptyFile /\ ~Bound(s)

\* Rows are in a table.
Tabled == file.rows # {} => "binding" \in file.objects

CustodyInv == CustodyTypeOK /\ Faithful /\ Forming /\ Judged /\ Tabled

LEMMA EmptyIsUnbound ==
    /\ EmptyFile.kind = "database" /\ EmptyFile.objects = {} /\ EmptyFile.rows = {}
    /\ \A id : ~BoundTo(EmptyFile, id)
BY DEF EmptyFile, BoundTo, ExpectedSchema

LEMMA OneIdentity ==
    ASSUME NEW f, NEW i, NEW j, BoundTo(f, i), BoundTo(f, j)
    PROVE  i = j
<1>1. {[column |-> i.provider, sealed |-> i]} = {[column |-> j.provider, sealed |-> j]}
  BY DEF BoundTo, BindingVerifies
<1>2. [column |-> i.provider, sealed |-> i] = [column |-> j.provider, sealed |-> j]
  BY <1>1
<1>3. [column |-> i.provider, sealed |-> i].sealed = [column |-> j.provider, sealed |-> j].sealed
  BY <1>2
<1> QED BY <1>3

LEMMA FileEquality ==
    ASSUME NEW f \in File, f.kind = "database", f.objects = {}, f.rows = {}
    PROVE  f = EmptyFile
BY DEF File, EmptyFile

LEMMA CustodyInit == Init => CustodyInv
<1> SUFFICES ASSUME Init PROVE CustodyInv
  OBVIOUS
<1>1. file \in File /\ Tabled
  BY CustodyAssumption DEF Init, Tabled
<1>2. EmptyFile \in File
  BY DEF EmptyFile, File
<1>3. CustodyTypeOK
  BY <1>1, <1>2, CustodyAssumption DEF Init, CustodyTypeOK, Transacting
<1> QED BY <1>1, <1>3 DEF Init, CustodyInv, Faithful, Forming, Judged, Transacting

\* What one step of s does to the rest: only a commit changes the file, from
\* empty to bound, and only the transaction of s changes.
LEMMA StepShape ==
    ASSUME CustodyInv, NEW s \in Starts, Step(s) \/ Die(s)
    PROVE  /\ file' # file =>
                 /\ file = EmptyFile /\ at[s] = "committing" /\ at'[s] = "admitted"
                 /\ file' = work[s] /\ BoundTo(file', Identity[s])
           /\ \A t \in Starts : t # s => at'[t] = at[t] /\ work'[t] = work[t]
<1> USE DEF CustodyInv, CustodyTypeOK, Goto
<1>1. CASE Commit(s)
  BY <1>1 DEF Commit, Faithful, Forming, Transacting
<1>2. CASE CreateObject(s)
  BY <1>2 DEF CreateObject
<1>3. CASE InsertBinding(s)
  BY <1>3 DEF InsertBinding
<1>4. CASE Open(s) \/ Begin(s) \/ Inspect(s) \/ Check(s)
  BY <1>4 DEF Open, Begin, Inspect, Check, End
<1>5. CASE Fail(s) \/ Die(s)
  BY <1>5 DEF Fail, Die, End
<1> QED BY <1>1, <1>2, <1>3, <1>4, <1>5 DEF Step

LEMMA CustodyTypeStep ==
    ASSUME CustodyInv, NEW s \in Starts, Step(s) \/ Die(s)
    PROVE  CustodyTypeOK'
<1> USE CustodyAssumption DEF CustodyInv, CustodyTypeOK, Goto, Transacting, Outcomes
<1>1. CASE Open(s)
  BY <1>1 DEF Open, End
<1>2. CASE Begin(s)
  BY <1>2 DEF Begin, End
<1>3. CASE Inspect(s)
  BY <1>3 DEF Inspect
<1>4. CASE CreateObject(s)
  <2>1. work[s] \in File
    OBVIOUS
  <2>2. \A o \in {"store", "audit", "binding"} :
          [work[s] EXCEPT !.objects = work[s].objects \cup {o}] \in File
    BY <2>1 DEF File, Objects
  <2> QED BY <1>4, <2>1, <2>2 DEF CreateObject
<1>5. CASE InsertBinding(s)
  <2>1. work[s] \in File /\ Identity[s] \in Identities
    OBVIOUS
  <2>2. [column |-> Identity[s].provider, sealed |-> Identity[s]] \in Binding
    BY <2>1 DEF Identities, Binding
  <2>3. [work[s] EXCEPT !.rows = {[column |-> Identity[s].provider, sealed |-> Identity[s]]}]
          \in File
    BY <2>1, <2>2 DEF File
  <2> QED BY <1>5, <2>1, <2>3 DEF InsertBinding
<1>6. CASE Check(s)
  BY <1>6 DEF Check, End
<1>7. CASE Commit(s)
  BY <1>7 DEF Commit
<1>8. CASE Fail(s) \/ Die(s)
  BY <1>8 DEF Fail, Die, End
<1> QED BY <1>1, <1>2, <1>3, <1>4, <1>5, <1>6, <1>7, <1>8 DEF Step

\* While t is inside its transaction nobody else changes the file.
LEMMA FileIsHeld ==
    ASSUME CustodyInv, NEW s \in Starts, Step(s) \/ Die(s),
           NEW t \in Starts, t # s, at[t] \in Transacting
    PROVE  file' = file
<1>1. lock = t
  BY DEF CustodyInv, CustodyTypeOK
<1>2. at[s] # "committing"
  BY <1>1 DEF CustodyInv, CustodyTypeOK, Transacting
<1> QED BY <1>2, StepShape

\* What the step makes of the invariant's statements about s itself.
LEMMA OwnStep ==
    ASSUME CustodyInv, NEW s \in Starts, Step(s) \/ Die(s)
    PROVE  /\ at'[s] \in Transacting =>
                /\ work'[s].kind = "database"
                /\ work'[s] = file' \/ file' = EmptyFile
           /\ at'[s] = "begun" => work'[s] = file'
           /\ at'[s] = "creating" =>
                /\ file' = EmptyFile
                /\ work'[s].objects \subseteq ExpectedSchema
                /\ "binding" \in work'[s].objects => "audit" \in work'[s].objects
                /\ "audit" \in work'[s].objects => "store" \in work'[s].objects
           /\ at'[s] = "checking" /\ file' = EmptyFile => BoundTo(work'[s], Identity[s])
           /\ at'[s] = "committing" => BoundTo(work'[s], Identity[s])
           /\ at'[s] = "rejected" => file' # EmptyFile /\ ~BoundTo(file', Identity[s])
           /\ at'[s] = "admitted" => BoundTo(file', Identity[s])
<1> USE DEF CustodyInv, CustodyTypeOK, Goto, Transacting
<1>1. CASE Open(s)
  BY <1>1, EmptyIsUnbound DEF Open, End, BoundTo
<1>2. CASE Begin(s)
  BY <1>2, EmptyIsUnbound DEF Begin, End, BoundTo
<1>3. CASE Inspect(s)
  <2>1. work[s] = file /\ file.kind = "database"
    BY <1>3 DEF Inspect, Faithful, Forming
  <2>2. IsEmpty(work[s]) => file = EmptyFile
    BY <2>1, FileEquality DEF IsEmpty, Tabled
  <2>3. ~IsEmpty(work[s]) => file # EmptyFile
    BY <2>1, EmptyIsUnbound DEF IsEmpty
  <2> QED BY <1>3, <2>1, <2>2, <2>3 DEF Inspect, IsEmpty
<1>4. CASE CreateObject(s)
  <2>1. PICK o \in {"store", "audit", "binding"} :
          /\ o # "store" => Created(s, "store")
          /\ o = "binding" => Created(s, "audit")
          /\ work' = [work EXCEPT ![s].objects = @ \cup {o}]
    BY <1>4 DEF CreateObject
  <2>2. work[s] \in File
    OBVIOUS
  <2>3. work'[s].objects = work[s].objects \cup {o} /\ work'[s].kind = work[s].kind
    BY <2>1, <2>2 DEF File
  <2>4. at[s] = "creating" /\ at' = at /\ file' = file
    BY <1>4 DEF CreateObject
  <2> QED BY <2>1, <2>3, <2>4 DEF Faithful, Forming, Created, ExpectedSchema
<1>5. CASE InsertBinding(s)
  <2>1. work[s] \in File /\ at[s] = "creating" /\ file' = file /\ at'[s] = "checking"
    BY <1>5 DEF InsertBinding
  <2>2. /\ work'[s].objects = work[s].objects /\ work'[s].kind = work[s].kind
        /\ work'[s].rows = {[column |-> Identity[s].provider, sealed |-> Identity[s]]}
    BY <1>5, <2>1 DEF InsertBinding, File
  <2>3. work[s].objects = ExpectedSchema
    BY <1>5, <2>1 DEF InsertBinding, Created, Forming, ExpectedSchema
  <2> QED BY <2>1, <2>2, <2>3 DEF Faithful, Forming, BoundTo, BindingVerifies
<1>6. CASE Check(s)
  <2>1. at[s] = "checking" /\ file' = file /\ work' = work
    BY <1>6 DEF Check, End
  <2>2. work[s].kind = "database" /\ (work[s] = file \/ file = EmptyFile)
    BY <2>1 DEF Faithful
  <2>3. CASE work[s].objects = ExpectedSchema /\ BindingVerifies(work[s], Identity[s])
    BY <1>6, <2>1, <2>2, <2>3 DEF Check, BoundTo, End
  <2>4. CASE ~(work[s].objects = ExpectedSchema /\ BindingVerifies(work[s], Identity[s]))
    <3>1. ~BoundTo(work[s], Identity[s])
      BY <2>4 DEF BoundTo
    <3>2. file # EmptyFile /\ work[s] = file
      BY <2>1, <2>2, <3>1 DEF Forming
    <3> QED BY <1>6, <2>1, <2>4, <3>1, <3>2 DEF Check, End
  <2> QED BY <2>3, <2>4
<1>7. CASE Commit(s)
  BY <1>7 DEF Commit, Forming
<1>8. CASE Fail(s) \/ Die(s)
  BY <1>8 DEF Fail, Die, End
<1> QED BY <1>1, <1>2, <1>3, <1>4, <1>5, <1>6, <1>7, <1>8 DEF Step

LEMMA CustodyStep ==
    ASSUME CustodyInv, NEW s \in Starts, Step(s) \/ Die(s)
    PROVE  CustodyInv'
<1>1. CustodyTypeOK'
  BY CustodyTypeStep
<1>2. Faithful'
  BY OwnStep, StepShape, FileIsHeld DEF CustodyInv, Faithful
<1>3. Forming'
  BY OwnStep, StepShape, FileIsHeld DEF CustodyInv, Forming, Transacting
<1>4. Judged'
  <2>1. file' # file => file = EmptyFile /\ \E i : BoundTo(file', i) /\ i = Identity[s]
    BY StepShape
  <2>2. ASSUME NEW t \in Starts, t # s
        PROVE  /\ at'[t] = "admitted" => BoundTo(file', Identity[t])
               /\ at'[t] = "rejected" => file' # EmptyFile /\ ~BoundTo(file', Identity[t])
    BY <2>1, <2>2, StepShape, EmptyIsUnbound DEF CustodyInv, Judged, Bound
  <2> QED BY <2>2, OwnStep DEF Judged, Bound
<1>5. Tabled'
  BY StepShape DEF CustodyInv, Tabled, BoundTo, ExpectedSchema
<1> QED BY <1>1, <1>2, <1>3, <1>4, <1>5 DEF CustodyInv

LEMMA CustodyNext == CustodyInv /\ [Next]_vars => CustodyInv'
<1>1. CustodyInv /\ Next => CustodyInv'
  BY CustodyStep DEF Next
<1>2. CustodyInv /\ UNCHANGED vars => CustodyInv'
  BY DEF vars, CustodyInv, CustodyTypeOK, Faithful, Forming, Judged, Bound, Tabled
<1> QED BY <1>1, <1>2
-----------------------------------------------------------------------------
(* The rest of a start *)

\* Where a start is by its outcome.
Progress ==
    \A s \in Starts :
        /\ passed[s] \in 0..Len(Inputs)
        /\ outcome[s] = None /\ passed[s] # Len(Inputs) => at[s] = "idle"
        /\ outcome[s] \in {"configuration", "control", "host"} => at[s] = "idle"
        /\ outcome[s] = "serving" => passed[s] = Len(Inputs) /\ at[s] = "admitted"

StartupInv ==
    /\ CustodyInv /\ Progress
    /\ passed \in [Starts -> Nat] /\ outcome \in [Starts -> {None} \cup Ended]

\* Every input that is refused ends the start in one of these ways.
LEMMA ExitNames ==
    /\ Len(Inputs) = 5
    /\ \A n \in 0..4 : ExitOf[Inputs[n + 1]] \in {"configuration", "control", "host"}
<1>1. Len(Inputs) = 5
  BY DEF Inputs
<1>2. /\ Inputs[1] = "database" /\ Inputs[2] = "control" /\ Inputs[3] = "host"
      /\ Inputs[4] = "key" /\ Inputs[5] = "credentials"
  BY DEF Inputs
<1>3. \A n \in 0..4 : n + 1 \in {1, 2, 3, 4, 5}
  OBVIOUS
<1>4. \A i \in {1, 2, 3, 4, 5} : ExitOf[Inputs[i]] \in {"configuration", "control", "host"}
  BY <1>2 DEF ExitOf
<1> QED BY <1>1, <1>3, <1>4

LEMMA CustodyWithin ==
    ASSUME NEW s \in Starts,
           AdmitInput(s) \/ AdmitCustody(s) \/ FinishStart(s) \/ DieStarting(s) \/ StopServing(s)
    PROVE  Step(s) \/ Die(s) \/ UNCHANGED vars
BY DEF AdmitInput, AdmitCustody, FinishStart, DieStarting, StopServing

LEMMA CustodyRefined == [StartupNext]_allVars => [Next]_vars
BY CustodyWithin DEF StartupNext, Next, allVars

LEMMA StartupInitInv == StartupInit => StartupInv
<1> SUFFICES ASSUME StartupInit PROVE StartupInv
  OBVIOUS
<1>1. CustodyInv
  BY CustodyInit DEF StartupInit
<1>2. \A s \in Starts : at[s] = "idle" /\ passed[s] = 0 /\ outcome[s] = None
  BY DEF StartupInit, Init
<1>3. None \notin {"configuration", "control", "host", "serving"}
  BY StartupAssumption DEF Ended, Exits
<1> QED BY <1>1, <1>2, <1>3, ExitNames DEF StartupInit, StartupInv, Progress

LEMMA ProgressStep ==
    ASSUME StartupInv, NEW s \in Starts,
           AdmitInput(s) \/ AdmitCustody(s) \/ FinishStart(s) \/ DieStarting(s) \/ StopServing(s)
    PROVE  Progress' /\ passed' \in [Starts -> Nat] /\ outcome' \in [Starts -> {None} \cup Ended]
<1> USE ExitNames, StartupAssumption DEF StartupInv, Ends, Starting, Ended, Exits
<1>1. \A t \in Starts : t # s => at'[t] = at[t] /\ passed'[t] = passed[t] /\ outcome'[t] = outcome[t]
  <2>1. \A t \in Starts : t # s => at'[t] = at[t]
    BY CustodyWithin, StepShape DEF vars
  <2> QED BY <2>1 DEF AdmitInput, AdmitCustody, FinishStart, DieStarting, StopServing, startVars
<1>2. passed' \in [Starts -> Nat] /\ outcome' \in [Starts -> {None} \cup Ended]
  BY DEF AdmitInput, AdmitCustody, FinishStart, DieStarting, StopServing, startVars
<1>3. /\ passed'[s] \in 0..5
      /\ outcome'[s] = None /\ passed'[s] # 5 => at'[s] = "idle"
      /\ outcome'[s] \in {"configuration", "control", "host"} => at'[s] = "idle"
      /\ outcome'[s] = "serving" => passed'[s] = 5 /\ at'[s] = "admitted"
  <2>1. CASE AdmitInput(s)
    <3>1. outcome[s] = None /\ passed[s] \in 0..4 /\ at' = at /\ at[s] = "idle"
      BY <2>1 DEF AdmitInput, Progress, vars
    <3>2. ExitOf[Inputs[passed[s] + 1]] \in {"configuration", "control", "host"}
      BY <3>1
    <3>3. \/ passed'[s] = passed[s] + 1 /\ outcome'[s] = None
          \/ /\ passed'[s] = passed[s]
             /\ outcome'[s] = ExitOf[Inputs[passed[s] + 1]]
      BY <2>1, <3>1 DEF AdmitInput
    <3> QED BY <3>1, <3>2, <3>3
  <2>2. CASE AdmitCustody(s)
    BY <2>2 DEF AdmitCustody, ReadyForCustody, startVars, Progress
  <2>3. CASE FinishStart(s)
    BY <2>3 DEF FinishStart, Usable, vars, Progress
  <2>4. CASE DieStarting(s)
    BY <2>4 DEF DieStarting, Progress
  <2>5. CASE StopServing(s)
    BY <2>5 DEF StopServing, Progress
  <2> QED BY <2>1, <2>2, <2>3, <2>4, <2>5
<1> QED BY <1>1, <1>2, <1>3 DEF Progress

LEMMA StartupInvHolds == StartupSpec => []StartupInv
<1>1. StartupInv /\ [StartupNext]_allVars => StartupInv'
  <2>1. StartupInv /\ StartupNext => StartupInv'
    BY ProgressStep, CustodyRefined, CustodyNext DEF StartupInv, StartupNext
  <2>2. StartupInv /\ UNCHANGED allVars => StartupInv'
    BY CustodyNext DEF StartupInv, Progress, allVars, startVars, vars
  <2> QED BY <2>1, <2>2
<1> QED BY <1>1, StartupInitInv, PTL DEF StartupSpec

(***************************************************************************)
(* Types; the lock belongs to the one start that is inside its transaction.*)
(***************************************************************************)
THEOREM StartsAreTyped == StartupSpec => []StartupTypeOK
<1>1. StartupInv => StartupTypeOK
  BY DEF StartupInv, CustodyInv, Progress, StartupTypeOK
<1> QED BY <1>1, StartupInvHolds, PTL

(***************************************************************************)
(* Whoever was admitted serves a database bound to its own provider and    *)
(* key, and all who were admitted are one provider: for any starts, on any *)
(* file, with failures and deaths at any statement of custody.py.          *)
(***************************************************************************)
THEOREM AdmissionIsExclusive == StartupSpec => []AdmittedServesItsOwn
<1>1. StartupInv => AdmittedServesItsOwn
  BY OneIdentity DEF StartupInv, CustodyInv, Judged, Bound, BoundTo, BindingVerifies,
     AdmittedServesItsOwn
<1> QED BY <1>1, StartupInvHolds, PTL

(***************************************************************************)
(* No start is rejected by an empty database or by one bound to it, so     *)
(* neither a crash nor a race locks a provider out of its own database.    *)
(***************************************************************************)
THEOREM RejectionIsDeserved == StartupSpec => []RejectedByAnother
<1>1. StartupInv => RejectedByAnother
  BY DEF StartupInv, CustodyInv, Judged, Bound, RejectedByAnother
<1> QED BY <1>1, StartupInvHolds, PTL

(***************************************************************************)
(* A start that exits over an input has not touched the database, and what *)
(* is served has passed everything and is still bound to its database.     *)
(***************************************************************************)
THEOREM RefusalsLeaveNoTrace == StartupSpec => []RefusedStartsLeaveNoTrace
<1>1. StartupInv => RefusedStartsLeaveNoTrace
  BY DEF StartupInv, CustodyInv, Progress, Judged, Bound, RefusedStartsLeaveNoTrace
<1> QED BY <1>1, StartupInvHolds, PTL

(***************************************************************************)
(* The file changes at most once, from empty to schema and binding of the  *)
(* start that commits.                                                     *)
(***************************************************************************)
THEOREM DatabaseIsFormedAtOnce == StartupSpec => FormedAtOnce
<1> DEFINE Formed ==
      file' # file =>
         /\ file = EmptyFile
         /\ file'.objects = {"store", "audit", "binding"}
         /\ \E s \in Starts :
              /\ at[s] = "committing"
              /\ file'.rows = {[column |-> Identity[s].provider, sealed |-> Identity[s]]}
<1>1. StartupInv /\ [StartupNext]_allVars => [Formed]_vars
  <2> SUFFICES ASSUME StartupInv, [Next]_vars, file' # file PROVE Formed
    BY CustodyRefined DEF vars
  <2>1. PICK s \in Starts : Step(s) \/ Die(s)
    BY DEF Next, vars
  <2> QED BY <2>1, StepShape DEF StartupInv, BoundTo, BindingVerifies, ExpectedSchema
<1> QED BY <1>1, StartupInvHolds, PTL DEF StartupSpec, FormedAtOnce
-----------------------------------------------------------------------------
(* Refinement *)

LEMMA IdentityOfFile ==
    /\ file = EmptyFile => FileIdentity = None
    /\ \A s \in Starts : Bound(s) => FileIdentity = Identity[s]
    /\ FileIdentity \in Identities \cup {None, Foreign}
<1>1. file = EmptyFile => FileIdentity = None
  BY DEF FileIdentity
<1>2. ASSUME NEW s \in Starts, Bound(s) PROVE FileIdentity = Identity[s]
  <2>1. file # EmptyFile /\ Identity[s] \in Identities
    BY <1>2, EmptyIsUnbound, CustodyAssumption DEF Bound
  <2>2. FileIdentity = CHOOSE id \in Identities : BoundTo(file, id)
    BY <1>2, <2>1 DEF FileIdentity, Bound
  <2>3. BoundTo(file, FileIdentity)
    BY <1>2, <2>1, <2>2 DEF Bound
  <2> QED BY <1>2, <2>3, OneIdentity DEF Bound
<1>3. FileIdentity \in Identities \cup {None, Foreign}
  BY DEF FileIdentity
<1> QED BY <1>1, <1>2, <1>3

\* The identity of a database changes with the file only, when it is formed.
LEMMA IdentityStep ==
    ASSUME StartupInv, StartupInv', [Next]_vars
    PROVE  \/ FileIdentity' = FileIdentity
           \/ \E s \in Starts : FileIdentity = None /\ FileIdentity' = Identity[s] /\ Next
<1>1. CASE file' = file
  <2> QED BY <1>1 DEF FileIdentity
<1>2. CASE file' # file
  <2>1. PICK s \in Starts : Step(s) \/ Die(s)
    BY <1>2 DEF Next, vars
  <2>2. file = EmptyFile /\ Bound(s)'
    BY <1>2, <2>1, StepShape DEF StartupInv, Bound
  <2>3. FileIdentity = None
    BY <2>2, IdentityOfFile
  <2>4. FileIdentity' = Identity[s]
    <3>1. file' # EmptyFile /\ Identity[s] \in Identities
      BY <2>2, EmptyIsUnbound, CustodyAssumption DEF Bound
    <3>2. FileIdentity' = CHOOSE id \in Identities : BoundTo(file', id)
      BY <2>2, <3>1 DEF FileIdentity, Bound
    <3>3. BoundTo(file', FileIdentity')
      BY <2>2, <3>1, <3>2 DEF Bound
    <3> QED BY <2>2, <3>3, OneIdentity DEF Bound
  <2> QED BY <2>1, <2>3, <2>4 DEF Next
<1> QED BY <1>1, <1>2

Serving == {s \in Starts : outcome[s] = "serving"}

LEMMA StartImplements ==
    ASSUME StartupInv, StartupInv', [StartupNext]_allVars
    PROVE  [P!Next]_<<FileIdentity, Serving>>
<1>1. CASE UNCHANGED allVars
  BY <1>1 DEF allVars, startVars, vars, FileIdentity, Serving
<1>2. ASSUME NEW s \in Starts, AdmitCustody(s) \/ DieStarting(s)
      PROVE  [P!Next]_<<FileIdentity, Serving>>
  <2>1. Serving' = Serving
    BY <1>2, StartupAssumption
    DEF AdmitCustody, DieStarting, Starting, Ends, startVars, Serving, StartupInv, Ended
  <2>2. [Next]_vars
    BY <1>2, CustodyWithin DEF Next
  <2>3. CASE FileIdentity' = FileIdentity
    BY <2>1, <2>3
  <2>4. CASE FileIdentity' # FileIdentity
    BY <2>1, <2>2, <2>4, IdentityStep DEF P!Next, P!Choose, Serving
  <2> QED BY <2>3, <2>4
<1>3. ASSUME NEW s \in Starts, AdmitInput(s) PROVE UNCHANGED <<FileIdentity, Serving>>
  <2>1. FileIdentity' = FileIdentity
    BY <1>3 DEF AdmitInput, vars, FileIdentity
  <2>2. outcome[s] = None /\ outcome'[s] # "serving"
    BY <1>3, ExitNames, StartupAssumption
    DEF AdmitInput, Starting, Ends, Ended, StartupInv, Progress
  <2>3. \A t \in Starts : t # s => outcome'[t] = outcome[t]
    BY <1>3 DEF AdmitInput, Ends, StartupInv
  <2> QED BY <2>1, <2>2, <2>3, StartupAssumption DEF Serving, Ended
<1>4. ASSUME NEW s \in Starts, FinishStart(s) PROVE [P!Next]_<<FileIdentity, Serving>>
  <2>1. FileIdentity' = FileIdentity
    BY <1>4 DEF FinishStart, vars, FileIdentity
  <2>2. CASE Usable(s)
    <3>1. FileIdentity = Identity[s]
      BY <2>2, IdentityOfFile DEF Usable, StartupInv, CustodyInv, Judged
    <3>2. Serving' = Serving \cup {s}
      BY <1>4, <2>2 DEF FinishStart, Ends, Serving, StartupInv
    <3> QED BY <2>1, <3>1, <3>2 DEF P!Next, P!Serve, Serving
  <2>3. CASE ~Usable(s)
    <3>1. Serving' = Serving
      BY <1>4, <2>3, StartupAssumption
      DEF FinishStart, Ends, Starting, Serving, StartupInv, Ended
    <3> QED BY <2>1, <3>1
  <2> QED BY <2>2, <2>3
<1>5. ASSUME NEW s \in Starts, StopServing(s) PROVE [P!Next]_<<FileIdentity, Serving>>
  <2>1. FileIdentity' = FileIdentity
    BY <1>5 DEF StopServing, vars, FileIdentity
  <2>2. Serving' = Serving \ {s}
    BY <1>5 DEF StopServing, Ends, Serving, StartupInv
  <2> QED BY <2>1, <2>2 DEF P!Next, P!Stop, Serving
<1> QED BY <1>1, <1>2, <1>3, <1>4, <1>5 DEF StartupNext

(***************************************************************************)
(* Overlapping starts of any number, with failures and deaths, implement   *)
(* one choice of an identity: no other ever serves the database.           *)
(***************************************************************************)
THEOREM StartsImplementIdentity == StartupSpec => ImplementsIdentity
<1>1. StartupInit => P!Init
  <2> SUFFICES ASSUME StartupInit PROVE P!Init
    OBVIOUS
  <2>1. Serving = {}
    BY StartupAssumption DEF StartupInit, Serving, Ended
  <2> QED BY <2>1, IdentityOfFile DEF P!Init, Serving
<1>2. StartupInv /\ StartupInv' /\ [StartupNext]_allVars => [P!Next]_<<FileIdentity, Serving>>
  BY StartImplements
<1> QED BY <1>1, <1>2, StartupInvHolds, PTL DEF StartupSpec, ImplementsIdentity, P!Spec, Serving
=============================================================================
