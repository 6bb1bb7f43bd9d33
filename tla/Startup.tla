------------------------------- MODULE Startup -------------------------------
(***************************************************************************)
(* A start of the provider process, from its environment to an application *)
(* that is served (server.py, app_from_environment; api.py, the beginning  *)
(* and the end of create_app), over the admission of the database that it  *)
(* shares with other starts (Custody).                                     *)
(*                                                                         *)
(* Whether an input is lawful is found out when it is looked at: the files *)
(* are external.  The process may die anywhere, and while it serves.       *)
(***************************************************************************)
EXTENDS Custody, Sequences, Naturals

CONSTANT Foreign    \* stands for the identity of a database that admits nobody


VARIABLES
    passed,     \* how many of its inputs each start has admitted
    outcome     \* None while it starts; "serving", "stopped" or how it exited

startVars == <<passed, outcome>>
allVars == <<vars, startVars>>

\* The path of the database is only looked up here; the host is the FastAPI
\* application with the SDK's routes installed on it.
Inputs == <<"database", "control", "host", "key", "credentials">>

\* What is wrong with it when an input is refused.
ExitOf ==
    [database |-> "configuration", control |-> "control", host |-> "host",
     key |-> "configuration", credentials |-> "configuration"]

Exits == {"configuration", "control", "host", "custody"}

Ended == {"serving", "stopped"} \cup Exits

ASSUME StartupAssumption ==
    /\ Foreign \notin Identities \cup {None}
    /\ None \notin Ended

StartupTypeOK ==
    /\ CustodyTypeOK
    /\ passed \in [Starts -> 0..Len(Inputs)]
    /\ outcome \in [Starts -> {None} \cup Ended]

StartupInit ==
    /\ Init
    /\ passed = [s \in Starts |-> 0]
    /\ outcome = [s \in Starts |-> None]

Starting(s) == outcome[s] = None

Ends(s, o) == outcome' = [outcome EXCEPT ![s] = o]

\* The next input is admitted, or the start exits.
AdmitInput(s) ==
    /\ Starting(s) /\ passed[s] < Len(Inputs)
    /\ \/ passed' = [passed EXCEPT ![s] = @ + 1] /\ UNCHANGED outcome
       \/ Ends(s, ExitOf[Inputs[passed[s] + 1]]) /\ UNCHANGED passed
    /\ UNCHANGED vars

\* Mutant: custody is opened before the private files have been read.
HostAdmitted(s) == passed[s] >= 3

ReadyForCustody(s) == passed[s] = Len(Inputs)

AdmitCustody(s) ==
    /\ Starting(s) /\ ReadyForCustody(s)
    /\ Step(s)
    /\ UNCHANGED startVars

\* Mutant: an unavailable database does not stop the start.
NotRejected(s) == at[s] \in {"admitted", "unavailable"}

Usable(s) == at[s] = "admitted"

\* initialize_provider returns and create_app does, or its exception ends it.
FinishStart(s) ==
    /\ Starting(s) /\ at[s] \in {"admitted", "rejected", "unavailable"}
    /\ Ends(s, IF Usable(s) THEN "serving" ELSE "custody")
    /\ UNCHANGED <<vars, passed>>

\* The process dies before it has opened the database, in its admission, or
\* after it was admitted.
DieStarting(s) ==
    /\ Starting(s)
    /\ Ends(s, "stopped")
    /\ UNCHANGED passed
    /\ \/ Die(s)
       \/ at[s] \in {"idle", "admitted"} /\ UNCHANGED vars

StopServing(s) == outcome[s] = "serving" /\ Ends(s, "stopped") /\ UNCHANGED <<vars, passed>>

StartupNext == \E s \in Starts :
    \/ AdmitInput(s) \/ AdmitCustody(s) \/ FinishStart(s)
    \/ DieStarting(s) \/ StopServing(s)

StartupSpec == StartupInit /\ [][StartupNext]_allVars
-----------------------------------------------------------------------------
(* Properties *)

(***************************************************************************)
(* A start that exits over its database setting, the public control, the   *)
(* host or a private file has not opened the database, so that a wrong     *)
(* deployment cannot bind it; and what is served has its key, credentials  *)
(* and custody, and a database that is still bound to it.                  *)
(***************************************************************************)
RefusedStartsLeaveNoTrace ==
    \A s \in Starts :
        /\ outcome[s] \in {"configuration", "control", "host"} => at[s] = "idle"
        /\ outcome[s] = "serving" => passed[s] = Len(Inputs) /\ BoundTo(file, Identity[s])

FileIdentity ==
    IF file = EmptyFile THEN None
    ELSE IF \E id \in Identities : BoundTo(file, id)
    THEN CHOOSE id \in Identities : BoundTo(file, id)
    ELSE Foreign

P == INSTANCE ProviderIdentity WITH
    chosen <- FileIdentity,
    serving <- {s \in Starts : outcome[s] = "serving"}

(***************************************************************************)
(* Starts that overlap, fail and die at any statement implement a choice of*)
(* the identity that is made once and holds for everything that is served. *)
(***************************************************************************)
ImplementsIdentity == P!Spec
=============================================================================
