---------------------------- MODULE Transactions ----------------------------
(***************************************************************************)
(* Abstract: what SecretStore and ProviderApi take for granted about the   *)
(* database.  A request changes the tables at one moment, working on what  *)
(* they hold at that moment, and its audit record is written with the      *)
(* change or after it.                                                     *)
(***************************************************************************)
EXTENDS Naturals

CONSTANT Requests

VARIABLES
    revision,   \* the contents of the store's tables, counted in changes
    wrote,      \* the revision each request made, 0 if none
    records     \* the requests with an audit record

vars == <<revision, wrote, records>>

Init ==
    /\ revision = 0
    /\ wrote = [r \in Requests |-> 0]
    /\ records = {}

\* The change of r is made from the revision that it replaces.
Change(r) ==
    /\ wrote[r] = 0 /\ r \notin records
    /\ revision' = revision + 1
    /\ wrote' = [wrote EXCEPT ![r] = revision + 1]

Record(r) ==
    /\ r \notin records
    /\ records' = records \cup {r}
    /\ UNCHANGED <<revision, wrote>>

Next == \E r \in Requests :
    \/ Change(r) /\ records' \in {records, records \cup {r}}
    \/ Record(r)

Spec == Init /\ [][Next]_vars
=============================================================================
