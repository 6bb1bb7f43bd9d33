------------------------ MODULE BootstrapCredentials ------------------------
(***************************************************************************)
(* The credentials document a start loads (bootstrap.py), and the bearer   *)
(* tokens clients then present (auth.py, authenticate).                    *)
(*                                                                         *)
(* A text is a word with the form that the rules look at.                  *)
(***************************************************************************)
EXTENDS Naturals, Sequences, FiniteSets

CONSTANTS
    Words,
    Environments,   \* the settings a start may find, with the document named
    None

Forms == {"clean", "padded", "accented", "control", "blank", "not-a-string"}

Text == [word: Words, form: Forms]

Plain(word) == [word |-> word, form |-> "clean"]
AnyText == Plain("*")

\* Of a JSON object: "ok", or what is wrong with it.
Shapes == {"ok", "not-an-object", "unknown-field", "repeated-key"}

\* None stands for an absent field, "list" for whether the value is one.
GrantItem ==
    [shape: Shapes, action: Text \cup {None}, ws: Text \cup {None},
     intents: {None} \cup [list: BOOLEAN, items: SUBSET Text]]

Item(i) ==
    /\ i.shape \in Shapes
    /\ {i.subject, i.token} \subseteq Text \cup {None}
    /\ i.grants # None => i.grants.list \in BOOLEAN /\ i.grants.items \subseteq GrantItem

\* A payload that is too long, not UTF-8, not JSON or not an array is no list.
Environment(e) ==
    /\ e.file \in {None, "empty", "named"} /\ e.readable \in BOOLEAN
    /\ e.development \in {None, "empty", "json"}
    /\ e.list \in BOOLEAN
    /\ Len(e.items) \in Nat /\ DOMAIN e.items = 1..Len(e.items)
    /\ \A n \in DOMAIN e.items : Item(e.items[n])

ASSUME CredentialsAssumption == "*" \in Words /\ \A e \in Environments : Environment(e)

VARIABLES
    environment,
    stage,          \* "starting", "loaded" or "rejected"
    credentials

vars == <<environment, stage, credentials>>

Init ==
    /\ environment \in Environments
    /\ stage = "starting"
    /\ credentials = <<>>
-----------------------------------------------------------------------------
(* The rules of the document *)

LawfulText(t) == t # None /\ t.form \notin {"control", "blank", "not-a-string"}

\* Mutant: a token is a text like any other.
AnyLawfulText(t) == LawfulText(t)

LawfulToken(t) == LawfulText(t) /\ t.form \notin {"padded", "accented"}

LawfulGrant(g) ==
    /\ g.shape = "ok"
    /\ LawfulText(g.action) /\ LawfulText(g.ws)
    /\ g.intents # None => g.intents.list /\ \A t \in g.intents.items : LawfulText(t)

LawfulItem(i) ==
    /\ i.shape = "ok"
    /\ LawfulText(i.subject) /\ LawfulToken(i.token)
    /\ i.grants # None => i.grants.list /\ \A g \in i.grants.items : LawfulGrant(g)

DistinctTokens(items) ==
    Cardinality({items[n].token : n \in DOMAIN items}) = Len(items)

LawfulDocument(e) ==
    /\ e.list
    /\ \A n \in DOMAIN e.items : LawfulItem(e.items[n])
    /\ DistinctTokens(e.items)

\* Mutant: absent intents are no intents.
NoIntents(g) == IF g.intents = None THEN {} ELSE g.intents.items

IntentsOf(g) == IF g.intents = None THEN {AnyText} ELSE g.intents.items

GrantOf(g) == [action |-> g.action, ws |-> g.ws, intents |-> IntentsOf(g)]

CredentialOf(i) ==
    [subject |-> i.subject, token |-> i.token,
     grants |-> IF i.grants = None THEN {} ELSE {GrantOf(g) : g \in i.grants.items}]

\* Exactly one setting is nonempty; an empty file setting is still a file.
Source(e) ==
    IF (e.file = "named") = (e.development = "json") THEN "none"
    ELSE IF e.file # None THEN "file" ELSE "development"

Loadable(e) ==
    \/ Source(e) = "file" /\ e.file = "named" /\ e.readable /\ LawfulDocument(e)
    \/ Source(e) = "development" /\ LawfulDocument(e)

Load ==
    /\ stage = "starting"
    /\ \/ /\ Loadable(environment)
          /\ stage' = "loaded"
          /\ credentials' = [n \in DOMAIN environment.items |->
                               CredentialOf(environment.items[n])]
       \/ ~Loadable(environment) /\ stage' = "rejected" /\ UNCHANGED credentials
    /\ UNCHANGED environment

Spec == Init /\ [][Load]_vars
-----------------------------------------------------------------------------
(* The loaded credentials in use *)

Auth == INSTANCE ProviderAuth WITH
    Credentials <- credentials, Unstated <- None, Wildcard <- AnyText,
    NonAscii <- {t \in Text : t.form = "accented"}

\* What authenticate makes of "Bearer " and this text: strip() takes the
\* white space off its ends.
Presented(t) == IF t.form = "padded" THEN [t EXCEPT !.form = "clean"] ELSE t

(***************************************************************************)
(* Every credential that a document is loaded with can be used: presenting *)
(* its token authenticates as it and as no other, whatever else is in the  *)
(* document, and no credential makes the presentation of any ASCII text    *)
(* fail with an error.                                                     *)
(***************************************************************************)
EachTokenIsItsOwnKey ==
    /\ \A n \in DOMAIN credentials :
         LET token == Presented(credentials[n].token) IN
         Auth!Authenticated(token) /\ Auth!First(token) = n
    /\ \A t \in Text :
         Presented(t).form # "accented" => ~Auth!AuthenticateRaises(Presented(t))

\* README.md:99-105, of one grant of the document.
Documented(g, action, ws, intent) ==
    /\ g.action = action
    /\ g.ws \in {AnyText, ws}
    /\ intent # None /\ g.intents # None => {AnyText, intent} \cap g.intents.items # {}

(***************************************************************************)
(* What may be done with a loaded token is what the one configured source  *)
(* says: absent grants are none, absent intents are all, empty intents     *)
(* leave the actions without an intent, and a source that is set to the    *)
(* empty text never gives way to the other one.                            *)
(***************************************************************************)
LoadedAsConfigured ==
    stage = "loaded" =>
        /\ environment.file = "named" => environment.development # "json"
        /\ environment.file # "named" => environment.file = None
        /\ Len(credentials) = Len(environment.items)
        /\ \A n \in DOMAIN credentials, action, ws \in {Plain(w) : w \in Words},
              intent \in {None} \cup {Plain(w) : w \in Words \ {"*"}} :
             Auth!Require(credentials[n], action, ws, intent) <=>
               /\ environment.items[n].grants # None
               /\ \E g \in environment.items[n].grants.items : Documented(g, action, ws, intent)
=============================================================================
