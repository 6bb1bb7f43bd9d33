--------------------- MODULE BootstrapCredentialsProofs ---------------------
(***************************************************************************)
(* Theorems about the credentials document (BootstrapCredentials.tla), for *)
(* any settings and any document, however long and whatever its texts.     *)
(*                                                                         *)
(* The document's rules give every item a clean token of its own: the      *)
(* comparison with a presented text then never fails, and at most one      *)
(* credential can end the loop of authenticate.                            *)
(***************************************************************************)
EXTENDS BootstrapCredentials, FiniteSetTheorems, TLAPS

\* What was loaded is the document of the environment, and that is loadable.
CredentialsInv ==
    /\ environment \in Environments
    /\ stage \in {"starting", "loaded", "rejected"}
    /\ stage # "loaded" => credentials = <<>>
    /\ stage = "loaded" =>
         /\ Loadable(environment)
         /\ credentials = [n \in DOMAIN environment.items |-> CredentialOf(environment.items[n])]

\* A start loads at most once, and only what is loadable.
LEMMA CredentialsInvHolds == Spec => []CredentialsInv
<1>1. Init => CredentialsInv
    BY DEF Init, CredentialsInv
<1>2. CredentialsInv /\ [Load]_vars => CredentialsInv'
    BY DEF CredentialsInv, Load, vars, Loadable
<1> QED
    BY <1>1, <1>2, PTL DEF Spec
-----------------------------------------------------------------------------
(* What the rules of the document give *)

\* As many tokens as items: no token occurs twice.
LEMMA TokensDiffer ==
    ASSUME NEW items, Len(items) \in Nat, DOMAIN items = 1..Len(items), DistinctTokens(items),
           NEW i \in DOMAIN items, NEW j \in DOMAIN items, items[i].token = items[j].token
    PROVE  i = j
<1> DEFINE S == DOMAIN items
           T == {items[n].token : n \in S}
           f == [n \in S |-> items[n].token]
<1>1. IsFiniteSet(S) /\ Cardinality(S) = Len(items)
  <2> DEFINE k == Len(items)
  <2>1. k \in Nat /\ S = 1..k
      OBVIOUS
  <2> HIDE DEF k, S
  <2>2. IsFiniteSet(1..k) /\ Cardinality(1..k) = k
      BY <2>1, FS_Interval
  <2> QED
      BY <2>1, <2>2 DEF k
<1>2. f \in Surjection(S, T)
    BY DEF Surjection
<1>3. Cardinality(T) = Cardinality(S)
    BY <1>1 DEF DistinctTokens
<1>4. f \in Injection(S, T)
  <2> HIDE DEF f, T, S
  <2> QED
      BY <1>1, <1>2, <1>3, FS_Surjection
<1>5. f[i] = f[j]
    OBVIOUS
<1> QED
    BY <1>4, <1>5 DEF Injection, IsInjective

\* A lawful token is a clean text.
LEMMA TokensAreClean ==
    ASSUME NEW i, Item(i), LawfulItem(i)
    PROVE  i.token \in Text /\ i.token # None /\ i.token.form = "clean"
BY DEF Item, LawfulItem, LawfulToken, LawfulText, Text, Forms

\* The loaded credentials: one for each item, with clean tokens that differ.
LEMMA LoadedTokens ==
    ASSUME CredentialsInv
    PROVE  /\ \A n \in DOMAIN credentials :
                /\ credentials[n].token \in Text /\ credentials[n].token # None
                /\ credentials[n].token.form = "clean"
           /\ \A m, n \in DOMAIN credentials :
                credentials[m].token = credentials[n].token => m = n
<1>1. CASE stage # "loaded"
  <2>1. credentials = <<>> /\ DOMAIN credentials = {}
      BY <1>1 DEF CredentialsInv
  <2> QED
      BY <2>1
<1>2. CASE stage = "loaded"
  <2> DEFINE items == environment.items
  <2>1. Environment(environment)
      BY CredentialsAssumption DEF CredentialsInv
  <2>2. LawfulDocument(environment) /\ credentials = [n \in DOMAIN items |-> CredentialOf(items[n])]
      BY <1>2 DEF CredentialsInv, Loadable
  <2>3. \A n \in DOMAIN items : credentials[n].token = items[n].token
      BY <2>2 DEF CredentialOf
  <2>4. \A n \in DOMAIN items : Item(items[n]) /\ LawfulItem(items[n])
      BY <2>1, <2>2 DEF Environment, LawfulDocument
  <2>5. \A m, n \in DOMAIN items : items[m].token = items[n].token => m = n
      BY <2>1, <2>2, TokensDiffer DEF Environment, LawfulDocument
  <2>6. DOMAIN credentials = DOMAIN items
      BY <2>2
  <2> HIDE DEF items
  <2> QED
      BY <2>3, <2>4, <2>5, <2>6, TokensAreClean
<1> QED
    BY <1>1, <1>2

\* At most one credential ends the loop of authenticate for an ASCII text: the
\* one that holds it as its token.
LEMMA OneIsDecisive ==
    ASSUME CredentialsInv, NEW t \in Text, t.form # "accented"
    PROVE  /\ \A i \in DOMAIN credentials : Auth!Comparable(i, t)
           /\ \A i \in Auth!Decisive(t) : i \in DOMAIN credentials /\ credentials[i].token = t
           /\ \A i \in Auth!Decisive(t) : Auth!Decisive(t) = {i} /\ Auth!First(t) = i
<1>1. \A i \in DOMAIN credentials : Auth!Comparable(i, t)
    BY LoadedTokens DEF Auth!Comparable
<1>2. \A i \in Auth!Decisive(t) : i \in DOMAIN credentials /\ credentials[i].token = t
    BY <1>1 DEF Auth!Decisive
<1>3. ASSUME NEW i \in Auth!Decisive(t) PROVE Auth!Decisive(t) = {i} /\ Auth!First(t) = i
  <2>1. Auth!Decisive(t) = {i}
      BY <1>2, <1>3, LoadedTokens
  <2>2. i \in Nat
    <3>1. Environment(environment)
        BY CredentialsAssumption DEF CredentialsInv
    <3> QED
        BY <1>2, <1>3, <3>1 DEF CredentialsInv, Environment
  <2>3. i <= i
      BY <2>2
  <2> QED
      BY <2>1, <2>3 DEF Auth!First
<1> QED
    BY <1>1, <1>2, <1>3
-----------------------------------------------------------------------------
(* The theorems *)

\* Presenting the token of any loaded credential authenticates as that
\* credential and no other, and no ASCII text makes authenticate fail with an
\* error (load_bootstrap_credentials and ProviderAuthorizer.authenticate).
THEOREM TokensAreKeys == Spec => []EachTokenIsItsOwnKey
<1>1. ASSUME CredentialsInv PROVE EachTokenIsItsOwnKey
  <2>1. ASSUME NEW n \in DOMAIN credentials
        PROVE  LET token == Presented(credentials[n].token) IN
               Auth!Authenticated(token) /\ Auth!First(token) = n
    <3> DEFINE token == credentials[n].token
    <3>1. token \in Text /\ token # None /\ token.form = "clean"
        BY <1>1, LoadedTokens
    <3>2. Presented(token) = token
        BY <3>1 DEF Presented
    <3>3. n \in Auth!Decisive(token)
        BY DEF Auth!Decisive
    <3>4. Auth!First(token) = n /\ Auth!Comparable(n, token)
        BY <1>1, <3>1, <3>3, OneIsDecisive
    <3>5. Auth!Authenticated(token)
        BY <3>1, <3>3, <3>4 DEF Auth!Authenticated
    <3> QED
        BY <3>2, <3>4, <3>5
  <2>2. ASSUME NEW t \in Text, Presented(t).form # "accented"
        PROVE  ~Auth!AuthenticateRaises(Presented(t))
    <3>1. Presented(t) \in Text
        BY DEF Presented, Text, Forms
    <3> QED
        BY <1>1, <2>2, <3>1, OneIsDecisive DEF Auth!AuthenticateRaises
  <2> QED
      BY <2>1, <2>2 DEF EachTokenIsItsOwnKey
<1> QED
    BY <1>1, CredentialsInvHolds, PTL

\* A loaded grant permits what the grant of the document says.
LEMMA GrantIsDocumented ==
    ASSUME NEW g, NEW action, NEW ws, NEW intent
    PROVE  Auth!Permits(GrantOf(g), action, ws, intent) <=> Documented(g, action, ws, intent)
BY DEF Auth!Permits, GrantOf, IntentsOf, Documented

\* What may be done with a loaded token is what the configured source says: no
\* grant is added or lost on the way, and the empty setting never gives way.
THEOREM DocumentIsAuthority == Spec => []LoadedAsConfigured
<1>1. ASSUME CredentialsInv, stage = "loaded" PROVE LoadedAsConfigured
  <2> DEFINE items == environment.items
  <2>1. Environment(environment) /\ Loadable(environment)
      BY <1>1, CredentialsAssumption DEF CredentialsInv
  <2>2. credentials = [n \in DOMAIN items |-> CredentialOf(items[n])]
      BY <1>1 DEF CredentialsInv
  <2>3. /\ environment.file = "named" => environment.development # "json"
        /\ environment.file # "named" => environment.file = None
      BY <2>1 DEF Loadable, Source
  <2>4. Len(items) \in Nat /\ DOMAIN items = 1..Len(items)
      BY <2>1 DEF Environment
  <2>5. Len(credentials) = Len(items)
      BY <2>2, <2>4
  <2>6. ASSUME NEW n \in DOMAIN credentials, NEW action, NEW ws, NEW intent
        PROVE  Auth!Require(credentials[n], action, ws, intent) <=>
                 /\ items[n].grants # None
                 /\ \E g \in items[n].grants.items : Documented(g, action, ws, intent)
    <3>1. credentials[n].grants =
            IF items[n].grants = None THEN {} ELSE {GrantOf(g) : g \in items[n].grants.items}
        BY <2>2 DEF CredentialOf
    <3> HIDE DEF items
    <3>2. CASE items[n].grants = None
        BY <3>1, <3>2 DEF Auth!Require
    <3>3. CASE items[n].grants # None
        BY <3>1, <3>3, GrantIsDocumented DEF Auth!Require
    <3> QED
        BY <3>2, <3>3
  <2> QED
      BY <2>3, <2>5, <2>6 DEF LoadedAsConfigured
<1>2. CredentialsInv => LoadedAsConfigured
    BY <1>1 DEF LoadedAsConfigured
<1> QED
    BY <1>2, CredentialsInvHolds, PTL
=============================================================================
