----------------------------- MODULE SetupProofs -----------------------------
(***************************************************************************)
(* Theorems about Config and Wizard, for every set of accounts, owners,      *)
(* agents, data dirs and paths, every sequence of bindings, and every length *)
(* of the wizard's queue.                                                  *)
(***************************************************************************)
EXTENDS Config, Wizard, FiniteSetTheorems, FunctionTheorems, SequenceTheorems, TLAPS

\* The types of everything but the bindings.
Typed ==
  /\ installed \in BOOLEAN
  /\ keys \in [Accounts -> KeySets]
  /\ block \subseteq Accounts
  /\ owner \in [Accounts -> Owners \cup {None}]
  /\ scope \in [Accounts -> Scopes]
  /\ grants \subseteq Owners
  /\ at \in [Doors -> Accounts \cup {None}]
  /\ dials \in [Doors -> Identities \cup {None}]
  /\ \A d \in Doors : at[d] # None => dials[d] \in Identities
  /\ edited \subseteq Doors
  /\ minted \in [Accounts -> Identities \cup {None}]

-----------------------------------------------------------------------------
(* The identity of the device host.                                        *)

\* Keys and a data dir lay out an identity.
LEMMA LayoutType ==
  ASSUME NEW where \in {"user", "system"}, NEW d \in Dirs, NEW k \in Keys
  PROVE  Layout(where, d, k) \in Identities
BY DEF Layout, Identities, Given, Sock, Socks, Keys

\* Whatever is recorded, the keys resolve to an identity.
LEMMA IdentityType ==
  ASSUME NEW k \in KeySets, NEW recorded \in Scopes
  PROVE  resolveDaemonIdentity(k, recorded) \in Identities
<1>1. k \in Keys /\ NoKeys \in Keys /\ {"user", "system"} \subseteq Dirs
  BY KeysAssumption, DirsAssumption
<1>2. Given(k.dir, "user") \in Dirs
  BY <1>1 DEF Given, Keys
<1>3. QED
  BY <1>1, <1>2, LayoutType DEF resolveDaemonIdentity

\* Once the scope is recorded, the machine is not looked at any more.
LEMMA RecordedStays ==
  ASSUME NEW k \in KeySets, NEW recorded \in {"user", "system"}
  PROVE  resolveDaemonIdentity(k, recorded)' = resolveDaemonIdentity(k, recorded)
BY DEF resolveDaemonIdentity

\* The scope that is recorded resolves to the identity it was taken from.
LEMMA RecordedSame ==
  ASSUME NEW k \in KeySets
  PROVE  LET i == resolveDaemonIdentity(k, "none")
         IN  resolveDaemonIdentity(k, i.scope) = i
BY DEF resolveDaemonIdentity, Layout

-----------------------------------------------------------------------------
(* An account stays on the host that minted its token.                      *)

\* A token's account has its scope recorded and resolves to its host; what an open door
\* dials is what it would write, unless the paths were edited.
HostInv ==
  /\ \A a \in Accounts :
       minted[a] # None => /\ scope[a] \in {"user", "system"}
                           /\ Identity(a) = minted[a]
  /\ \A d \in Doors :
       at[d] # None /\ d \notin edited =>
         /\ dials[d].scope \in {"user", "system"}
         /\ resolveDaemonIdentity(keys[at[d]], dials[d].scope) = dials[d]

\* Only accounts in the config name an owner.
OwnedInv == \A a \in Accounts : owner[a] # None => a \in block

ConfigInv == Typed /\ HostInv /\ OwnedInv

-----------------------------------------------------------------------------
(* One step.                                                               *)

\* What a door resolves when it opens.
LEMMA CandidateFact ==
  ASSUME Typed, NEW a \in Accounts
  PROVE  LET i == resolveDaemonIdentity(keys[a], "none")
         IN  /\ i \in Identities
             /\ i.scope \in {"user", "system"}
             /\ resolveDaemonIdentity(keys[a], i.scope) = i
<1>1. keys[a] \in KeySets
  BY DEF Typed
<1>2. resolveDaemonIdentity(keys[a], "none") \in Identities
  BY <1>1, IdentityType DEF Scopes
<1>3. QED
  BY <1>1, <1>2, RecordedSame DEF Identities

\* A step keeps the types.
LEMMA TypedStep ==
  ASSUME Typed, [Next]_vars
  PROVE  Typed'
<1> USE DEF Typed, Doors, Scopes
<1>1. CASE InstallChanges
  BY <1>1 DEF InstallChanges, configVars, doorVars, pastVars
<1>2. CASE PathsEdited
  <2>1. PICK S \in SUBSET Accounts \ {{}}, k \in KeySets :
          /\ keys' = [a \in Accounts |-> IF a \in S THEN k ELSE keys[a]]
          /\ edited' = edited \cup {d \in Doors : at[d] \in S}
          /\ minted' = [a \in Accounts |-> IF a \in S THEN None ELSE minted[a]]
    BY <1>2 DEF PathsEdited
  <2>2. QED
    BY <1>2, <2>1 DEF PathsEdited, doorVars
<1>3. CASE WrittenByHand
  BY <1>3 DEF WrittenByHand, doorVars, pastVars
<1>4. ASSUME NEW d \in Doors, NEW a \in Accounts, DoorOpens(d, a)
      PROVE  Typed'
  <2>1. resolveDaemonIdentity(keys[a], "none") \in Identities
    BY CandidateFact
  <2>2. QED
    BY <1>4, <2>1 DEF DoorOpens, configVars, pastVars
<1>5. ASSUME NEW d \in Doors, DoorFails(d)
      PROVE  Typed'
  BY <1>5 DEF DoorFails, Closes, hostVars, configVars
<1>6. ASSUME NEW d \in Doors, at[d] # None, NEW o \in Owners, NEW grant \in BOOLEAN,
             applyEnrollment(d, o, grant), Closes(d), UNCHANGED <<hostVars, keys>>
      PROVE  Typed'
  <2>1. at[d] \in Accounts /\ dials[d] \in Identities /\ dials[d].scope \in {"user", "system"}
    BY <1>6 DEF Identities
  <2>2. QED
    BY <1>6, <2>1 DEF applyEnrollment, Closes, hostVars
<1>7. ASSUME NEW a \in Accounts, Logout(a) \/ Delete(a)
      PROVE  Typed'
  <2>1. grants' \subseteq grants
    BY <1>7 DEF Logout, Delete, pruneOwnerAllowFrom
  <2>2. CASE Logout(a)
    BY <2>1, <2>2 DEF Logout, hostVars, doorVars
  <2>3. CASE Delete(a)
    BY <2>1, <2>3 DEF Delete, hostVars, doorVars
  <2>4. QED
    BY <1>7, <2>2, <2>3
<1>8. CASE UNCHANGED vars
  BY <1>8 DEF vars, hostVars, configVars, doorVars, pastVars
<1>9. QED
  BY <1>1, <1>2, <1>3, <1>4, <1>5, <1>6, <1>7, <1>8 DEF Next, People, ToolWrites, WizardWrites

\* A step keeps every account with a token on its host, and every door on what it dials.
LEMMA HostStep ==
  ASSUME Typed, HostInv, [Next]_vars
  PROVE  HostInv'
<1> USE DEF Typed, Doors, HostInv
<1>1. ASSUME UNCHANGED <<keys, scope, at, dials, edited, minted>>
      PROVE  HostInv'
  <2>1. ASSUME NEW a \in Accounts, minted'[a] # None
        PROVE  scope'[a] \in {"user", "system"} /\ Identity(a)' = minted'[a]
    <3>1. keys[a] \in KeySets /\ scope[a] \in {"user", "system"} /\ Identity(a) = minted[a]
      BY <1>1, <2>1
    <3>2. resolveDaemonIdentity(keys[a], scope[a])' = resolveDaemonIdentity(keys[a], scope[a])
      BY <1>1, <3>1 DEF resolveDaemonIdentity
    <3>3. QED
      BY <1>1, <3>1, <3>2 DEF Identity
  <2>2. ASSUME NEW d \in Doors, at'[d] # None, d \notin edited'
        PROVE  /\ dials'[d].scope \in {"user", "system"}
               /\ resolveDaemonIdentity(keys[at[d]], dials[d].scope)' = dials'[d]
    <3>1. /\ dials[d].scope \in {"user", "system"}
          /\ resolveDaemonIdentity(keys[at[d]], dials[d].scope) = dials[d]
      BY <1>1, <2>2
    <3>2. QED
      BY <1>1, <3>1 DEF resolveDaemonIdentity
  <2>3. QED
    BY <2>1, <2>2
<1>2. CASE InstallChanges \/ WrittenByHand \/ UNCHANGED vars
  BY <1>1, <1>2 DEF InstallChanges, WrittenByHand, vars, configVars, doorVars, pastVars
<1>3. CASE PathsEdited
  <2>1. PICK S \in SUBSET Accounts \ {{}}, k \in KeySets :
          /\ keys' = [a \in Accounts |-> IF a \in S THEN k ELSE keys[a]]
          /\ edited' = edited \cup {d \in Doors : at[d] \in S}
          /\ minted' = [a \in Accounts |-> IF a \in S THEN None ELSE minted[a]]
    BY <1>3 DEF PathsEdited
  <2>2. UNCHANGED <<installed, scope, at, dials>>
    BY <1>3 DEF PathsEdited, doorVars
  <2>3. ASSUME NEW a \in Accounts, minted'[a] # None
        PROVE  scope'[a] \in {"user", "system"} /\ Identity(a)' = minted'[a]
    <3>1. a \notin S /\ keys'[a] = keys[a] /\ minted'[a] = minted[a]
      BY <2>1, <2>3
    <3>2. QED
      BY <2>2, <2>3, <3>1 DEF Identity, resolveDaemonIdentity
  <2>4. ASSUME NEW d \in Doors, at'[d] # None, d \notin edited'
        PROVE  /\ dials'[d].scope \in {"user", "system"}
               /\ resolveDaemonIdentity(keys[at[d]], dials[d].scope)' = dials'[d]
    <3>1. at[d] \in Accounts /\ at[d] \notin S /\ d \notin edited
      BY <2>1, <2>2, <2>4
    <3>2. keys'[at[d]] = keys[at[d]]
      BY <2>1, <3>1
    <3>3. QED
      BY <2>2, <2>4, <3>1, <3>2 DEF resolveDaemonIdentity
  <2>5. QED
    BY <2>3, <2>4
<1>4. ASSUME NEW e \in Doors, NEW b \in Accounts, DoorOpens(e, b)
      PROVE  HostInv'
  <2>1. UNCHANGED <<installed, configVars, pastVars>>
    BY <1>4 DEF DoorOpens
  <2>2. ASSUME NEW a \in Accounts, minted'[a] # None
        PROVE  scope'[a] \in {"user", "system"} /\ Identity(a)' = minted'[a]
    BY <2>1, <2>2 DEF configVars, pastVars, Identity, resolveDaemonIdentity
  <2>3. ASSUME NEW d \in Doors, at'[d] # None, d \notin edited'
        PROVE  /\ dials'[d].scope \in {"user", "system"}
               /\ resolveDaemonIdentity(keys[at[d]], dials[d].scope)' = dials'[d]
    <3>1. CASE d = e
      <4>1. /\ at'[d] = b
            /\ dials'[d] = resolveDaemonIdentity(keys[b], "none")
        BY <1>4, <3>1 DEF DoorOpens
      <4>2. /\ dials'[d].scope \in {"user", "system"}
            /\ resolveDaemonIdentity(keys[b], dials'[d].scope) = dials'[d]
        BY <4>1, CandidateFact
      <4>3. QED
        BY <2>1, <4>1, <4>2 DEF configVars, resolveDaemonIdentity
    <3>2. CASE d # e
      <4>1. at'[d] = at[d] /\ dials'[d] = dials[d] /\ d \notin edited
        BY <1>4, <2>1, <2>3, <3>2 DEF DoorOpens, pastVars
      <4>2. QED
        BY <2>1, <2>3, <4>1 DEF configVars, resolveDaemonIdentity
    <3>3. QED
      BY <3>1, <3>2
  <2>4. QED
    BY <2>2, <2>3
\* A door closes: the others keep what they dial, if the keys of their accounts stay.
<1>5. ASSUME NEW e \in Doors, Closes(e), UNCHANGED keys,
             NEW d \in Doors, at'[d] # None, d \notin edited'
      PROVE  /\ dials'[d].scope \in {"user", "system"}
             /\ resolveDaemonIdentity(keys[at[d]], dials[d].scope)' = dials'[d]
  <2>1. d # e /\ at'[d] = at[d] /\ dials'[d] = dials[d] /\ d \notin edited
    BY <1>5 DEF Closes
  <2>2. QED
    BY <1>5, <2>1 DEF resolveDaemonIdentity
<1>6. ASSUME NEW e \in Doors, DoorFails(e)
      PROVE  HostInv'
  <2>1. Closes(e) /\ UNCHANGED <<installed, keys, scope, minted>>
    BY <1>6 DEF DoorFails, hostVars, configVars
  <2>2. ASSUME NEW a \in Accounts, minted'[a] # None
        PROVE  scope'[a] \in {"user", "system"} /\ Identity(a)' = minted'[a]
    BY <2>1, <2>2 DEF Identity, resolveDaemonIdentity
  <2>3. QED
    BY <1>5, <2>1, <2>2
<1>7. ASSUME NEW e \in Doors, at[e] # None, NEW o \in Owners, NEW grant \in BOOLEAN,
             applyEnrollment(e, o, grant), Closes(e), UNCHANGED <<hostVars, keys>>
      PROVE  HostInv'
  <2>1. /\ at[e] \in Accounts
        /\ scope' = [scope EXCEPT ![at[e]] = dials[e].scope]
        /\ minted' = [minted EXCEPT ![at[e]] = IF e \in edited THEN None ELSE dials[e]]
        /\ UNCHANGED <<installed, keys>>
    BY <1>7 DEF applyEnrollment, hostVars
  <2>2. ASSUME NEW a \in Accounts, minted'[a] # None
        PROVE  scope'[a] \in {"user", "system"} /\ Identity(a)' = minted'[a]
    <3>1. CASE a = at[e]
      <4>1. e \notin edited /\ scope'[a] = dials[e].scope /\ minted'[a] = dials[e]
        BY <2>1, <2>2, <3>1
      <4>2. QED
        BY <1>7, <2>1, <3>1, <4>1 DEF Identity, resolveDaemonIdentity
    <3>2. CASE a # at[e]
      BY <2>1, <2>2, <3>2 DEF Identity, resolveDaemonIdentity
    <3>3. QED
      BY <3>1, <3>2
  <2>3. QED
    BY <1>5, <1>7, <2>1, <2>2
<1>8. ASSUME NEW b \in Accounts, Logout(b)
      PROVE  HostInv'
  <2>1. UNCHANGED <<installed, keys, scope, at, dials, edited>>
    BY <1>8 DEF Logout, hostVars, doorVars
  <2>2. minted' = [minted EXCEPT ![b] = None]
    BY <1>8 DEF Logout
  <2>3. QED
    BY <2>1, <2>2 DEF Identity, resolveDaemonIdentity
<1>9. ASSUME NEW b \in Accounts, Delete(b)
      PROVE  HostInv'
  <2>1. PICK k \in KeySets : keys' = [keys EXCEPT ![b] = k]
    BY <1>9 DEF Delete
  <2>2. /\ UNCHANGED <<installed, at, dials>>
        /\ scope' = [scope EXCEPT ![b] = "none"]
        /\ minted' = [minted EXCEPT ![b] = None]
        /\ edited' = edited \cup {d \in Doors : at[d] = b}
    BY <1>9 DEF Delete, hostVars, doorVars
  <2>3. ASSUME NEW a \in Accounts, minted'[a] # None
        PROVE  scope'[a] \in {"user", "system"} /\ Identity(a)' = minted'[a]
    <3>1. a # b /\ keys'[a] = keys[a] /\ scope'[a] = scope[a] /\ minted'[a] = minted[a]
      BY <2>1, <2>2, <2>3
    <3>2. QED
      BY <2>2, <2>3, <3>1 DEF Identity, resolveDaemonIdentity
  <2>4. ASSUME NEW d \in Doors, at'[d] # None, d \notin edited'
        PROVE  /\ dials'[d].scope \in {"user", "system"}
               /\ resolveDaemonIdentity(keys[at[d]], dials[d].scope)' = dials'[d]
    <3>1. at[d] \in Accounts /\ at[d] # b /\ d \notin edited /\ keys'[at[d]] = keys[at[d]]
      BY <2>1, <2>2, <2>4
    <3>2. QED
      BY <2>2, <2>4, <3>1 DEF resolveDaemonIdentity
  <2>5. QED
    BY <2>3, <2>4
<1>10. QED
  BY <1>2, <1>3, <1>4, <1>6, <1>7, <1>8, <1>9 DEF Next, People, ToolWrites, WizardWrites

\* A step keeps the owners of accounts in the config.
LEMMA OwnedStep ==
  ASSUME Typed, OwnedInv, [Next]_vars
  PROVE  OwnedInv'
<1> USE DEF Typed, OwnedInv
<1>1. CASE People \/ UNCHANGED vars
  BY <1>1 DEF People, InstallChanges, PathsEdited, WrittenByHand, vars, configVars
<1>2. ASSUME NEW d \in Doors, NEW a \in Accounts, DoorOpens(d, a) \/ DoorFails(d)
      PROVE  OwnedInv'
  BY <1>2 DEF DoorOpens, DoorFails, configVars
<1>3. CASE ToolWrites \/ WizardWrites
  BY <1>3 DEF ToolWrites, WizardWrites, applyEnrollment, Doors
<1>4. ASSUME NEW a \in Accounts, Logout(a) \/ Delete(a)
      PROVE  OwnedInv'
  BY <1>4 DEF Logout, Delete
<1>5. QED
  BY <1>1, <1>2, <1>3, <1>4 DEF Next

\* Types, hosts and owners are as they should be, always.
THEOREM ConfigInductive == Spec => []ConfigInv
<1>1. Init => ConfigInv
  BY KeysAssumption DEF Init, ConfigInv, Typed, HostInv, OwnedInv, Doors, Scopes
<1>2. ConfigInv /\ [Next]_vars => ConfigInv'
  BY TypedStep, HostStep, OwnedStep DEF ConfigInv
<1>3. QED
  BY <1>1, <1>2, PTL DEF Spec

\* An account with a token resolves to the host its door dialled, whatever is installed,
\* enrolled, logged out, removed or edited elsewhere (resolveDaemonIdentity).
THEOREM KeepsHost == Spec => []HostKept
<1>1. ConfigInv => HostKept
  BY DEF ConfigInv, HostInv, HostKept
<1>2. QED
  BY <1>1, ConfigInductive, PTL

-----------------------------------------------------------------------------
(* Accounts without an error agree about the sockets.                       *)

\* One value only is shared: any two of them are equal.
LEMMA OneShared ==
  ASSUME NEW ids, IsFiniteSet(DOMAIN ids),
         NEW of, NEW field,
         NEW a \in DOMAIN ids, NEW b \in DOMAIN ids, ids[a][of] = ids[b][of],
         Cardinality(Shared(ids, a, of, field)) = 1
  PROVE  ids[a][field] = ids[b][field]
<1> DEFINE S == {c \in DOMAIN ids : ids[c][of] = ids[a][of]}
           f == [c \in S |-> ids[c][field]]
           T == Shared(ids, a, of, field)
<1>1. T = {ids[c][field] : c \in S}
  BY DEF Shared
<1>2. IsFiniteSet(S)
  BY FS_Subset
<1>3. f \in Surjection(S, T)
  BY <1>1 DEF Surjection
<1>4. IsFiniteSet(T)
  BY <1>2, <1>3, FS_Surjection
<1>5. PICK x : T = {x}
  BY <1>4, FS_Singleton
<1>6. ids[a][field] \in T /\ ids[b][field] \in T
  BY <1>1
<1>7. QED
  BY <1>5, <1>6

\* Two identities of which neither is reported are compatible.
LEMMA NoErrorAgrees ==
  ASSUME NEW ids, IsFiniteSet(DOMAIN ids), NEW a \in DOMAIN ids, NEW b \in DOMAIN ids,
         ~Error(ids, a), ~Error(ids, b)
  PROVE  Compatible(ids[a], ids[b])
<1>1. /\ Cardinality(Shared(ids, a, "dir", "control")) = 1
      /\ Cardinality(Shared(ids, a, "dir", "enroll")) = 1
      /\ Cardinality(Shared(ids, a, "control", "dir")) = 1
      /\ Cardinality(Shared(ids, a, "enroll", "dir")) = 1
  BY DEF Error, OneEach
<1>2. ids[a]["dir"] = ids[b]["dir"] <=> ids[a]["control"] = ids[b]["control"]
  <2>1. ids[a]["dir"] = ids[b]["dir"] => ids[a]["control"] = ids[b]["control"]
    BY <1>1, OneShared
  <2>2. ids[a]["control"] = ids[b]["control"] => ids[a]["dir"] = ids[b]["dir"]
    BY <1>1, OneShared
  <2>3. QED
    BY <2>1, <2>2
<1>3. ids[a]["dir"] = ids[b]["dir"] <=> ids[a]["enroll"] = ids[b]["enroll"]
  <2>1. ids[a]["dir"] = ids[b]["dir"] => ids[a]["enroll"] = ids[b]["enroll"]
    BY <1>1, OneShared
  <2>2. ids[a]["enroll"] = ids[b]["enroll"] => ids[a]["dir"] = ids[b]["dir"]
    BY <1>1, OneShared
  <2>3. QED
    BY <2>1, <2>2
<1>4. ids[a].enroll \notin {ids[b].control, ids[b].session}
  BY DEF Error
<1>5. QED
  BY <1>2, <1>3, <1>4 DEF Compatible

\* Any two accounts without a configError agree about which socket is whose, for every
\* number of accounts and all their paths (validateDaemonIdentities).
THEOREM AgreesAboutSockets == Spec => []AccountsAgree
<1>1. Typed => AccountsAgree
  <2> SUFFICES ASSUME Typed, NEW a \in block, NEW b \in block, ~configError(a), ~configError(b)
               PROVE  Compatible(Identity(a), Identity(b))
    BY DEF AccountsAgree
  <2> DEFINE ids == [c \in block |-> Identity(c)]
  <2>1. /\ IsFiniteSet(DOMAIN ids)
        /\ a \in DOMAIN ids /\ ids[a] = Identity(a)
        /\ b \in DOMAIN ids /\ ids[b] = Identity(b)
    BY AccountsAssumption, FS_Subset DEF Typed
  <2>2. ~Error(ids, a) /\ ~Error(ids, b)
    BY DEF configError
  <2> HIDE DEF ids
  <2>3. Compatible(ids[a], ids[b])
    BY <2>1, <2>2, NoErrorAgrees
  <2>4. QED
    BY <2>1, <2>3
<1>2. ConfigInv => Typed
  BY DEF ConfigInv
<1>3. QED
  BY <1>1, <1>2, ConfigInductive, PTL

-----------------------------------------------------------------------------
(* A grant goes with the last account of its owner.                         *)

\* The owner of one account is changed, and no other's.
THEOREM GrantsFollowOwners == Spec => GrantsFollow
<1> DEFINE Before(o) == {a \in Accounts : owner[a] = o}
           After(o)  == {a \in Accounts : owner'[a] = o}
           Follows(o) == /\ o \in grants \ grants' => Before(o) # {} /\ After(o) = {}
                         /\ Before(o) # {} /\ After(o) = {} /\ o \in grants' =>
                              \E a \in Before(o) : owner'[a] # None
<1>1. ConfigInv /\ [Next]_vars => [\A o \in Owners : Follows(o)]_vars
  <2> SUFFICES ASSUME Typed, OwnedInv, Next, NEW o \in Owners
               PROVE  Follows(o)
    BY DEF ConfigInv
  <2>1. CASE UNCHANGED <<owner, grants>>
    BY <2>1
  <2>2. ASSUME NEW d \in Doors, at[d] # None, NEW n \in Owners, NEW grant \in BOOLEAN,
               applyEnrollment(d, n, grant)
        PROVE  Follows(o)
    <3>1. at[d] \in Accounts /\ owner' = [owner EXCEPT ![at[d]] = n] /\ n # None
      BY <2>2, NoneAssumption DEF applyEnrollment, Typed
    <3>2. grants \subseteq grants'
      BY <2>2 DEF applyEnrollment
    <3>3. QED
      BY <3>1, <3>2 DEF Typed
  <2>3. ASSUME NEW a \in Accounts, a \in block, pruneOwnerAllowFrom(a, block \ {a}),
               owner' = [owner EXCEPT ![a] = None]
        PROVE  Follows(o)
    <3>1. o # None
      BY NoneAssumption
    <3>2. \A b \in Accounts : owner'[b] = o <=> b # a /\ owner[b] = o
      BY <2>3, <3>1 DEF Typed
    <3>3. \A b \in Accounts : owner[b] = o => b \in block
      BY <3>1 DEF OwnedInv
    <3>4. CASE owner[a] = o
      <4>1. CASE After(o) = {}
        <5>1. owner[a] \notin {owner[b] : b \in block \ {a}}
          BY <3>2, <3>4, <4>1 DEF Typed
        <5>2. o \notin grants'
          BY <2>3, <3>4, <5>1 DEF pruneOwnerAllowFrom
        <5>3. QED
          BY <3>4, <4>1, <5>2
      <4>2. CASE After(o) # {}
        <5>1. owner[a] \in {owner[b] : b \in block \ {a}}
          BY <3>2, <3>3, <3>4, <4>2
        <5>2. grants' = grants
          BY <2>3, <5>1 DEF pruneOwnerAllowFrom
        <5>3. QED
          BY <4>2, <5>2
      <4>3. QED
        BY <4>1, <4>2
    <3>5. CASE owner[a] # o
      <4>1. o \in grants => o \in grants'
        BY <2>3, <3>5 DEF pruneOwnerAllowFrom
      <4>2. Before(o) = After(o)
        BY <3>2, <3>5
      <4>3. QED
        BY <4>1, <4>2
    <3>6. QED
      BY <3>4, <3>5
  <2>4. QED
    BY <2>1, <2>2, <2>3
       DEF Next, People, InstallChanges, PathsEdited, WrittenByHand, DoorOpens, DoorFails,
           ToolWrites, WizardWrites, Logout, Delete, configVars, Doors
<1>2. QED
  BY <1>1, ConfigInductive, PTL DEF Spec, GrantsFollow

-----------------------------------------------------------------------------
(* The rows at a set of positions, in their order.                          *)

\* How many of the positions K are at i or before it, and the position of each rank.
Rank(K, i) == Cardinality({j \in K : j <= i})
Place(K)   == [n \in 1 .. Cardinality(K) |-> CHOOSE i \in K : Rank(K, i) = n]

\* Ranks grow with the positions, from 1 to their number.
LEMMA RankGrows ==
  ASSUME NEW K \in SUBSET Nat, IsFiniteSet(K), NEW i \in K
  PROVE  /\ Rank(K, i) \in 1 .. Cardinality(K)
         /\ \A j \in K : i < j => Rank(K, i) < Rank(K, j)
<1> DEFINE Upto(x) == {k \in K : k <= x}
<1>1. \A x : /\ IsFiniteSet(Upto(x)) /\ Cardinality(Upto(x)) \in Nat
             /\ Cardinality(Upto(x)) <= Cardinality(K)
  BY FS_Subset, FS_CardinalityType
<1>2. Rank(K, i) # 0
  <2>1. i \in Upto(i)
    OBVIOUS
  <2>2. QED
    BY <1>1, <2>1, FS_EmptySet DEF Rank
<1>3. ASSUME NEW j \in K, i < j
      PROVE  Rank(K, i) < Rank(K, j)
  <2>1. i \in Nat /\ j \in Nat /\ K \subseteq Nat
    OBVIOUS
  <2>2. \A k \in Nat : k <= i => k <= j
    BY <1>3, <2>1
  <2>3. Upto(i) \in SUBSET Upto(j) /\ j \in Upto(j) /\ j \notin Upto(i)
    <3>1. \A k \in K : k <= i => k <= j
      BY <2>1, <2>2
    <3>2. i < j => ~(j <= i) /\ j <= j
      BY <2>1
    <3>3. QED
      BY <1>3, <3>1, <3>2
  <2>4. /\ Cardinality(Upto(i)) <= Cardinality(Upto(j))
        /\ Cardinality(Upto(i)) # Cardinality(Upto(j))
    <3> HIDE DEF Upto
    <3>1. QED
      BY <1>1, <2>3, FS_Subset
  <2>5. QED
    BY <1>1, <2>4 DEF Rank
<1>4. QED
  BY <1>1, <1>2, <1>3, FS_CardinalityType DEF Rank

\* Every position has its rank, and every rank its position, in the same order.
LEMMA PlaceFacts ==
  ASSUME NEW K \in SUBSET Nat, IsFiniteSet(K)
  PROVE  /\ Cardinality(K) \in Nat
         /\ Place(K) \in [1 .. Cardinality(K) -> K]
         /\ \A i \in K : Place(K)[Rank(K, i)] = i
         /\ \A m, n \in 1 .. Cardinality(K) : m < n => Place(K)[m] < Place(K)[n]
<1> DEFINE N == Cardinality(K)
           f == [i \in K |-> Rank(K, i)]
<1>1. /\ N \in Nat
      /\ \A i \in K : f[i] = Rank(K, i) /\ f[i] \in 1 .. N
      /\ \A i, j \in K : i < j => f[i] < f[j]
  BY FS_CardinalityType, RankGrows
<1>2. \A i, j \in K : f[i] = f[j] => i = j
  <2> SUFFICES ASSUME NEW i \in K, NEW j \in K, f[i] = f[j], i # j
               PROVE  FALSE
    OBVIOUS
  <2>1. i < j \/ j < i
    OBVIOUS
  <2>2. QED
    BY <1>1, <2>1
<1>3. f \in Injection(K, 1 .. N)
  <2>1. f \in [K -> 1 .. N]
    BY <1>1
  <2> HIDE DEF f
  <2>2. QED
    BY <1>2, <2>1, Fun_IsInj
<1>4. f \in Surjection(K, 1 .. N)
  <2>1. IsFiniteSet(1 .. N) /\ Cardinality(1 .. N) = N
    BY <1>1, FS_Interval
  <2> HIDE DEF f
  <2>2. QED
    BY <1>3, <2>1, FS_Injection
<1>5. ASSUME NEW n \in 1 .. N
      PROVE  Place(K)[n] \in K /\ Rank(K, Place(K)[n]) = n
  <2>1. \E i \in K : Rank(K, i) = n
    BY <1>4 DEF Surjection
  <2>2. QED
    BY <2>1 DEF Place
<1>6. \A i \in K : Place(K)[Rank(K, i)] = i
  BY <1>2, <1>5, RankGrows
<1>7. ASSUME NEW m \in 1 .. N, NEW n \in 1 .. N, m < n
      PROVE  Place(K)[m] < Place(K)[n]
  <2>1. /\ Place(K)[m] \in K /\ f[Place(K)[m]] = m
        /\ Place(K)[n] \in K /\ f[Place(K)[n]] = n
    BY <1>1, <1>5
  <2> HIDE DEF f
  <2>2. Place(K)[n] < Place(K)[m] => n < m
    BY <1>1, <2>1
  <2>3. Place(K)[m] # Place(K)[n]
    BY <1>7, <2>1
  <2>4. Place(K)[m] \in Nat /\ Place(K)[n] \in Nat /\ m \in Nat /\ n \in Nat
    <3>1. K \subseteq Nat
      OBVIOUS
    <3>2. m \in Nat /\ n \in Nat
      BY <1>1
    <3>3. QED
      BY <2>1, <3>1, <3>2
  <2>5. QED
    BY <1>7, <2>2, <2>3, <2>4
<1>8. QED
  BY <1>1, <1>5, <1>6, <1>7 DEF Place

\* Any enumeration of the positions in their order is that one.
LEMMA PlaceUnique ==
  ASSUME NEW K \in SUBSET Nat, IsFiniteSet(K), NEW m \in Nat, NEW f \in [1 .. m -> K],
         \A k, n \in 1 .. m : k < n => f[k] < f[n],
         \A i \in K : \E n \in 1 .. m : f[n] = i
  PROVE  m = Cardinality(K) /\ \A n \in 1 .. m : f[n] = Place(K)[n]
<1>1. ASSUME NEW k \in 1 .. m, NEW n \in 1 .. m
      PROVE  f[k] \in Nat /\ (f[k] <= f[n] <=> k <= n) /\ (f[k] = f[n] => k = n)
  <2>1. f[k] \in K /\ f[n] \in K /\ K \subseteq Nat
    OBVIOUS
  <2>2. f[k] \in Nat /\ f[n] \in Nat
    BY <2>1
  <2>3. /\ k < n => f[k] < f[n]
        /\ n < k => f[n] < f[k]
    OBVIOUS
  <2>4. CASE k < n
    BY <2>2, <2>3, <2>4
  <2>5. CASE n < k
    BY <2>2, <2>3, <2>5
  <2>6. CASE k = n
    BY <2>2, <2>6
  <2>7. QED
    BY <2>4, <2>5, <2>6
<1>2. m = Cardinality(K)
  <2>1. f \in Surjection(1 .. m, K) /\ f \in Injection(1 .. m, K)
    BY <1>1, Fun_IsInj, Fun_IsSurj
  <2>2. IsFiniteSet(1 .. m) /\ Cardinality(1 .. m) = m
    BY FS_Interval
  <2>3. QED
    BY <2>1, <2>2, FS_Surjection
<1>3. ASSUME NEW n \in 1 .. m
      PROVE  Rank(K, f[n]) = n
  <2> DEFINE U == {j \in K : j <= f[n]}
             g == [k \in 1 .. n |-> f[k]]
  <2>1. g \in [1 .. n -> U]
    BY <1>1
  <2>2. \A j \in U : \E k \in 1 .. n : g[k] = j
    BY <1>1
  <2>3. \A k, l \in 1 .. n : g[k] = g[l] => k = l
    BY <1>1
  <2>4. IsFiniteSet(1 .. n) /\ Cardinality(1 .. n) = n
    BY FS_Interval
  <2> HIDE DEF U, g
  <2>5. g \in Surjection(1 .. n, U) /\ g \in Injection(1 .. n, U)
    BY <2>1, <2>2, <2>3, Fun_IsInj, Fun_IsSurj
  <2>6. Cardinality(U) = n
    BY <2>4, <2>5, FS_Surjection
  <2>7. QED
    BY <2>6 DEF U, Rank
<1>4. QED
  BY <1>2, <1>3, PlaceFacts

\* What the rows at some positions of a sequence are.
LEMMA RowsAtFacts ==
  ASSUME NEW s \in Seq(Rows), NEW K \in SUBSET (DOMAIN s)
  PROVE  /\ IsFiniteSet(K) /\ K \in SUBSET Nat
         /\ RowsAt(s, K) \in Seq(Rows) /\ Len(RowsAt(s, K)) = Cardinality(K)
         /\ \A n \in 1 .. Cardinality(K) : RowsAt(s, K)[n] = s[Place(K)[n]]
<1>1. DOMAIN s = 1 .. Len(s) /\ Len(s) \in Nat /\ \A i \in DOMAIN s : s[i] \in Rows
  BY LenProperties, ElementOfSeq
<1>2. IsFiniteSet(K) /\ K \in SUBSET Nat
  <2>1. IsFiniteSet(DOMAIN s)
    BY <1>1, FS_Interval
  <2>2. QED
    BY <1>1, <2>1, FS_Subset
<1>3. Cardinality(K) \in Nat /\ Place(K) \in [1 .. Cardinality(K) -> K]
  BY <1>2, PlaceFacts
<1>4. RowsAt(s, K) = [n \in 1 .. Cardinality(K) |-> s[Place(K)[n]]]
  BY DEF RowsAt, Place, Rank
<1>5. RowsAt(s, K) \in [1 .. Cardinality(K) -> Rows]
  BY <1>1, <1>3, <1>4
<1>6. RowsAt(s, K) \in Seq(Rows) /\ Len(RowsAt(s, K)) = Cardinality(K)
  BY <1>3, <1>5
<1>7. QED
  BY <1>2, <1>4, <1>6

\* A sequence that goes through all the positions in their order is the rows at them.
LEMMA RowsAtUnique ==
  ASSUME NEW s \in Seq(Rows), NEW K \in SUBSET (DOMAIN s), NEW t \in Seq(Rows),
         NEW f \in [1 .. Len(t) -> K],
         \A k, n \in 1 .. Len(t) : k < n => f[k] < f[n],
         \A i \in K : \E n \in 1 .. Len(t) : f[n] = i,
         \A n \in 1 .. Len(t) : t[n] = s[f[n]]
  PROVE  RowsAt(s, K) = t
<1>1. IsFiniteSet(K) /\ K \in SUBSET Nat /\ Len(t) \in Nat
  BY RowsAtFacts, LenProperties
<1>2. Len(t) = Cardinality(K) /\ \A n \in 1 .. Len(t) : f[n] = Place(K)[n]
  BY <1>1, PlaceUnique
<1>3. \A n \in 1 .. Len(t) : RowsAt(s, K)[n] = t[n]
  BY <1>2, RowsAtFacts
<1>4. QED
  BY <1>2, <1>3, RowsAtFacts, SeqEqual

\* The rows at some positions of the rows at some positions.
LEMMA RowsOfRows ==
  ASSUME NEW s \in Seq(Rows), NEW K \in SUBSET (DOMAIN s), NEW M \in SUBSET K
  PROVE  RowsAt(RowsAt(s, K), {n \in DOMAIN RowsAt(s, K) : Place(K)[n] \in M}) = RowsAt(s, M)
<1> DEFINE r == RowsAt(s, K)
           L == {n \in DOMAIN r : Place(K)[n] \in M}
           t == RowsAt(r, L)
           f == [n \in 1 .. Len(t) |-> Place(K)[Place(L)[n]]]
<1>1. /\ r \in Seq(Rows) /\ DOMAIN r = 1 .. Cardinality(K)
      /\ IsFiniteSet(K) /\ K \in SUBSET Nat
      /\ \A n \in 1 .. Cardinality(K) : r[n] = s[Place(K)[n]]
  BY RowsAtFacts, LenProperties
<1>2. /\ Place(K) \in [1 .. Cardinality(K) -> K]
      /\ \A i \in K : Place(K)[Rank(K, i)] = i /\ Rank(K, i) \in 1 .. Cardinality(K)
      /\ \A m, n \in 1 .. Cardinality(K) : m < n => Place(K)[m] < Place(K)[n]
  BY <1>1, PlaceFacts, RankGrows
<1>3. L \in SUBSET (1 .. Cardinality(K)) /\ \A n \in L : Place(K)[n] \in M
  BY <1>1
<1>4. \A i \in M : \E n \in L : Place(K)[n] = i
  BY <1>1, <1>2
<1> HIDE DEF r, L
<1>5. /\ IsFiniteSet(L) /\ L \in SUBSET Nat
      /\ t \in Seq(Rows) /\ Len(t) = Cardinality(L)
      /\ \A n \in 1 .. Cardinality(L) : t[n] = r[Place(L)[n]]
  <2>1. L \in SUBSET (DOMAIN r)
    BY <1>1, <1>3
  <2>2. QED
    BY <1>1, <2>1, RowsAtFacts
<1>6. /\ Place(L) \in [1 .. Cardinality(L) -> L]
      /\ \A i \in L : Place(L)[Rank(L, i)] = i /\ Rank(L, i) \in 1 .. Cardinality(L)
      /\ \A m, n \in 1 .. Cardinality(L) : m < n => Place(L)[m] < Place(L)[n]
  BY <1>5, PlaceFacts, RankGrows
<1> HIDE DEF t
<1>7. f \in [1 .. Len(t) -> M]
  BY <1>3, <1>5, <1>6
<1>8. \A k, n \in 1 .. Len(t) : k < n => f[k] < f[n]
  <2> SUFFICES ASSUME NEW k \in 1 .. Len(t), NEW n \in 1 .. Len(t), k < n
               PROVE  Place(K)[Place(L)[k]] < Place(K)[Place(L)[n]]
    OBVIOUS
  <2>1. /\ Place(L)[k] \in 1 .. Cardinality(K) /\ Place(L)[n] \in 1 .. Cardinality(K)
        /\ Place(L)[k] < Place(L)[n]
    BY <1>3, <1>5, <1>6
  <2>2. QED
    BY <1>2, <2>1
<1>9. \A i \in M : \E n \in 1 .. Len(t) : f[n] = i
  <2> SUFFICES ASSUME NEW i \in M
               PROVE  \E n \in 1 .. Len(t) : f[n] = i
    OBVIOUS
  <2>1. PICK l \in L : Place(K)[l] = i
    BY <1>4
  <2>2. QED
    BY <1>5, <1>6, <2>1
<1>10. \A n \in 1 .. Len(t) : t[n] = s[f[n]]
  BY <1>1, <1>3, <1>5, <1>6
<1>11. M \in SUBSET (DOMAIN s)
  OBVIOUS
<1> HIDE DEF f
<1>12. RowsAt(s, M) = t
  BY <1>5, <1>7, <1>8, <1>9, <1>10, <1>11, RowsAtUnique
<1>13. QED
  BY <1>12 DEF t, r, L

-----------------------------------------------------------------------------
(* Routes.                                                                 *)

\* The rows that are pruned are the account's routes; the others keep their order.
LEMMA PrunedFacts ==
  ASSUME NEW s \in Seq(Rows), NEW a
  PROVE  /\ Pruned(s, a) \in Seq(Rows) /\ Len(Pruned(s, a)) <= Len(s)
         /\ RoutesOf(Pruned(s, a), a) = <<>>
         /\ \A type : OfType(Pruned(s, a), type, {a}) = OfType(s, type, {a})
<1> DEFINE K == {i \in DOMAIN s : ~IsRouteOf(s[i], a)}
           r == Pruned(s, a)
<1>1. K \in SUBSET (DOMAIN s) /\ r = RowsAt(s, K)
  BY DEF Pruned
<1>2. DOMAIN s = 1 .. Len(s) /\ Len(s) \in Nat
  BY LenProperties
<1>3. /\ IsFiniteSet(K) /\ K \in SUBSET Nat
      /\ r \in Seq(Rows) /\ Len(r) = Cardinality(K) /\ DOMAIN r = 1 .. Cardinality(K)
      /\ \A n \in 1 .. Cardinality(K) : r[n] = s[Place(K)[n]]
  <2> HIDE DEF K, r
  <2>1. QED
    BY <1>1, RowsAtFacts, LenProperties
<1>4. Place(K) \in [1 .. Cardinality(K) -> K] /\ Cardinality(K) \in Nat
  BY <1>3, PlaceFacts
<1>5. Cardinality(K) <= Len(s)
  <2>1. IsFiniteSet(1 .. Len(s)) /\ Cardinality(1 .. Len(s)) = Len(s)
    BY <1>2, FS_Interval
  <2>2. QED
    BY <1>1, <1>2, <2>1, FS_Subset
<1>6. RoutesOf(r, a) = <<>>
  <2>1. \A n \in DOMAIN r : ~IsRouteOf(r[n], a)
    BY <1>3, <1>4
  <2>2. {i \in DOMAIN r : IsRouteOf(r[i], a)} = {}
    BY <2>1
  <2>3. Len(RowsAt(r, {})) = 0 /\ RowsAt(r, {}) \in Seq(Rows)
    BY <1>3, FS_EmptySet, RowsAtFacts
  <2>4. RowsAt(r, {}) = <<>>
    BY <2>3, EmptySeq
  <2>5. QED
    BY <2>2, <2>4 DEF RoutesOf
<1>7. ASSUME NEW type
      PROVE  OfType(r, type, {a}) = OfType(s, type, {a})
  <2> DEFINE M == {i \in DOMAIN s : s[i].type = type /\ ~\E b \in {a} : IsRouteOf(s[i], b)}
             L == {n \in DOMAIN r : r[n].type = type /\ ~\E b \in {a} : IsRouteOf(r[n], b)}
  <2>1. M \in SUBSET K
    OBVIOUS
  <2>2. L = {n \in DOMAIN r : Place(K)[n] \in M}
    BY <1>1, <1>3, <1>4
  <2> HIDE DEF K, r
  <2>3. RowsAt(r, L) = RowsAt(s, M)
    <3> HIDE DEF L, M
    <3>1. QED
      BY <1>1, <2>1, <2>2, RowsOfRows
  <2>4. QED
    BY <2>3 DEF OfType
<1>8. QED
  BY <1>3, <1>5, <1>6, <1>7

\* A row of its own comes after the routes, and before the rows that are none.
LEMMA RoutedFacts ==
  ASSUME NEW s \in Seq(Rows), NEW added \in Rows, IsRoute(added)
  PROVE  LET routes == RowsAt(s, {i \in DOMAIN s : IsRoute(s[i])})
             others == RowsAt(s, {i \in DOMAIN s : ~IsRoute(s[i])})
             new    == Append(routes, added) \o others
         IN  /\ new \in Seq(Rows) /\ Len(new) = Len(s) + 1
             /\ \A type \in {"route", "acp"} : Prefix(OfType(s, type, {}), OfType(new, type, {}))
             /\ RoutesOf(new, added.account) # <<>>
<1> DEFINE K1 == {i \in DOMAIN s : IsRoute(s[i])}
           K2 == {i \in DOMAIN s : ~IsRoute(s[i])}
           routes == RowsAt(s, K1)
           others == RowsAt(s, K2)
           front  == Append(routes, added)
           new    == front \o others
           N1 == Cardinality(K1)
           N2 == Cardinality(K2)
<1>1. /\ DOMAIN s = 1 .. Len(s) /\ Len(s) \in Nat
      /\ K1 \in SUBSET (DOMAIN s) /\ K2 \in SUBSET (DOMAIN s)
  BY LenProperties
<1>2. N1 \in Nat /\ N2 \in Nat /\ N1 + N2 = Len(s)
  <2>1. IsFiniteSet(1 .. Len(s)) /\ Cardinality(1 .. Len(s)) = Len(s)
    <3>1. Len(s) \in Nat
      BY <1>1
    <3>2. QED
      BY <3>1, FS_Interval
  <2>2. IsFiniteSet(K1) /\ IsFiniteSet(K2)
    BY <1>1, <2>1, FS_Subset
  <2>3. K1 \cup K2 = 1 .. Len(s) /\ K1 \cap K2 = {}
    BY <1>1
  <2> HIDE DEF K1, K2
  <2>4. Cardinality(K1 \cup K2) = N1 + N2 - Cardinality(K1 \cap K2)
    BY <2>2, FS_Union
  <2>5. N1 \in Nat /\ N2 \in Nat
    BY <2>2, FS_CardinalityType
  <2>6. Cardinality(K1 \cup K2) = Len(s)
    BY <2>1, <2>3
  <2>7. Cardinality(K1 \cap K2) = 0
    BY <2>3, FS_EmptySet
  <2> HIDE DEF N1, N2
  <2>8. QED
    BY <2>4, <2>5, <2>6, <2>7
<1>3. \A i \in DOMAIN s : s[i] \in Rows
  BY <1>1, ElementOfSeq
<1>4. /\ routes \in Seq(Rows) /\ Len(routes) = N1
      /\ \A n \in 1 .. N1 : routes[n] \in Rows /\ IsRoute(routes[n])
  <2>1. /\ Place(K1) \in [1 .. N1 -> K1]
        /\ routes \in Seq(Rows) /\ Len(routes) = N1
        /\ \A n \in 1 .. N1 : routes[n] = s[Place(K1)[n]]
    BY <1>1, RowsAtFacts, PlaceFacts
  <2>2. QED
    BY <1>3, <2>1
<1>5. /\ others \in Seq(Rows) /\ Len(others) = N2
      /\ \A n \in 1 .. N2 : others[n] \in Rows /\ ~IsRoute(others[n])
  <2>1. /\ Place(K2) \in [1 .. N2 -> K2]
        /\ others \in Seq(Rows) /\ Len(others) = N2
        /\ \A n \in 1 .. N2 : others[n] = s[Place(K2)[n]]
    BY <1>1, RowsAtFacts, PlaceFacts
  <2>2. QED
    BY <1>3, <2>1
<1>6. OfType(s, "route", {}) = routes /\ OfType(s, "acp", {}) = others
  <2>1. {i \in DOMAIN s : s[i].type = "route" /\ ~\E a \in {} : IsRouteOf(s[i], a)} = K1
    BY DEF IsRoute
  <2>2. {i \in DOMAIN s : s[i].type = "acp" /\ ~\E a \in {} : IsRouteOf(s[i], a)} = K2
    BY <1>3 DEF IsRoute, Rows
  <2>3. QED
    BY <2>1, <2>2 DEF OfType
<1> HIDE DEF K1, K2, routes, others, N1, N2
<1>7. /\ front \in Seq(Rows) /\ Len(front) = N1 + 1
      /\ \A n \in 1 .. N1 : front[n] = routes[n]
      /\ front[N1 + 1] = added
  BY <1>2, <1>4
<1> HIDE DEF front
<1>8. /\ new \in Seq(Rows) /\ Len(new) = N1 + 1 + N2 /\ DOMAIN new = 1 .. N1 + 1 + N2
      /\ \A n \in 1 .. N1 + 1 + N2 :
            new[n] = IF n <= N1 + 1 THEN front[n] ELSE others[n - (N1 + 1)]
  <2>1. /\ new \in Seq(Rows) /\ Len(new) = Len(front) + Len(others)
        /\ \A n \in 1 .. Len(front) + Len(others) :
              new[n] = IF n <= Len(front) THEN front[n] ELSE others[n - Len(front)]
    BY <1>5, <1>7, ConcatProperties
  <2>2. Len(front) = N1 + 1 /\ Len(others) = N2
    BY <1>5, <1>7
  <2> HIDE DEF new
  <2>3. QED
    BY <2>1, <2>2, LenProperties
<1> HIDE DEF new
<1>9. \A n \in DOMAIN new : new[n] \in Rows /\ (IsRoute(new[n]) <=> n <= N1 + 1)
  <2> SUFFICES ASSUME NEW n \in 1 .. N1 + 1 + N2
               PROVE  new[n] \in Rows /\ (IsRoute(new[n]) <=> n <= N1 + 1)
    BY <1>8
  <2>1. CASE n <= N1
    <3>1. n \in 1 .. N1 /\ new[n] = routes[n]
      BY <1>2, <1>7, <1>8, <2>1
    <3>2. QED
      BY <1>2, <1>4, <2>1, <3>1
  <2>2. CASE n = N1 + 1
    <3>1. new[n] = added
      BY <1>2, <1>7, <1>8, <2>2
    <3>2. QED
      BY <1>2, <2>2, <3>1
  <2>3. CASE n > N1 + 1
    <3>1. n - (N1 + 1) \in 1 .. N2 /\ new[n] = others[n - (N1 + 1)]
      BY <1>2, <1>8, <2>3
    <3>2. QED
      BY <1>2, <1>5, <2>3, <3>1
  <2>4. QED
    BY <1>2, <2>1, <2>2, <2>3
<1>10. OfType(new, "route", {}) = front
  <2> DEFINE K == {i \in DOMAIN new : new[i].type = "route" /\ ~\E a \in {} : IsRouteOf(new[i], a)}
             f == [n \in 1 .. Len(front) |-> n]
  <2>1. K = 1 .. N1 + 1
    BY <1>2, <1>8, <1>9 DEF IsRoute
  <2>2. /\ K \in SUBSET (DOMAIN new)
        /\ f \in [1 .. Len(front) -> K]
        /\ \A k, n \in 1 .. Len(front) : k < n => f[k] < f[n]
        /\ \A i \in K : \E n \in 1 .. Len(front) : f[n] = i
        /\ \A n \in 1 .. Len(front) : front[n] = new[f[n]]
    BY <1>2, <1>7, <1>8, <2>1
  <2> HIDE DEF K, f
  <2>3. RowsAt(new, K) = front
    BY <1>7, <1>8, <2>2, RowsAtUnique
  <2>4. QED
    BY <2>3 DEF OfType, K
<1>11. OfType(new, "acp", {}) = others
  <2> DEFINE K == {i \in DOMAIN new : new[i].type = "acp" /\ ~\E a \in {} : IsRouteOf(new[i], a)}
             f == [n \in 1 .. Len(others) |-> N1 + 1 + n]
  <2>1. K = N1 + 2 .. N1 + 1 + N2
    <3>1. \A i \in DOMAIN new : new[i].type = "acp" <=> ~(i <= N1 + 1)
      BY <1>9 DEF IsRoute, Rows
    <3>2. QED
      BY <1>2, <1>8, <3>1
  <2>2. /\ K \in SUBSET (DOMAIN new)
        /\ f \in [1 .. Len(others) -> K]
        /\ \A k, n \in 1 .. Len(others) : k < n => f[k] < f[n]
    <3>1. \A n \in 1 .. N2 : N1 + 1 + n \in N1 + 2 .. N1 + 1 + N2
      BY <1>2
    <3>2. N1 + 2 .. N1 + 1 + N2 \subseteq 1 .. N1 + 1 + N2
      BY <1>2
    <3>3. \A k, n \in 1 .. N2 : k < n => N1 + 1 + k < N1 + 1 + n
      BY <1>2
    <3> HIDE DEF K
    <3>4. QED
      BY <1>5, <1>8, <2>1, <3>1, <3>2, <3>3
  <2>3. ASSUME NEW i \in K
        PROVE  \E n \in 1 .. Len(others) : f[n] = i
    <3>1. i - (N1 + 1) \in 1 .. Len(others) /\ f[i - (N1 + 1)] = i
      BY <1>2, <1>5, <2>1
    <3>2. QED
      BY <3>1
  <2>4. ASSUME NEW n \in 1 .. Len(others)
        PROVE  others[n] = new[f[n]]
    <3> DEFINE j == N1 + 1 + n
    <3>1. f[n] = j /\ j \in 1 .. N1 + 1 + N2 /\ ~(j <= N1 + 1) /\ j - (N1 + 1) = n
      BY <1>2, <1>5
    <3> HIDE DEF j
    <3>2. new[j] = others[j - (N1 + 1)]
      BY <1>8, <3>1
    <3>3. QED
      BY <3>1, <3>2
  <2> HIDE DEF K, f
  <2>5. RowsAt(new, K) = others
    BY <1>5, <1>8, <2>2, <2>3, <2>4, RowsAtUnique
  <2>6. QED
    BY <2>5 DEF OfType, K
<1>12. Prefix(routes, front)
  <2>1. SubSeq(front, 1, N1) \in Seq(Rows) /\ Len(SubSeq(front, 1, N1)) = N1
        /\ \A n \in 1 .. N1 : SubSeq(front, 1, N1)[n] = front[n]
    BY <1>2, <1>7
  <2>2. SubSeq(front, 1, N1) = routes
    BY <1>4, <1>7, <2>1, SeqEqual
  <2>3. QED
    BY <1>2, <1>4, <1>7, <2>2 DEF Prefix
<1>13. Prefix(others, others)
  BY <1>2, <1>5, SubSeqFull DEF Prefix
<1>14. RoutesOf(new, added.account) # <<>>
  <2> DEFINE K == {i \in DOMAIN new : IsRouteOf(new[i], added.account)}
  <2>1. N1 + 1 \in K
    BY <1>2, <1>7, <1>8 DEF IsRouteOf
  <2>2. K \in SUBSET (DOMAIN new)
    OBVIOUS
  <2> HIDE DEF K
  <2>3. IsFiniteSet(K) /\ Len(RowsAt(new, K)) = Cardinality(K)
    BY <1>8, <2>2, RowsAtFacts
  <2>4. Cardinality(K) # 0
    BY <2>1, <2>3, FS_EmptySet
  <2>5. QED
    BY <2>3, <2>4 DEF RoutesOf, K
<1>15. \A type \in {"route", "acp"} : Prefix(OfType(s, type, {}), OfType(new, type, {}))
  BY <1>6, <1>10, <1>11, <1>12, <1>13
<1>16. new \in Seq(Rows) /\ Len(new) = Len(s) + 1
  BY <1>2, <1>8
<1>17. QED
  BY <1>14, <1>15, <1>16 DEF new, front, routes, others, K1, K2

\* The bindings of the file are a sequence of rows.
RowsTyped == rows \in Seq(Rows)

\* A row the tool adds comes after the routes.
LEMMA ToolRoutes ==
  ASSUME Typed, RowsTyped, at["tool"] # None, NEW agent \in Agents,
         applyRouteBinding(at["tool"], agent)
  PROVE  /\ RowsTyped'
         /\ rows' # rows =>
              /\ \A type \in {"route", "acp"} : Prefix(OfType(rows, type, {}), OfType(rows', type, {}))
              /\ Len(rows') <= Len(rows) + 1
         /\ RoutesOf(rows', at["tool"]) # <<>>
<1> DEFINE a == at["tool"]
           added == [type |-> "route", account |-> a, agent |-> agent]
<1>1. a \in Accounts
  BY DEF Typed, Doors
<1>2. added \in Rows /\ IsRoute(added) /\ added.account = a
  BY <1>1 DEF Rows, IsRoute
<1>3. CASE RoutesOf(rows, a) # <<>>
  <2>1. rows' = rows
    BY <1>3 DEF applyRouteBinding
  <2>2. RoutesOf(rows, a)' = RoutesOf(rows, a)'
    OBVIOUS
  <2>3. RoutesOf(rows', a) = RoutesOf(rows, a)
    BY <2>1
  <2>4. QED
    BY <1>3, <2>1, <2>3 DEF RowsTyped
<1>4. CASE RoutesOf(rows, a) = <<>>
  <2>1. rows' = Append(RowsAt(rows, {i \in DOMAIN rows : IsRoute(rows[i])}), added)
                  \o RowsAt(rows, {i \in DOMAIN rows : ~IsRoute(rows[i])})
    BY <1>4 DEF applyRouteBinding
  <2> HIDE DEF added
  <2>2. /\ rows' \in Seq(Rows) /\ Len(rows') = Len(rows) + 1
        /\ \A type \in {"route", "acp"} : Prefix(OfType(rows, type, {}), OfType(rows', type, {}))
        /\ RoutesOf(rows', added.account) # <<>>
    BY <1>2, <2>1, RoutedFacts DEF RowsTyped
  <2>3. Len(rows) \in Nat
    BY LenProperties DEF RowsTyped
  <2>4. QED
    BY <1>2, <2>2, <2>3 DEF RowsTyped
<1>5. QED
  BY <1>3, <1>4

\* A step keeps the bindings as RoutesKept says.
LEMMA RoutesStep ==
  ASSUME Typed, RowsTyped, [Next]_vars
  PROVE  RowsTyped' /\ RouteStep
<1>1. ASSUME UNCHANGED rows, block \subseteq block',
             at["tool"] \in block' \ block => at'["tool"] # None
      PROVE  RowsTyped' /\ RouteStep
  BY <1>1 DEF RowsTyped, RouteStep
<1>2. CASE InstallChanges \/ PathsEdited \/ UNCHANGED vars
  BY <1>1, <1>2 DEF InstallChanges, PathsEdited, vars, configVars, doorVars
<1>3. CASE WrittenByHand
  <2>1. None \notin Accounts
    BY NoneAssumption
  <2>2. QED
    BY <1>1, <1>3, <2>1 DEF WrittenByHand, doorVars
<1>4. ASSUME NEW d \in Doors, DoorFails(d) \/ \E a \in Accounts : DoorOpens(d, a)
      PROVE  RowsTyped' /\ RouteStep
  BY <1>1, <1>4 DEF DoorOpens, DoorFails, configVars
<1>5. CASE ToolWrites
  <2>1. PICK agent \in Agents : applyRouteBinding(at["tool"], agent)
    BY <1>5 DEF ToolWrites
  <2>2. block \ block' = {} /\ at["tool"] # None
    BY <1>5 DEF ToolWrites, applyEnrollment
  <2>3. /\ RowsTyped'
        /\ rows' # rows =>
             /\ \A type \in {"route", "acp"} : Prefix(OfType(rows, type, {}), OfType(rows', type, {}))
             /\ Len(rows') <= Len(rows) + 1
        /\ RoutesOf(rows', at["tool"]) # <<>>
    BY <2>1, <2>2, ToolRoutes
  <2>4. QED
    BY <2>2, <2>3 DEF RouteStep
<1>6. CASE WizardWrites
  <2>1. UNCHANGED rows /\ block \subseteq block' /\ block' \ block \subseteq {at["wizard"]}
    BY <1>6 DEF WizardWrites, applyEnrollment
  <2>2. at'["tool"] = at["tool"]
    BY <1>6 DEF WizardWrites, Closes, Typed, Doors
  <2>3. at["tool"] \in block' => at["tool"] # None
    BY <1>6, NoneAssumption DEF WizardWrites, applyEnrollment, Typed, Doors
  <2>4. QED
    BY <1>1, <2>1, <2>2, <2>3
<1>7. ASSUME NEW a \in Accounts, Logout(a)
      PROVE  RowsTyped' /\ RouteStep
  BY <1>1, <1>7 DEF Logout
<1>8. ASSUME NEW a \in Accounts, Delete(a)
      PROVE  RowsTyped' /\ RouteStep
  <2>1. rows' = Pruned(rows, a) /\ block \ block' = {a} /\ block' \ block = {}
    BY <1>8 DEF Delete
  <2>2. /\ rows' \in Seq(Rows) /\ Len(rows') <= Len(rows)
        /\ RoutesOf(rows', a) = <<>>
        /\ \A type : OfType(rows', type, {a}) = OfType(rows, type, {a})
    BY <2>1, PrunedFacts DEF RowsTyped
  <2>3. ASSUME NEW type
        PROVE  Prefix(OfType(rows, type, {a}), OfType(rows', type, {a}))
    <3> DEFINE K == {i \in DOMAIN rows : rows[i].type = type /\ ~\E b \in {a} : IsRouteOf(rows[i], b)}
    <3>1. K \in SUBSET (DOMAIN rows) /\ OfType(rows, type, {a}) = RowsAt(rows, K)
      BY DEF OfType
    <3> HIDE DEF K
    <3>2. RowsAt(rows, K) \in Seq(Rows)
      BY <3>1, RowsAtFacts DEF RowsTyped
    <3>3. OfType(rows, type, {a}) \in Seq(Rows)
      BY <3>1, <3>2
    <3>4. SubSeq(OfType(rows, type, {a}), 1, Len(OfType(rows, type, {a}))) = OfType(rows, type, {a})
      BY <3>3, SubSeqFull
    <3>5. Len(OfType(rows, type, {a})) \in Nat
      BY <3>3, LenProperties
    <3>6. OfType(rows', type, {a}) = OfType(rows, type, {a})
      BY <2>2
    <3>7. Prefix(OfType(rows, type, {a}), OfType(rows, type, {a}))
      BY <3>4, <3>5 DEF Prefix
    <3>8. QED
      BY <3>6, <3>7, Zenon
  <2>4. Len(rows) \in Nat /\ Len(rows') \in Nat
    BY <2>2, LenProperties DEF RowsTyped
  <2>5. /\ rows' # rows =>
              /\ \A type \in {"route", "acp"} :
                   Prefix(OfType(rows, type, {a}), OfType(rows', type, {a}))
              /\ Len(rows') <= Len(rows) + 1
        /\ \A b \in {a} : RoutesOf(rows', b) = <<>>
    <3>1. \A type \in {"route", "acp"} : Prefix(OfType(rows, type, {a}), OfType(rows', type, {a}))
      BY <2>3
    <3>2. Len(rows') <= Len(rows) + 1
      BY <2>2, <2>4
    <3>3. QED
      BY <2>2, <3>1, <3>2
  <2>6. RouteStep
    BY <2>1, <2>5 DEF RouteStep
  <2>7. QED
    BY <2>2, <2>6 DEF RowsTyped
<1>9. QED
  BY <1>2, <1>3, <1>4, <1>5, <1>6, <1>7, <1>8 DEF Next, People

\* No binding is changed or moved by an enrollment or a removal, but for the account's own
\* routes, and an account the tool has written is routed (applyRouteBinding,
\* pruneRouteBindings), for files of any length.
THEOREM KeepsRoutes == Spec => RoutesKept
<1>1. Init => RowsTyped
  BY RowsAssumption DEF Init, RowsTyped
<1>2. Typed /\ RowsTyped /\ [Next]_vars => RowsTyped'
  BY RoutesStep
<1>3. Typed /\ RowsTyped /\ [Next]_vars => [RouteStep]_vars
  BY RoutesStep
<1>4. ConfigInv => Typed
  BY DEF ConfigInv
<1>5. QED
  BY <1>1, <1>2, <1>3, <1>4, ConfigInductive, PTL DEF Spec, RoutesKept

\* Every variable of Config keeps its type.
THEOREM ConfigTypeCorrect == Spec => []TypeOK
<1> DEFINE Bounded == edits \in 0 .. MaxEdits /\ opened \in 0 .. MaxDoors
<1>1. Init => RowsTyped /\ Bounded
  BY RowsAssumption, BoundsAssumption DEF Init, RowsTyped
<1>2. Typed /\ RowsTyped /\ [Next]_vars => RowsTyped'
  BY RoutesStep
<1>3. Bounded /\ [Next]_vars => Bounded'
  <2> SUFFICES ASSUME Bounded, [Next]_vars
               PROVE  Bounded'
    OBVIOUS
  <2>1. CASE People
    BY <2>1, BoundsAssumption DEF People, InstallChanges, PathsEdited, WrittenByHand, Change
  <2>2. ASSUME NEW d \in Doors, NEW a \in Accounts, DoorOpens(d, a)
        PROVE  Bounded'
    BY <2>2, BoundsAssumption DEF DoorOpens
  <2>3. CASE UNCHANGED <<edits, opened>>
    BY <2>3
  <2>4. QED
    BY <2>1, <2>2, <2>3 DEF Next, DoorFails, ToolWrites, WizardWrites, Logout, Delete, vars, hostVars
<1>4. ConfigInv => Typed
  BY DEF ConfigInv
<1>5. Typed /\ RowsTyped /\ Bounded => TypeOK
  BY DEF Typed, RowsTyped, TypeOK
<1> HIDE DEF Bounded
<1>6. QED
  BY <1>1, <1>2, <1>3, <1>4, <1>5, ConfigInductive, PTL DEF Spec
-----------------------------------------------------------------------------
(* The wizard's ceremony.                                                  *)

\* What is between the first prompt and the poll, and what only an enrolled poll leads to.
BeforePoll    == {"lease", "name", "effect", "create"}
AfterEnrolled == {"info", "mintEffect", "mint", "probe", "grant", "writeEffect", "outro"}

\* A token that was answered is known to newDoor; a failure names what is known, and
\* only a failure does.
TokenInv ==
  /\ token = "exists" => tokenKnown
  /\ pc = "lease" => ~tokenKnown /\ token = "none"
  /\ pc \in {"note", "leaving", "over"} => outcome = "written" \/ (tokenKnown => named)
  /\ named => pc \in {"note", "leaving", "over"} /\ outcome = "failed"

\* A device that is pairing is known to the lease, which is not terminal yet, or its
\* creation was cut off; and a lease that has ended has asked for its cancellation.
PairingInv ==
  /\ pc \in BeforePoll => poll = "off"
  /\ pc = "lease" => device = "none"
  /\ lease = "none" => pc \in {"lease", "over"} /\ device = "none" /\ poll = "off"
  /\ pc \in AfterEnrolled \/ terminal => poll = "enrolled"
  /\ poll = "enrolled" => device = "enrolled"
  /\ device = "pairing" => knows \/ lost
  /\ device = "pairing" /\ lease # "live" => tried \/ lost
  /\ pc = "over" => lease = "gone" \/ device # "pairing"

WizardInv == TokenInv /\ PairingInv

\* The rest of a sequence is one of the same elements.
LEMMA RestType ==
  ASSUME NEW S, NEW s \in Seq(S), NEW i \in DOMAIN s
  PROVE  SubSeq(s, i + 1, Len(s)) \in Seq(S)
<1>1. DOMAIN s = 1 .. Len(s) /\ Len(s) \in Nat
  BY LenProperties
<1>2. i \in Nat /\ i + 1 \in Int /\ Len(s) \in Int
  BY <1>1
<1>3. \A j \in i + 1 .. Len(s) : s[j] \in S
  BY <1>1, ElementOfSeq
<1> DEFINE m == i + 1
<1>4. m \in Int /\ \A j \in m .. Len(s) : s[j] \in S
  BY <1>2, <1>3
<1> HIDE DEF m
<1>5. SubSeq(s, m, Len(s)) \in Seq(S)
  BY <1>2, <1>4, SubSeqProperties
<1>6. QED
  BY <1>5 DEF m

\* A step keeps the types.
LEMMA WizardTypes ==
  ASSUME WizardTypeOK, [WizardNext]_wizardVars
  PROVE  WizardTypeOK'
<1> USE DEF WizardTypeOK, PCs, leaseVars, pollVars, tokenVars
<1>1. CASE Expire \/ Disposed \/ UNCHANGED wizardVars
  BY <1>1 DEF Expire, Dispose, Disposed, wizardVars
<1>2. CASE Update \/ Presented \/ Drain
  <2>1. CASE Update \/ Presented
    BY <2>1 DEF Update, Presented, Push
  <2>2. CASE Drain
    <3>1. \A i \in DOMAIN snapshots :
            SubSeq(snapshots, i + 1, Len(snapshots)) \in Seq({"waiting", "words", "end"})
      BY RestType
    <3>2. snapshots' \in Seq({"waiting", "words", "end"})
      <4>1. \/ \E i \in DOMAIN snapshots : snapshots' = SubSeq(snapshots, i + 1, Len(snapshots))
            \/ snapshots' = <<>>
        BY <2>2 DEF Drain
      <4>2. <<>> \in Seq({"waiting", "words", "end"})
        BY EmptySeq
      <4>3. QED
        BY <3>1, <4>1, <4>2, Zenon
    <3>3. consumer' \in {"shows", "parked", "failed"}
      BY <2>2 DEF Drain
    <3>4. QED
      BY <2>2, <3>2, <3>3 DEF Drain
  <2>3. QED
    BY <1>2, <2>1, <2>2
<1>3. CASE PollEnds
  BY <1>3 DEF PollEnds, PollOutcome, Push
<1>4. CASE Leased \/ Proceeds \/ Breaks
  BY <1>4 DEF Leased, Proceeds, Breaks, Goes, Fails
<1>5. CASE CreateAsked \/ Created \/ NotCreated \/ WordsShown
  <2>1. Aborted \in BOOLEAN
    BY DEF Aborted
  <2>2. CASE Created
    BY <2>1, <2>2 DEF Created, Goes
  <2>3. CASE CreateAsked \/ NotCreated \/ WordsShown
    BY <2>3 DEF CreateAsked, NotCreated, WordsShown, Goes, Fails
  <2>4. QED
    BY <1>5, <2>2, <2>3
<1>6. CASE CancelAsked \/ CancelAnswered
  BY <1>6 DEF CancelAsked, CancelAnswered, Goes, Fails
<1>7. CASE Minted \/ MintLost \/ Probed
  BY <1>7 DEF Minted, MintLost, Probed, Goes, Fails
<1>8. CASE Leaves \/ Left
  BY <1>8 DEF Leaves, Left, Goes, Dispose
<1>9. QED
  BY <1>1, <1>2, <1>3, <1>4, <1>5, <1>6, <1>7, <1>8 DEF WizardNext

\* No wake-up is lost in a step.
LEMMA SeenStep ==
  ASSUME NothingUnseen, [WizardNext]_wizardVars
  PROVE  NothingUnseen'
<1> USE DEF NothingUnseen, pollVars
<1>1. CASE Update
  BY <1>1 DEF Update, Push
<1>2. CASE PollEnds
  BY <1>2 DEF PollEnds, Push
<1>3. CASE Presented
  BY <1>3 DEF Presented
<1>4. CASE Drain
  BY <1>4 DEF Drain
<1>5. CASE Created
  BY <1>5 DEF Created
<1>6. CASE UNCHANGED pollVars
  BY <1>6
<1>7. QED
  BY <1>1, <1>2, <1>3, <1>4, <1>5, <1>6
     DEF WizardNext, Expire, Disposed, Leased, Proceeds, Breaks, CreateAsked, NotCreated,
         WordsShown, CancelAsked, CancelAnswered, Minted, MintLost, Probed, Leaves, Left,
         wizardVars

\* A token stays known, and named if the wizard failed, in a step.
LEMMA TokenStep ==
  ASSUME WizardTypeOK, TokenInv, [WizardNext]_wizardVars
  PROVE  TokenInv'
<1> USE DEF WizardTypeOK, TokenInv, tokenVars
<1>1. CASE UNCHANGED <<tokenVars, pc, outcome>>
  BY <1>1
<1>2. CASE Leased \/ Proceeds \/ CreateAsked \/ Created \/ WordsShown \/ CancelAsked
  BY <1>2 DEF Leased, Proceeds, CreateAsked, Created, WordsShown, CancelAsked, Goes
<1>3. CASE Breaks \/ NotCreated \/ CancelAnswered
  BY <1>3 DEF Breaks, NotCreated, CancelAnswered, Fails
<1>4. CASE Minted \/ MintLost \/ Probed
  BY <1>4 DEF Minted, MintLost, Probed, Goes, Fails
<1>5. CASE Leaves \/ Left
  BY <1>5 DEF Leaves, Left, Goes
<1>6. QED
  BY <1>1, <1>2, <1>3, <1>4, <1>5
     DEF WizardNext, Expire, Disposed, Update, PollEnds, Presented, Drain, wizardVars

\* A pairing stays accounted for in a step.
LEMMA PairingStep ==
  ASSUME WizardTypeOK, PairingInv, [WizardNext]_wizardVars
  PROVE  PairingInv'
<1> USE DEF WizardTypeOK, PairingInv, BeforePoll, AfterEnrolled, leaseVars, pollVars
<1>1. CASE UNCHANGED <<leaseVars, device, poll, pc>>
  BY <1>1
<1>2. CASE Expire
  BY <1>2 DEF Expire, Dispose
<1>3. CASE Disposed
  BY <1>3 DEF Disposed
<1>4. CASE PollEnds
  BY <1>4 DEF PollEnds, PollOutcome
<1>5. CASE Leased
  BY <1>5 DEF Leased, Goes
<1>6. CASE Proceeds
  BY <1>6 DEF Proceeds, Goes
<1>7. CASE Breaks \/ MintLost
  BY <1>7 DEF Breaks, MintLost, Fails, PCs
<1>8. CASE CreateAsked
  BY <1>8 DEF CreateAsked, Goes
<1>9. CASE Created
  BY <1>9 DEF Created, Goes, Aborted
<1>10. CASE NotCreated
  BY <1>10 DEF NotCreated, Fails
<1>11. CASE WordsShown \/ Minted \/ Probed
  BY <1>11 DEF WordsShown, Minted, Probed, Goes
<1>12. CASE CancelAsked \/ CancelAnswered
  BY <1>12 DEF CancelAsked, CancelAnswered, Goes, Fails
<1>13. CASE Leaves
  BY <1>13 DEF Leaves, Goes, Dispose
<1>14. CASE Left
  BY <1>14 DEF Left, Goes
<1>15. QED
  BY <1>1, <1>2, <1>3, <1>4, <1>5, <1>6, <1>7, <1>8, <1>9, <1>10, <1>11, <1>12, <1>13, <1>14
     DEF WizardNext, Update, Presented, Drain, wizardVars

\* The wizard's invariant.
LEMMA WizardInductive == WizardSpec => [](WizardTypeOK /\ WizardInv /\ NothingUnseen)
<1>1. WizardInit => WizardTypeOK /\ WizardInv /\ NothingUnseen
  <2>1. <<>> \in Seq({"waiting", "words", "end"})
    BY EmptySeq
  <2>2. QED
    BY <2>1 DEF WizardInit, WizardTypeOK, WizardInv, TokenInv, PairingInv, NothingUnseen, PCs,
                BeforePoll, AfterEnrolled
<1>2. ASSUME WizardTypeOK, WizardInv, NothingUnseen, [WizardNext]_wizardVars
      PROVE  (WizardTypeOK /\ WizardInv /\ NothingUnseen)'
  BY <1>2, WizardTypes, TokenStep, PairingStep, SeenStep DEF WizardInv
<1>3. QED
  BY <1>1, <1>2, PTL DEF WizardSpec

\* Every variable of Wizard keeps its type, for queues of every bound.
THEOREM WizardTypeCorrect == WizardSpec => []WizardTypeOK
BY WizardInductive, PTL

\* Wizard: the consumer of the snapshots waits only while none is queued and the poll goes
\* on, in whatever order the poll, the prompts and the consumer come, with a queue of any
\* length.
THEOREM MissesNoSnapshot == WizardSpec => []NothingUnseen
BY WizardInductive, PTL

\* Wizard: when it is over, a token whose mint was answered is in the returned config, or the
\* human was told how to revoke it, and never both, whatever failed after the mint.
THEOREM NamesTheToken == WizardSpec => []TokenNamed
<1>1. TokenInv => TokenNamed
  BY DEF TokenInv, TokenNamed
<1>2. QED
  BY <1>1, WizardInductive, PTL DEF WizardInv

\* Wizard: when it is over, no device is left pairing whose cancellation was not asked for
\* on an open connection, unless its creation was cut off: whichever of the expiry, the
\* human's No, the failed poll and the wizard's exit ended the ceremony first.
THEOREM LeavesNoPairing == WizardSpec => []NotLeftPairing
<1>1. PairingInv => NotLeftPairing
  BY DEF PairingInv, NotLeftPairing
<1>2. QED
  BY <1>1, WizardInductive, PTL DEF WizardInv
=============================================================================
