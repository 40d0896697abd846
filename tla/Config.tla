-------------------------------- MODULE Config --------------------------------
(***************************************************************************)
(* The configuration the plugin reads and writes (src/src/config.ts,         *)
(* enroll-config.ts, bindings.ts): which device host an account belongs to, *)
(* whose commands are the owner's, which agent an account is routed to.  The *)
(* two doors of an enrollment resolve the host when they open and write      *)
(* minutes later; meanwhile people edit, accounts log out or go, and a       *)
(* system install of the device host comes or goes.                         *)
(*                                                                         *)
(* A write is the mutation of the file that is current then.  Paths are      *)
(* canonical: a socket is named by the data dir whose layout has it.         *)
(***************************************************************************)
EXTENDS Sequences, FiniteSets, Integers

CONSTANTS
  Accounts, Owners, Agents,
  Dirs,         \* data dirs, "user" and "system" among them
  KeySets,      \* what the configuration may name for an account: [dir, control, enroll]
  InitialRows,  \* bindings people wrote: sequences of [type, account, agent]
  Other,        \* in a binding: whatever is not exactly one account of this channel
  None,
  MaxEdits,     \* bound: what people and the host's administrator change
  MaxDoors      \* bound: how often a door opens

Socks == [dir : Dirs, kind : {"control", "session", "enroll"}]
Keys  == [dir : Dirs \cup {None}, control : Socks \cup {None}, enroll : Socks \cup {None}]
NoKeys == [dir |-> None, control |-> None, enroll |-> None]
Rows  == [type : {"route", "acp"}, account : Accounts \cup {Other}, agent : Agents]

ASSUME AccountsAssumption == IsFiniteSet(Accounts)
ASSUME KeysAssumption  == NoKeys \in KeySets /\ KeySets \subseteq Keys
ASSUME DirsAssumption  == {"user", "system"} \subseteq Dirs
ASSUME RowsAssumption  == InitialRows \subseteq Seq(Rows)
ASSUME NoneAssumption  == None \notin Dirs \cup Socks \cup Accounts \cup Owners
ASSUME OtherAssumption == Other \notin Accounts
ASSUME BoundsAssumption == MaxEdits \in Nat /\ MaxDoors \in Nat

Doors  == {"tool", "wizard"}
Scopes == {"none", "user", "system"}

VARIABLES
  installed,  \* external: detectSystemInstall
  edits,      \* external: how much was changed, how often a door opened
  opened,
  keys,       \* the paths an account names, or inherits
  block,      \* the accounts in the config
  owner,      \* ownerUserId
  scope,      \* daemonScope
  grants,     \* the owners in commands.ownerAllowFrom
  rows,       \* bindings
  at,         \* the account an open door is for
  dials,      \* the identity the door resolved when it opened
  edited,     \* history: the open doors whose account's paths were edited meanwhile
  minted      \* history: the identity the account's token is from; None: no token, or
              \* the account's paths were edited since

hostVars   == <<installed, edits, opened>>
configVars == <<keys, block, owner, scope, grants, rows>>
doorVars   == <<at, dials>>
pastVars   == <<edited, minted>>
vars == <<hostVars, configVars, doorVars, pastVars>>

-----------------------------------------------------------------------------
(* The identity of the device host.                                        *)

Sock(d, kind) == [dir |-> d, kind |-> kind]

Given(k, default) == IF k # None THEN k ELSE default

\* The layout under data dir d, as far as keys k leave it.
Layout(where, d, k) ==
  [scope |-> where, dir |-> d,
   control |-> Given(k.control, Sock(d, "control")),
   session |-> Sock(d, "session"),
   enroll  |-> Given(k.enroll, Sock(d, "enroll"))]

Identities == [scope : {"user", "system"}, dir : Dirs, control : Socks, session : Socks, enroll : Socks]

\* Mutant of resolveDaemonIdentity: a system install is preferred to what is recorded.
DetectedFirst(k, recorded) ==
  IF k = NoKeys /\ (recorded = "system" \/ installed)
    THEN Layout("system", "system", NoKeys)
    ELSE Layout("user", Given(k.dir, "user"), k)

\* Explicit paths, else the recorded scope, else what is detected now.
resolveDaemonIdentity(k, recorded) ==
  IF k = NoKeys /\ (recorded = "system" \/ (recorded = "none" /\ installed))
    THEN Layout("system", "system", NoKeys)
    ELSE Layout("user", Given(k.dir, "user"), k)

Identity(a) == resolveDaemonIdentity(keys[a], scope[a])

\* The values of a field over the identities that share another field with a.
Shared(ids, a, of, field) == {ids[b][field] : b \in {c \in DOMAIN ids : ids[c][of] = ids[a][of]}}

OneEach(ids, a) ==
  /\ Cardinality(Shared(ids, a, "dir", "control")) = 1
  /\ Cardinality(Shared(ids, a, "dir", "enroll")) = 1
  /\ Cardinality(Shared(ids, a, "control", "dir")) = 1
  /\ Cardinality(Shared(ids, a, "enroll", "dir")) = 1

\* Mutant of Error: the roles are compared within each account.
OwnRolesOnly(ids, a) ==
  \/ ids[a].enroll \in {ids[a].control, ids[a].session}
  \/ ~OneEach(ids, a)

\* validateDaemonIdentities, of the identities ids: whether it reports account a.
Error(ids, a) ==
  \/ ids[a].enroll \in UNION {{ids[b].control, ids[b].session} : b \in DOMAIN ids}
  \/ ~OneEach(ids, a)

configError(a) == Error([b \in block |-> Identity(b)], a)

-----------------------------------------------------------------------------
TypeOK ==
  /\ installed \in BOOLEAN /\ edits \in 0 .. MaxEdits /\ opened \in 0 .. MaxDoors
  /\ keys \in [Accounts -> KeySets]
  /\ block \subseteq Accounts
  /\ owner \in [Accounts -> Owners \cup {None}]
  /\ scope \in [Accounts -> Scopes]
  /\ grants \subseteq Owners
  /\ rows \in Seq(Rows)
  /\ at \in [Doors -> Accounts \cup {None}]
  /\ dials \in [Doors -> Identities \cup {None}]
  /\ edited \subseteq Doors
  /\ minted \in [Accounts -> Identities \cup {None}]

Init ==
  /\ installed \in BOOLEAN /\ edits = 0 /\ opened = 0
  /\ keys = [a \in Accounts |-> NoKeys]
  /\ block = {}
  /\ owner = [a \in Accounts |-> None]
  /\ scope = [a \in Accounts |-> "none"]
  /\ grants = {} /\ rows \in InitialRows
  /\ at = [d \in Doors |-> None] /\ dials = [d \in Doors |-> None]
  /\ edited = {} /\ minted = [a \in Accounts |-> None]

-----------------------------------------------------------------------------
(* The host and its people (external).                                     *)

Change == edits < MaxEdits /\ edits' = edits + 1

InstallChanges ==
  /\ Change
  /\ installed' = ~installed
  /\ UNCHANGED <<opened, configVars, doorVars, pastVars>>

\* A path of one account, or one that several inherit.
PathsEdited ==
  /\ Change
  /\ \E S \in SUBSET Accounts \ {{}}, k \in KeySets :
       /\ keys' = [a \in Accounts |-> IF a \in S THEN k ELSE keys[a]]
       /\ edited' = edited \cup {d \in Doors : at[d] \in S}
       /\ minted' = [a \in Accounts |-> IF a \in S THEN None ELSE minted[a]]
  /\ UNCHANGED <<installed, opened, block, owner, scope, grants, rows, doorVars>>

\* An account is put into the file by hand.
WrittenByHand ==
  /\ Change
  /\ \E a \in Accounts \ block : block' = block \cup {a}
  /\ UNCHANGED <<installed, opened, keys, owner, scope, grants, rows, doorVars, pastVars>>

-----------------------------------------------------------------------------
(* The doors.                                                              *)

\* inspectAdemuAccountForEnrollment: the recorded scope is ignored, the candidate is
\* validated with the identity it will dial.
DoorOpens(d, a) ==
  LET candidate == resolveDaemonIdentity(keys[a], "none")
      ids == [b \in block \cup {a} |-> IF b = a THEN candidate ELSE Identity(b)]
  IN  /\ opened < MaxDoors /\ opened' = opened + 1
      /\ at[d] = None
      /\ d = "tool" => a \notin block
      /\ ~Error(ids, a)
      /\ at' = [at EXCEPT ![d] = a]
      /\ dials' = [dials EXCEPT ![d] = candidate]
      /\ UNCHANGED <<installed, edits, configVars, pastVars>>

Closes(d) ==
  /\ at' = [at EXCEPT ![d] = None]
  /\ dials' = [dials EXCEPT ![d] = None]
  /\ edited' = edited \ {d}

\* The ceremony fails, or the write is refused.
DoorFails(d) ==
  /\ at[d] # None
  /\ Closes(d)
  /\ UNCHANGED <<hostVars, configVars, minted>>

\* applyEnrollment.
applyEnrollment(d, o, grant) ==
  LET a == at[d]
  IN  /\ block' = block \cup {a}
      /\ owner' = [owner EXCEPT ![a] = o]
      /\ scope' = [scope EXCEPT ![a] = dials[d].scope]
      /\ grants' = IF grant THEN grants \cup {o} ELSE grants
      /\ minted' = [minted EXCEPT ![a] = IF d \in edited THEN None ELSE dials[d]]

IsRoute(row) == row.type = "route"

\* Exactly the account's route: findRouteBinding, pruneRouteBindings.
IsRouteOf(row, a) == IsRoute(row) /\ row.account = a

\* The rows of s at the given positions, in their order.
RowsAt(s, positions) ==
  [n \in 1 .. Cardinality(positions) |->
     s[CHOOSE i \in positions : Cardinality({j \in positions : j <= i}) = n]]

RoutesOf(s, a) == RowsAt(s, {i \in DOMAIN s : IsRouteOf(s[i], a)})

\* All rows but the account's own routes.
Pruned(s, a) == RowsAt(s, {i \in DOMAIN s : ~IsRouteOf(s[i], a)})

\* Mutant of applyRouteBinding: the new row goes to the end, whatever is there.
RouteOverwritten(a, agent) ==
  rows' = Append(Pruned(rows, a), [type |-> "route", account |-> a, agent |-> agent])

\* A row of its own, after the routes, unless the account is routed to the agent.
applyRouteBinding(a, agent) ==
  LET routes == RowsAt(rows, {i \in DOMAIN rows : IsRoute(rows[i])})
      others == RowsAt(rows, {i \in DOMAIN rows : ~IsRoute(rows[i])})
      added  == [type |-> "route", account |-> a, agent |-> agent]
  IN  IF RoutesOf(rows, a) # <<>>
        THEN RoutesOf(rows, a)[1].agent = agent /\ UNCHANGED rows
        ELSE rows' = Append(routes, added) \o others

\* The tool's write: refused if the account exists by now, or is routed elsewhere.
ToolWrites ==
  /\ at["tool"] # None /\ at["tool"] \notin block
  /\ \E o \in Owners : applyEnrollment("tool", o, TRUE)
  /\ \E agent \in Agents : applyRouteBinding(at["tool"], agent)
  /\ Closes("tool")
  /\ UNCHANGED <<hostVars, keys>>

\* The wizard's: an account is enrolled again, the grant is a question.
WizardWrites ==
  /\ at["wizard"] # None
  /\ \E o \in Owners, grant \in BOOLEAN : applyEnrollment("wizard", o, grant)
  /\ Closes("wizard")
  /\ UNCHANGED <<hostVars, keys, rows>>

-----------------------------------------------------------------------------
(* Leaving.                                                                *)

\* Mutant of pruneOwnerAllowFrom: whoever leaves takes the grant along.
PrunedAlways(a, remaining) == grants' = grants \ {owner[a]}

\* Unless a remaining account names the owner, too.
pruneOwnerAllowFrom(a, remaining) ==
  grants' = IF owner[a] \in {owner[b] : b \in remaining} THEN grants ELSE grants \ {owner[a]}

\* clearAccountCredentials: the block stays, with its paths, scope and binding.
Logout(a) ==
  /\ a \in block
  /\ pruneOwnerAllowFrom(a, block \ {a})
  /\ owner' = [owner EXCEPT ![a] = None]
  /\ minted' = [minted EXCEPT ![a] = None]
  /\ UNCHANGED <<hostVars, keys, block, scope, rows, doorVars, edited>>

\* deleteAccount: the account's own paths go, too, what it inherits stays.
Delete(a) ==
  /\ a \in block
  /\ block' = block \ {a}
  /\ pruneOwnerAllowFrom(a, block \ {a})
  /\ rows' = Pruned(rows, a)
  /\ owner' = [owner EXCEPT ![a] = None]
  /\ scope' = [scope EXCEPT ![a] = "none"]
  /\ minted' = [minted EXCEPT ![a] = None]
  /\ \E k \in {NoKeys, keys[a]} \cap KeySets : keys' = [keys EXCEPT ![a] = k]
  /\ edited' = edited \cup {d \in Doors : at[d] = a}
  /\ UNCHANGED <<hostVars, doorVars>>

-----------------------------------------------------------------------------
People == InstallChanges \/ PathsEdited \/ WrittenByHand

Next ==
  \/ People
  \/ \E d \in Doors, a \in Accounts : DoorOpens(d, a)
  \/ \E d \in Doors : DoorFails(d)
  \/ ToolWrites \/ WizardWrites
  \/ \E a \in Accounts : Logout(a) \/ Delete(a)

Spec == Init /\ [][Next]_vars

-----------------------------------------------------------------------------
(* Properties.                                                             *)

\* config.ts:255-258: "a token belongs to the device host that minted it": whatever is
\* installed, enrolled, removed or edited elsewhere, an account with a token resolves to
\* the identity its door dialled, unless its own paths were edited since then.
HostKept ==
  \A a \in Accounts : minted[a] # None => Identity(a) = minted[a]

\* What one data dir, one control socket and one enrollment socket per device host, each
\* in its own role, means for two accounts.
Compatible(i, j) ==
  /\ i.enroll \notin {j.control, j.session}
  /\ i.dir = j.dir <=> i.control = j.control
  /\ i.dir = j.dir <=> i.enroll = j.enroll

\* config.ts:417-420: any two accounts without a configError agree about which socket is
\* whose, though each was accepted at another time, with other accounts and paths beside it.
AccountsAgree ==
  \A a, b \in block : ~configError(a) /\ ~configError(b) => Compatible(Identity(a), Identity(b))

\* README.md:270-272: a grant is taken back with the last account that names the owner,
\* by logout or removal, and never while another one does.  (When an account is enrolled
\* again for another owner, the grant of the former one stays.)
GrantsFollow ==
  [][\A o \in Owners :
       LET before == {a \in Accounts : owner[a] = o}
           after  == {a \in Accounts : owner'[a] = o}
       IN  /\ o \in grants \ grants' => before # {} /\ after = {}
           /\ before # {} /\ after = {} /\ o \in grants' =>
                \E a \in before : owner'[a] # None]_vars

\* The rows of one type that are no account's of gone.
OfType(s, type, gone) ==
  RowsAt(s, {i \in DOMAIN s : s[i].type = type /\ ~\E a \in gone : IsRouteOf(s[i], a)})

Prefix(old, new) == Len(old) <= Len(new) /\ SubSeq(new, 1, Len(old)) = old

RouteStep ==
  LET gone == block \ block'
  IN  /\ rows' # rows =>
           /\ \A type \in {"route", "acp"} :
                Prefix(OfType(rows, type, gone), OfType(rows', type, gone))
           /\ Len(rows') <= Len(rows) + 1
      /\ \A a \in gone : RoutesOf(rows', a) = <<>>
      /\ at["tool"] \in block' \ block /\ at'["tool"] = None =>
           RoutesOf(rows', at["tool"]) # <<>>

\* bindings.ts:9-12: no row is changed, or moved past another of its type; a removal
\* takes the account's own routes and nothing else; an account a door has written is
\* routed to one agent, and not away from the one it had.
RoutesKept == [][RouteStep]_vars
=============================================================================
