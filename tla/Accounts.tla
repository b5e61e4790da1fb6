------------------------------ MODULE Accounts ------------------------------
(***************************************************************************)
(* How accounts come and go on a space: the one-shot owner claim, open      *)
(* registration under a soft limit, renames and passwords, and the deletion *)
(* of an account with the applications it leaves behind, beside their        *)
(* registration.                                                             *)
(*                                                                          *)
(* ClaimOwner and RegisterUser are transactions of several INSERTs.  What a *)
(* request has inserted and not committed is in held[r]: nobody reads it,   *)
(* but an INSERT or UPDATE that conflicts with it waits, and one that       *)
(* conflicts with a committed row fails.  A name stands for a username that *)
(* NormalizeUsername accepts, NoName for one it refuses; Lower is its lower  *)
(* case.  The salt of a handle is the handle itself (an HMAC under a fixed  *)
(* key).  Escrow and binding, which also null a verifier, are in Sessions;  *)
(* the avatar and the files an account leaves behind are in Storage.  The    *)
(* events of applications, their moves and the quota are in EventPipeline.   *)
(***************************************************************************)
EXTENDS Naturals, FiniteSets

CONSTANTS
  Keys, NoKey,           \* account public keys
  Devices,               \* device public keys
  Names, NoName, Lower,
  Apps,
  Reqs, NoMsg, Messages,
  NoRow,                 \* a key without an account
  InitUsers, InitDevices, InitRoles,
  Unregistered,          \* applications nobody has registered yet
  OpenRegistration, MaxAccounts,   \* configuration
  MaxRequests, MaxRestarts         \* bounds

Handles == {Lower[n] : n \in Names}
Users == [name: Names, role: {"user", "owner"}, verifier: BOOLEAN, handle: Handles \cup {NoName}]
Roles == {"none", "member", "owner"}
Requests ==
  [op: {"claim", "register", "rename", "password", "clear", "delete", "createApp"},
   key: Keys, dev: Devices, name: Names \cup {NoName}, pw: BOOLEAN, app: Apps]
Steps ==
  {"idle", "hasClaim", "count", "insUser", "insDevice", "insClaim", "commit", "space",
   "auth", "rename", "setPassword", "clear", "listApps", "nextApp", "erase",
   "ownerCheck", "registerApp"}

ASSUME NamesAssumption ==
  /\ Lower \in [Names -> Names]
  /\ \A n \in Names : Lower[Lower[n]] = Lower[n]
  /\ NoName \notin Names
ASSUME RowsAssumption ==
  /\ NoKey \notin Keys /\ NoRow \notin Users
  /\ Messages \subseteq Requests /\ NoMsg \notin Requests
ASSUME InitAssumption ==
  /\ InitUsers \in [Keys -> Users \cup {NoRow}]
  /\ \A k \in Keys : InitUsers[k] # NoRow =>
       /\ InitUsers[k].role = "user"
       /\ InitUsers[k].verifier => InitUsers[k].handle = Lower[InitUsers[k].name]
       /\ \E d \in Devices : InitDevices[d] = k
  /\ \A j, k \in Keys :
       (InitUsers[j] # NoRow /\ InitUsers[k] # NoRow /\ InitUsers[j].verifier /\ InitUsers[k].verifier
          /\ Lower[InitUsers[j].name] = Lower[InitUsers[k].name]) => j = k
  /\ InitDevices \in [Devices -> Keys \cup {NoKey}]
  /\ \A d \in Devices : InitDevices[d] # NoKey => InitUsers[InitDevices[d]] # NoRow
  /\ InitRoles \in [Apps -> [Keys -> Roles]]
  /\ Unregistered \subseteq Apps
  /\ \A a \in Apps \ Unregistered : \E k \in Keys : InitRoles[a][k] = "owner"
  /\ \A a \in Apps, k \in Keys : InitRoles[a][k] = "owner" => InitUsers[k] # NoRow
ASSUME LimitsAssumption ==
  /\ OpenRegistration \in BOOLEAN
  /\ MaxAccounts \in Nat /\ MaxRequests \in Nat /\ MaxRestarts \in Nat
  /\ Cardinality({k \in Keys : InitUsers[k] # NoRow}) < MaxAccounts + Cardinality(Reqs)

VARIABLES
  users,      \* users table, committed
  owner,      \* user_devices table: the account of each device
  claim,      \* space_owner_claim: the key that claimed the space
  window,     \* whether the claim window is open
  spaces,     \* accounts a default space was created for
  roles,      \* members table, per application
  deleted,    \* applications without a live row: unregistered, or deleted_at set
  held,       \* per request: what its open transaction has inserted
  pc, msg,
  known,      \* per request: the username read at authentication
  todo, sole, \* per deletion: applications still to leave; those it alone owns,
              \* at the end the ones of them its transaction has marked deleted
  arrived, restarts,
  overlap,    \* history: a deletion of the claiming key was under way at the claim
  crossed,    \* history: applications that two deletions were leaving at once
  late        \* history: applications registered too late for a deletion to see

tables == <<users, owner, claim, spaces, roles, deleted>>
locals == <<msg, known, todo, sole>>
history == <<overlap, crossed, late>>
vars == <<tables, window, held, pc, locals, arrived, restarts, history>>

Init ==
  /\ users = InitUsers /\ owner = InitDevices /\ roles = InitRoles
  /\ claim = NoKey /\ spaces = {} /\ deleted = Unregistered /\ window = TRUE
  /\ held = [r \in Reqs |-> {}]
  /\ pc = [r \in Reqs |-> "idle"]
  /\ msg = [r \in Reqs |-> NoMsg]
  /\ known = [r \in Reqs |-> NoName]
  /\ todo = [r \in Reqs |-> {}] /\ sole = [r \in Reqs |-> {}]
  /\ arrived = 0 /\ restarts = 0
  /\ overlap = FALSE /\ crossed = {} /\ late = {}

Exists(k) == users[k] # NoRow
Goto(r, step) == pc' = [pc EXCEPT ![r] = step]

\* Mutant: no deferred Rollback; the transaction stays open.
RollbackForgotten(r) == UNCHANGED held

\* The deferred Rollback of a transaction that ends without a commit.
Rollback(r) == held' = [held EXCEPT ![r] = {}]

End(r) == Goto(r, "idle") /\ Rollback(r)

-----------------------------------------------------------------------------
(* Arrival: what each handler looks at before its first statement. *)

\* Claim and Register: the checks that need no state.
WellFormed(m) ==
  \/ m.op = "claim" /\ m.name # NoName
  \/ m.op = "register" /\ OpenRegistration /\ m.name # NoName /\ m.pw
  \/ m.op = "rename" /\ m.name # NoName
  \/ m.op \in {"password", "clear", "delete", "createApp"}

Arrive(r) ==
  /\ pc[r] = "idle" /\ held[r] = {} /\ arrived < MaxRequests
  /\ arrived' = arrived + 1
  /\ \E m \in Messages :
       /\ WellFormed(m)
       /\ msg' = [msg EXCEPT ![r] = m]
       /\ Goto(r, IF m.op = "claim" THEN "hasClaim"
                  ELSE IF m.op # "register" THEN "auth"
                  ELSE IF MaxAccounts = 0 THEN "insUser" ELSE "count")
  /\ known' = [known EXCEPT ![r] = NoName]
  /\ todo' = [todo EXCEPT ![r] = {}] /\ sole' = [sole EXCEPT ![r] = {}]
  /\ UNCHANGED <<tables, window, held, restarts, history>>

-----------------------------------------------------------------------------
(* POST /users/owners/claim and POST /users/register. *)

\* HasClaim, then the claim window.
HasClaim(r) ==
  /\ pc[r] = "hasClaim"
  /\ IF claim # NoKey \/ ~window THEN End(r) ELSE Goto(r, "insUser") /\ UNCHANGED held
  /\ UNCHANGED <<tables, window, locals, arrived, restarts, history>>

\* CountUsers: what is committed.
CountUsers == Cardinality({k \in Keys : Exists(k)})
AccountLimitReached == CountUsers >= MaxAccounts

Count(r) ==
  /\ pc[r] = "count"
  /\ IF AccountLimitReached THEN End(r) ELSE Goto(r, "insUser") /\ UNCHANGED held
  /\ UNCHANGED <<tables, window, locals, arrived, restarts, history>>

\* The partial unique index on lower(username) of accounts with a password.
NameTaken(k, name) ==
  \E j \in Keys \ {k} : Exists(j) /\ users[j].verifier /\ Lower[users[j].name] = Lower[name]

\* An uncommitted row of another request under the same key of that index.
NamePending(r, name) ==
  \E q \in Reqs \ {r} : "user" \in held[q] /\ msg[q].pw /\ Lower[msg[q].name] = Lower[name]

KeyPending(r) == \E q \in Reqs \ {r} : "user" \in held[q] /\ msg[q].key = msg[r].key

\* The INSERT into users of ClaimOwner and RegisterUser, without ON CONFLICT.
InsertUser(r) ==
  LET m == msg[r]
      taken == Exists(m.key) \/ (m.pw /\ NameTaken(m.key, m.name))
  IN
  /\ pc[r] = "insUser"
  /\ \/ taken /\ End(r)
     \/ /\ ~taken /\ ~KeyPending(r) /\ (m.pw => ~NamePending(r, m.name))
        /\ held' = [held EXCEPT ![r] = @ \cup {"user"}]
        /\ Goto(r, "insDevice")
  /\ UNCHANGED <<tables, window, locals, arrived, restarts, history>>

DevicePending(r) == \E q \in Reqs \ {r} : "device" \in held[q] /\ msg[q].dev = msg[r].dev

AfterDevice(r) == IF msg[r].op = "claim" THEN "insClaim" ELSE "commit"
InsertDevice(r) ==
  /\ pc[r] = "insDevice"
  /\ \/ owner[msg[r].dev] # NoKey /\ End(r)
     \/ /\ owner[msg[r].dev] = NoKey /\ ~DevicePending(r)
        /\ held' = [held EXCEPT ![r] = @ \cup {"device"}]
        /\ Goto(r, AfterDevice(r))
  /\ UNCHANGED <<tables, window, locals, arrived, restarts, history>>

ClaimPending(r) == \E q \in Reqs \ {r} : "claim" \in held[q]
\* The claim row's primary key decides between concurrent claims.
InsertClaim(r) ==
  /\ pc[r] = "insClaim"
  /\ \/ claim # NoKey /\ End(r)
     \/ /\ claim = NoKey /\ ~ClaimPending(r)
        /\ held' = [held EXCEPT ![r] = @ \cup {"claim"}]
        /\ Goto(r, "commit")
  /\ UNCHANGED <<tables, window, locals, arrived, restarts, history>>

\* NULLIF: without a password neither verifier nor handle is stored.
NewUser(m) ==
  [name |-> m.name, role |-> IF m.op = "claim" THEN "owner" ELSE "user",
   verifier |-> m.pw, handle |-> IF m.pw THEN Lower[m.name] ELSE NoName]

Deleting(k) == \E q \in Reqs : msg[q] # NoMsg /\ msg[q].op = "delete" /\ msg[q].key = k
                                 /\ pc[q] \in {"listApps", "nextApp", "erase"}

Commit(r) ==
  LET m == msg[r] IN
  /\ pc[r] = "commit"
  /\ users' = IF "user" \in held[r] THEN [users EXCEPT ![m.key] = NewUser(m)] ELSE users
  /\ owner' = IF "device" \in held[r] THEN [owner EXCEPT ![m.dev] = m.key] ELSE owner
  /\ claim' = IF "claim" \in held[r] THEN m.key ELSE claim
  /\ overlap' = IF "claim" \in held[r] THEN Deleting(m.key) ELSE overlap
  /\ held' = [held EXCEPT ![r] = {}]
  /\ Goto(r, IF m.op = "claim" THEN "space" ELSE "idle")
  /\ UNCHANGED <<spaces, roles, deleted, window, locals, arrived, restarts, crossed, late>>

\* CreateSpace for the new owner; its failure is only logged.  The row refers
\* to the account, which must still be there.
CreateSpace(r) ==
  /\ pc[r] = "space"
  /\ spaces' = IF Exists(msg[r].key) THEN spaces \cup {msg[r].key} ELSE spaces
  /\ End(r)
  /\ UNCHANGED <<users, owner, claim, roles, deleted, window, locals, arrived, restarts, history>>

-----------------------------------------------------------------------------
(* Requests of an authenticated account: PATCH /users/me, POST               *)
(* /users/password, DELETE /users/me/escrow, DELETE /users/me, and the       *)
(* registration of an application.                                           *)

\* Mutant: the role is not looked at.
MayDelete(k) == TRUE

\* DeleteAccount refuses the space owner, by the role read at authentication.
MayDeleteAccount(k) == users[k].role # "owner"

AuthenticatedStep(m) ==
  IF m.op = "rename" THEN "rename"
  ELSE IF m.op = "password" THEN "setPassword"
  ELSE IF m.op = "clear" THEN "clear"
  ELSE IF m.op = "createApp" THEN "ownerCheck" ELSE "listApps"

Authenticate(r) ==
  LET m == msg[r] IN
  /\ pc[r] = "auth"
  /\ IF /\ Exists(m.key)
        /\ m.op = "delete" => MayDeleteAccount(m.key)
        /\ m.op = "rename" => m.name # users[m.key].name
     THEN /\ known' = [known EXCEPT ![r] = users[m.key].name]
          /\ Goto(r, AuthenticatedStep(m)) /\ UNCHANGED held
     ELSE End(r) /\ UNCHANGED known
  /\ UNCHANGED <<tables, window, msg, todo, sole, arrived, restarts, history>>

\* UpdateUsername.
Rename(r) ==
  LET k == msg[r].key
      name == msg[r].name
      indexed == Exists(k) /\ users[k].verifier
  IN
  /\ pc[r] = "rename"
  /\ \/ /\ Exists(k) => (indexed /\ NameTaken(k, name))
        /\ UNCHANGED users
     \/ /\ Exists(k)
        /\ indexed => ~NameTaken(k, name) /\ ~NamePending(r, name)
        /\ users' = [users EXCEPT ![k].name = name]
  /\ End(r)
  /\ UNCHANGED <<owner, claim, spaces, roles, deleted, window, locals, arrived, restarts, history>>

\* Mutant: the handle follows the username at every change of the password.
RepointedHandle(row, handle) == handle

\* SetPasswordCredentials: the handle is frozen while a verifier is live.
NewHandle(row, handle) ==
  IF ~row.verifier \/ row.handle = NoName THEN handle ELSE row.handle

SetPassword(r) ==
  LET k == msg[r].key IN
  /\ pc[r] = "setPassword"
  /\ \/ /\ Exists(k) => NameTaken(k, users[k].name)
        /\ UNCHANGED users
     \/ /\ Exists(k)
        /\ ~NameTaken(k, users[k].name) /\ ~NamePending(r, users[k].name)
        /\ users' = [users EXCEPT ![k] =
             [@ EXCEPT !.verifier = TRUE, !.handle = NewHandle(users[k], Lower[known[r]])]]
  /\ End(r)
  /\ UNCHANGED <<owner, claim, spaces, roles, deleted, window, locals, arrived, restarts, history>>

\* ClearEscrow keeps the handle.
ClearPassword(r) ==
  LET k == msg[r].key IN
  /\ pc[r] = "clear"
  /\ users' = IF Exists(k) THEN [users EXCEPT ![k].verifier = FALSE] ELSE users
  /\ End(r)
  /\ UNCHANGED <<owner, claim, spaces, roles, deleted, window, locals, arrived, restarts, history>>

\* Mutant: only an application without other members counts as solely owned.
AloneIn(a, k) == roles[a][k] = "owner" /\ \A j \in Keys \ {k} : roles[a][j] = "none"

SoleOwner(a, k) == roles[a][k] = "owner" /\ \A j \in Keys \ {k} : roles[a][j] # "owner"

\* GetApplicationsByMemberPublicKey: the live applications of the account,
\* and who owns each (two statements in the code, read as one here).
ListApps(r) ==
  LET k == msg[r].key
      mine == {a \in Apps \ deleted : roles[a][k] # "none"}
  IN
  /\ pc[r] = "listApps"
  /\ todo' = [todo EXCEPT ![r] = mine]
  /\ sole' = [sole EXCEPT ![r] = {a \in mine : SoleOwner(a, k)}]
  /\ crossed' = crossed \cup
       UNION {todo[q] \cap mine : q \in {p \in Reqs \ {r} : pc[p] = "nextApp" /\ msg[p].key # k}}
  /\ Goto(r, "nextApp")
  /\ UNCHANGED <<tables, window, held, msg, known, arrived, restarts, overlap, late>>

\* The rows of applications that the last transaction of another deletion has
\* marked deleted and still locks.
Locked(r) == UNION {sole[q] : q \in {p \in Reqs \ {r} : pc[p] = "erase"}}

\* One event: application_deleted where the account was the only owner,
\* member_removed elsewhere.  A deleted application fails the request.
LeaveApp(r) ==
  /\ pc[r] = "nextApp" /\ todo[r] # {}
  /\ \E a \in todo[r] \ Locked(r) :
       IF a \in deleted THEN End(r) /\ UNCHANGED <<roles, deleted, todo>>
       ELSE /\ todo' = [todo EXCEPT ![r] = @ \ {a}]
            /\ IF a \in sole[r] THEN deleted' = deleted \cup {a} /\ UNCHANGED roles
               ELSE roles' = [roles EXCEPT ![a][msg[r].key] = "none"] /\ UNCHANGED deleted
            /\ UNCHANGED <<pc, held>>
  /\ UNCHANGED <<users, owner, claim, spaces, window, msg, known, sole, arrived, restarts, history>>

\* eraseAccount, one transaction.  Its first statements mark the applications
\* solely owned that are not deleted yet; a row they pass over is not locked.
MarkDeleted(r) ==
  /\ pc[r] = "nextApp" /\ todo[r] = {}
  /\ sole[r] \cap Locked(r) = {}
  /\ sole' = [sole EXCEPT ![r] = @ \ deleted]
  /\ Goto(r, "erase")
  /\ UNCHANGED <<tables, window, held, msg, known, todo, arrived, restarts, history>>

\* The later ones delete every membership of the key, listed or not, and the
\* account with its devices; the commit shows it all.
EraseAccount(r) ==
  LET k == msg[r].key IN
  /\ pc[r] = "erase"
  /\ deleted' = deleted \cup sole[r]
  /\ roles' = [a \in Apps |-> [roles[a] EXCEPT ![k] = "none"]]
  /\ spaces' = spaces \ {k}
  /\ users' = [users EXCEPT ![k] = NoRow]
  /\ owner' = [d \in Devices |-> IF owner[d] = k THEN NoKey ELSE owner[d]]
  /\ End(r)
  /\ UNCHANGED <<claim, window, locals, arrived, restarts, history>>

\* HasOtherOwner.
RegisterOwnerCheck(r) ==
  /\ pc[r] = "ownerCheck"
  /\ IF \E k \in Keys \ {msg[r].key} : roles[msg[r].app][k] = "owner"
       THEN End(r) ELSE Goto(r, "registerApp") /\ UNCHANGED held
  /\ UNCHANGED <<tables, window, locals, arrived, restarts, history>>

\* Too late for a deletion: it is past its list, or past the statement that
\* marks what it alone owns, when its account owns this application after all;
\* or the registering account is gone.
TooLate(a, k) ==
  \/ ~Exists(k)
  \/ \E q \in Reqs : /\ pc[q] \in {"nextApp", "erase"} /\ a \notin sole[q]
                     /\ msg[q].key = k \/ roles[a][msg[q].key] = "owner"

\* RegisterApplication: the upsert inserts the row or revives a deleted one; of
\* the members it lists only the owner matters here.  The members table has no
\* reference to the account.
RegisterApplication(r) ==
  LET a == msg[r].app
      k == msg[r].key
  IN
  /\ pc[r] = "registerApp" /\ a \notin Locked(r)
  /\ deleted' = deleted \ {a}
  /\ roles' = [roles EXCEPT ![a][k] = "owner"]
  /\ late' = IF TooLate(a, k) THEN late \cup {a} ELSE late
  /\ End(r)
  /\ UNCHANGED <<users, owner, claim, spaces, window, locals, arrived, restarts, overlap, crossed>>

-----------------------------------------------------------------------------
(* The environment. *)

\* The claim window ends.
CloseWindow ==
  /\ window /\ window' = FALSE
  /\ UNCHANGED <<tables, held, pc, locals, arrived, restarts, history>>

\* A statement fails, or the connection is lost.
Fail(r) ==
  /\ pc[r] # "idle"
  /\ End(r)
  /\ UNCHANGED <<tables, window, locals, arrived, restarts, history>>

\* The process dies with its requests and transactions; the next one opens
\* the claim window again.
Restart ==
  /\ restarts < MaxRestarts
  /\ restarts' = restarts + 1
  /\ window' = TRUE
  /\ pc' = [r \in Reqs |-> "idle"]
  /\ held' = [r \in Reqs |-> {}]
  /\ UNCHANGED <<tables, locals, arrived, history>>

SignUp(r) ==
  HasClaim(r) \/ Count(r) \/ InsertUser(r) \/ InsertDevice(r) \/ InsertClaim(r) \/ Commit(r)
    \/ CreateSpace(r)

Manage(r) ==
  Authenticate(r) \/ Rename(r) \/ SetPassword(r) \/ ClearPassword(r) \/ ListApps(r)
    \/ LeaveApp(r) \/ MarkDeleted(r) \/ EraseAccount(r)
    \/ RegisterOwnerCheck(r) \/ RegisterApplication(r)

Step(r) == SignUp(r) \/ Manage(r)

Next == CloseWindow \/ Restart \/ \E r \in Reqs : Arrive(r) \/ Step(r) \/ Fail(r)

Spec == Init /\ [][Next]_vars

\* A request that can take a step takes it: PostgreSQL wakes an INSERT once
\* the transaction it waits for has ended.
FairSpec == Spec /\ \A r \in Reqs : WF_vars(Step(r))

-----------------------------------------------------------------------------
(* Properties. *)

\* The type of the state: tables, uncommitted inserts, and the requests' locals.
TypeOK ==
  /\ users \in [Keys -> Users \cup {NoRow}]
  /\ owner \in [Devices -> Keys \cup {NoKey}]
  /\ claim \in Keys \cup {NoKey}
  /\ window \in BOOLEAN
  /\ spaces \subseteq Keys
  /\ roles \in [Apps -> [Keys -> Roles]]
  /\ deleted \subseteq Apps
  /\ held \in [Reqs -> SUBSET {"user", "device", "claim"}]
  /\ pc \in [Reqs -> Steps]
  /\ msg \in [Reqs -> Messages \cup {NoMsg}]
  /\ known \in [Reqs -> Names \cup {NoName}]
  /\ todo \in [Reqs -> SUBSET Apps] /\ sole \in [Reqs -> SUBSET Apps]
  /\ arrived \in Nat /\ restarts \in Nat
  /\ overlap \in BOOLEAN /\ crossed \subseteq Apps /\ late \subseteq Apps

\* A claimed space keeps its owner: nothing removes the account the claim row
\* names, so the space is never left claimed and without an owner, unless an
\* earlier account of the same key was being deleted during the claim.
OwnerStays ==
  (claim # NoKey /\ ~overlap) => (Exists(claim) /\ users[claim].role = "owner")

\* A live application keeps an owner that has an account.  It loses its last one
\* only if two of its members deleted their accounts at the same time, or if it
\* was registered too late for its owner's deletion to see (the comment in
\* DeleteAccount accepts the first, and of the second the revival of a row).
OwnedUnlessCrossed ==
  \A a \in Apps \ (deleted \cup crossed \cup late) :
    \E k \in Keys : roles[a][k] = "owner" /\ Exists(k)

\* GetSalt: the stored handle of the account with a password that holds the
\* name, else the name.
GetSalt(table, name) ==
  LET holders == {k \in Keys : table[k] # NoRow /\ table[k].verifier
                                 /\ Lower[table[k].name] = Lower[name]}
  IN  IF \E k \in holders : table[k].handle # NoName
      THEN {table[k].handle : k \in holders} ELSE {Lower[name]}

\* What a password was sealed with stays available: while an account keeps a
\* password, the salt of its current name never changes, through renames of
\* this and other accounts, password changes, registrations and deletions.
SealedSaltStable ==
  [][\A k \in Keys :
       (Exists(k) /\ users'[k] # NoRow /\ users[k].verifier /\ users'[k].verifier) =>
         GetSalt(users', users'[k].name) = GetSalt(users, users[k].name)]_vars

\* No request waits for ever, whatever others have inserted before they fail:
\* every transaction ends, and all insert in the same order.
RequestsEnd == \A r \in Reqs : []<>(pc[r] = "idle")
=============================================================================
