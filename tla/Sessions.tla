------------------------------ MODULE Sessions ------------------------------
(***************************************************************************)
(* Who may act for an account on this space: login challenges, the device   *)
(* roster, the identity binding that says which space vouches for the       *)
(* account's devices, the escrowed account key, and the session tokens;     *)
(* and what is left of them when an account is deleted and registers again. *)
(*                                                                          *)
(* A binding is signed with the account's key, carries a time and the key   *)
(* of the space it names, and replaces the stored one only if it is later.  *)
(* An assertion is signed by the space a binding names; this space never    *)
(* signs one for itself, so a login by binding names another space.  Every  *)
(* handler is a sequence of statements that other requests interleave.      *)
(* Wrong signatures are refused without touching any state and are left     *)
(* out, as are device names and last-seen times.                            *)
(***************************************************************************)
EXTENDS Naturals, FiniteSets

CONSTANTS
  Accounts,         \* account public keys
  Devices,          \* device public keys; an account key is one too
  NoAccount,        \* a device row that does not exist
  Spaces, Own,      \* space public keys; this space's
  NoSpace,          \* binding_sub of an account that has no binding
  Rank,             \* byte order of the space keys (COLLATE "C")
  JTIs, NoJTI,      \* delegations; enrolment with a password instead
  Deleg,            \* what each delegation says: by, dpk (or NoAccount), exp
  Reqs, NoMsg, Messages,
  InitDevices,      \* the account of each device row at the start
  InitEscrow,       \* accounts with escrow and password at the start
  InitSessions,     \* devices that hold a token of an earlier login by roster
  ChallengeTTL, AssertionLife,
  AssertionSkew, BindingSkew,   \* what other clocks may be ahead or behind
  MaxChallenges,    \* capacity of the challenge store
  MaxIssued, MaxRequests, MaxClock   \* bounds

Subs == Spaces \cup {NoSpace}
Bindings == [iat: Nat, sub: Subs]
Rows == [exists: BOOLEAN, iat: Nat, sub: Subs, escrow: BOOLEAN, verifier: BOOLEAN]
DeviceRows == [acct: Accounts \cup {NoAccount}, revoked: Nat]   \* revoked 0: NULL
Ids == 1 .. MaxIssued
Challenges == [id: Ids, key: Devices, exp: Nat]
\* life is history: which life of its account the login that minted it found.
Tokens ==
  [acct: Accounts, dev: Devices, bv: Nat, via: {"roster", "binding"}, sub: Subs, life: Nat]
Requests ==
  [op: {"roster", "binding", "enroll", "revoke", "put", "password", "clear", "delete", "register"},
   acct: Accounts, dev: Devices, target: Devices, bind: Bindings, asserted: Nat,
   jti: JTIs \cup {NoJTI}, blob: BOOLEAN]

LoginSteps ==
  {"verify", "rosterDevice", "rosterAccount", "rosterEscrow", "bindAccount", "accept",
   "reread", "bindDevice", "ensure", "recheck", "revive", "mint"}
EnrollSteps == {"signer", "mark", "credential", "lookup", "enroll"}
AuthSteps ==
  {"authUser", "authDevice", "target", "revokeTx", "put", "putEscrow", "acceptPut",
   "setPassword", "clearEscrow", "erase"}
Steps == {"idle", "register"} \cup LoginSteps \cup EnrollSteps \cup AuthSteps

ASSUME KeysAssumption ==
  /\ Accounts \subseteq Devices
  /\ NoAccount \notin Devices
ASSUME SpacesAssumption ==
  /\ Own \in Spaces
  /\ NoSpace \notin Spaces
  /\ Rank \in [Subs -> Nat]
  /\ \A x, y \in Subs : Rank[x] = Rank[y] => x = y
  /\ \A x \in Spaces : Rank[NoSpace] < Rank[x]
ASSUME DelegAssumption ==
  /\ NoJTI \notin JTIs
  /\ Deleg \in [JTIs -> [by: Devices, dpk: Devices \cup {NoAccount}, exp: Nat]]
ASSUME MessagesAssumption ==
  /\ Messages \subseteq Requests
  /\ NoMsg \notin Requests
  /\ \A m \in Messages : m.op = "binding" => m.bind.sub # Own
ASSUME InitAssumption ==
  /\ InitDevices \in [Devices -> Accounts \cup {NoAccount}]
  /\ \A a \in Accounts : InitDevices[a] \in {a, NoAccount}
  /\ InitEscrow \subseteq Accounts
  /\ InitSessions \subseteq {d \in Devices : InitDevices[d] # NoAccount}
ASSUME LimitsAssumption ==
  /\ ChallengeTTL \in Nat /\ AssertionLife \in Nat
  /\ AssertionSkew \in Nat /\ BindingSkew \in Nat
  /\ MaxChallenges \in Nat \ {0} /\ MaxIssued \in Nat /\ MaxRequests \in Nat /\ MaxClock \in Nat

VARIABLES
  clock,       \* unix seconds
  row,         \* users table: the row, its binding, account_key_blob, password_verifier
  device,      \* user_devices table
  challenges,  \* challengeStore.data
  issued,      \* challenges handed out so far
  usedJTIs,    \* jtiStore.data
  tokens,      \* session tokens handed out
  pc, msg,     \* per request: its next step, and what it serves
  acct,        \* per request: the account it acts for
  seen,        \* per request: BindingIat and BindingSub of the account as it read them
  arrived,
  life,        \* history: how often each account was deleted
  born,        \* history, per request: the life in which it found its account
  marks,       \* history: uses of each delegation before its expiry, since the start
  revokedLast, \* history: when each device was last revoked, while its row stays
  assertedLast \* history: the time stated by the assertion that last revived it

tables == <<row, device>>
memory == <<challenges, usedJTIs>>
locals == <<msg, acct, seen, arrived>>
lives == <<life, born>>
history == <<lives, marks, revokedLast, assertedLast>>
vars == <<clock, tables, memory, issued, tokens, pc, locals, history>>

Init ==
  /\ clock = 1
  /\ row = [a \in Accounts |-> [exists |-> TRUE, iat |-> 0, sub |-> NoSpace,
                                escrow |-> a \in InitEscrow, verifier |-> a \in InitEscrow]]
  /\ device = [d \in Devices |-> [acct |-> InitDevices[d], revoked |-> 0]]
  /\ challenges = {} /\ usedJTIs = {} /\ issued = 0
  /\ tokens = {[acct |-> InitDevices[d], dev |-> d, bv |-> 0, via |-> "roster", sub |-> NoSpace,
                life |-> 0] : d \in InitSessions}
  /\ pc = [r \in Reqs |-> "idle"]
  /\ msg = [r \in Reqs |-> NoMsg]
  /\ acct = [r \in Reqs |-> NoAccount]
  /\ seen = [r \in Reqs |-> [iat |-> 0, sub |-> NoSpace]]
  /\ arrived = 0
  /\ life = [a \in Accounts |-> 0]
  /\ born = [r \in Reqs |-> 0]
  /\ marks = [j \in JTIs |-> 0]
  /\ revokedLast = [d \in Devices |-> 0]
  /\ assertedLast = [d \in Devices |-> 0]

\* A row comparison of SQL: (iat, sub) < (iat, sub).
Later(b, c) == b.iat < c.iat \/ (b.iat = c.iat /\ Rank[b.sub] < Rank[c.sub])

\* What the repository's reads see; an account that is gone has no binding.
Exists(a) == row[a].exists
GetUser(a) == [iat |-> row[a].iat, sub |-> row[a].sub]
Escrowed(a) == row[a].escrow
CredentialOf(a) == row[a].verifier
HasRow(d) == device[d].acct # NoAccount
Live(d) == HasRow(d) /\ device[d].revoked = 0

Goto(r, step) == pc' = [pc EXCEPT ![r] = step]
End(r) == pc' = [pc EXCEPT ![r] = "idle"]

\* From here on the request acts for account a, as it finds it.
ActFor(r, a) ==
  /\ acct' = [acct EXCEPT ![r] = a]
  /\ born' = [born EXCEPT ![r] = life[a]]
Unacting == UNCHANGED <<acct, born>>

-----------------------------------------------------------------------------
(* GET /users/challenge. *)

\* challengeStore.store: at capacity the expired entries go, and if that was
\* not enough one entry of the map's choice.
Kept(now) ==
  IF Cardinality(challenges) < MaxChallenges THEN {challenges}
  ELSE LET fresh == {c \in challenges : c.exp >= now}
       IN  IF Cardinality(fresh) < MaxChallenges THEN {fresh}
           ELSE {fresh \ {c} : c \in fresh}

GetChallenge(d) ==
  /\ issued < MaxIssued
  /\ issued' = issued + 1
  /\ \E kept \in Kept(clock) :
       challenges' = kept \cup {[id |-> issued + 1, key |-> d, exp |-> clock + ChallengeTTL]}
  /\ UNCHANGED <<clock, tables, usedJTIs, tokens, pc, locals, history>>

-----------------------------------------------------------------------------
(* Arrival of a request, and the reads of ValidateJWT that the authenticated *)
(* ones begin with: the account first, its device in a second statement.     *)

FirstStep(m) ==
  IF m.op \in {"roster", "binding"} THEN "verify"
  ELSE IF m.op = "enroll" THEN (IF m.jti = NoJTI THEN "credential" ELSE "signer")
  ELSE IF m.op = "register" THEN "register"
  ELSE "authUser"

Arrive(r) ==
  /\ pc[r] = "idle" /\ arrived < MaxRequests
  /\ arrived' = arrived + 1
  /\ \E m \in Messages :
       /\ msg' = [msg EXCEPT ![r] = m]
       /\ Goto(r, FirstStep(m))
  /\ acct' = [acct EXCEPT ![r] = NoAccount]
  /\ seen' = [seen EXCEPT ![r] = [iat |-> 0, sub |-> NoSpace]]
  /\ born' = [born EXCEPT ![r] = 0]
  /\ UNCHANGED <<clock, tables, memory, issued, tokens, life, marks, revokedLast, assertedLast>>

AuthUser(r) ==
  /\ pc[r] = "authUser"
  /\ \E t \in tokens :
       /\ t.acct = msg[r].acct /\ t.dev = msg[r].dev
       /\ IF ~Exists(t.acct) \/ t.bv < row[t.acct].iat THEN End(r) ELSE Goto(r, "authDevice")
  /\ ActFor(r, msg[r].acct)
  /\ UNCHANGED <<clock, tables, memory, issued, tokens, msg, seen, arrived,
                 life, marks, revokedLast, assertedLast>>

AuthorizedStep(m) ==
  IF m.op = "revoke" THEN "target"
  ELSE IF m.op = "put" THEN "put"
  ELSE IF m.op = "password" THEN "setPassword"
  ELSE IF m.op = "clear" THEN "clearEscrow" ELSE "erase"

AuthDevice(r) ==
  /\ pc[r] = "authDevice"
  /\ IF Live(msg[r].dev) THEN Goto(r, AuthorizedStep(msg[r])) ELSE End(r)
  /\ UNCHANGED <<clock, tables, memory, issued, tokens, locals, history>>

-----------------------------------------------------------------------------
(* POST /users/auth. *)

\* challengeStore.consume removes the entry before it looks at it.
Consume(c) == challenges' = challenges \ {c}

Verify(r) ==
  /\ pc[r] = "verify"
  /\ \E i \in 1 .. issued :
       IF \E c \in challenges : c.id = i
       THEN \E c \in challenges :
              /\ c.id = i
              /\ Consume(c)
              /\ IF c.key = msg[r].dev /\ c.exp >= clock
                 THEN Goto(r, IF msg[r].op = "roster" THEN "rosterDevice" ELSE "bindAccount")
                 ELSE End(r)
       ELSE End(r) /\ UNCHANGED challenges
  /\ UNCHANGED <<clock, tables, usedJTIs, issued, tokens, locals, history>>

RosterDevice(r) ==
  /\ pc[r] = "rosterDevice"
  /\ IF Live(msg[r].dev)
     THEN ActFor(r, device[msg[r].dev].acct) /\ Goto(r, "rosterAccount")
     ELSE End(r) /\ Unacting
  /\ UNCHANGED <<clock, tables, memory, issued, tokens, msg, seen, arrived,
                 life, marks, revokedLast, assertedLast>>

\* RosterAllowed, up to its look at the escrow.
AllowedOutright(d, a) == d = a \/ GetUser(a).iat = 0

RosterAccount(r) ==
  /\ pc[r] = "rosterAccount"
  /\ IF Exists(acct[r])
     THEN /\ seen' = [seen EXCEPT ![r] = GetUser(acct[r])]
          /\ Goto(r, IF AllowedOutright(msg[r].dev, acct[r]) THEN "mint" ELSE "rosterEscrow")
     ELSE End(r) /\ UNCHANGED seen
  /\ UNCHANGED <<clock, tables, memory, issued, tokens, msg, acct, arrived, history>>

\* IsIdentitySpace: the escrow as it is now, the binding as it was read.
IsIdentitySpace(r) == Escrowed(acct[r]) /\ seen[r].sub \in {NoSpace, Own}

RosterEscrow(r) ==
  /\ pc[r] = "rosterEscrow"
  /\ IF IsIdentitySpace(r) THEN Goto(r, "mint") ELSE End(r)
  /\ UNCHANGED <<clock, tables, memory, issued, tokens, locals, history>>

ValidBinding(b) == b.sub # NoSpace /\ b.iat > 0 /\ b.iat <= clock + BindingSkew
\* An assertion stamped at; the space that signs it has a clock of its own.
ValidAssertion(at) ==
  /\ at > 0 /\ at <= clock + AssertionSkew
  /\ clock < at + AssertionLife + AssertionSkew

VerifyAdmission(m) == ValidBinding(m.bind) /\ ValidAssertion(m.asserted)

BindAccount(r) ==
  /\ pc[r] = "bindAccount"
  /\ LET m == msg[r]
     IN  IF Exists(m.acct) /\ VerifyAdmission(m)
         THEN /\ ActFor(r, m.acct)
              /\ seen' = [seen EXCEPT ![r] = GetUser(m.acct)]
              /\ Goto(r, "accept")
         ELSE End(r) /\ Unacting /\ UNCHANGED seen
  /\ UNCHANGED <<clock, tables, memory, issued, tokens, msg, arrived,
                 life, marks, revokedLast, assertedLast>>

\* Mutant: the last guard of the UPDATE is missing.
AcceptableLater(a, b) == Exists(a) /\ Later(row[a], b)

\* AcceptBinding's WHERE clause.
Acceptable(a, b) == Exists(a) /\ Later(row[a], b) /\ (b.sub # Own \/ row[a].escrow)
\* AcceptBinding's UPDATE: a binding that names another space takes the escrow
\* and the password with it.  The sockets it disconnects are the hub's.
StoreBinding(a, b) ==
  IF Acceptable(a, b)
  THEN row' = [row EXCEPT ![a] = [exists |-> TRUE, iat |-> b.iat, sub |-> b.sub,
                                  escrow |-> b.sub = Own /\ row[a].escrow,
                                  verifier |-> b.sub = Own /\ row[a].verifier]]
  ELSE UNCHANGED row

Accept(r) ==
  /\ pc[r] = "accept"
  /\ StoreBinding(acct[r], msg[r].bind)
  /\ Goto(r, IF Acceptable(acct[r], msg[r].bind) THEN "bindDevice" ELSE "reread")
  /\ UNCHANGED <<clock, device, memory, issued, tokens, locals, history>>

\* Admit: the stored binding names the space that vouched for the device.
StoredSubMatches(r) == GetUser(acct[r]).sub = msg[r].bind.sub

Reread(r) ==
  /\ pc[r] = "reread"
  /\ IF StoredSubMatches(r) THEN Goto(r, "bindDevice") ELSE End(r)
  /\ UNCHANGED <<clock, tables, memory, issued, tokens, locals, history>>

BindDevice(r) ==
  /\ pc[r] = "bindDevice"
  /\ LET d == msg[r].dev
     IN  IF ~HasRow(d) THEN Goto(r, "ensure")
         ELSE IF device[d].acct # acct[r] THEN End(r)
         ELSE IF Live(d) THEN Goto(r, "mint") ELSE Goto(r, "revive")
  /\ UNCHANGED <<clock, tables, memory, issued, tokens, locals, history>>

\* Mutant: ON CONFLICT DO UPDATE.
EnsureOverwrites(d, a) ==
  device' = IF Exists(a) THEN [device EXCEPT ![d] = [acct |-> a, revoked |-> 0]] ELSE device

\* EnsureDevice: INSERT ... ON CONFLICT DO NOTHING.  The row of a key that has
\* none needs the row of its account: the foreign key of migration 000018.
CanEnsure(d, a) == HasRow(d) \/ Exists(a)
EnsureDevice(d, a) ==
  device' = IF ~HasRow(d) /\ Exists(a) THEN [device EXCEPT ![d] = [acct |-> a, revoked |-> 0]]
            ELSE device

Ensure(r) ==
  /\ pc[r] = "ensure"
  /\ EnsureDevice(msg[r].dev, acct[r])
  /\ IF CanEnsure(msg[r].dev, acct[r]) THEN Goto(r, "recheck") ELSE End(r)
  /\ UNCHANGED <<clock, row, memory, issued, tokens, locals, history>>

Recheck(r) ==
  /\ pc[r] = "recheck"
  /\ IF Live(msg[r].dev) /\ device[msg[r].dev].acct = acct[r] THEN Goto(r, "mint") ELSE End(r)
  /\ UNCHANGED <<clock, tables, memory, issued, tokens, locals, history>>

\* Mutant: the revocation time is not compared.
RevivableAlways(r) == device[msg[r].dev].acct = acct[r]

\* ReviveDevice's WHERE clause.
Revivable(r) ==
  /\ device[msg[r].dev].acct = acct[r]
  /\ device[msg[r].dev].revoked = 0 \/ device[msg[r].dev].revoked < msg[r].asserted

Revive(r) ==
  /\ pc[r] = "revive"
  /\ IF Revivable(r)
     THEN /\ device' = [device EXCEPT ![msg[r].dev].revoked = 0]
          /\ assertedLast' = IF device[msg[r].dev].revoked = 0 THEN assertedLast
                             ELSE [assertedLast EXCEPT ![msg[r].dev] = msg[r].asserted]
          /\ Goto(r, "mint")
     ELSE End(r) /\ UNCHANGED <<device, assertedLast>>
  /\ UNCHANGED <<clock, row, memory, issued, tokens, locals, lives, marks, revokedLast>>

\* Mutant: the version is read again when the token is made.
VersionAtMint(r) == row[acct[r]].iat

\* The token's bv: BindingIat as read, raised to that of the admitted binding.
Version(r) ==
  IF msg[r].op = "binding" /\ msg[r].bind.iat > seen[r].iat THEN msg[r].bind.iat ELSE seen[r].iat

\* GenerateJWT.  Expiry of the token is left out: a token may be used for ever.
Mint(r) ==
  /\ pc[r] = "mint"
  /\ tokens' = tokens \cup
       {[acct |-> acct[r], dev |-> msg[r].dev, bv |-> Version(r), via |-> msg[r].op,
         sub |-> IF msg[r].op = "binding" THEN msg[r].bind.sub ELSE seen[r].sub,
         life |-> born[r]]}
  /\ End(r)
  /\ UNCHANGED <<clock, tables, memory, issued, locals, history>>

-----------------------------------------------------------------------------
(* POST /users/devices: enrolment by delegation or by password. *)
\* The account a delegation is made for.
DelegatingAccount(by) == IF HasRow(by) THEN device[by].acct ELSE by

\* verifyDelegation up to the jti: a signer without a row may be an account's
\* own key; a revoked row never signs.
Signer(r) ==
  /\ pc[r] = "signer"
  /\ LET g == Deleg[msg[r].jti]
     IN  IF /\ IF HasRow(g.by) THEN Live(g.by) ELSE g.by \in Accounts /\ Exists(g.by)
            /\ g.dpk \in {NoAccount, msg[r].dev}
            /\ g.exp >= clock
         THEN ActFor(r, DelegatingAccount(g.by)) /\ Goto(r, "mark")
         ELSE End(r) /\ Unacting
  /\ UNCHANGED <<clock, tables, memory, issued, tokens, msg, seen, arrived,
                 life, marks, revokedLast, assertedLast>>

\* Mutant: an entry is pruned in the second its delegation expires.
PrunedEarly(set) == {j \in set : Deleg[j].exp > clock}

\* markUsed's sweep.
Pruned(set) == {j \in set : Deleg[j].exp >= clock}

Mark(r) ==
  /\ pc[r] = "mark"
  /\ LET j == msg[r].jti
     IN  IF j \in usedJTIs THEN End(r) /\ UNCHANGED <<usedJTIs, marks>>
         ELSE /\ usedJTIs' = Pruned(usedJTIs \cup {j})
              /\ marks' = IF Deleg[j].exp >= clock THEN [marks EXCEPT ![j] = @ + 1] ELSE marks
              /\ Goto(r, "lookup")
  /\ UNCHANGED <<clock, tables, challenges, issued, tokens, locals, lives, revokedLast,
                 assertedLast>>

Credential(r) ==
  /\ pc[r] = "credential"
  /\ IF CredentialOf(msg[r].acct)
     THEN ActFor(r, msg[r].acct) /\ Goto(r, "lookup")
     ELSE End(r) /\ Unacting
  /\ UNCHANGED <<clock, tables, memory, issued, tokens, msg, seen, arrived,
                 life, marks, revokedLast, assertedLast>>

Lookup(r) ==
  /\ pc[r] = "lookup"
  /\ LET d == msg[r].dev
     IN  IF HasRow(d) /\ (~Live(d) \/ device[d].acct # acct[r]) THEN End(r) ELSE Goto(r, "enroll")
  /\ UNCHANGED <<clock, tables, memory, issued, tokens, locals, history>>

Enroll(r) ==
  /\ pc[r] = "enroll"
  /\ EnsureDevice(msg[r].dev, acct[r])
  /\ End(r)
  /\ UNCHANGED <<clock, row, memory, issued, tokens, locals, history>>

-----------------------------------------------------------------------------
(* DELETE /users/devices, PUT /identity/binding, POST /users/password,       *)
(* DELETE /users/me/escrow and DELETE /users/me, after authentication; and   *)
(* POST /users/register, which needs none.                                   *)

Target(r) ==
  /\ pc[r] = "target"
  /\ IF msg[r].target # msg[r].dev /\ HasRow(msg[r].target) /\ device[msg[r].target].acct = acct[r]
     THEN Goto(r, "revokeTx") ELSE End(r)
  /\ UNCHANGED <<clock, tables, memory, issued, tokens, locals, history>>

\* RevokeDevice's transaction: the row of that key, whosever it is by now, if
\* there still is one.
RevokeRow(d) ==
  IF HasRow(d)
  THEN /\ device' = [device EXCEPT ![d].revoked = clock]
       /\ revokedLast' = [revokedLast EXCEPT ![d] = clock]
  ELSE UNCHANGED <<device, revokedLast>>

\* The sockets it disconnects are the hub's.
RevokeTx(r) ==
  /\ pc[r] = "revokeTx"
  /\ RevokeRow(msg[r].target)
  /\ End(r)
  /\ UNCHANGED <<clock, row, memory, issued, tokens, locals, lives, marks, assertedLast>>

Put(r) ==
  /\ pc[r] = "put"
  /\ IF ~ValidBinding(msg[r].bind) THEN End(r)
     ELSE Goto(r, IF msg[r].bind.sub = Own THEN "putEscrow" ELSE "acceptPut")
  /\ UNCHANGED <<clock, tables, memory, issued, tokens, locals, history>>

PutEscrow(r) ==
  /\ pc[r] = "putEscrow"
  /\ IF Escrowed(acct[r]) THEN Goto(r, "acceptPut") ELSE End(r)
  /\ UNCHANGED <<clock, tables, memory, issued, tokens, locals, history>>

AcceptPut(r) ==
  /\ pc[r] = "acceptPut"
  /\ StoreBinding(acct[r], msg[r].bind)
  /\ End(r)
  /\ UNCHANGED <<clock, device, memory, issued, tokens, locals, history>>

\* Without a blob the statement spares an account whose identity is here.
SetPasswordCredentials(a, blob) ==
  row' = IF Exists(a) /\ (blob \/ row[a].sub # Own)
         THEN [row EXCEPT ![a] = [@ EXCEPT !.escrow = blob, !.verifier = TRUE]]
         ELSE row

SetPassword(r) ==
  /\ pc[r] = "setPassword"
  /\ SetPasswordCredentials(acct[r], msg[r].blob)
  /\ End(r)
  /\ UNCHANGED <<clock, device, memory, issued, tokens, locals, history>>

ClearCredentials(a) ==
  row' = IF Exists(a) /\ row[a].sub # Own
         THEN [row EXCEPT ![a] = [@ EXCEPT !.escrow = FALSE, !.verifier = FALSE]]
         ELSE row

ClearEscrow(r) ==
  /\ pc[r] = "clearEscrow"
  /\ ClearCredentials(acct[r])
  /\ End(r)
  /\ UNCHANGED <<clock, device, memory, issued, tokens, locals, history>>

\* eraseAccount: the account's row, and by ON DELETE CASCADE the rows of its
\* devices with whatever they said of a revocation.  The statements before it
\* (avatar, files, memberships) touch none of this; owners are refused.
NoUser == [exists |-> FALSE, iat |-> 0, sub |-> NoSpace, escrow |-> FALSE, verifier |-> FALSE]
NoDevice == [acct |-> NoAccount, revoked |-> 0]
EraseAccount(r) ==
  /\ pc[r] = "erase"
  /\ row' = [row EXCEPT ![acct[r]] = NoUser]
  /\ device' = [d \in Devices |-> IF device[d].acct = acct[r] THEN NoDevice ELSE device[d]]
  /\ life' = [life EXCEPT ![acct[r]] = @ + 1]
  /\ revokedLast' = [d \in Devices |-> IF device[d].acct = acct[r] THEN 0 ELSE revokedLast[d]]
  /\ End(r)
  /\ UNCHANGED <<clock, memory, issued, tokens, locals, born, marks, assertedLast>>

\* RegisterUser's transaction: the account with its escrow, and its device.
Registered == [exists |-> TRUE, iat |-> 0, sub |-> NoSpace, escrow |-> TRUE, verifier |-> TRUE]
Register(r) ==
  /\ pc[r] = "register"
  /\ LET a == msg[r].acct
         d == msg[r].dev
     IN  IF ~Exists(a) /\ ~HasRow(d)
         THEN /\ row' = [row EXCEPT ![a] = Registered]
              /\ device' = [device EXCEPT ![d] = [acct |-> a, revoked |-> 0]]
         ELSE UNCHANGED tables
  /\ End(r)
  /\ UNCHANGED <<clock, memory, issued, tokens, locals, history>>

-----------------------------------------------------------------------------
(* The environment: time, failing statements, the process's death. *)

Tick ==
  /\ clock < MaxClock
  /\ clock' = clock + 1
  /\ UNCHANGED <<tables, memory, issued, tokens, pc, locals, history>>

Fail(r) ==
  /\ pc[r] # "idle"
  /\ End(r)
  /\ UNCHANGED <<clock, tables, memory, issued, tokens, locals, history>>

Restart ==
  /\ challenges # {} \/ usedJTIs # {} \/ \E r \in Reqs : pc[r] # "idle"
  /\ challenges' = {} /\ usedJTIs' = {}
  /\ pc' = [r \in Reqs |-> "idle"]
  /\ marks' = [j \in JTIs |-> 0]
  /\ UNCHANGED <<clock, tables, issued, tokens, locals, lives, revokedLast, assertedLast>>

Login(r) ==
  \/ Verify(r) \/ RosterDevice(r) \/ RosterAccount(r) \/ RosterEscrow(r) \/ BindAccount(r)
  \/ Accept(r) \/ Reread(r) \/ BindDevice(r) \/ Ensure(r) \/ Recheck(r) \/ Revive(r) \/ Mint(r)

Enrolment(r) == Signer(r) \/ Mark(r) \/ Credential(r) \/ Lookup(r) \/ Enroll(r)

Authorized(r) ==
  \/ AuthUser(r) \/ AuthDevice(r) \/ Target(r) \/ RevokeTx(r) \/ Put(r) \/ PutEscrow(r)
  \/ AcceptPut(r) \/ SetPassword(r) \/ ClearEscrow(r) \/ EraseAccount(r)

Next ==
  \/ Tick \/ Restart
  \/ \E d \in Devices : GetChallenge(d)
  \/ \E r \in Reqs :
       Arrive(r) \/ Login(r) \/ Enrolment(r) \/ Authorized(r) \/ Register(r) \/ Fail(r)

Spec == Init /\ [][Next]_vars

-----------------------------------------------------------------------------
(* Properties. *)

\* The type of the state: tables, store, tokens, and the requests' locals.
TypeOK ==
  /\ clock \in Nat
  /\ row \in [Accounts -> Rows]
  /\ device \in [Devices -> DeviceRows]
  /\ challenges \subseteq Challenges
  /\ issued \in Nat /\ issued <= MaxIssued
  /\ usedJTIs \subseteq JTIs
  /\ tokens \subseteq Tokens
  /\ pc \in [Reqs -> Steps]
  /\ msg \in [Reqs -> Messages \cup {NoMsg}]
  /\ acct \in [Reqs -> Accounts \cup {NoAccount}]
  /\ seen \in [Reqs -> Bindings]
  /\ arrived \in Nat
  /\ life \in [Accounts -> Nat]
  /\ born \in [Reqs -> Nat]
  /\ marks \in [JTIs -> Nat]
  /\ revokedLast \in [Devices -> Nat]
  /\ assertedLast \in [Devices -> Nat]

\* The escrowed key cannot be lost at home: while the stored binding names
\* this space, the account key blob is here.  PutBinding reads the escrow one
\* statement before it stores the binding, and passwords and clears race it.
EscrowKept == \A a \in Accounts : row[a].sub = Own => row[a].escrow

\* ValidateJWT, with the account and the device as they are now.
Accepted(t) == Exists(t.acct) /\ t.bv >= row[t.acct].iat /\ Live(t.dev)

\* The account was not deleted since the login that minted the token found it.
\* A token outlives its account: registered again, the account starts without a
\* binding, and ValidateJWT takes every unexpired token of the life before
\* whose device key has a row, be it the row of another account.
OfThisLife(t) == t.life = life[t.acct]

\* A newer binding ends the sessions of the older one.  Once an account has a
\* binding, a token of a device other than the account's own key works only if
\* it was minted under a binding of that same time, and by the roster alone
\* only if this space was then the one named.  The login that mints it read
\* the account several statements before, and devices and accounts may be
\* deleted and come back meanwhile.  Tokens of a former life are excepted.
SessionsFollowBinding ==
  \A t \in tokens :
    (Accepted(t) /\ OfThisLife(t) /\ t.dev # t.acct /\ row[t.acct].iat > 0) =>
      t.bv = row[t.acct].iat /\ (t.via = "binding" \/ t.sub = Own)

\* A token speaks for the account its device's row belongs to, although
\* ValidateJWT never compares the two, and although a row goes with its account
\* and the key may then enrol elsewhere: in the life of the account it was
\* minted in, nobody else gets the row of its device, whichever other accounts
\* are deleted, registered or want that key.  Tokens of a former life are
\* excepted.
DeviceSpeaksForItsAccount ==
  \A t \in tokens : (Accepted(t) /\ OfThisLife(t)) => device[t.dev].acct = t.acct

\* A device that was revoked is back only through an assertion that its identity
\* space stamped later than the last revocation, however admissions and repeated
\* revocations interleave, until the account it belongs to is deleted: then the
\* row goes, the revocation with it, and the key may enrol anew.  The stamp is
\* that of the other space's clock, which may be AssertionSkew ahead: that much
\* before the revocation an assertion can already be made that undoes it.
RevokedStaysOut ==
  \A d \in Devices :
    (Live(d) /\ revokedLast[d] > 0) => assertedLast[d] > revokedLast[d]

\* Within its lifetime, and one life of the process, a delegation enrols once:
\* the sweep of used delegations never forgets one that would still be valid.
DelegationOnce == \A j \in JTIs : marks[j] <= 1
=============================================================================
