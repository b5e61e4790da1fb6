----------------------------- MODULE Invitation -----------------------------
(***************************************************************************)
(* Invitations to one application: creation, revocation, and Join, which    *)
(* may create an account, enrol its device, make the account a member and   *)
(* raise it from guest to user.                                             *)
(*                                                                          *)
(* Join is not a transaction.  It claims one use of the invitation with a   *)
(* conditional UPDATE, works through further statements, and gives the use   *)
(* back from a deferred call when it returns early.  Requests interleave     *)
(* between any two statements, any statement may fail, and the process may   *)
(* die.                                                                      *)
(***************************************************************************)
EXTENDS Naturals, FiniteSets

CONSTANTS
  Invites,          \* invitation ids (uuid, never reused)
  Keys,             \* account public keys
  Devices,          \* device public keys; an account key is one too
  NoKey,            \* a device row that does not exist
  SpaceOwner,       \* the account with the space-owner role
  Reqs, NoMsg,      \* concurrently served requests; an idle one serves nothing
  Messages,         \* the requests that may arrive
  InitUsers,        \* space roles at the start ("none": no account)
  InitMembers,      \* roles in the application at the start
  SingleUseSignup,  \* configuration: new accounts need a single-use invite
  MaxAccounts,      \* configuration: 0 = unlimited
  AgentRead,        \* the application lets its members' agents in
  MaxRequests       \* bound: requests that ever arrive

Roles == {"none", "owner", "admin", "member", "viewer"}
GrantableRoles == {"admin", "member", "viewer"}
SpaceRoles == {"none", "guest", "user", "owner"}

\* max: 0 is NULL.  keys: the member-bound list, {} when the invite is open
\* to anyone.  A deleted row keeps its last contents with open = FALSE.
InviteRows ==
  [created: BOOLEAN, open: BOOLEAN, expired: BOOLEAN, by: Keys, role: Roles, max: Nat, used: Nat,
   membership: BOOLEAN, identity: BOOLEAN, spaceUse: BOOLEAN, keys: SUBSET Keys]
NoInvite ==
  [created |-> FALSE, open |-> FALSE, expired |-> FALSE, by |-> SpaceOwner, role |-> "none",
   max |-> 0, used |-> 0, membership |-> FALSE, identity |-> FALSE, spaceUse |-> FALSE,
   keys |-> {}]

Requests ==
  [op: {"create", "revoke", "join"}, inv: Invites, key: Keys, agent: BOOLEAN,
   dev: Devices, vouched: BOOLEAN,
   role: Roles, max: Nat, membership: BOOLEAN, identity: BOOLEAN, spaceUse: BOOLEAN,
   keys: SUBSET Keys]

Steps ==
  {"idle", "authorize", "insert", "delete", "check", "guard", "lookup", "signup",
   "device", "claim", "create", "enroll", "refetch", "backfill", "member",
   "releaseMember", "reuse", "reclaim", "promote", "recordMember",
   "claimJoin", "produce", "record", "promoteJoin", "release"}

AppStates == {"live", "moving", "moved", "deleted"}

ASSUME KeysAssumption ==
  IsFiniteSet(Keys) /\ Keys \subseteq Devices /\ NoKey \notin Devices /\ SpaceOwner \in Keys
ASSUME ReqsAssumption == IsFiniteSet(Reqs)
ASSUME MessagesAssumption == Messages \subseteq Requests /\ NoMsg \notin Requests
ASSUME InitAssumption ==
  InitUsers \in [Keys -> SpaceRoles] /\ InitMembers \in [Keys -> Roles]
\* A space is claimed by one account, and no role but guest and user is ever
\* handed out afterwards.
ASSUME OneOwnerAssumption == \A k \in Keys : InitUsers[k] = "owner" => k = SpaceOwner
ASSUME LimitsAssumption ==
  /\ SingleUseSignup \in BOOLEAN
  /\ AgentRead \in BOOLEAN
  /\ MaxAccounts \in Nat
  /\ MaxRequests \in Nat

VARIABLES
  rows,     \* invitations table, by id
  uses,     \* invitation_uses table: <<invite, key>>
  users,    \* users table: the space role of each account
  devices,  \* user_devices table: the account each device row belongs to
  revoked,  \* device rows with revoked_at set
  members,  \* the application's active members
  app,      \* the application row
  pc, msg,  \* per request: its next step, and what it serves
  acct,     \* per request: the role of existingUser, "none" while isNewAccount
  held,     \* per request: heldClaim
  arrived,  \* requests that have arrived
  spent,    \* history: uses of an invite that admitted or promoted somebody
  lost,     \* history: uses claimed that admitted and promoted nobody
  paid      \* history: <<invite, key>> of every admission and promotion

tables == <<rows, uses, users, devices, revoked, members, app>>
reqVars == <<pc, msg, acct, held, arrived>>
history == <<spent, lost, paid>>
vars == <<tables, reqVars, history>>

Init ==
  /\ rows = [i \in Invites |-> NoInvite]
  /\ uses = {}
  /\ users = InitUsers
  /\ devices = [d \in Devices |-> IF d \in Keys /\ InitUsers[d] # "none" THEN d ELSE NoKey]
  /\ revoked = {}
  /\ members = InitMembers
  /\ app = "live"
  /\ pc = [r \in Reqs |-> "idle"]
  /\ msg = [r \in Reqs |-> NoMsg]
  /\ acct = [r \in Reqs |-> "none"]
  /\ held = [r \in Reqs |-> FALSE]
  /\ arrived = 0
  /\ spent = [i \in Invites |-> 0]
  /\ lost = [i \in Invites |-> 0]
  /\ paid = {}

Found(i) == rows[i].open

\* r has claimed a use and has neither spent it nor given it back.
Claimed(r) == held[r] \/ pc[r] \in {"produce", "promote"}
Claims(i) == {r \in Reqs : Claimed(r) /\ msg[r].inv = i}

-----------------------------------------------------------------------------
(* Request plumbing. *)

Goto(r, step) ==
  pc' = [pc EXCEPT ![r] = step] /\ UNCHANGED <<msg, acct, held, arrived>>

Return(r) ==
  /\ pc' = [pc EXCEPT ![r] = "idle"]
  /\ msg' = [msg EXCEPT ![r] = NoMsg]
  /\ acct' = [acct EXCEPT ![r] = "none"]
  /\ UNCHANGED <<held, arrived>>

\* return err: the deferred call gives a held use back.
Fail(r) == IF held[r] THEN Goto(r, "release") ELSE Return(r)

\* After ReleaseUse, whether or not it succeeded.
Released(r) ==
  /\ held' = [held EXCEPT ![r] = FALSE]
  /\ IF pc[r] = "releaseMember"
       THEN pc' = [pc EXCEPT ![r] = "reuse"] /\ UNCHANGED <<msg, acct>>
       ELSE /\ pc' = [pc EXCEPT ![r] = "idle"]
            /\ msg' = [msg EXCEPT ![r] = NoMsg]
            /\ acct' = [acct EXCEPT ![r] = "none"]
  /\ UNCHANGED arrived

\* continue at step if ok, else return an error
Proceed(r, ok, step) == IF ok THEN Goto(r, step) ELSE Fail(r)

Arrive(r) ==
  /\ pc[r] = "idle"
  /\ arrived < MaxRequests
  /\ arrived' = arrived + 1
  /\ \E m \in Messages :
       /\ m.op # "create" => rows[m.inv].created
       /\ msg' = [msg EXCEPT ![r] = m]
       /\ pc' = [pc EXCEPT ![r] = IF m.op = "join" THEN "check" ELSE "authorize"]
  /\ UNCHANGED <<acct, held, tables, history>>

\* Moved: members get the 410; strangers pass and find no invitation.
MoveGuard(k) == ~ (app = "moving" \/ (app = "moved" /\ members[k] # "none"))

-----------------------------------------------------------------------------
(* CreateInvitation and RevokeInvitation. *)

\* The row CreateInvitation stores for the options in m.
NewInvite(m) ==
  LET identity == m.membership /\ m.identity
      spaceUse == m.membership /\ m.spaceUse
      max == IF m.keys # {} THEN Cardinality(m.keys) ELSE m.max
  IN [created |-> TRUE, open |-> TRUE, expired |-> FALSE, by |-> m.key, role |-> m.role,
      max |-> IF (identity \/ spaceUse) /\ max = 0 THEN 1 ELSE max,
      used |-> 0, membership |-> m.membership, identity |-> identity,
      spaceUse |-> spaceUse, keys |-> m.keys]

\* A mutant: any manager may hand out the use of the space.
AuthorizeAnySpaceUse(r) ==
  LET m == msg[r]
      create == m.op = "create"
      ok == /\ m.agent => AgentRead
            /\ members[m.key] \in {"owner", "admin"}
            /\ MoveGuard(m.key)
            /\ create => m.role \in GrantableRoles
  IN /\ pc[r] = "authorize"
     /\ Proceed(r, ok, IF create THEN "insert" ELSE "delete")
     /\ UNCHANGED <<tables, history>>

\* AuthorizeAppRole, then MoveGuard, then the checks on the options.
Authorize(r) ==
  LET m == msg[r]
      create == m.op = "create"
      ok == /\ m.agent => AgentRead
            /\ members[m.key] \in {"owner", "admin"}
            /\ MoveGuard(m.key)
            /\ create /\ m.spaceUse => users[m.key] = "owner"
            /\ create => m.role \in GrantableRoles
  IN /\ pc[r] = "authorize"
     /\ Proceed(r, ok, IF create THEN "insert" ELSE "delete")
     /\ UNCHANGED <<tables, history>>

Insert(r) ==
  LET i == msg[r].inv IN
  /\ pc[r] = "insert"
  /\ rows' = IF rows[i].created THEN rows ELSE [rows EXCEPT ![i] = NewInvite(msg[r])]
  /\ Return(r)
  /\ UNCHANGED <<uses, users, devices, revoked, members, app, history>>

\* invitation_uses goes with the row (ON DELETE CASCADE).
Closed(S) ==
  /\ rows' = [i \in Invites |->
                IF i \in S THEN [rows[i] EXCEPT !.open = FALSE] ELSE rows[i]]
  /\ uses' = {u \in uses : u[1] \notin S}

Delete(r) ==
  /\ pc[r] = "delete"
  /\ Closed({msg[r].inv})
  /\ Return(r)
  /\ UNCHANGED <<users, devices, revoked, members, app, history>>

-----------------------------------------------------------------------------
(* Join: what is read before the first write. *)

\* Expiry of the token, GetByID and the max-uses precheck.
Check(r) ==
  LET i == msg[r].inv IN
  /\ pc[r] = "check"
  /\ Proceed(r, /\ ~ rows[i].expired
                /\ Found(i)
                /\ rows[i].max # 0 => rows[i].used < rows[i].max, "guard")
  /\ UNCHANGED <<tables, history>>

\* MoveGuard, the member list, grantsMembership and the invite's role.  An
\* assertion that does not verify ends the join here as well: a request is
\* vouched when it carries one that does.
Guard(r) ==
  LET m == msg[r]
      inv == rows[m.inv]
  IN /\ pc[r] = "guard"
     /\ Proceed(r, /\ MoveGuard(m.key)
                   /\ inv.keys # {} => m.key \in inv.keys
                   /\ inv.membership
                   /\ inv.role \in GrantableRoles, "lookup")
     /\ UNCHANGED <<tables, history>>

\* GetUserByPublicKey: an error counts as "no such account".  [D6]
Lookup(r) ==
  LET m == msg[r]
      seen(role) ==
        /\ acct' = [acct EXCEPT ![r] = role]
        /\ IF role = "none" /\ ~ m.vouched /\ ~ rows[m.inv].identity
             THEN pc' = [pc EXCEPT ![r] = "idle"] /\ msg' = [msg EXCEPT ![r] = NoMsg]
             ELSE pc' = [pc EXCEPT ![r] = IF role = "none" THEN "signup" ELSE "device"]
                  /\ UNCHANGED msg
  IN /\ pc[r] = "lookup"
     /\ \E role \in {users[m.key], "none"} : seen(role)
     /\ UNCHANGED <<held, arrived, tables, history>>

\* signupBlocked: the single-use gate and the soft account cap.
Signup(r) ==
  LET inv == rows[msg[r].inv] IN
  /\ pc[r] = "signup"
  /\ Proceed(r, /\ SingleUseSignup /\ inv.keys = {} => inv.max = 1
                /\ MaxAccounts > 0 =>
                     Cardinality({k \in Keys : users[k] # "none"}) < MaxAccounts, "device")
  /\ UNCHANGED <<tables, history>>

\* RosterAllowed, without identity bindings.
Enrolled(d, k) == devices[d] = k /\ d \notin revoked
\* [G2] without an assertion the device is the account key or one of its
\* devices; [G6] with one, a new account's device is nobody else's.
Device(r) ==
  LET m == msg[r]
      isNew == acct[r] = "none"
      ok == IF m.vouched
              THEN isNew => devices[m.dev] = NoKey \/ Enrolled(m.dev, m.key)
              ELSE m.dev = m.key \/ (~ isNew /\ Enrolled(m.dev, m.key))
  IN /\ pc[r] = "device"
     /\ Proceed(r, ok, IF isNew THEN "claim" ELSE "backfill")
     /\ UNCHANGED <<tables, history>>

-----------------------------------------------------------------------------
(* Join: the account. *)

\* A mutant: the UPDATE relies on the precheck.
ClaimablePrechecked(i) == Found(i)

Claimable(i) == Found(i) /\ (rows[i].max = 0 \/ rows[i].used < rows[i].max)

\* UPDATE ... SET used_count = used_count + 1 WHERE ... used_count < max_uses
IncrementUseCount(i) == rows' = [rows EXCEPT ![i].used = @ + 1]

Claim(r) ==
  LET i == msg[r].inv IN
  /\ pc[r] = "claim"
  /\ IF Claimable(i)
       THEN /\ IncrementUseCount(i)
            /\ held' = [held EXCEPT ![r] = TRUE]
            /\ pc' = [pc EXCEPT ![r] = "create"]
            /\ UNCHANGED <<msg, acct, arrived>>
       ELSE Fail(r) /\ UNCHANGED rows
  /\ UNCHANGED <<uses, users, devices, revoked, members, app, history>>

\* CreateUser; [G9] a vouched join that loses the race goes on as a known account.
Create(r) ==
  LET m == msg[r] IN
  /\ pc[r] = "create"
  /\ IF users[m.key] = "none"
       THEN /\ users' = [users EXCEPT ![m.key] = "guest"]
            /\ Goto(r, "enroll")
       ELSE /\ UNCHANGED users
            /\ Proceed(r, m.vouched, "refetch")
  /\ UNCHANGED <<rows, uses, devices, revoked, members, app, spent, lost, paid>>

\* INSERT ... ON CONFLICT (device_public_key) DO NOTHING
EnsureDevice(d, k) == devices' = IF devices[d] = NoKey THEN [devices EXCEPT ![d] = k] ELSE devices

\* EnsureDevice of the new account, and the re-read that follows.
Enroll(r) ==
  /\ pc[r] = "enroll"
  /\ EnsureDevice(msg[r].dev, msg[r].key)
  /\ acct' = [acct EXCEPT ![r] = users[msg[r].key]]
  /\ pc' = [pc EXCEPT ![r] = "member"]
  /\ UNCHANGED <<msg, held, arrived, rows, uses, users, revoked, members, app, history>>

\* The re-read of the row that won the create race.
Refetch(r) ==
  /\ pc[r] = "refetch"
  /\ acct' = [acct EXCEPT ![r] = users[msg[r].key]]
  /\ pc' = [pc EXCEPT ![r] = "backfill"]
  /\ UNCHANGED <<msg, held, arrived, tables, history>>

\* A known account without a live device gets its own key as one.
Backfill(r) ==
  LET k == msg[r].key IN
  /\ pc[r] = "backfill"
  /\ IF \E d \in Devices : Enrolled(d, k) THEN UNCHANGED devices ELSE EnsureDevice(k, k)
  /\ Goto(r, "member")
  /\ UNCHANGED <<rows, uses, users, revoked, members, app, history>>

-----------------------------------------------------------------------------
(* Join: the membership. *)

\* IsMember: a member gives a held use back before anything else.
Member(r) ==
  /\ pc[r] = "member"
  /\ IF members[msg[r].key] = "none"
       THEN Goto(r, "claimJoin")
       ELSE Goto(r, IF held[r] THEN "releaseMember" ELSE "reuse")
  /\ UNCHANGED <<tables, history>>

\* UPDATE ... SET used_count = used_count - 1 WHERE id = $1 AND used_count > 0.
\* Without a row the claim is gone with it.
Release(i) ==
  IF rows[i].open /\ rows[i].used > 0
    THEN rows' = [rows EXCEPT ![i].used = @ - 1] /\ UNCHANGED lost
    ELSE lost' = [lost EXCEPT ![i] = @ + 1] /\ UNCHANGED rows

\* ReleaseUse: from a member's join, which goes on, or from the deferred call.
ReleaseUse(r) ==
  /\ pc[r] \in {"releaseMember", "release"}
  /\ Release(msg[r].inv)
  /\ Released(r)
  /\ UNCHANGED <<uses, users, devices, revoked, members, app, spent, paid>>

\* canPromote: the flag, a guest, and a device proven to be the account's own.
CanPromote(r) ==
  LET m == msg[r] IN
  /\ rows[m.inv].spaceUse
  /\ acct[r] = "guest"
  /\ m.dev = m.key \/ Enrolled(m.dev, m.key)

\* canPromote and HasBeenUsedBy for an account that is a member already.
Reuse(r) ==
  LET m == msg[r] IN
  /\ pc[r] = "reuse"
  /\ IF CanPromote(r) /\ <<m.inv, m.key>> \notin uses THEN Goto(r, "reclaim") ELSE Return(r)
  /\ UNCHANGED <<tables, history>>

\* A mutant: heldClaim stays set while the event is produced.
ClaimUseHeld(r) ==
  LET i == msg[r].inv
      next == IF pc[r] = "reclaim" THEN "promote" ELSE "produce"
  IN /\ pc[r] \in {"reclaim", "claimJoin"}
     /\ CASE held[r] -> Goto(r, next) /\ UNCHANGED rows
          [] ~ held[r] /\ Claimable(i) -> Goto(r, next) /\ IncrementUseCount(i)
          [] OTHER -> Return(r) /\ UNCHANGED rows
     /\ UNCHANGED <<uses, users, devices, revoked, members, app, history>>

\* IncrementUseCount for a promotion or, unless one is held, for a membership.
ClaimUse(r) ==
  LET i == msg[r].inv
      next == IF pc[r] = "reclaim" THEN "promote" ELSE "produce"
      step == /\ pc' = [pc EXCEPT ![r] = next]
              /\ held' = [held EXCEPT ![r] = FALSE]
              /\ UNCHANGED <<msg, acct, arrived>>
  IN /\ pc[r] \in {"reclaim", "claimJoin"}
     /\ CASE held[r] -> step /\ UNCHANGED rows
          [] ~ held[r] /\ Claimable(i) -> step /\ IncrementUseCount(i)
          [] OTHER -> Return(r) /\ UNCHANGED rows
     /\ UNCHANGED <<uses, users, devices, revoked, members, app, history>>

Spend(r) ==
  /\ spent' = [spent EXCEPT ![msg[r].inv] = @ + 1]
  /\ paid' = paid \cup {<<msg[r].inv, msg[r].key>>}

\* UpdateUserRole writes whatever the role is by now.
Promoted(k) == users' = [users EXCEPT ![k] = IF @ = "none" THEN @ ELSE "user"]

Promote(r) ==
  /\ pc[r] = "promote"
  /\ Promoted(msg[r].key)
  /\ Spend(r)
  /\ Goto(r, "recordMember")
  /\ UNCHANGED <<rows, uses, devices, revoked, members, app, lost>>

\* ProduceEvent(member_added): refused unless the application row is live.
\* A failure keeps the use spent.
ProduceMemberAdded(r) ==
  LET m == msg[r] IN
  /\ pc[r] = "produce"
  /\ IF app \in {"live", "moving"}
       THEN /\ members' = [members EXCEPT ![m.key] = rows[m.inv].role]
            /\ Spend(r)
            /\ Goto(r, "record")
            /\ UNCHANGED lost
       ELSE /\ lost' = [lost EXCEPT ![m.inv] = @ + 1]
            /\ Return(r)
            /\ UNCHANGED <<members, spent, paid>>
  /\ UNCHANGED <<rows, uses, users, devices, revoked, app>>

\* RecordUse: the foreign key refuses it once the invitation is deleted.
RecordUse(r) ==
  LET m == msg[r] IN
  /\ pc[r] \in {"record", "recordMember"}
  /\ IF Found(m.inv)
       THEN /\ uses' = uses \cup {<<m.inv, m.key>>}
            /\ IF pc[r] = "record" THEN Goto(r, "promoteJoin") ELSE Return(r)
       ELSE Return(r) /\ UNCHANGED uses
  /\ UNCHANGED <<rows, users, devices, revoked, members, app, history>>

\* The promotion after a join; its failure is ignored.
PromoteJoin(r) ==
  /\ pc[r] = "promoteJoin"
  /\ IF CanPromote(r) THEN Promoted(msg[r].key) ELSE UNCHANGED users
  /\ Return(r)
  /\ UNCHANGED <<rows, uses, devices, revoked, members, app, history>>

-----------------------------------------------------------------------------
(* Failure, and what the rest of the space does meanwhile. *)

\* A statement of request r fails.
DatabaseError(r) ==
  LET i == msg[r].inv IN
  /\ pc[r] # "idle"
  /\ IF pc[r] \in {"releaseMember", "release"} THEN Released(r) ELSE Fail(r)
  /\ lost' = IF pc[r] \in {"produce", "promote", "releaseMember", "release"}
               THEN [lost EXCEPT ![i] = @ + 1] ELSE lost
  /\ UNCHANGED <<tables, spent, paid>>

\* The process dies; no deferred call runs.
Crash ==
  /\ \E r \in Reqs : pc[r] # "idle"
  /\ lost' = [i \in Invites |-> lost[i] + Cardinality(Claims(i))]
  /\ pc' = [r \in Reqs |-> "idle"]
  /\ msg' = [r \in Reqs |-> NoMsg]
  /\ acct' = [r \in Reqs |-> "none"]
  /\ held' = [r \in Reqs |-> FALSE]
  /\ UNCHANGED <<arrived, tables, spent, paid>>

Expire(i) ==
  /\ rows[i].open /\ ~ rows[i].expired
  /\ rows' = [rows EXCEPT ![i].expired = TRUE]
  /\ UNCHANGED <<uses, users, devices, revoked, members, app, reqVars, history>>

\* Removal, leaving, or a membership that lapses.
MemberLeaves(k) ==
  /\ members[k] \notin {"none", "owner"}
  /\ members' = [members EXCEPT ![k] = "none"]
  /\ UNCHANGED <<rows, uses, users, devices, revoked, app, reqVars, history>>

RevokeDevice(d) ==
  /\ devices[d] # NoKey
  /\ revoked' = revoked \cup {d}
  /\ UNCHANGED <<rows, uses, users, devices, members, app, reqVars, history>>

\* StartMove, AbortMove, CompleteMove, deletion and registration; a completed
\* move deletes the invitations.
AppChanges ==
  /\ \/ app = "live" /\ app' \in {"moving", "deleted"} /\ UNCHANGED <<rows, uses>>
     \/ app = "moving" /\ app' \in {"live", "deleted"} /\ UNCHANGED <<rows, uses>>
     \/ app = "moving" /\ app' = "moved" /\ Closed(Invites)
     \/ app \in {"moved", "deleted"} /\ app' = "live" /\ UNCHANGED <<rows, uses>>
  /\ UNCHANGED <<users, devices, revoked, members, reqVars, history>>

JoinStep(r) ==
  \/ Check(r) \/ Guard(r) \/ Lookup(r) \/ Signup(r) \/ Device(r)
  \/ Claim(r) \/ Create(r) \/ Enroll(r) \/ Refetch(r) \/ Backfill(r)
  \/ Member(r) \/ ReleaseUse(r) \/ Reuse(r) \/ ClaimUse(r) \/ Promote(r)
  \/ ProduceMemberAdded(r) \/ RecordUse(r) \/ PromoteJoin(r)

Next ==
  \/ \E r \in Reqs :
       Arrive(r) \/ Authorize(r) \/ Insert(r) \/ Delete(r) \/ JoinStep(r) \/ DatabaseError(r)
  \/ Crash
  \/ \E i \in Invites : Expire(i)
  \/ \E k \in Keys : MemberLeaves(k)
  \/ \E d \in Devices : RevokeDevice(d)
  \/ AppChanges

Spec == Init /\ [][Next]_vars

-----------------------------------------------------------------------------
(* Properties. *)

TablesOK ==
  /\ rows \in [Invites -> InviteRows]
  /\ uses \subseteq Invites \X Keys
  /\ users \in [Keys -> SpaceRoles]
  /\ devices \in [Devices -> Keys \cup {NoKey}]
  /\ revoked \subseteq Devices
  /\ members \in [Keys -> Roles]
  /\ app \in AppStates
RequestsOK ==
  /\ pc \in [Reqs -> Steps]
  /\ msg \in [Reqs -> Requests \cup {NoMsg}]
  /\ acct \in [Reqs -> SpaceRoles]
  /\ held \in [Reqs -> BOOLEAN]
  /\ arrived \in Nat
HistoryOK ==
  /\ spent \in [Invites -> Nat]
  /\ lost \in [Invites -> Nat]
  /\ paid \subseteq Invites \X Keys

\* Every table and every request keeps its type.
TypeOK == TablesOK /\ RequestsOK /\ HistoryOK

\* used_count counts every claim once: those under way, those that admitted or
\* promoted somebody, and those that came to nothing.  ReleaseUse never gives
\* back a use that a join has spent.
UsesConserved ==
  \A i \in Invites : rows[i].used = Cardinality(Claims(i)) + spent[i] + lost[i]

\* A use is held only on the way to the membership or to its release, and a
\* request under way knows what it serves.
RequestsInv ==
  \A r \in Reqs :
    /\ pc[r] # "idle" => msg[r] \in Requests
    /\ held[r] => pc[r] \in {"create", "enroll", "refetch", "backfill", "member",
                            "releaseMember", "claimJoin", "release"}
    /\ pc[r] \in {"create", "enroll", "refetch", "releaseMember", "release"} => held[r]

\* The conditional UPDATE keeps used_count within max_uses; an invitation that
\* does not exist yet has not been used.
UsedWithinMax ==
  \A i \in Invites : /\ rows[i].max # 0 => rows[i].used <= rows[i].max
                     /\ ~ rows[i].created => ~ rows[i].open /\ rows[i].used = 0

\* The inductive invariant behind AdmissionsWithinMax.
ClaimsInv == RequestsInv /\ UsesConserved /\ UsedWithinMax

\* However joins, failures, crashes and revocation interleave, an invitation
\* never admits and promotes more often than max_uses.
AdmissionsWithinMax ==
  \A i \in Invites : rows[i].max # 0 => Cardinality(Claims(i)) + spent[i] <= rows[i].max

\* An account has the user role only if it had it before or a use of a
\* space-use invitation that the space owner made was spent on it.
SpaceUsePaidFor ==
  \A k \in Keys : users[k] = "user" /\ InitUsers[k] # "user" =>
    \E i \in Invites : /\ <<i, k>> \in paid
                       /\ rows[i].spaceUse
                       /\ rows[i].by = SpaceOwner

\* The inductive invariant behind SpaceUsePaidFor: only the owner's invitations
\* carry the use of the space, and a request about to promote an account has an
\* invitation that does, or has paid for the membership that goes with it.
SpaceUseByOwner ==
  /\ \A k \in Keys : users[k] = "owner" => k = SpaceOwner
  /\ \A i \in Invites : rows[i].spaceUse => rows[i].created /\ rows[i].by = SpaceOwner
OnTheWay(r) ==
  /\ pc[r] = "insert" /\ msg[r].spaceUse => msg[r].key = SpaceOwner
  /\ pc[r] \in {"reclaim", "promote"} => rows[msg[r].inv].spaceUse
  /\ pc[r] \in {"record", "promoteJoin"} => <<msg[r].inv, msg[r].key>> \in paid
PaidInv == SpaceUseByOwner /\ (\A r \in Reqs : OnTheWay(r)) /\ SpaceUsePaidFor
=============================================================================
