----------------------------- MODULE EventRules -----------------------------
(***************************************************************************)
(* The requests of the event pipeline and the rules that decide about them  *)
(* without touching the database: ValidateEvent (event_validator.go),        *)
(* AuthorizeEvent and AuthorizeUserScopedEvent (event_authorizer.go),        *)
(* checkEventStaleness (event_staleness.go), Application.AgentAllowed and    *)
(* the checks RegisterApplication makes of its argument.                     *)
(***************************************************************************)
EXTENDS EventLog

CONSTANTS
  NoKey,       \* no member named by the request
  StaleWindow  \* staleDestructiveWindowSeconds, in ticks of the clock

ASSUME NoKeyAssumption == NoKey \notin Keys
ASSUME StaleWindowAssumption == StaleWindow \in Nat

Roles == {"owner", "admin", "member", "viewer"}

\* IsGrantable: the roles an invite or a role change may hand out.
GrantableRoles == {"admin", "member", "viewer"}

\* A row of the members table: role "none" stands for no row, expires 0 for
\* a NULL membership_expires_at.
MemberRows == [role: Roles \cup {"none"}, expires: Nat]
NoMember == [role |-> "none", expires |-> 0]

Ops == {"accept", "produce", "register", "startMove", "abortMove",
        "completeMove", "deleteApp", "agentReadOn", "agentReadOff"}

(***************************************************************************)
(* A request.  by and agent are the authenticated caller, target the member *)
(* the payload names (memberPublicKey, or userPublicKey of a user-scoped     *)
(* event), role/oldRole the roles it carries, minted the client's createdAt  *)
(* (0 when omitted), members the member list of a registration.              *)
(***************************************************************************)
Requests ==
  [op: Ops, id: Ids, type: EventTypes, app: Apps \cup {NoApp}, by: Keys,
   agent: BOOLEAN, target: Keys \cup {NoKey}, role: Roles \cup {"none"},
   oldRole: Roles \cup {"none"}, expires: Nat, minted: Nat,
   members: [Keys -> Roles \cup {"none"}],
   tpl: Templates \cup {NoTpl}, rev: Nat]

\* activeMemberPredicate: a lapsed membership is invisible to every read.
Active(row, now) ==
  /\ row.role # "none"
  /\ row.expires = 0 \/ row.expires > now

\* GetOwner over the loaded members; with two owner rows either may come first.
Owners(rows, now) == {k \in Keys : Active(rows[k], now) /\ rows[k].role = "owner"}
\* ValidateEvent: what the payload of each type must carry.
ValidateEvent(m) ==
  /\ m.type \in {"member_added", "member_removed", "member_role_changed"} => m.target \in Keys
  /\ m.type \in {"member_added", "member_role_changed"} => m.role \in GrantableRoles
  /\ m.type = "member_role_changed" => m.oldRole # "none"
  /\ m.type = "template_changed" => m.tpl \in Templates
  /\ m.type \in AppScopedTypes => m.app \in Apps

\* AgentAllowed: an agent acts on the app if access is on or, when it is off,
\* for the owner's own key.
AgentAllowed(m, rows, now, agentRead) ==
  m.agent /\ ~agentRead => m.by \in Owners(rows, now)

CanManage(role) == role \in {"owner", "admin"}

\* Mutant: a manager may remove or demote anyone, the owner included.
AuthorizeEventOwnerUnprotected(m, rows, now, agentRead) ==
  LET IsMember(k) == k \in Keys /\ Active(rows[k], now)
      role == rows[m.by].role
  IN /\ IsMember(m.by)
     /\ AgentAllowed(m, rows, now, agentRead)
     /\ \/ m.type = "application_deleted" /\ role = "owner"
        \/ m.type = "member_removed" /\ IsMember(m.target) /\ CanManage(role)
        \/ m.type \in {"application_data_changed", "invite_revoked"}

\* AuthorizeEvent against the member rows read with the application.
AuthorizeEvent(m, rows, now, agentRead) ==
  LET IsMember(k) == k \in Keys /\ Active(rows[k], now)
      role == rows[m.by].role
  IN /\ IsMember(m.by)
     /\ AgentAllowed(m, rows, now, agentRead)
     /\ \/ /\ m.type = "application_deleted"
           /\ role = "owner"
        \/ /\ m.type = "member_removed"
           /\ IsMember(m.target) /\ rows[m.target].role # "owner"
           /\ m.target = m.by \/ CanManage(role)
        \/ /\ m.type = "member_role_changed"
           /\ CanManage(role)
           /\ m.target # m.by
           /\ IsMember(m.target) /\ rows[m.target].role # "owner"
           /\ m.oldRole = rows[m.target].role
        \/ m.type = "application_data_changed"
        \/ m.type = "invite_revoked" /\ CanManage(role)

\* AuthorizeUserScopedEvent: only about oneself.
AuthorizeUserScopedEvent(m) == m.target = m.by

DestructiveTypes == {"application_deleted", "member_removed", "member_role_changed", "invite_revoked"}

\* checkEventStaleness on a mint time already normalised to the clock's unit.
IsStale(m, now) ==
  /\ m.minted # 0
  /\ m.type \in DestructiveTypes
  /\ now - m.minted > StaleWindow

\* RegisterApplication's checks of its argument: one owner, who is the caller.
ValidRegistration(m) ==
  /\ m.app \in Apps
  /\ \A k \in Keys : m.members[k] = "owner" <=> k = m.by
=============================================================================
