-------------------------- MODULE MCEventPipeline --------------------------
(***************************************************************************)
(* Workloads for EventPipeline.  The ids, keys and applications are model   *)
(* values; a workload is the set of requests that may arrive, as often as    *)
(* the bounds allow, in any order and concurrently.                          *)
(***************************************************************************)
EXTENDS EventPipeline, TLC

CONSTANTS a1, a2, k1, k2, k3, c1, c2, c3, t1

\* Requests are interchangeable.
Symmetry == Permutations(Reqs)

\* A request with nothing but an operation, a caller and an application.
Request(op, app, by) ==
  [op |-> op, id |-> c1, type |-> "application_data_changed", app |-> app, by |-> by,
   agent |-> FALSE, target |-> NoKey, role |-> "none", oldRole |-> "none",
   expires |-> 0, minted |-> 0, members |-> [k \in Keys |-> "none"],
   tpl |-> NoTpl, rev |-> 0]

Register(app, by, others) ==
  [Request("register", app, by) EXCEPT !.members =
     [k \in Keys |-> IF k = by THEN "owner" ELSE IF k \in others THEN "member" ELSE "none"]]

Submit(id, type, app, by) ==
  [Request("accept", app, by) EXCEPT !.id = id, !.type = type]

RoleChange(id, app, by, target, old, new) ==
  [Submit(id, "member_role_changed", app, by) EXCEPT !.target = target, !.oldRole = old, !.role = new]

Removal(id, app, by, target) ==
  [Submit(id, "member_removed", app, by) EXCEPT !.target = target]

Join(app, by, role, expires) ==
  [Request("produce", app, by) EXCEPT
     !.type = "member_added", !.target = by, !.role = role, !.expires = expires]

OwnSettings(id, by) == [Submit(id, "user_settings_changed", NoApp, by) EXCEPT !.target = by]

\* Edits, a deletion, re-registration, cleanup and purge of one application,
\* with a settings event that reuses a client id.
SequencingWorkload ==
  { Register(a1, k1, {k2}),
    Submit(c1, "application_data_changed", a1, k2),
    Submit(c2, "application_deleted", a1, k1),
    OwnSettings(c1, k2) }

\* The move protocol against edits, deletion and moving back.
MoveWorkload ==
  { Register(a1, k1, {k2}),
    Submit(c1, "application_data_changed", a1, k2),
    Request("startMove", a1, k1),
    Request("abortMove", a1, k1),
    Request("completeMove", a1, k1),
    Request("deleteApp", a1, k1) }

\* Membership: a joiner whose membership lapses, removal, role changes, and
\* an agent of a member while agent access is switched.
MembershipWorkload ==
  { Register(a2, k1, {k2}),
    Join(a2, k3, "admin", 2),
    Removal(c1, a2, k3, k1),
    Removal(c2, a2, k1, k3),
    RoleChange(c3, a2, k1, k2, "member", "viewer"),
    RoleChange(c3, a2, k1, k3, "admin", "owner"),
    [Submit(c1, "application_data_changed", a2, k2) EXCEPT !.agent = TRUE],
    [Submit(c2, "application_deleted", a2, k1) EXCEPT !.minted = 1],
    Request("agentReadOn", a2, k1),
    Request("agentReadOff", a2, k1) }

\* The two workloads, each on an application of its own, one at a time: with
\* no limit on an account's applications they do not meet.
ApplicationWorkloads == MoveWorkload \cup MembershipWorkload
Touched(a) ==
  \/ apps[a].exists \/ wiped[a] \/ \E x \in issued : x.app = a
  \/ \E r \in Reqs : msg[r] # NoMsg /\ msg[r].app = a
OneApplication == Cardinality({a \in Apps : Touched(a)}) <= 1 /\ (Touched(a2) => clock <= 3)
=============================================================================
