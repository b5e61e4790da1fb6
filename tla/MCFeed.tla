------------------------------- MODULE MCFeed -------------------------------
(***************************************************************************)
(* Workload for EventFeed: k2 is a member of an application of k1, for a     *)
(* while, and reads its events in one feed with its own.                     *)
(***************************************************************************)
EXTENDS EventFeed, TLC

CONSTANTS a1, k1, k2, c1, c2, c3

\* Requests are interchangeable.
Symmetry == Permutations(Reqs)

Request(op, app, by) ==
  [op |-> op, id |-> c1, type |-> "application_data_changed", app |-> app, by |-> by,
   agent |-> FALSE, target |-> NoKey, role |-> "none", oldRole |-> "none",
   expires |-> 0, minted |-> 0, members |-> [k \in Keys |-> "none"],
   tpl |-> NoTpl, rev |-> 0]
Submit(id, type, app, by) == [Request("accept", app, by) EXCEPT !.id = id, !.type = type]

\* A registration, a membership that lapses, an edit, a deletion, and settings
\* of the viewer.
Workload ==
  { [Request("register", a1, k1) EXCEPT !.members = [k \in Keys |-> IF k = k1 THEN "owner" ELSE "member"]],
    [Request("produce", a1, k2) EXCEPT !.type = "member_added", !.target = k2, !.role = "member", !.expires = 2],
    Submit(c1, "application_data_changed", a1, k1),
    Submit(c2, "application_deleted", a1, k1),
    [Submit(c3, "user_settings_changed", NoApp, k2) EXCEPT !.target = k2] }
=============================================================================
