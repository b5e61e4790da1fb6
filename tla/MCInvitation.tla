---------------------------- MODULE MCInvitation ----------------------------
(***************************************************************************)
(* Workloads for Invitation: o owns the space and the application; g is a    *)
(* guest, an admin of the application where the workload says so; n has no  *)
(* account; d and e are devices that are not account keys.        *)
(***************************************************************************)
EXTENDS Invitation, TLC

CONSTANTS o, g, n, d, e, i1

\* Requests are interchangeable.
Symmetry == Permutations(Reqs)

NewcomerUsers == [k \in Keys |-> CASE k = o -> "owner" [] k = g -> "guest" [] OTHER -> "none"]
OwnerAndGuest == [k \in Keys |-> CASE k = o -> "owner" [] k = g -> "admin" [] OTHER -> "none"]
Create1(max, identity, spaceUse, keys) ==
  [op |-> "create", inv |-> i1, key |-> o, agent |-> FALSE, dev |-> o, vouched |-> FALSE,
   role |-> "member", max |-> max, membership |-> TRUE, identity |-> identity,
   spaceUse |-> spaceUse, keys |-> keys]

Join1(key, dev, vouched) ==
  [Create1(0, FALSE, FALSE, {}) EXCEPT !.op = "join", !.key = key, !.dev = dev, !.vouched = vouched]

Revoke1 == [Create1(0, FALSE, FALSE, {}) EXCEPT !.op = "revoke"]

\* Invitations of every kind, made by the owner and by g, who manages the
\* application but not the space; joins of g and of a newcomer, with their own
\* device, somebody's device and a vouched device.
JoinWorkload ==
  { Create1(1, TRUE, TRUE, {}),
    [Create1(2, TRUE, TRUE, {}) EXCEPT !.key = g, !.agent = TRUE],
    [Create1(2, TRUE, FALSE, {}) EXCEPT !.key = g],
    Create1(0, TRUE, FALSE, {n}),
    [Create1(0, TRUE, TRUE, {}) EXCEPT !.membership = FALSE],
    Revoke1,
    Join1(g, g, FALSE), Join1(n, n, FALSE), Join1(n, e, FALSE), Join1(n, d, TRUE) }
=============================================================================
