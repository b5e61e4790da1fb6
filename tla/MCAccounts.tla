----------------------------- MODULE MCAccounts -----------------------------
(***************************************************************************)
(* Workload for Accounts: an open space that nobody has claimed.  ann and   *)
(* bob have accounts and share two applications, one of which both own; cat *)
(* and dan have none.  Big and small are one name to the index.             *)
(***************************************************************************)
EXTENDS Accounts, TLC

CONSTANTS ann, bob, cat, dan, d1, d2, d3, d4, a1, a2, a3, Big, small, other, third

Capitals == (Big :> small) @@ (small :> small) @@ (other :> other) @@ (third :> third)

Account(name, pw) ==
  [name |-> name, role |-> "user", verifier |-> pw, handle |-> IF pw THEN Capitals[name] ELSE NoName]
Users0 == (ann :> Account(small, TRUE)) @@ (bob :> Account(other, FALSE)) @@ (cat :> NoRow) @@ (dan :> NoRow)
Devices0 == (d1 :> ann) @@ (d2 :> bob) @@ (d3 :> NoKey) @@ (d4 :> NoKey)
Roles0 ==
  LET only == [k \in Keys |-> IF k = ann THEN "owner" ELSE IF k = bob THEN "member" ELSE "none"]
  IN  (a1 :> only) @@ (a2 :> [only EXCEPT ![bob] = "owner"])
        @@ (a3 :> [k \in Keys |-> "none"])

Message(op, key) == [op |-> op, key |-> key, dev |-> d3, name |-> NoName, pw |-> FALSE, app |-> a3]
Named(op, key, name, pw) == [Message(op, key) EXCEPT !.name = name, !.pw = pw]

\* Claims that race for the space and for a device key, registrations at the
\* limit, a rename into a name somebody else is about to take, passwords, and
\* deletions of co-owners and of an account that is claimed again, beside
\* registrations of a new application and of one that is being deleted.
Workload ==
  { Named("claim", cat, Big, FALSE), Named("claim", ann, small, TRUE),
    [Named("claim", dan, other, TRUE) EXCEPT !.dev = d4],
    Named("register", cat, third, TRUE),
    [Named("register", dan, other, TRUE) EXCEPT !.dev = d4],
    Named("rename", ann, other, FALSE), Named("rename", bob, Big, FALSE),
    Message("password", ann), Message("password", bob), Message("clear", ann),
    Message("delete", ann), Message("delete", bob), Message("delete", cat),
    Message("createApp", ann), [Message("createApp", ann) EXCEPT !.app = a1],
    [Message("createApp", bob) EXCEPT !.app = a1] }
=============================================================================
