----------------------------- MODULE MCSessions -----------------------------
(***************************************************************************)
(* Workload for Sessions: ann has her escrow here and a session of her own   *)
(* key and of her phone; the tablet has no row yet and is wanted by bob too, *)
(* as is the phone once ann's account is gone.                               *)
(* This space stands between two others in the byte order of the keys.       *)
(***************************************************************************)
EXTENDS Sessions, TLC

CONSTANTS ann, bob, phone, tablet, low, high, link

\* Requests are interchangeable.
Symmetry == Permutations(Reqs)

KeyOrder == (NoSpace :> 0) @@ (low :> 1) @@ (Own :> 2) @@ (high :> 3)
Rows0 == (ann :> ann) @@ (bob :> bob) @@ (phone :> ann) @@ (tablet :> NoAccount)
Links == link :> [by |-> phone, dpk |-> NoAccount, exp |-> 2]

Base ==
  [op |-> "roster", acct |-> ann, dev |-> phone, target |-> phone,
   bind |-> [iat |-> 0, sub |-> NoSpace], asserted |-> 0, jti |-> NoJTI, blob |-> FALSE]

PutBy(dev, iat, sub) == [Base EXCEPT !.op = "put", !.dev = dev, !.bind = [iat |-> iat, sub |-> sub]]
BindingLogin(dev, iat, sub, asserted) ==
  [Base EXCEPT !.op = "binding", !.dev = dev, !.bind = [iat |-> iat, sub |-> sub],
               !.asserted = asserted]
EnrolAt(a, dev) == [Base EXCEPT !.op = "enroll", !.acct = a, !.dev = dev]
RevokeBy(dev, target) == [Base EXCEPT !.op = "revoke", !.dev = dev, !.target = target]

\* Bindings to this space and to the others, at equal and later times; logins
\* by roster and by binding; a device key that two accounts want; a delegation
\* replayed; revocations and revival, also by an assertion of a clock that is
\* ahead; password and escrow; an account deleted and registered again.
Workload ==
  { Base, [Base EXCEPT !.dev = tablet],
    PutBy(ann, 1, Own), PutBy(ann, 2, high), PutBy(ann, 2, Own),
    BindingLogin(tablet, 1, low, 1), BindingLogin(phone, 1, low, 2), BindingLogin(phone, 2, high, 2),
    [Base EXCEPT !.op = "enroll", !.dev = tablet, !.jti = link],
    EnrolAt(bob, tablet), EnrolAt(bob, phone),
    RevokeBy(ann, phone), RevokeBy(ann, tablet),
    [Base EXCEPT !.op = "password", !.dev = ann],
    [Base EXCEPT !.op = "clear", !.dev = ann],
    [Base EXCEPT !.op = "delete", !.dev = ann], [Base EXCEPT !.op = "register", !.dev = ann] }
=============================================================================
