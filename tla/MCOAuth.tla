------------------------------- MODULE MCOAuth -------------------------------
(* Small instances of OAuth for TLC. *)
EXTENDS OAuth, TLC

CONSTANTS g1, g2, d1, d2, r1, r2, c1, ann, bob

\* Both requests come from one client at one address.
OneClient == [g \in Grants |-> c1]

\* Requests and device keys are alike, and no property tells them apart.
Symmetric == Permutations(Reqs) \cup Permutations(Devices)
=============================================================================
