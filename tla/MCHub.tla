------------------------------- MODULE MCHub -------------------------------
(* A small instance of Hub for TLC: the sockets of one device of one account. *)
EXTENDS Hub, TLC

CONSTANTS ann, phone

OwnAccount == [c \in Clients |-> ann]
OwnDevice == [c \in Clients |-> phone]

\* Requests are alike, and no invariant tells them apart.
Symmetric == Permutations(Handlers)
=============================================================================
