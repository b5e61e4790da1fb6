------------------------------- MODULE MCPush -------------------------------
(***************************************************************************)
(* Workload for Push: one account with a browser, an edit that waits for    *)
(* the digest in daily mode, and a reminder that never does.                 *)
(***************************************************************************)
EXTENDS Push, TLC

CONSTANTS ann, web

Owners == web :> ann
Transports == web :> "webpush"
Workload ==
  { [id |-> 1, kind |-> "item", by |-> Nobody, to |-> Nobody],
    [id |-> 2, kind |-> "reminder", by |-> Nobody, to |-> Nobody] }

\* A crash takes the place of a change.
Shared == changes + crashes <= MaxChanges

\* Schedulers are alike, and so are requests.
Symmetric == Permutations(Schedulers) \cup Permutations(Patches)
=============================================================================
