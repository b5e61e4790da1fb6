----------------------------- MODULE MCStorage -----------------------------
(* A small instance of Storage for TLC. *)
EXTENDS Storage, TLC

CONSTANTS s, t, w, c, u, r1, r2

\* Requests are alike, and no property tells them apart.
Symmetric == Permutations(Reqs)

M(op, id, user, inApp, sum, index) ==
  [op |-> op, id |-> id, user |-> user, inApp |-> inApp, sum |-> sum, index |-> index]

\* A chunked file with a checksum: sent part by part, completed, deleted.
ChunkMessages ==
  {M("init", c, u, TRUE, TRUE, 0), M("chunk", c, u, TRUE, TRUE, 0),
   M("chunk", c, u, TRUE, TRUE, 1), M("complete", c, u, TRUE, TRUE, 0),
   M("delete", c, u, TRUE, TRUE, 0)}

\* Files of the application and avatars of one account, and its deletion.
FileMessages ==
  {M("upload", s, u, TRUE, TRUE, 0), M("avatar", w, u, FALSE, TRUE, 0),
   M("avatar", t, u, FALSE, TRUE, 0),
   M("delete", s, u, TRUE, TRUE, 0), M("account", w, u, FALSE, TRUE, 0)}

\* The two workloads one at a time.  Requests and changes share a bound: two
\* changes are what the purge of the application takes.  Five requests send a
\* file of two parts and complete it twice; the fifth is a completion, beside
\* another or alone, in the first month, and leaves no room for a change.
Workloads == ChunkMessages \cup FileMessages
Touched(S) ==
  \/ \E i \in S : rows[i].st # "none" \/ i \in refs \/ i \in doomed \/ i \in repeated
  \/ \E r \in Reqs : req[r].id \in S
  \/ \E p \in S \X Months : blobs[p] # NoBlob
  \/ \E x \in parts : x[1] \in S
OneWorkload ==
  /\ arrived + changes <= IF changes = 0 THEN 5 ELSE 4
  /\ arrived = 5 => now = 0 /\ \A r \in Reqs : At(r, "idle") \/ req[r].m.op = "complete"
  /\ Touched({s, t, w}) => arrived + changes <= 3 /\ ~ Touched({c})
=============================================================================
