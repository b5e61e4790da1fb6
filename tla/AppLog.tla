------------------------------- MODULE AppLog -------------------------------
(***************************************************************************)
(* What the event pipeline promises to those who read an application: one   *)
(* log per application, written by one writer at a time.  An event, its     *)
(* number and what it does to the members appear in a single step; numbers  *)
(* follow each other without a gap above a mark that pruning does not       *)
(* lower; and an id is in the log at most once.  EventPipeline, with its    *)
(* racing requests, is shown to implement it.                               *)
(***************************************************************************)
EXTENDS Naturals

CONSTANTS Apps, NoApp, Ids, NobodyIn   \* NobodyIn: the members of an application that is not there

VARIABLES
  log,      \* the entries that can be read
  mark,     \* per application, the highest number handed out
  people    \* per application, its members

logVars == <<log, mark, people>>

Of(a) == {e \in log : e.app = a}

\* Only the members of one application change.
OnlyPeopleOf(a) == \A b \in Apps \ {a} : people'[b] = people[b]

Init ==
  /\ log = {}
  /\ mark = [a \in Apps |-> 0]
  /\ people = [a \in Apps |-> NobodyIn]

\* An event of an application: the next number, and its effect, at once.
Append(a, id) ==
  /\ \A e \in log : e.id # id
  /\ log' = log \cup {[app |-> a, seq |-> mark[a] + 1, id |-> id]}
  /\ mark' = [mark EXCEPT ![a] = @ + 1]
  /\ OnlyPeopleOf(a)

\* An event of an account, outside every application.
Note(id) ==
  /\ \A e \in log : e.id # id
  /\ log' = log \cup {[app |-> NoApp, seq |-> 0, id |-> id]}
  /\ UNCHANGED <<mark, people>>

\* Old entries go, but never the newest of an application.
Prune ==
  /\ log' \subseteq log
  /\ \A e \in log \ log' : e.app \in Apps => \E f \in log' : f.app = e.app /\ f.seq > e.seq
  /\ UNCHANGED <<mark, people>>

\* A registration sets members without an event.
Register(a) ==
  /\ OnlyPeopleOf(a)
  /\ UNCHANGED <<log, mark>>

\* The application moves to another space or is purged: its log ends, and a
\* later one may start from a lower mark.
End(a) ==
  /\ log' = log \ Of(a)
  /\ \E n \in 0 .. mark[a] : mark' = [mark EXCEPT ![a] = n]
  /\ people' = people \/ people' = [people EXCEPT ![a] = NobodyIn]

Next ==
  \/ \E a \in Apps, id \in Ids : Append(a, id)
  \/ \E id \in Ids : Note(id)
  \/ Prune
  \/ \E a \in Apps : Register(a) \/ End(a)

Spec == Init /\ [][Next]_logVars
=============================================================================
