------------------------- MODULE NotificationProofs -------------------------
(***************************************************************************)
(* A reminder fires once unless its advance is lost, by the newest of its   *)
(* rules; a notification reaches a subscription once and a digest goes out  *)
(* once per due time.  First Reminder, then Push: the two have nothing in   *)
(* common here, not even the clock.                                          *)
(***************************************************************************)
EXTENDS Reminder, Push, TLAPS

-----------------------------------------------------------------------------
(* The inductive invariant of Reminder. *)

Holding == {"check", "produce", "commit", "advance"}

\* A worker that holds a row works on what the table has, a pending row, and
\* no two workers hold the same one.
HeldRows ==
  /\ \A w \in Workers : worker[w].pc \in Holding =>
       worker[w].key \in Keys /\ worker[w].row = At(worker[w].key) /\ worker[w].row # NoRow /\ worker[w].row.state = "pending"
  /\ \A w, v \in Workers :
       worker[w].pc \in Holding /\ worker[v].pc \in Holding /\ worker[w].key = worker[v].key => w = v

\* What a worker listed was due then.
ListedDue ==
  \A w \in Workers :
    /\ \A e \in worker[w].todo : e.fire <= now
    /\ worker[w].pc \in Holding => worker[w].seen <= now

\* The rows of a rule are of one revision, a tombstone is never pending, and
\* without the component there are none.
RuleRows ==
  /\ \A r \in Rules, i, j \in Index :
       rows[r][i] # NoRow /\ rows[r][j] # NoRow => rows[r][i].rev = rows[r][j].rev
  /\ \A r \in Rules : rows[r][tombstoneOffsetIndex] # NoRow => rows[r][tombstoneOffsetIndex].state = "cancelled"
  /\ ~component => \A r \in Rules, i \in Index : rows[r][i] = NoRow

\* One request holds the application's row; what it has found out about the
\* revisions still holds.
Holder ==
  /\ \A q \in Reqs :
       /\ request[q].pc # "idle" => request[q].msg \in Messages
       /\ request[q].pc \in {"read", "apply"} => request[q].msg.op = "change"
       /\ request[q].fresh => request[q].pc = "commit" /\ request[q].msg.op = "change"
       /\ request[q].pc = "apply" => \A v \in Revs(request[q].msg.rule) : v < request[q].msg.rev
       /\ request[q].pc = "commit" /\ request[q].msg.op = "change" /\ ~request[q].fresh => Stale(request[q].msg)
  /\ \A p, q \in Reqs : request[p].pc \notin {"idle", "lock"} /\ request[q].pc \notin {"idle", "lock"} => p = q

\* An occurrence nothing will fire any more: its component is gone, its rule
\* was replaced, its row is past it, or a worker is about to take it past it.
Spent(o) ==
  \/ ~component
  \/ \E v \in Revs(o.key[1]) : v > o.rev
  \/ At(o.key) # NoRow /\ At(o.key).rev = o.rev /\ (At(o.key).due > o.due \/ At(o.key).state # "pending")
  \/ \E w \in Workers : worker[w].pc = "advance" /\ Fired(worker[w].row, worker[w].key) = o

FiredUnlessSpent ==
  \A o \in DOMAIN fired :
    /\ Times(o, fired) <= Times(o, lost) + 1
    /\ ~Spent(o) => Times(o, fired) <= Times(o, lost)

\* The rows of r are those of change m, as far as they went.
Shows(r, m) ==
  \A i \in Index :
    /\ rows[r][i] # NoRow <=> Replaced(m)[i] # NoRow
    /\ rows[r][i] # NoRow => rows[r][i].rev = m.rev /\ rows[r][i].anchor = m.due

Newest(r, m) == m \in Applied(r) /\ (\A o \in Applied(r) : o.rev <= m.rev) /\ Shows(r, m)

RuleOfNewest ==
  component => \A r \in Rules :
    (Applied(r) = {} /\ (\A i \in Index : rows[r][i] = NoRow)) \/ (\E m \in Applied(r) : Newest(r, m))

ReminderInv ==
  TypeOK /\ HeldRows /\ ListedDue /\ RuleRows /\ Holder /\ FiredUnlessSpent /\ RuleOfNewest

-----------------------------------------------------------------------------
(* The operators. *)

\* Only a rule change has the op of one.
LEMMA ChangeShape ==
  ASSUME NEW m \in Messages, m.op = "change"
  PROVE  m \in Changes
BY ConstantsAssumption DEF Changes

\* A count goes up by one for what is counted, and stays for the rest.
LEMMA CountedOnce ==
  ASSUME NEW B, B \in [DOMAIN B -> Nat], NEW o
  PROVE  /\ DOMAIN Counted(o, B) = DOMAIN B \cup {o}
         /\ Counted(o, B) \in [DOMAIN B \cup {o} -> Nat]
         /\ Times(o, Counted(o, B)) = Times(o, B) + 1
         /\ \A x : x # o => Times(x, Counted(o, B)) = Times(x, B)
         /\ \A x : Times(x, B) \in Nat
BY DEF Counted, Times

\* The row ApplyRuleChange inserts is one of the table.
LEMMA InsertedRow ==
  ASSUME NEW m \in Changes, NEW i \in Index
  PROVE  insertRow(m, i) \in Rows /\ insertRow(m, i) # NoRow
<1>1. CASE i = tombstoneOffsetIndex
  BY <1>1, ConstantsAssumption DEF insertRow, Rows, Changes
<1>2. CASE i # tombstoneOffsetIndex
  <2>1. i \in 1 .. Len(Offsets) /\ Offsets[i] \in Int
    BY <1>2, ConstantsAssumption DEF Index, tombstoneOffsetIndex
  <2>2. FireAt(m.due, i) \in Int
    BY <2>1 DEF FireAt, Changes
  <2> QED
    BY <1>2, <2>2, ConstantsAssumption DEF insertRow, Rows, Changes
<1> QED
  BY <1>1, <1>2

\* ApplyRuleChange leaves a rule with rows, all of the change's revision.
LEMMA ReplacedRows ==
  ASSUME NEW m \in Changes
  PROVE  /\ Replaced(m) \in [Index -> Rows \cup {NoRow}]
         /\ \E i \in Index : Replaced(m)[i] # NoRow
         /\ \A i \in Index : Replaced(m)[i] # NoRow =>
              Replaced(m)[i].rev = m.rev /\ Replaced(m)[i].anchor = m.due
         /\ Replaced(m)[tombstoneOffsetIndex] # NoRow => Replaced(m)[tombstoneOffsetIndex].state = "cancelled"
<1>1. \A i \in Index :
        /\ insertRow(m, i) \in Rows /\ insertRow(m, i) # NoRow
        /\ insertRow(m, i).rev = m.rev /\ insertRow(m, i).anchor = m.due /\ insertRow(m, i).state = m.state
  BY InsertedRow DEF insertRow
<1>2. 0 \in Index /\ 1 \in Index
  BY ConstantsAssumption DEF Index
<1>3. m.state \in {"pending", "cancelled"}
  BY DEF Changes
<1>4. \E i \in Index : Replaced(m)[i] # NoRow
  <2>1. CASE m.state = "cancelled"
    BY <2>1, <1>1, <1>2 DEF Replaced, tombstoneOffsetIndex
  <2>2. CASE m.state # "cancelled"
    BY <2>2, <1>1, <1>2 DEF Replaced, tombstoneOffsetIndex
  <2> QED
    BY <2>1, <2>2
<1> QED
  BY <1>1, <1>2, <1>4 DEF Replaced, tombstoneOffsetIndex

\* What the rows of a rule say about revisions.
LEMMA RevsOf ==
  ASSUME TypeOK, NEW r \in Rules
  PROVE  /\ \A v : v \in Revs(r) <=> \E i \in Index : rows[r][i] # NoRow /\ rows[r][i].rev = v
         /\ Revs(r) \subseteq Nat
<1>1. \A v : v \in Revs(r) <=> \E i \in Index : rows[r][i] # NoRow /\ rows[r][i].rev = v
  BY DEF Revs
<1>2. \A i \in Index : rows[r][i] # NoRow => rows[r][i].rev \in Nat
  BY DEF TypeOK, Rows
<1> QED
  BY <1>1, <1>2

\* Key k is that of a table cell.
LEMMA KeyShape ==
  ASSUME NEW k \in Keys
  PROVE  k[1] \in Rules /\ k[2] \in Index /\ k = <<k[1], k[2]>>
BY DEF Keys

\* The members of Applied, one kind at a time.
LEMMA AppliedOf ==
  ASSUME NEW r
  PROVE  /\ \A m : m \in Applied(r) <=>
              /\ m \in logged \/ m \in orphaned \/ \E q \in Reqs : request[q].fresh /\ request[q].msg = m
              /\ m.op = "change" /\ m.rule = r
BY DEF Applied

\* The same of the next state.
LEMMA AppliedOfNext ==
  ASSUME NEW r
  PROVE  /\ \A m : m \in Applied(r)' <=>
              /\ m \in logged' \/ m \in orphaned' \/ \E q \in Reqs : request'[q].fresh /\ request'[q].msg = m
              /\ m.op = "change" /\ m.rule = r
BY DEF Applied

\* A change that reached the rows is a change.
LEMMA AppliedShape ==
  ASSUME ReminderInv, NEW r, NEW m \in Applied(r)
  PROVE  m \in Changes /\ m \in Messages /\ m.rule = r
<1>1. m \in Messages
  BY AppliedOf DEF ReminderInv, TypeOK, Holder
<1> QED
  BY <1>1, AppliedOf, ChangeShape

-----------------------------------------------------------------------------
(* Steps of a worker. *)

\* X is a state a worker that has not fired may go to.
Settled(w, X) ==
  /\ X \in WorkerStates
  /\ X.pc # "advance"
  /\ \A e \in X.todo : e.fire <= now
  /\ X.pc \in Holding =>
       /\ X.key \in Keys /\ X.row = At(X.key) /\ X.row # NoRow /\ X.row.state = "pending"
       /\ X.seen <= now
       /\ \A v \in Workers : v # w /\ worker[v].pc \in Holding => worker[v].key # X.key

\* A worker that changes no row may go anywhere it can keep its promises.
LEMMA WorkerMoves ==
  ASSUME ReminderInv, NEW w \in Workers, worker[w].pc # "advance",
         NEW X, Settled(w, X), worker' = [worker EXCEPT ![w] = X],
         faults' \in 0 .. MaxFaults,
         UNCHANGED <<now, rows, live, component, request, logged, orphaned, fired, lost>>
  PROVE  ReminderInv'
<1>1. TypeOK'
  BY DEF ReminderInv, TypeOK, Settled
<1>2. \A v \in Workers : worker'[v] = IF v = w THEN X ELSE worker[v]
  BY DEF ReminderInv, TypeOK
<1>3. \A k : At(k)' = At(k)
  BY DEF At
<1>4. HeldRows'
  BY <1>2, <1>3 DEF ReminderInv, HeldRows, Settled
<1>5. ListedDue'
  BY <1>2 DEF ReminderInv, ListedDue, Settled
<1>6. RuleRows' /\ Holder'
  BY DEF ReminderInv, RuleRows, Holder, Revs, Stale
<1>7. \A o : Spent(o) => Spent(o)'
  BY <1>2, <1>3 DEF Spent, Revs
<1>8. FiredUnlessSpent'
  BY <1>7 DEF ReminderInv, FiredUnlessSpent
<1>9. RuleOfNewest'
  BY DEF ReminderInv, RuleOfNewest, Newest, Shows, Applied
<1> QED
  BY <1>1, <1>4, <1>5, <1>6, <1>8, <1>9 DEF ReminderInv

\* A worker without work is in a state of workers.
LEMMA IdleShape == IdleWorker \in WorkerStates
<1>1. \A k : k \in Keys \cup {k}
  OBVIOUS
<1> QED
  BY <1>1 DEF WorkerStates, IdleWorker

\* A worker between two rows holds nothing.
LEMMA BetweenRows ==
  ASSUME NEW w \in Workers, NEW pc \in {"idle", "next"},
         NEW todo \in SUBSET [key: Keys, fire: Int], \A e \in todo : e.fire <= now
  PROVE  Settled(w, [IdleWorker EXCEPT !.pc = pc, !.todo = todo])
<1> DEFINE X == [IdleWorker EXCEPT !.pc = pc, !.todo = todo]
<1>1. X.pc = pc /\ X.todo = todo
  BY DEF IdleWorker
<1>3. X \in WorkerStates
  BY IdleShape DEF WorkerStates
<1>4. X.pc # "advance" /\ X.pc \notin Holding /\ X.todo = todo
  BY <1>1 DEF Holding
<1> QED
  BY <1>3, <1>4 DEF Settled

\* What is left of a batch, and the worker that has nothing left.
LEMMA ContinuedSettled ==
  ASSUME ReminderInv, NEW w \in Workers
  PROVE  Settled(w, Continued(w)) /\ Settled(w, IdleWorker)
<1>1. IdleWorker.pc = "idle" /\ IdleWorker.todo = {}
  BY DEF IdleWorker
<1>2. Settled(w, IdleWorker)
  BY <1>1, IdleShape DEF Settled, Holding
<1>3. worker[w].todo \in SUBSET [key: Keys, fire: Int] /\ \A e \in worker[w].todo : e.fire <= now
  BY DEF ReminderInv, TypeOK, WorkerStates, ListedDue
<1>4. Settled(w, [IdleWorker EXCEPT !.pc = "next", !.todo = worker[w].todo])
  BY <1>3, BetweenRows
<1> QED
  BY <1>2, <1>4 DEF Continued

\* The due rows are listed.
LEMMA ListStep ==
  ASSUME ReminderInv, NEW w \in Workers, selectDueRowKeys(w)
  PROVE  ReminderInv'
<1>1. PICK b \in Batches :
        worker' = [worker EXCEPT ![w] = [IdleWorker EXCEPT !.pc = "next", !.todo = {[key |-> k, fire |-> At(k).fire] : k \in b}]]
  BY DEF selectDueRowKeys
<1> DEFINE X == [IdleWorker EXCEPT !.pc = "next", !.todo = {[key |-> k, fire |-> At(k).fire] : k \in b}]
<1>2. \A k \in b : k \in Keys /\ IsDue(At(k))
  BY DEF Batches
<1>3. \A k \in Keys : At(k) \in Rows \cup {NoRow}
  BY KeyShape DEF ReminderInv, TypeOK, At
<1>4. \A k \in b : At(k).fire \in Int /\ At(k).fire <= now
  BY <1>2, <1>3 DEF IsDue, Rows
<1>5. Settled(w, X)
  <2>1. {[key |-> k, fire |-> At(k).fire] : k \in b} \in SUBSET [key: Keys, fire: Int]
    BY <1>2, <1>4
  <2>2. \A e \in {[key |-> k, fire |-> At(k).fire] : k \in b} : e.fire <= now
    BY <1>4
  <2> QED
    BY <2>1, <2>2, BetweenRows
<1>6. faults' \in 0 .. MaxFaults /\ worker[w].pc # "advance"
  BY DEF selectDueRowKeys, ReminderInv, TypeOK
<1> QED
  BY <1>1, <1>5, <1>6, WorkerMoves DEF selectDueRowKeys

\* A row is locked, or passed over.
LEMMA LockStep ==
  ASSUME ReminderInv, NEW w \in Workers, lockRow(w)
  PROVE  ReminderInv'
<1> DEFINE rest(e) == worker[w].todo \ {e}
           X(e) == IF Lockable(e.key)
                   THEN [pc |-> "check", todo |-> rest(e), key |-> e.key, seen |-> e.fire, row |-> At(e.key)]
                   ELSE [IdleWorker EXCEPT !.pc = IF rest(e) = {} THEN "idle" ELSE "next", !.todo = rest(e)]
<1>1. PICK e \in worker[w].todo : worker' = [worker EXCEPT ![w] = X(e)]
  BY DEF lockRow
<1>2. e.key \in Keys /\ e.fire \in Int /\ e.fire <= now /\ rest(e) \in SUBSET [key: Keys, fire: Int]
      /\ \A x \in rest(e) : x.fire <= now
  BY DEF ReminderInv, TypeOK, ListedDue, WorkerStates
<1>3. At(e.key) \in Rows \cup {NoRow}
  BY <1>2, KeyShape DEF ReminderInv, TypeOK, At
<1>4. Settled(w, X(e))
  <2>1. CASE Lockable(e.key)
    <3>1. \A v \in Workers : worker[v].pc \in Holding => worker[v].key # e.key
      BY <2>1 DEF Lockable, Locked, Holding
    <3> QED
      BY <2>1, <3>1, <1>2, <1>3 DEF Settled, Lockable, WorkerStates, Holding
  <2>2. CASE ~Lockable(e.key)
    BY <2>2, <1>2, BetweenRows
  <2> QED
    BY <2>1, <2>2
<1>5. faults' \in 0 .. MaxFaults /\ worker[w].pc # "advance"
  BY DEF lockRow, ReminderInv, TypeOK
<1> HIDE DEF X
<1> QED
  BY <1>1, <1>4, <1>5, WorkerMoves DEF lockRow

\* A worker that holds its row goes on with it.
LEMMA GoesOn ==
  ASSUME ReminderInv, NEW w \in Workers, worker[w].pc \in Holding, NEW pc \in {"produce", "commit"}
  PROVE  Settled(w, [worker[w] EXCEPT !.pc = pc])
<1>1. worker[w] \in WorkerStates
  BY DEF ReminderInv, TypeOK
<1>2. /\ worker[w].key \in Keys /\ worker[w].row = At(worker[w].key) /\ worker[w].row # NoRow
      /\ worker[w].row.state = "pending" /\ worker[w].seen <= now
      /\ \A v \in Workers : v # w /\ worker[v].pc \in Holding => worker[v].key # worker[w].key
      /\ \A e \in worker[w].todo : e.fire <= now
  BY DEF ReminderInv, HeldRows, ListedDue
<1> QED
  BY <1>1, <1>2 DEF Settled, WorkerStates, Holding

\* The table differs from the next one only in the state, the due and the
\* firing time of its rows.
SameRules ==
  \A r \in Rules, i \in Index :
    /\ rows'[r][i] # NoRow <=> rows[r][i] # NoRow
    /\ rows[r][i] # NoRow => rows'[r][i].rev = rows[r][i].rev /\ rows'[r][i].anchor = rows[r][i].anchor

\* What a worker does to a row leaves the revisions and the rules alone.
LEMMA RulesStay ==
  ASSUME ReminderInv, TypeOK', SameRules, UNCHANGED <<component, request, logged, orphaned>>
  PROVE  /\ \A r \in Rules : Revs(r)' = Revs(r)
         /\ Holder' /\ RuleOfNewest'
<1>1. \A r \in Rules : Revs(r)' = Revs(r)
  BY DEF SameRules, Revs
<1>2. \A q \in Reqs : request[q].msg \in Messages /\ request[q].msg.op = "change" => request[q].msg.rule \in Rules
  BY ChangeShape DEF Changes
<1>3. Holder'
  BY <1>1, <1>2 DEF ReminderInv, Holder, Stale
<1>4. \A r : Applied(r)' = Applied(r)
  BY DEF Applied
<1>5. ASSUME NEW r \in Rules, NEW m, Shows(r, m)
      PROVE  Shows(r, m)'
  BY <1>5 DEF SameRules, Shows, Replaced, insertRow
<1>6. RuleOfNewest'
  BY <1>4, <1>5 DEF ReminderInv, RuleOfNewest, Newest, SameRules
<1> QED
  BY <1>1, <1>3, <1>6

\* A worker stores its row: past the occurrence it fired, or skipped.
LEMMA StoreStep ==
  ASSUME ReminderInv, NEW w \in Workers, worker[w].pc \in Holding,
         NEW row \in Rows, StoreRow(w, row),
         row.rev = worker[w].row.rev, row.anchor = worker[w].row.anchor,
         row.due > worker[w].row.due \/ (row.due = worker[w].row.due /\ row.state # "pending"),
         UNCHANGED <<now, live, component, request, logged, orphaned, fired, lost, faults>>
  PROVE  ReminderInv'
<1> DEFINE k == worker[w].key
<1>1. k \in Keys /\ worker[w].row = At(k) /\ At(k) # NoRow /\ At(k).state = "pending"
      /\ k[1] \in Rules /\ k[2] \in Index /\ row # NoRow /\ At(k) \in Rows
  BY KeyShape, ConstantsAssumption DEF ReminderInv, HeldRows, TypeOK, At
<1>2. rows' = [rows EXCEPT ![k[1]][k[2]] = row] /\ worker' = [worker EXCEPT ![w] = Continued(w)]
  BY DEF StoreRow
<1>3. \A r \in Rules, i \in Index : rows'[r][i] = IF r = k[1] /\ i = k[2] THEN row ELSE rows[r][i]
  BY <1>1, <1>2 DEF ReminderInv, TypeOK
<1>4. \A j \in Keys : At(j)' = IF j = k THEN row ELSE At(j)
  BY <1>1, <1>3, KeyShape DEF At
<1>5. Settled(w, Continued(w)) /\ Continued(w).pc \notin Holding
  BY ContinuedSettled DEF Continued, IdleWorker, Holding
<1>6. \A v \in Workers : worker'[v] = IF v = w THEN Continued(w) ELSE worker[v]
  BY <1>2 DEF ReminderInv, TypeOK
<1>7. TypeOK'
  <2>1. rows' \in [Rules -> [Index -> Rows \cup {NoRow}]]
    BY <1>1, <1>2 DEF ReminderInv, TypeOK
  <2> QED
    BY <2>1, <1>2, <1>5 DEF ReminderInv, TypeOK, Settled
<1>8. SameRules
  BY <1>1, <1>3 DEF SameRules, At
<1>9. Holder' /\ RuleOfNewest' /\ \A r \in Rules : Revs(r)' = Revs(r)
  BY <1>7, <1>8, RulesStay
<1>10. HeldRows'
  BY <1>4, <1>5, <1>6 DEF ReminderInv, HeldRows
<1>11. ListedDue'
  BY <1>5, <1>6 DEF ReminderInv, ListedDue, Settled
<1>12. RuleRows'
  <2>1. k[2] # tombstoneOffsetIndex
    BY <1>1 DEF ReminderInv, RuleRows, At
  <2>2. component
    BY <1>1 DEF ReminderInv, RuleRows, At
  <2>3. tombstoneOffsetIndex \in Index
    BY ConstantsAssumption DEF Index, tombstoneOffsetIndex
  <2>4. \A r \in Rules : rows'[r][tombstoneOffsetIndex] = rows[r][tombstoneOffsetIndex]
    BY <2>1, <2>3, <1>3
  <2> QED
    BY <2>2, <2>4, <1>8 DEF ReminderInv, RuleRows, SameRules
<1>13. ASSUME NEW o \in Occurrences, Spent(o)
       PROVE  Spent(o)'
  <2>0. o.key \in Keys /\ o.due \in Nat /\ o.rev \in Nat /\ o.key[1] \in Rules
    BY KeyShape DEF Occurrences
  <2>1. CASE ~component \/ \E v \in Revs(o.key[1]) : v > o.rev
    BY <2>0, <2>1, <1>9 DEF Spent
  <2>2. CASE At(o.key) # NoRow /\ At(o.key).rev = o.rev /\ (At(o.key).due > o.due \/ At(o.key).state # "pending")
    <3>1. CASE o.key = k
      <4>1. At(k).due \in Nat /\ row.due \in Nat
        BY <1>1 DEF Rows
      <4>2. row.due > o.due
        BY <2>0, <2>2, <3>1, <1>1, <4>1
      <4> QED
        BY <2>0, <2>2, <3>1, <1>1, <1>4, <4>2 DEF Spent
    <3>2. CASE o.key # k
      BY <2>0, <2>2, <3>2, <1>4 DEF Spent
    <3> QED
      BY <3>1, <3>2
  <2>3. ASSUME NEW v \in Workers, worker[v].pc = "advance", Fired(worker[v].row, worker[v].key) = o
        PROVE  Spent(o)'
    <3>1. CASE v = w
      <4>1. o.key = k /\ o.rev = worker[w].row.rev /\ o.due = worker[w].row.due
        BY <2>3, <3>1 DEF Fired
      <4>2. At(o.key)' = row
        BY <4>1, <1>1, <1>4
      <4> QED
        BY <4>1, <4>2, <1>1 DEF Spent
    <3>2. CASE v # w
      BY <2>3, <3>2, <1>6 DEF Spent
    <3> QED
      BY <3>1, <3>2
  <2> QED
    BY <1>13, <2>1, <2>2, <2>3 DEF Spent
<1>14. FiredUnlessSpent'
  <2>1. \A o \in DOMAIN fired : o \in Occurrences
    BY DEF ReminderInv, TypeOK
  <2> QED
    BY <2>1, <1>13 DEF ReminderInv, FiredUnlessSpent
<1> QED
  BY <1>7, <1>9, <1>10, <1>11, <1>12, <1>14 DEF ReminderInv

\* A skipped row keeps its occurrence.
LEMMA SkipStep ==
  ASSUME ReminderInv, NEW w \in Workers, worker[w].pc \in Holding, markSkipped(w),
         UNCHANGED <<now, live, component, request, logged, orphaned, fired, lost, faults>>
  PROVE  ReminderInv'
<1> DEFINE row == [worker[w].row EXCEPT !.state = "skipped"]
<1>1. worker[w].row \in Rows
  BY DEF ReminderInv, HeldRows, TypeOK, WorkerStates
<1>2. row \in Rows /\ row.state = "skipped" /\ row.rev = worker[w].row.rev /\ row.anchor = worker[w].row.anchor
      /\ row.due = worker[w].row.due
  BY <1>1 DEF Rows
<1>3. StoreRow(w, row)
  BY DEF markSkipped
<1> QED
  BY <1>2, <1>3, StoreStep

\* The row is within its grace, or skipped.
LEMMA CheckStep ==
  ASSUME ReminderInv, NEW w \in Workers, processRow(w)
  PROVE  ReminderInv'
<1>1. worker[w].pc \in Holding /\ worker[w].pc # "advance"
  BY DEF processRow, Holding
<1>2. CASE markSkipped(w)
  BY <1>1, <1>2, SkipStep DEF processRow
<1>3. CASE worker' = [worker EXCEPT ![w].pc = "produce"] /\ UNCHANGED rows
  <2>1. worker' = [worker EXCEPT ![w] = [worker[w] EXCEPT !.pc = "produce"]]
    BY <1>3
  <2>2. faults' \in 0 .. MaxFaults
    BY DEF processRow, ReminderInv, TypeOK
  <2>3. Settled(w, [worker[w] EXCEPT !.pc = "produce"])
    BY <1>1, GoesOn
  <2> QED
    BY <1>1, <1>3, <2>1, <2>2, <2>3, WorkerMoves DEF processRow
<1> QED
  BY <1>2, <1>3 DEF processRow

\* The event gets the application's row, or can never apply.
LEMMA FireStep ==
  ASSUME ReminderInv, NEW w \in Workers, fire(w)
  PROVE  ReminderInv'
<1>1. worker[w].pc \in Holding /\ worker[w].pc # "advance"
  BY DEF fire, Holding
<1>2. CASE markSkipped(w)
  BY <1>1, <1>2, SkipStep DEF fire
<1>3. CASE worker' = [worker EXCEPT ![w].pc = "commit"] /\ UNCHANGED rows
  <2>1. worker' = [worker EXCEPT ![w] = [worker[w] EXCEPT !.pc = "commit"]]
    BY <1>3
  <2>2. faults' \in 0 .. MaxFaults
    BY DEF fire, ReminderInv, TypeOK
  <2>3. Settled(w, [worker[w] EXCEPT !.pc = "commit"])
    BY <1>1, GoesOn
  <2> QED
    BY <1>1, <1>3, <2>1, <2>2, <2>3, WorkerMoves DEF fire
<1> QED
  BY <1>2, <1>3 DEF fire

\* The wait for the application ends.
LEMMA FireTimeoutStep ==
  ASSUME ReminderInv, NEW w \in Workers, fireTimesOut(w)
  PROVE  ReminderInv'
<1>1. faults' \in 0 .. MaxFaults /\ worker[w].pc # "advance"
  BY DEF fireTimesOut, ReminderInv, TypeOK
<1> QED
  BY <1>1, ContinuedSettled, WorkerMoves DEF fireTimesOut

\* The row goes to its next occurrence, or is done.
LEMMA AdvanceStep ==
  ASSUME ReminderInv, NEW w \in Workers, advance(w)
  PROVE  ReminderInv'
<1> DEFINE old == worker[w].row
           i == worker[w].key[2]
           row == Advanced(old, i)
<1>1. worker[w].pc \in Holding
  BY DEF advance, Holding
<1>2. old \in Rows /\ old = At(worker[w].key) /\ worker[w].key \in Keys /\ old.state = "pending" /\ old # NoRow
  BY <1>1 DEF ReminderInv, HeldRows, TypeOK, WorkerStates
<1>3. i \in Index /\ i # tombstoneOffsetIndex
  BY <1>2, KeyShape DEF ReminderInv, RuleRows, At
<1>4. Offsets[i] \in Int
  BY <1>3, ConstantsAssumption DEF Index, tombstoneOffsetIndex
<1>5. Period \in Nat /\ Period > 0
  BY ConstantsAssumption
<1>6. row \in Rows /\ row.rev = old.rev /\ row.anchor = old.anchor
      /\ (row.due > old.due \/ (row.due = old.due /\ row.state # "pending"))
  <2>0. old.due \in Nat
    BY <1>2 DEF Rows
  <2>1. CASE Recurs(old)
    <3>1. row = [old EXCEPT !.due = old.due + Period, !.fire = FireAt(old.due + Period, i)]
      BY <2>1 DEF Advanced
    <3>2. old.due + Period \in Nat /\ old.due + Period > old.due /\ FireAt(old.due + Period, i) \in Int
      BY <2>0, <1>4, <1>5 DEF FireAt
    <3> QED
      BY <3>1, <3>2, <1>2 DEF Rows
  <2>2. CASE ~Recurs(old)
    BY <2>2, <1>2 DEF Advanced, Rows
  <2> QED
    BY <2>1, <2>2
<1> HIDE DEF row
<1>7. StoreRow(w, row)
  BY DEF advance, row
<1> QED
  BY <1>1, <1>6, <1>7, StoreStep DEF advance

\* What a worker fires is an occurrence.
LEMMA FiredShape ==
  ASSUME ReminderInv, NEW w \in Workers, worker[w].pc \in Holding
  PROVE  LET o == Fired(worker[w].row, worker[w].key)
         IN  /\ o \in Occurrences
             /\ o.key = worker[w].key /\ o.rev = worker[w].row.rev /\ o.due = worker[w].row.due
BY DEF ReminderInv, TypeOK, HeldRows, WorkerStates, Rows, Fired, Occurrences

\* What a row about to be fired says has not been spent.
LEMMA NotSpent ==
  ASSUME ReminderInv, NEW w \in Workers, worker[w].pc = "commit"
  PROVE  ~Spent(Fired(worker[w].row, worker[w].key))
<1> DEFINE o == Fired(worker[w].row, worker[w].key)
<1>1. worker[w].pc \in Holding
  BY DEF Holding
<1>2. o \in Occurrences /\ o.key = worker[w].key /\ o.rev = worker[w].row.rev /\ o.due = worker[w].row.due
  BY <1>1, FiredShape
<1>3. worker[w].key \in Keys /\ worker[w].row = At(worker[w].key) /\ worker[w].row # NoRow /\ worker[w].row.state = "pending"
      /\ o.key[1] \in Rules /\ o.key[2] \in Index
  BY <1>1, <1>2, KeyShape DEF ReminderInv, HeldRows
<1>4. component
  BY <1>2, <1>3 DEF ReminderInv, RuleRows, At
<1>5. \A v \in Revs(o.key[1]) : v = o.rev
  BY <1>2, <1>3, RevsOf DEF ReminderInv, RuleRows, At
<1>6. ~(At(o.key) # NoRow /\ At(o.key).rev = o.rev /\ (At(o.key).due > o.due \/ At(o.key).state # "pending"))
  BY <1>2, <1>3 DEF Occurrences
<1>7. ~ \E v \in Workers : worker[v].pc = "advance" /\ Fired(worker[v].row, worker[v].key) = o
  BY <1>1, <1>2, FiredShape DEF ReminderInv, HeldRows, Holding
<1>8. o.rev \in Nat
  BY <1>2 DEF Occurrences
<1> QED
  BY <1>4, <1>5, <1>6, <1>7, <1>8 DEF Spent

\* The event commits: its occurrence is spent as it is counted.
LEMMA CommitStep ==
  ASSUME ReminderInv, NEW w \in Workers, ProduceCommits(w)
  PROVE  ReminderInv'
<1>0. PICK o : o = Fired(worker[w].row, worker[w].key)
  OBVIOUS
<1> DEFINE X == [worker[w] EXCEPT !.pc = "advance"]
<1>1. worker[w].pc = "commit" /\ fired' = Counted(o, fired) /\ worker' = [worker EXCEPT ![w] = X]
      /\ UNCHANGED <<now, rows, live, component, request, logged, orphaned, lost, faults>>
  BY <1>0 DEF ProduceCommits
<1>2. worker[w].pc \in Holding /\ o \in Occurrences /\ worker[w] \in WorkerStates
  BY <1>0, <1>1, FiredShape DEF Holding, ReminderInv, TypeOK
<1>3. X \in WorkerStates /\ X.pc = "advance" /\ X.key = worker[w].key /\ X.row = worker[w].row
      /\ X.todo = worker[w].todo /\ X.seen = worker[w].seen
  BY <1>2 DEF WorkerStates
<1>4. \A v \in Workers : worker'[v] = IF v = w THEN X ELSE worker[v]
  BY <1>1 DEF ReminderInv, TypeOK
<1> HIDE DEF X
<1>5. fired \in [DOMAIN fired -> Nat] /\ DOMAIN fired \subseteq Occurrences
      /\ lost \in [DOMAIN lost -> Nat] /\ DOMAIN lost \subseteq Occurrences
  BY DEF ReminderInv, TypeOK
<1>6. /\ DOMAIN fired' = DOMAIN fired \cup {o}
      /\ fired' \in [DOMAIN fired' -> Nat]
      /\ Times(o, fired') = Times(o, fired) + 1
      /\ \A x : x # o => Times(x, fired') = Times(x, fired)
      /\ \A x : Times(x, lost) \in Nat /\ Times(x, fired) \in Nat
  BY <1>1, <1>5, CountedOnce
<1>7. TypeOK'
  BY <1>1, <1>2, <1>3, <1>5, <1>6 DEF ReminderInv, TypeOK
<1>8. \A k : At(k)' = At(k)
  BY <1>1 DEF At
<1>9. HeldRows' /\ ListedDue'
  BY <1>1, <1>2, <1>3, <1>4, <1>8 DEF ReminderInv, HeldRows, ListedDue, Holding
<1>10. RuleRows' /\ Holder'
  BY <1>1 DEF ReminderInv, RuleRows, Holder, Revs, Stale
<1>11. RuleOfNewest'
  BY <1>1 DEF ReminderInv, RuleOfNewest, Newest, Shows, Applied
<1>12. \A x : Spent(x) => Spent(x)'
  BY <1>1, <1>3, <1>4, <1>8 DEF Spent, Revs
<1>13. Spent(o)'
  BY <1>0, <1>3, <1>4 DEF Spent
<1>15. Times(o, fired) <= Times(o, lost)
  <2>1. CASE o \in DOMAIN fired
    BY <2>1, <1>0, <1>1, NotSpent DEF ReminderInv, FiredUnlessSpent
  <2>2. CASE o \notin DOMAIN fired
    BY <2>2, <1>6 DEF Times
  <2> QED
    BY <2>1, <2>2
<1>16. FiredUnlessSpent'
  <2>1. ASSUME NEW x \in DOMAIN fired', x # o
        PROVE  Times(x, fired') <= Times(x, lost') + 1 /\ (~Spent(x)' => Times(x, fired') <= Times(x, lost'))
    BY <2>1, <1>1, <1>6, <1>12 DEF ReminderInv, FiredUnlessSpent
  <2>2. Times(o, fired') <= Times(o, lost') + 1
    BY <1>1, <1>6, <1>15
  <2>3. SUFFICES ASSUME NEW x \in DOMAIN fired'
                 PROVE  Times(x, fired') <= Times(x, lost') + 1 /\ (~Spent(x)' => Times(x, fired') <= Times(x, lost'))
    BY DEF FiredUnlessSpent
  <2> QED
    BY <2>1, <2>2, <1>13
<1> QED
  BY <1>7, <1>9, <1>10, <1>11, <1>16 DEF ReminderInv

\* A worker that fails, or ends, before its event committed, or after it: what
\* it fired is then counted as lost.
LEMMA FailStep ==
  ASSUME ReminderInv, NEW w \in Workers, WorkerFails(w)
  PROVE  ReminderInv'
<1>0. faults' \in 0 .. MaxFaults
  BY ConstantsAssumption DEF WorkerFails, ReminderInv, TypeOK
<1>1. PICK X \in {Continued(w), IdleWorker} : worker' = [worker EXCEPT ![w] = X]
  BY DEF WorkerFails
<1>2. Settled(w, X) /\ X.pc \notin Holding
  <2>1. Continued(w).pc \notin Holding /\ IdleWorker.pc \notin Holding
    BY DEF Continued, IdleWorker, Holding
  <2> QED
    BY <2>1, ContinuedSettled
<1>3. CASE worker[w].pc # "advance"
  BY <1>0, <1>1, <1>2, <1>3, WorkerMoves DEF WorkerFails
<1>4. CASE worker[w].pc = "advance"
  <2> DEFINE o == Fired(worker[w].row, worker[w].key)
  <2>1. lost' = Counted(o, lost) /\ UNCHANGED <<now, rows, live, component, request, logged, orphaned, fired>>
    BY <1>4 DEF WorkerFails
  <2>2. o \in Occurrences
    BY <1>4, FiredShape DEF Holding
  <2>3. fired \in [DOMAIN fired -> Nat] /\ DOMAIN fired \subseteq Occurrences
        /\ lost \in [DOMAIN lost -> Nat] /\ DOMAIN lost \subseteq Occurrences
    BY DEF ReminderInv, TypeOK
  <2>4. /\ DOMAIN lost' = DOMAIN lost \cup {o}
        /\ lost' \in [DOMAIN lost' -> Nat]
        /\ Times(o, lost') = Times(o, lost) + 1
        /\ \A x : x # o => Times(x, lost') = Times(x, lost)
        /\ \A x : Times(x, lost) \in Nat /\ Times(x, fired) \in Nat
    BY <2>1, <2>3, CountedOnce
  <2>5. TypeOK'
    BY <1>0, <1>1, <1>2, <2>1, <2>2, <2>3, <2>4 DEF ReminderInv, TypeOK, Settled
  <2>6. \A v \in Workers : worker'[v] = IF v = w THEN X ELSE worker[v]
    BY <1>1 DEF ReminderInv, TypeOK
  <2>7. \A k : At(k)' = At(k)
    BY <2>1 DEF At
  <2>8. HeldRows' /\ ListedDue'
    BY <1>2, <2>1, <2>6, <2>7 DEF ReminderInv, HeldRows, ListedDue, Settled
  <2>9. RuleRows' /\ Holder'
    BY <2>1 DEF ReminderInv, RuleRows, Holder, Revs, Stale
  <2>10. RuleOfNewest'
    BY <2>1 DEF ReminderInv, RuleOfNewest, Newest, Shows, Applied
  <2>11. \A x : x # o /\ Spent(x) => Spent(x)'
    BY <2>1, <2>6, <2>7 DEF Spent, Revs
  <2>12. FiredUnlessSpent'
    <3>1. ASSUME NEW x \in DOMAIN fired, x # o
          PROVE  Times(x, fired') <= Times(x, lost') + 1 /\ (~Spent(x)' => Times(x, fired') <= Times(x, lost'))
      BY <3>1, <2>1, <2>4, <2>11 DEF ReminderInv, FiredUnlessSpent
    <3>2. o \in DOMAIN fired => Times(o, fired') <= Times(o, lost')
      BY <2>1, <2>4 DEF ReminderInv, FiredUnlessSpent
    <3>3. Times(o, lost') \in Nat /\ Times(o, fired') \in Nat
      BY <2>1, <2>4
    <3> QED
      BY <2>1, <3>1, <3>2, <3>3 DEF FiredUnlessSpent
  <2> QED
    BY <2>5, <2>8, <2>9, <2>10, <2>12 DEF ReminderInv
<1> QED
  BY <1>3, <1>4

-----------------------------------------------------------------------------
(* Steps of a request. *)

\* X is a state a request that has not applied a change may go to.
Fits(q, X) ==
  /\ X \in RequestStates
  /\ X.pc # "idle" => X.msg \in Messages
  /\ X.pc \in {"read", "apply"} => X.msg.op = "change"
  /\ ~X.fresh
  /\ X.pc = "apply" => \A v \in Revs(X.msg.rule) : v < X.msg.rev
  /\ X.pc = "commit" /\ X.msg.op = "change" => Stale(X.msg)
  /\ X.pc \notin {"idle", "lock"} => \A p \in Reqs : p # q => request[p].pc \in {"idle", "lock"}

\* A request that changes no row may go where what it knows allows, when the
\* rules are still those of their newest changes.
LEMMA RequestMoves ==
  ASSUME ReminderInv, NEW q \in Reqs, NEW X, Fits(q, X), request' = [request EXCEPT ![q] = X],
         RuleOfNewest', faults' \in 0 .. MaxFaults, live' \in BOOLEAN,
         logged' \subseteq Messages, orphaned' \subseteq Messages,
         UNCHANGED <<now, rows, component, worker, fired, lost>>
  PROVE  ReminderInv'
<1>1. TypeOK'
  BY DEF ReminderInv, TypeOK, Fits
<1>2. \A p \in Reqs : request'[p] = IF p = q THEN X ELSE request[p]
  BY DEF ReminderInv, TypeOK
<1>3. \A k : At(k)' = At(k)
  BY DEF At
<1>4. HeldRows' /\ ListedDue' /\ RuleRows'
  BY <1>3 DEF ReminderInv, HeldRows, ListedDue, RuleRows
<1>5. \A r : Revs(r)' = Revs(r)
  BY DEF Revs
<1>6. Holder'
  BY <1>2, <1>5 DEF ReminderInv, Holder, Fits, Stale
<1>7. \A o : Spent(o)' <=> Spent(o)
  BY <1>3, <1>5 DEF Spent
<1>8. FiredUnlessSpent'
  BY <1>7 DEF ReminderInv, FiredUnlessSpent
<1> QED
  BY <1>1, <1>4, <1>6, <1>8 DEF ReminderInv

\* The rows stay, and so do the changes that reached them.
LEMMA SameChanges ==
  ASSUME ReminderInv, UNCHANGED <<rows, component>>, \A r \in Rules : Applied(r)' = Applied(r)
  PROVE  RuleOfNewest'
BY DEF ReminderInv, RuleOfNewest, Newest, Shows

\* A request that has not changed its rule's rows does not count as a change
\* that reached them, before a step or after.
LEMMA NotFresh ==
  ASSUME ReminderInv, NEW q \in Reqs, ~request[q].fresh, NEW X, ~X.fresh,
         request' = [request EXCEPT ![q] = X], UNCHANGED <<logged, orphaned>>
  PROVE  \A r \in Rules : Applied(r)' = Applied(r)
<1>1. \A p \in Reqs : request'[p] = IF p = q THEN X ELSE request[p]
  BY DEF ReminderInv, TypeOK
<1>2. \A r, m : m \in Applied(r)' <=> m \in Applied(r)
  BY <1>1, AppliedOf, AppliedOfNext
<1> QED
  BY <1>2, SetExtensionality

\* A request that has ended may be anything's beginning.
LEMMA IdleFits ==
  ASSUME NEW q \in Reqs
  PROVE  Fits(q, IdleRequest)
BY DEF Fits, IdleRequest, RequestStates

\* A request that ends without a change to its name.
LEMMA EndsStep ==
  ASSUME ReminderInv, NEW q \in Reqs, ~request[q].fresh, Ends(q),
         faults' \in 0 .. MaxFaults, UNCHANGED <<now, rows, live, component, worker, logged, orphaned, fired, lost>>
  PROVE  ReminderInv'
<1>1. request' = [request EXCEPT ![q] = IdleRequest] /\ ~IdleRequest.fresh
  BY DEF Ends, IdleRequest
<1>2. RuleOfNewest'
  BY <1>1, NotFresh, SameChanges
<1>3. live' \in BOOLEAN /\ logged' \subseteq Messages /\ orphaned' \subseteq Messages
  BY DEF ReminderInv, TypeOK
<1> QED
  BY <1>1, <1>2, <1>3, IdleFits, RequestMoves

\* A request that goes on to pc.
LEMMA GoesStep ==
  ASSUME ReminderInv, NEW q \in Reqs, ~request[q].fresh, NEW pc, Goes(q, pc),
         Fits(q, [request[q] EXCEPT !.pc = pc]),
         UNCHANGED <<now, rows, live, component, worker, logged, orphaned, fired, lost, faults>>
  PROVE  ReminderInv'
<1> DEFINE X == [request[q] EXCEPT !.pc = pc]
<1>1. request' = [request EXCEPT ![q] = X]
  BY DEF Goes
<1>2. ~X.fresh
  BY DEF Fits
<1> HIDE DEF X
<1>3. RuleOfNewest'
  BY <1>1, <1>2, NotFresh, SameChanges
<1>4. live' \in BOOLEAN /\ logged' \subseteq Messages /\ orphaned' \subseteq Messages /\ faults' \in 0 .. MaxFaults
  BY DEF ReminderInv, TypeOK
<1>5. Fits(q, X)
  BY DEF X
<1> QED
  BY <1>1, <1>3, <1>4, <1>5, RequestMoves

\* A request arrives.
LEMMA SubmitStep ==
  ASSUME ReminderInv, NEW q \in Reqs, Submit(q)
  PROVE  ReminderInv'
<1>1. PICK m \in Messages : request' = [request EXCEPT ![q] = [IdleRequest EXCEPT !.pc = "lock", !.msg = m]]
  BY DEF Submit
<1> DEFINE X == [IdleRequest EXCEPT !.pc = "lock", !.msg = m]
<1>2. X.pc = "lock" /\ X.msg = m /\ ~X.fresh /\ X \in RequestStates
  <2>1. IdleRequest \in RequestStates
    BY DEF IdleRequest, RequestStates
  <2> QED
    BY <2>1 DEF RequestStates, IdleRequest
<1>3. Fits(q, X)
  BY <1>2 DEF Fits, RequestStates
<1>4. ~request[q].fresh
  BY DEF Submit, ReminderInv, Holder
<1> HIDE DEF X
<1>5. RuleOfNewest'
  BY <1>1, <1>3, <1>4, NotFresh, SameChanges DEF Fits, Submit, X
<1>6. live' \in BOOLEAN /\ logged' \subseteq Messages /\ orphaned' \subseteq Messages /\ faults' \in 0 .. MaxFaults
  BY DEF ReminderInv, TypeOK, Submit
<1> QED
  BY <1>1, <1>3, <1>5, <1>6, RequestMoves DEF Submit, X

\* The application's row is free: nobody else is past the wait for it.
LEMMA AppIsFree ==
  ASSUME ReminderInv, NEW q \in Reqs, request[q].pc = "lock", AppFree,
         NEW pc \in {"read", "cascade", "commit"},
         request[q].msg.op = "change" <=> pc = "read"
  PROVE  Fits(q, [request[q] EXCEPT !.pc = pc])
<1> DEFINE X == [request[q] EXCEPT !.pc = pc]
<1>1. request[q] \in RequestStates /\ request[q].msg \in Messages /\ ~request[q].fresh
  BY DEF ReminderInv, TypeOK, Holder
<1>2. X \in RequestStates /\ X.pc = pc /\ X.msg = request[q].msg /\ ~X.fresh
  BY <1>1 DEF RequestStates
<1>3. \A p \in Reqs : request[p].pc \in {"idle", "lock"}
  BY DEF AppFree
<1> HIDE DEF X
<1>4. Fits(q, X)
  BY <1>1, <1>2, <1>3 DEF Fits
<1> QED
  BY <1>4 DEF X

\* A request gets the application, and finds that it has nothing to do or goes on.
LEMMA PersistStep ==
  ASSUME ReminderInv, NEW q \in Reqs, persistAndApply(q)
  PROVE  ReminderInv'
<1>1. request[q].pc = "lock" /\ AppFree /\ ~request[q].fresh /\ faults' \in 0 .. MaxFaults
  BY DEF persistAndApply, ReminderInv, Holder, TypeOK
<1>2. CASE Ends(q)
  BY <1>1, <1>2, EndsStep DEF persistAndApply
<1>3. ASSUME NEW pc \in {"read", "cascade", "commit"}, Goes(q, pc), request[q].msg.op = "change" <=> pc = "read"
      PROVE  ReminderInv'
  BY <1>1, <1>3, AppIsFree, GoesStep DEF persistAndApply
<1>4. \/ Ends(q)
      \/ request[q].msg.op = "change" /\ Goes(q, "read")
      \/ request[q].msg.op = "deleteComponent" /\ Goes(q, "cascade")
      \/ request[q].msg.op = "deleteApplication" /\ Goes(q, "commit")
  BY DEF persistAndApply
<1> QED
  BY <1>2, <1>3, <1>4

\* lock_timeout, or a failure before the change was applied.
LEMMA TimeoutStep ==
  ASSUME ReminderInv, NEW q \in Reqs, RequestTimesOut(q)
  PROVE  ReminderInv'
<1>1. ~request[q].fresh /\ faults' \in 0 .. MaxFaults
  BY DEF RequestTimesOut, ReminderInv, Holder, TypeOK
<1> QED
  BY <1>1, EndsStep DEF RequestTimesOut

\* The stored revision is read under the application's row: what it says holds
\* until the request ends.
LEMMA ReadStep ==
  ASSUME ReminderInv, NEW q \in Reqs, readRev(q)
  PROVE  ReminderInv'
<1> DEFINE m == request[q].msg
           pc == IF Stale(m) THEN "commit" ELSE "apply"
           X == [request[q] EXCEPT !.pc = pc]
<1>1. request[q].pc = "read" /\ ~request[q].fresh /\ request[q] \in RequestStates /\ m \in Messages /\ m.op = "change"
  BY DEF readRev, ReminderInv, Holder, TypeOK
<1>2. m \in Changes
  BY <1>1, ChangeShape
<1>3. m.rev \in Nat /\ m.rule \in Rules /\ Revs(m.rule) \subseteq Nat
  BY <1>2, RevsOf DEF Changes, ReminderInv
<1>4. \A p \in Reqs : p # q => request[p].pc \in {"idle", "lock"}
  BY <1>1 DEF ReminderInv, Holder
<1>5. ~Stale(m) => \A v \in Revs(m.rule) : v < m.rev
  BY <1>3 DEF Stale
<1>6. X \in RequestStates /\ X.pc = pc /\ X.msg = m /\ ~X.fresh
  BY <1>1 DEF RequestStates
<1>7. Fits(q, X)
  BY <1>1, <1>4, <1>5, <1>6 DEF Fits
<1>8. Goes(q, pc)
  BY DEF readRev
<1> QED
  BY <1>1, <1>7, <1>8, GoesStep DEF readRev

\* The rows of a rule become those of a change newer than any that reached
\* them; no scheduler holds one of them.
LEMMA ApplyStep ==
  ASSUME ReminderInv, NEW q \in Reqs, ApplyRuleChange(q)
  PROVE  ReminderInv'
<1>0. PICK m : m = request[q].msg
  OBVIOUS
<1>1. request[q].pc = "apply" /\ ~request[q].fresh /\ request[q] \in RequestStates /\ m \in Messages /\ m.op = "change"
      /\ RuleFree(m.rule) /\ faults' \in 0 .. MaxFaults
      /\ (\A v \in Revs(m.rule) : v < m.rev)
      /\ UNCHANGED <<now, live, component, worker, logged, orphaned, fired, lost, faults>>
  BY <1>0 DEF ApplyRuleChange, ReminderInv, Holder, TypeOK
<1>2. m \in Changes /\ m.rule \in Rules /\ m.rev \in Nat /\ Revs(m.rule) \subseteq Nat
  BY <1>1, ChangeShape, RevsOf DEF Changes, ReminderInv
<1>3. CASE ~component
  <2>1. Ends(q) /\ UNCHANGED rows
    BY <1>3 DEF ApplyRuleChange
  <2> QED
    BY <1>1, <2>1, EndsStep
<1>4. CASE component
  <2> DEFINE X == [request[q] EXCEPT !.pc = "commit", !.fresh = TRUE]
  <2>1. rows' = [rows EXCEPT ![m.rule] = Replaced(m)]
        /\ request' = [request EXCEPT ![q] = X]
    BY <1>0, <1>4 DEF ApplyRuleChange
  <2>2. X \in RequestStates /\ X.pc = "commit" /\ X.fresh /\ X.msg = m
    BY <1>0, <1>1 DEF RequestStates
  <2>3. \A p \in Reqs : request'[p] = IF p = q THEN X ELSE request[p]
    BY <2>1 DEF ReminderInv, TypeOK
  <2> HIDE DEF X
  <2>4. /\ Replaced(m) \in [Index -> Rows \cup {NoRow}]
        /\ \E i \in Index : Replaced(m)[i] # NoRow
        /\ \A i \in Index : Replaced(m)[i] # NoRow => Replaced(m)[i].rev = m.rev /\ Replaced(m)[i].anchor = m.due
        /\ Replaced(m)[tombstoneOffsetIndex] # NoRow => Replaced(m)[tombstoneOffsetIndex].state = "cancelled"
    BY <1>2, ReplacedRows
  <2>5. TypeOK'
    BY <1>1, <2>1, <2>2, <2>4 DEF ReminderInv, TypeOK
  <2>6. \A r \in Rules : rows'[r] = IF r = m.rule THEN Replaced(m) ELSE rows[r]
    BY <2>1 DEF ReminderInv, TypeOK
  <2>7. \A w \in Workers : worker[w].pc \in Holding => worker[w].key[1] # m.rule
    BY <1>1, KeyShape DEF RuleFree, Locked, Holding, ReminderInv, HeldRows
  <2>8. \A k \in Keys : k[1] # m.rule => At(k)' = At(k)
    BY <2>6, KeyShape DEF At
  <2>9. HeldRows' /\ ListedDue'
    BY <1>1, <2>7, <2>8 DEF ReminderInv, HeldRows, ListedDue
  <2>10. RuleRows'
    BY <1>1, <1>4, <2>4, <2>6 DEF ReminderInv, RuleRows
  <2>11. \A p \in Reqs : p # q => request[p].pc \in {"idle", "lock"}
    BY <1>1 DEF ReminderInv, Holder
  <2>12. Holder'
    BY <1>1, <2>2, <2>3, <2>11 DEF ReminderInv, Holder
  <2>13. Revs(m.rule)' = {m.rev}
    <3>1. \A v : v \in Revs(m.rule)' <=> v = m.rev
      BY <1>2, <2>4, <2>6 DEF Revs
    <3> QED
      BY <3>1, SetExtensionality
  <2>14. \A r \in Rules : r # m.rule => Revs(r)' = Revs(r)
    BY <2>6 DEF Revs
  <2>15. ASSUME NEW o \in Occurrences, Spent(o)
         PROVE  Spent(o)'
    <3>1. o.key \in Keys /\ o.key[1] \in Rules /\ o.key[2] \in Index /\ o.rev \in Nat
      BY KeyShape DEF Occurrences
    <3>2. CASE o.key[1] = m.rule
      <4>1. ~ \E w \in Workers : worker[w].pc = "advance" /\ Fired(worker[w].row, worker[w].key) = o
        BY <3>2, <2>7, FiredShape DEF Holding
      <4>2. \E v \in Revs(o.key[1]) : v >= o.rev
        <5>1. CASE At(o.key) # NoRow /\ At(o.key).rev = o.rev
          BY <3>1, <5>1, RevsOf DEF ReminderInv, At
        <5>2. CASE \E v \in Revs(o.key[1]) : v > o.rev
          BY <1>2, <3>1, <3>2, <5>2
        <5> QED
          BY <1>4, <2>15, <4>1, <5>1, <5>2 DEF Spent
      <4>3. m.rev > o.rev
        BY <1>1, <1>2, <3>1, <3>2, <4>2
      <4> QED
        BY <2>13, <3>2, <4>3 DEF Spent
    <3>3. CASE o.key[1] # m.rule
      BY <1>1, <2>8, <2>14, <2>15, <3>1, <3>3 DEF Spent
    <3> QED
      BY <3>2, <3>3
  <2>16. FiredUnlessSpent'
    <3>1. \A o \in DOMAIN fired : o \in Occurrences
      BY DEF ReminderInv, TypeOK
    <3> QED
      BY <1>1, <2>15, <3>1 DEF ReminderInv, FiredUnlessSpent
  <2>17. \A r, x : x \in Applied(r)' <=> x \in Applied(r) \/ (r = m.rule /\ x = m)
    BY <1>1, <2>2, <2>3, AppliedOf, AppliedOfNext
  <2>18. RuleOfNewest'
    <3>1. ASSUME NEW r \in Rules, r # m.rule
          PROVE  (Applied(r)' = {} /\ (\A i \in Index : rows'[r][i] = NoRow)) \/ (\E x \in Applied(r)' : Newest(r, x)')
      <4>1. Applied(r)' = Applied(r)
        BY <2>17, <3>1, SetExtensionality
      <4>2. \A x : Shows(r, x) => Shows(r, x)'
        BY <2>6, <3>1 DEF Shows, Replaced, insertRow
      <4> QED
        BY <1>4, <2>6, <3>1, <4>1, <4>2 DEF ReminderInv, RuleOfNewest, Newest
    <3>2. Newest(m.rule, m)'
      <4>1. m \in Applied(m.rule)'
        BY <2>17
      <4>2. Shows(m.rule, m)'
        <5>1. Replaced(m)' = Replaced(m)
          BY DEF Replaced, insertRow
        <5> QED
          BY <1>2, <2>4, <2>6, <5>1 DEF Shows
      <4>3. ASSUME NEW x \in Applied(m.rule)
            PROVE  x.rev <= m.rev
        <5>1. PICK n \in Applied(m.rule) : Newest(m.rule, n)
          BY <1>2, <1>4 DEF ReminderInv, RuleOfNewest
        <5>2. n \in Changes /\ x \in Changes
          BY AppliedShape
        <5>3. \E i \in Index : rows[m.rule][i] # NoRow /\ rows[m.rule][i].rev = n.rev
          BY <5>1, <5>2, ReplacedRows DEF Newest, Shows
        <5>4. n.rev \in Revs(m.rule)
          BY <1>2, <5>3, RevsOf DEF ReminderInv
        <5>5. x.rev <= n.rev /\ n.rev < m.rev
          BY <1>1, <5>1, <5>4 DEF Newest
        <5> QED
          BY <1>2, <5>2, <5>5 DEF Changes
      <4>4. m.rev <= m.rev
        BY <1>2
      <4>5. \A x \in Applied(m.rule)' : x.rev <= m.rev
        BY <2>17, <4>3, <4>4
      <4> QED
        BY <4>1, <4>2, <4>5 DEF Newest
    <3> QED
      BY <3>1, <3>2 DEF RuleOfNewest, Newest
  <2> QED
    BY <2>5, <2>9, <2>10, <2>12, <2>16, <2>18 DEF ReminderInv
<1> QED
  BY <1>3, <1>4

\* The component goes, with every row; no scheduler held one.
LEMMA CascadeStep ==
  ASSUME ReminderInv, NEW q \in Reqs, deleteComponent(q)
  PROVE  ReminderInv'
<1>1. request[q].pc = "cascade" /\ (\A k \in Keys : At(k) # NoRow => ~Locked(k)) /\ component' = FALSE
      /\ rows' = [r \in Rules |-> NoRows] /\ request' = [request EXCEPT ![q] = IdleRequest]
      /\ UNCHANGED <<now, live, worker, logged, orphaned, fired, lost, faults>>
  BY DEF deleteComponent, Ends
<1>2. IdleRequest \in RequestStates /\ ~IdleRequest.fresh /\ IdleRequest.pc = "idle"
  BY DEF IdleRequest, RequestStates
<1>3. \A p \in Reqs : request'[p] = IF p = q THEN IdleRequest ELSE request[p]
  BY <1>1 DEF ReminderInv, TypeOK
<1>4. \A w \in Workers : worker[w].pc \notin Holding
  BY <1>1 DEF Locked, Holding, ReminderInv, HeldRows
<1>5. \A r \in Rules, i \in Index : rows'[r][i] = NoRow
  BY <1>1 DEF NoRows
<1>6. TypeOK'
  <2>1. rows' \in [Rules -> [Index -> Rows \cup {NoRow}]]
    BY <1>1 DEF NoRows
  <2> QED
    BY <1>1, <1>2, <2>1 DEF ReminderInv, TypeOK
<1>7. HeldRows' /\ ListedDue'
  BY <1>1, <1>4 DEF ReminderInv, HeldRows, ListedDue
<1>8. RuleRows'
  <2>1. tombstoneOffsetIndex \in Index
    BY ConstantsAssumption DEF Index, tombstoneOffsetIndex
  <2> QED
    BY <1>5, <2>1 DEF RuleRows
<1>9. \A p \in Reqs : p # q => request[p].pc \in {"idle", "lock"}
  BY <1>1 DEF ReminderInv, Holder
<1>10. Holder'
  BY <1>2, <1>3, <1>9 DEF ReminderInv, Holder
<1>11. FiredUnlessSpent'
  BY <1>1 DEF ReminderInv, FiredUnlessSpent, Spent
<1>12. RuleOfNewest'
  BY <1>1 DEF RuleOfNewest
<1> QED
  BY <1>6, <1>7, <1>8, <1>10, <1>11, <1>12 DEF ReminderInv

\* An event commits.  A change whose rows another one had already replaced
\* joins the changes that reached the rows, older than the newest of them.
LEMMA EventStep ==
  ASSUME ReminderInv, NEW q \in Reqs, EventCommits(q)
  PROVE  ReminderInv'
<1>0. PICK m : m = request[q].msg
  OBVIOUS
<1>1. request[q].pc = "commit" /\ m \in Messages /\ request' = [request EXCEPT ![q] = IdleRequest]
      /\ logged' = (IF m.op = "change" THEN logged \cup {m} ELSE logged)
      /\ live' \in BOOLEAN /\ faults' \in 0 .. MaxFaults
      /\ UNCHANGED <<now, rows, component, worker, orphaned, fired, lost>>
  BY <1>0 DEF EventCommits, Ends, ReminderInv, Holder, TypeOK
<1>2. \A p \in Reqs : request'[p] = IF p = q THEN IdleRequest ELSE request[p]
  BY <1>1 DEF ReminderInv, TypeOK
<1>3. logged' \subseteq Messages /\ orphaned' \subseteq Messages
  BY <1>1 DEF ReminderInv, TypeOK
<1>4. \A r, x : x \in Applied(r)' <=> x \in Applied(r) \/ (x = m /\ m.op = "change" /\ m.rule = r)
  BY <1>0, <1>1, <1>2, AppliedOf, AppliedOfNext DEF IdleRequest
<1>5. RuleOfNewest'
  <2>1. CASE m.op # "change" \/ request[q].fresh
    <3>1. \A r, x : x \in Applied(r)' <=> x \in Applied(r)
      BY <1>0, <1>4, <2>1, AppliedOf
    <3> QED
      BY <1>1, <3>1, SetExtensionality, SameChanges
  <2>2. CASE m.op = "change" /\ ~request[q].fresh
    <3>1. Stale(m) /\ m \in Changes
      BY <1>0, <1>1, <2>2, ChangeShape DEF ReminderInv, Holder
    <3>2. m.rule \in Rules /\ m.rev \in Nat
      BY <3>1 DEF Changes
    <3>3. PICK i \in Index : rows[m.rule][i] # NoRow /\ m.rev <= rows[m.rule][i].rev
      BY <3>1, <3>2, RevsOf DEF Stale, ReminderInv
    <3>4. SUFFICES ASSUME component, NEW r \in Rules
                   PROVE  (Applied(r)' = {} /\ (\A j \in Index : rows'[r][j] = NoRow)) \/ (\E x \in Applied(r)' : Newest(r, x)')
      BY <1>1 DEF RuleOfNewest, Newest
    <3>5. \A x : Shows(r, x)' <=> Shows(r, x)
      BY <1>1 DEF Shows, Replaced, insertRow
    <3>6. CASE r # m.rule
      <4>1. Applied(r)' = Applied(r)
        BY <1>4, <3>6, SetExtensionality
      <4> QED
        BY <1>1, <3>4, <3>5, <4>1 DEF ReminderInv, RuleOfNewest, Newest
    <3>7. CASE r = m.rule
      <4>1. PICK n \in Applied(r) : Newest(r, n)
        BY <3>3, <3>4, <3>7 DEF ReminderInv, RuleOfNewest
      <4>2. m.rev <= n.rev
        BY <3>3, <3>7, <4>1 DEF Newest, Shows
      <4>3. n \in Applied(r)' /\ \A x \in Applied(r)' : x.rev <= n.rev
        BY <1>4, <4>1, <4>2 DEF Newest
      <4> QED
        BY <3>5, <4>1, <4>3 DEF Newest
    <3> QED
      BY <3>6, <3>7
  <2> QED
    BY <2>1, <2>2
<1> QED
  BY <1>1, <1>3, <1>5, IdleFits, RequestMoves

\* A request fails: the rows it replaced stay replaced.
LEMMA RequestFailStep ==
  ASSUME ReminderInv, NEW q \in Reqs, RequestFails(q)
  PROVE  ReminderInv'
<1>0. PICK m : m = request[q].msg
  OBVIOUS
<1>1. request[q].pc # "idle" /\ m \in Messages /\ request' = [request EXCEPT ![q] = IdleRequest]
      /\ orphaned' = (IF request[q].fresh THEN orphaned \cup {m} ELSE orphaned)
      /\ faults' \in 0 .. MaxFaults
      /\ UNCHANGED <<now, rows, live, component, worker, logged, fired, lost>>
  BY <1>0, ConstantsAssumption DEF RequestFails, Ends, ReminderInv, Holder, TypeOK
<1>2. \A p \in Reqs : request'[p] = IF p = q THEN IdleRequest ELSE request[p]
  BY <1>1 DEF ReminderInv, TypeOK
<1>3. logged' \subseteq Messages /\ orphaned' \subseteq Messages /\ live' \in BOOLEAN
  BY <1>1 DEF ReminderInv, TypeOK
<1>4. \A r, x : x \in Applied(r)' <=> x \in Applied(r)
  BY <1>0, <1>1, <1>2, AppliedOf, AppliedOfNext DEF IdleRequest
<1>5. RuleOfNewest'
  BY <1>1, <1>4, SetExtensionality, SameChanges
<1> QED
  BY <1>1, <1>3, <1>5, IdleFits, RequestMoves

\* The application comes back, or time passes.
LEMMA ReviveStep ==
  ASSUME ReminderInv, Revive \/ UNCHANGED vars
  PROVE  ReminderInv'
<1>1. live' \in BOOLEAN /\ UNCHANGED <<now, rows, component, worker, request, logged, orphaned, fired, lost, faults>>
  BY DEF Revive, vars, ReminderInv, TypeOK
<1>2. TypeOK'
  BY <1>1 DEF ReminderInv, TypeOK
<1>3. HeldRows' /\ ListedDue' /\ RuleRows' /\ Holder'
  BY <1>1 DEF ReminderInv, HeldRows, ListedDue, RuleRows, Holder, Revs, Stale, At
<1>4. FiredUnlessSpent'
  BY <1>1 DEF ReminderInv, FiredUnlessSpent, Spent, Revs, At
<1>5. RuleOfNewest'
  BY <1>1 DEF ReminderInv, RuleOfNewest, Newest, Shows, Applied
<1> QED
  BY <1>2, <1>3, <1>4, <1>5 DEF ReminderInv

\* What was due stays due.
LEMMA TickStep ==
  ASSUME ReminderInv, Tick
  PROVE  ReminderInv'
<1>1. now \in Nat /\ now' = now + 1 /\ now' \in 0 .. MaxClock
      /\ UNCHANGED <<rows, live, component, worker, request, logged, orphaned, fired, lost, faults>>
  BY ConstantsAssumption DEF Tick, ReminderInv, TypeOK
<1>2. TypeOK'
  BY <1>1 DEF ReminderInv, TypeOK
<1>3. ListedDue'
  <2>1. \A w \in Workers : worker[w].seen \in Int /\ \A e \in worker[w].todo : e.fire \in Int
    BY DEF ReminderInv, TypeOK, WorkerStates
  <2> QED
    BY <1>1, <2>1 DEF ReminderInv, ListedDue
<1>4. HeldRows' /\ RuleRows' /\ Holder'
  BY <1>1 DEF ReminderInv, HeldRows, RuleRows, Holder, Revs, Stale, At
<1>5. FiredUnlessSpent'
  BY <1>1 DEF ReminderInv, FiredUnlessSpent, Spent, Revs, At
<1>6. RuleOfNewest'
  BY <1>1 DEF ReminderInv, RuleOfNewest, Newest, Shows, Applied
<1> QED
  BY <1>2, <1>3, <1>4, <1>5, <1>6 DEF ReminderInv

\* At the start there is no row, no worker has a batch and nothing was fired.
LEMMA ReminderInit ==
  ASSUME Init
  PROVE  ReminderInv
<1>1. IdleRequest \in RequestStates /\ ~IdleRequest.fresh /\ IdleRequest.pc = "idle"
  BY DEF IdleRequest, RequestStates
<1>2. IdleWorker.pc = "idle" /\ IdleWorker.todo = {}
  BY DEF IdleWorker
<1>3. DOMAIN Nothing = {} /\ Nothing \in [DOMAIN Nothing -> Nat]
  BY DEF Nothing
<1>4. TypeOK
  <2>1. rows \in [Rules -> [Index -> Rows \cup {NoRow}]]
    BY DEF Init, NoRows
  <2> QED
    BY <1>1, <1>3, <2>1, IdleShape, ConstantsAssumption DEF Init, TypeOK
<1>5. HeldRows /\ ListedDue
  BY <1>2 DEF Init, HeldRows, ListedDue, Holding
<1>6. RuleRows
  <2>1. tombstoneOffsetIndex \in Index
    BY ConstantsAssumption DEF Index, tombstoneOffsetIndex
  <2> QED
    BY <2>1 DEF Init, NoRows, RuleRows
<1>7. Holder
  BY <1>1 DEF Init, Holder
<1>8. FiredUnlessSpent
  BY <1>3 DEF Init, FiredUnlessSpent
<1>9. RuleOfNewest
  <2>1. \A r, m : m \notin Applied(r)
    BY <1>1, AppliedOf DEF Init
  <2>2. \A r \in Rules : Applied(r) = {}
    BY <2>1
  <2> QED
    BY <2>2 DEF Init, NoRows, RuleOfNewest
<1> QED
  BY <1>4, <1>5, <1>6, <1>7, <1>8, <1>9 DEF ReminderInv

\* Every step keeps it.
LEMMA ReminderStep ==
  ASSUME ReminderInv, [Next]_vars
  PROVE  ReminderInv'
<1>1. ASSUME NEW w \in Workers, Work(w) \/ WorkerFails(w)
      PROVE  ReminderInv'
  BY <1>1, ListStep, LockStep, CheckStep, FireStep, FireTimeoutStep, CommitStep, AdvanceStep, FailStep DEF Work
<1>2. ASSUME NEW q \in Reqs, Submit(q) \/ Serve(q) \/ RequestFails(q)
      PROVE  ReminderInv'
  BY <1>2, SubmitStep, PersistStep, TimeoutStep, ReadStep, ApplyStep, EventStep, CascadeStep, RequestFailStep DEF Serve
<1> QED
  BY <1>1, <1>2, ReviveStep, TickStep DEF Next

\* ReminderInv holds in every state.
THEOREM ReminderInvHolds == Spec => []ReminderInv
<1> QED
  BY ReminderInit, ReminderStep, PTL DEF Spec

-----------------------------------------------------------------------------
(* What follows from it. *)

\* The scheduler, the rule changes and their records only ever have the states
\* the code can produce.
THEOREM ReminderTypes == Spec => []TypeOK
<1>1. ReminderInv => TypeOK
  BY DEF ReminderInv
<1> QED
  BY <1>1, ReminderInvHolds, PTL

\* An occurrence fires once, and once more for each time the transaction that
\* should have advanced its row was lost after the event had committed.
THEOREM FiredOnce == Spec => []FiredOncePerLoss
<1>1. ReminderInv => FiredOncePerLoss
  <2> SUFFICES ASSUME ReminderInv, NEW o \in DOMAIN fired
               PROVE  Times(o, fired) <= 1 + Times(o, lost)
    BY DEF FiredOncePerLoss
  <2>1. Times(o, fired) \in Nat /\ Times(o, lost) \in Nat
    BY DEF ReminderInv, TypeOK, Times
  <2> QED
    BY <2>1 DEF ReminderInv, FiredUnlessSpent
<1> QED
  BY <1>1, ReminderInvHolds, PTL

\* The rows of a rule are those of the change with the highest revision, in
\* whatever order and however often changes arrive.
THEOREM NewestRuleStays == Spec => []NewestRuleWins
<1>1. ReminderInv => NewestRuleWins
  BY DEF ReminderInv, RuleOfNewest, Newest, Shows, NewestRuleWins
<1> QED
  BY <1>1, ReminderInvHolds, PTL

\* A row fired before its time had another time when it was listed.
THEOREM EarlyFiringsExplained == Spec => []EarlyOnlyIfRescheduled
<1>1. ReminderInv => EarlyOnlyIfRescheduled
  <2> SUFFICES ASSUME ReminderInv, NEW w \in Workers, worker[w].pc \in {"produce", "commit"}, worker[w].row.fire > now
               PROVE  worker[w].row.fire # worker[w].seen
    BY DEF EarlyOnlyIfRescheduled
  <2>1. worker[w].seen <= now /\ worker[w].seen \in Int /\ now \in Int
    BY ConstantsAssumption DEF ReminderInv, ListedDue, TypeOK, WorkerStates, Holding
  <2> QED
    BY <2>1
<1> QED
  BY <1>1, ReminderInvHolds, PTL

\* A reminder_fired event commits only for what its row says at that moment.
THEOREM FiringsFollowTheRule == Spec => FiresTheRule
<1> DEFINE Follows ==
      \A o \in DOMAIN fired' :
        Times(o, fired') > Times(o, fired) =>
          LET row == At(o.key)
          IN  row # NoRow /\ row.state = "pending" /\ row.rev = o.rev /\ row.due = o.due
<1>1. ASSUME ReminderInv, [Next]_vars
      PROVE  Follows
  <2>0. \A o : Times(o, fired) \in Nat
    <3>1. fired \in [DOMAIN fired -> Nat]
      BY <1>1 DEF ReminderInv, TypeOK
    <3> QED
      BY <3>1, CountedOnce
  <2>1. CASE fired' = fired
    BY <2>0, <2>1
  <2>2. ASSUME NEW w \in Workers, ProduceCommits(w)
        PROVE  Follows
    <3>1. worker[w].pc \in Holding
      BY <2>2 DEF ProduceCommits, Holding
    <3>2. PICK f : f = Fired(worker[w].row, worker[w].key)
      OBVIOUS
    <3>3. \A o : o # f => Times(o, fired') = Times(o, fired)
      BY <1>1, <2>2, <3>2, CountedOnce DEF ProduceCommits, ReminderInv, TypeOK
    <3>4. LET row == At(f.key) IN row # NoRow /\ row.state = "pending" /\ row.rev = f.rev /\ row.due = f.due
      BY <1>1, <3>1, <3>2, FiredShape DEF ReminderInv, HeldRows
    <3> QED
      BY <2>0, <3>3, <3>4
  <2>3. fired' = fired \/ \E w \in Workers : ProduceCommits(w)
    BY <1>1 DEF Next, vars, Work, Serve, WorkerFails, selectDueRowKeys, lockRow, processRow, fire, fireTimesOut, advance,
                Submit, persistAndApply, RequestTimesOut, readRev, ApplyRuleChange, EventCommits, deleteComponent,
                RequestFails, Revive, Tick
  <2> QED
    BY <2>1, <2>2, <2>3
<1>2. ReminderInv /\ [Next]_vars => [Follows]_vars
  BY <1>1
<1> QED
  BY <1>2, ReminderInvHolds, PTL DEF Spec, FiresTheRule

-----------------------------------------------------------------------------
(* The inductive invariant of Push. *)

\* A snapshot has a subscription once, with an endpoint its browser had.
SnapshotFits(todo) ==
  /\ \A x, y \in todo : x.s = y.s => x = y
  /\ \A x \in todo : x.endpoint <= browser[x.s]

\* The subscription an answer 404 or 410 is about; its browser has moved on.
LeftBehind(x) == x # NoSub /\ x.endpoint < browser[x.s]

FanFits(f) ==
  /\ f \in Fans
  /\ f.pc \in {"new", "read", "done"} => f.todo = {}
  /\ SnapshotFits(f.todo)
  /\ f.pc = "gone" => LeftBehind(f.at)

DigestFits(g) ==
  /\ g \in Digests
  /\ g.clock <= hour
  /\ g.pc = "claim" => g.user \in Users
  /\ g.pc \in {"idle", "users", "claim"} => g.rows = {}
  /\ SnapshotFits(g.todo)
  /\ g.pc = "gone" => LeftBehind(g.at)

PatchFits(p) == p.pc = "write" => p.s \in Subs /\ p.endpoint <= browser[p.s]

\* Whether the fan-out of e, or the digest of d, may still tell s of e.
OfFan(e, s) == fan[e].pc \in {"new", "read"} \/ \E x \in fan[e].todo : x.s = s
OfDigest(d, e, s) == (\E x \in digest[d].todo : x.s = s) /\ \E r \in digest[d].rows : r.s = s /\ e \in r.events

\* The right to tell s of e is in one place: with the fan-out, with what is
\* counted, with one digest, or used up.
OneRight ==
  \A e \in Events, s \in Subs :
    /\ told[<<e, s>>] <= 1
    /\ OfFan(e, s) => told[<<e, s>>] = 0 /\ e \notin pending[s].events /\ \A d \in Schedulers : ~OfDigest(d, e, s)
    /\ e \in pending[s].events => told[<<e, s>>] = 0 /\ \A d \in Schedulers : ~OfDigest(d, e, s)
    /\ \A d \in Schedulers : OfDigest(d, e, s) =>
         told[<<e, s>>] = 0 /\ \A c \in Schedulers : OfDigest(c, e, s) => c = d

\* A claimed due time is not after digest_sent_at.
ClaimsSent ==
  /\ \A u \in Users : sentAt[u] <= hour
  /\ \A u \in Users, t \in Hours : claims[<<u, t>>] <= 1 /\ (claims[<<u, t>>] > 0 => t <= sentAt[u])

\* The table, and a PATCH under way, have endpoints the browser had.
EndpointsKnown ==
  /\ \A s \in Subs : Stored(s) => subs[s].endpoint <= browser[s]
  /\ \A c \in Patches : PatchFits(patch[c])

PushInv ==
  /\ PushTypeOK
  /\ \A e \in Events : FanFits(fan[e])
  /\ \A d \in Schedulers : DigestFits(digest[d])
  /\ OneRight /\ ClaimsSent /\ EndpointsKnown

-----------------------------------------------------------------------------
(* The operators. *)

\* The due time of a digest is not in the future.
LEMMA DueBefore ==
  ASSUME NEW t \in Hours
  PROVE  lastDigestAt(t) \in Hours /\ lastDigestAt(t) <= t
<1> DEFINE midnight == t - (t % Day)
<1>1. Day \in Nat /\ digestHour \in Nat /\ digestHour < Day /\ MaxHour \in Nat /\ t \in Nat /\ t <= MaxHour
  BY PushAssumption DEF Configured, Hours
<1>2. t % Day \in Nat /\ t % Day <= t /\ t % Day < Day
  BY <1>1
<1>3. midnight \in Nat /\ midnight <= t
  BY <1>1, <1>2
<1> HIDE DEF midnight
<1>4. lastDigestAt(t) = IF midnight + digestHour <= t THEN midnight + digestHour
                        ELSE IF midnight < Day THEN 0 ELSE midnight - Day + digestHour
  BY DEF lastDigestAt, midnight
<1>5. lastDigestAt(t) \in Nat /\ lastDigestAt(t) <= t
  BY <1>1, <1>3, <1>4
<1> QED
  BY <1>1, <1>5 DEF Hours

\* A stored subscription is a row.
LEMMA StoredRow ==
  ASSUME PushInv, NEW s \in Subs
  PROVE  /\ Stored(s) <=> subs[s] \in SubscriptionRows
         /\ Stored(s) => subs[s].endpoint \in Nat /\ subs[s].muted \in BOOLEAN
BY PushAssumption DEF PushInv, PushTypeOK, Configured, Stored, SubscriptionRows

\* What is read of the subscriptions is a snapshot.
LEMMA SnapshotRead ==
  ASSUME PushInv, NEW us
  PROVE  GetSubscriptionsForUsers(us) \in SUBSET Snapshots /\ SnapshotFits(GetSubscriptionsForUsers(us))
<1> DEFINE snap(s) == [s |-> s, mode |-> mode[UserOf[s]], seen |-> seenAt[UserOf[s]],
                       muted |-> subs[s].muted, endpoint |-> subs[s].endpoint]
           G == {snap(s) : s \in {s \in Subs : Stored(s) /\ UserOf[s] \in us}}
<1>1. ASSUME NEW s \in Subs, Stored(s)
      PROVE  snap(s) \in Snapshots /\ snap(s).endpoint <= browser[snap(s).s] /\ snap(s).s = s
  <2>1. UserOf[s] \in Users
    BY PushAssumption DEF PushInv, Configured
  <2>2. mode[UserOf[s]] \in Modes /\ seenAt[UserOf[s]] \in Nat
    BY <2>1 DEF PushInv, PushTypeOK, Hours
  <2>3. subs[s].endpoint <= browser[s]
    BY <1>1 DEF PushInv, EndpointsKnown
  <2> QED
    BY <1>1, <2>2, <2>3, StoredRow DEF Snapshots
<1>2. GetSubscriptionsForUsers(us) = G
  BY DEF GetSubscriptionsForUsers
<1>3. \A x \in G : \E s \in Subs : Stored(s) /\ x = snap(s)
  OBVIOUS
<1>4. \A x \in G : x \in Snapshots /\ x.endpoint <= browser[x.s] /\ x = snap(x.s)
  BY <1>1, <1>3
<1> QED
  BY <1>2, <1>4 DEF SnapshotFits

\* A part of a snapshot is one.
LEMMA SnapshotPart ==
  ASSUME NEW S, SnapshotFits(S), NEW T \in SUBSET S
  PROVE  SnapshotFits(T)
BY DEF SnapshotFits

\* Where a fan-out goes on from f.
LEMMA EmptiedFits ==
  ASSUME NEW f \in Fans, SnapshotFits(f.todo)
  PROVE  FanFits(Emptied(f)) /\ Emptied(f).todo = f.todo /\ Emptied(f).pc \in {"each", "done"}
<1> DEFINE X == Emptied(f)
<1>1. X \in Fans /\ X.todo = f.todo /\ X.pc = IF f.todo = {} THEN "done" ELSE "each"
  BY DEF Emptied, Fans
<1> HIDE DEF X
<1>2. FanFits(X)
  BY <1>1 DEF FanFits
<1> QED
  BY <1>1, <1>2 DEF X

\* Where a digest goes on from g.
LEMMA NextUserFits ==
  ASSUME NEW g \in Digests, g.clock <= hour, hour \in Hours
  PROVE  DigestFits(NextUser(g)) /\ NextUser(g).todo = {} /\ NextUser(g).rows = {}
<1>0. 0 \in Hours /\ 0 <= hour
  BY PushAssumption DEF Configured, Hours
<1>1. IdleDigest \in Digests /\ IdleDigest.clock = 0 /\ IdleDigest.pc = "idle" /\ IdleDigest.todo = {} /\ IdleDigest.rows = {}
  BY <1>0 DEF IdleDigest, Digests
<1> DEFINE X == [IdleDigest EXCEPT !.pc = "users", !.clock = g.clock, !.users = g.users]
<1>2. X \in Digests /\ X.clock = g.clock /\ X.pc = "users" /\ X.todo = {} /\ X.rows = {}
  BY <1>1 DEF Digests, IdleDigest
<1> HIDE DEF X
<1>3. SnapshotFits({})
  BY DEF SnapshotFits
<1>4. DigestFits(X) /\ DigestFits(IdleDigest)
  BY <1>0, <1>1, <1>2, <1>3 DEF DigestFits
<1>5. NextUser(g) = IdleDigest \/ NextUser(g) = X
  BY DEF NextUser, X
<1> QED
  BY <1>1, <1>2, <1>4, <1>5

\* The same when there may be subscriptions left.
LEMMA SentFits ==
  ASSUME NEW g \in Digests, g.clock <= hour, SnapshotFits(g.todo), hour \in Hours
  PROVE  /\ DigestFits(Sent(g))
         /\ Sent(g).todo = g.todo
         /\ Sent(g).rows = g.rows \/ Sent(g).rows = {}
<1>1. CASE g.todo = {}
  BY <1>1, NextUserFits DEF Sent
<1>2. CASE g.todo # {}
  <2> DEFINE X == [g EXCEPT !.pc = "each", !.at = NoSub]
  <2>1. X \in Digests /\ X.pc = "each" /\ X.clock = g.clock /\ X.todo = g.todo /\ X.rows = g.rows
    BY DEF Digests
  <2>2. Sent(g) = X
    BY <1>2 DEF Sent
  <2> HIDE DEF X
  <2>3. DigestFits(X)
    BY <2>1 DEF DigestFits
  <2> QED
    BY <2>1, <2>2, <2>3
<1> QED
  BY <1>1, <1>2

-----------------------------------------------------------------------------
(* Steps in which nobody is told anything. *)

\* Nobody is told, and no place gets a right it had not.
Fewer ==
  /\ told' = told
  /\ \A s \in Subs : pending'[s].events \subseteq pending[s].events
  /\ \A e \in Events, s \in Subs :
       /\ OfFan(e, s)' => OfFan(e, s)
       /\ \A d \in Schedulers : OfDigest(d, e, s)' => OfDigest(d, e, s)

\* Then every right is still in one place.
LEMMA FewerRights ==
  ASSUME OneRight, Fewer
  PROVE  OneRight'
<1> SUFFICES ASSUME NEW e \in Events, NEW s \in Subs
             PROVE  /\ told'[<<e, s>>] <= 1
                    /\ OfFan(e, s)' => /\ told'[<<e, s>>] = 0 /\ e \notin pending'[s].events
                                      /\ \A d \in Schedulers : ~OfDigest(d, e, s)'
                    /\ e \in pending'[s].events => told'[<<e, s>>] = 0 /\ \A d \in Schedulers : ~OfDigest(d, e, s)'
                    /\ \A d \in Schedulers : OfDigest(d, e, s)' =>
                         told'[<<e, s>>] = 0 /\ \A c \in Schedulers : OfDigest(c, e, s)' => c = d
  BY DEF OneRight
<1>1. told' = told /\ pending'[s].events \subseteq pending[s].events
      /\ (OfFan(e, s)' => OfFan(e, s)) /\ \A d \in Schedulers : OfDigest(d, e, s)' => OfDigest(d, e, s)
  BY DEF Fewer
<1>2. /\ told[<<e, s>>] <= 1
      /\ OfFan(e, s) => told[<<e, s>>] = 0 /\ e \notin pending[s].events /\ \A d \in Schedulers : ~OfDigest(d, e, s)
      /\ e \in pending[s].events => told[<<e, s>>] = 0 /\ \A d \in Schedulers : ~OfDigest(d, e, s)
      /\ \A d \in Schedulers : OfDigest(d, e, s) =>
           told[<<e, s>>] = 0 /\ \A c \in Schedulers : OfDigest(c, e, s) => c = d
  BY DEF OneRight
<1> QED
  BY <1>1, <1>2

\* The fan-outs and the digests stay.
LEMMA SameWorkers ==
  ASSUME UNCHANGED <<fan, digest, told>>, \A s \in Subs : pending'[s].events \subseteq pending[s].events
  PROVE  Fewer
BY DEF Fewer, OfFan, OfDigest

\* What fits goes on fitting while browsers only move on and time passes.
LEMMA StillFits ==
  ASSUME PushTypeOK, \A s \in Subs : browser'[s] \in Nat /\ browser[s] <= browser'[s],
         hour' \in Nat, hour <= hour'
  PROVE  /\ \A f : FanFits(f) => FanFits(f)'
         /\ \A g : DigestFits(g) => DigestFits(g)'
         /\ \A p \in Patchings : PatchFits(p) => PatchFits(p)'
         /\ \A S : S \in SUBSET Snapshots /\ SnapshotFits(S) => SnapshotFits(S)'
<1>0. hour \in Nat /\ \A s \in Subs : browser[s] \in Nat
  BY DEF PushTypeOK, Hours
<1>1. ASSUME NEW S \in SUBSET Snapshots, SnapshotFits(S)
      PROVE  SnapshotFits(S)'
  BY <1>0, <1>1 DEF SnapshotFits, Snapshots
<1>2. ASSUME NEW x \in Snapshots \cup {NoSub}, LeftBehind(x)
      PROVE  LeftBehind(x)'
  BY <1>0, <1>2 DEF LeftBehind, Snapshots
<1>3. ASSUME NEW f, FanFits(f)
      PROVE  FanFits(f)'
  BY <1>1, <1>2, <1>3 DEF FanFits, Fans
<1>4. ASSUME NEW g, DigestFits(g)
      PROVE  DigestFits(g)'
  <2>1. g.clock \in Nat
    BY <1>4 DEF DigestFits, Digests, Hours
  <2>2. g.clock <= hour'
    BY <1>0, <1>4, <2>1 DEF DigestFits
  <2> QED
    BY <1>1, <1>2, <1>4, <2>2 DEF DigestFits, Digests
<1>5. ASSUME NEW p \in Patchings, PatchFits(p)
      PROVE  PatchFits(p)'
  BY <1>0, <1>5 DEF PatchFits, Patchings
<1> QED
  BY <1>1, <1>3, <1>4, <1>5

\* Steps of a client, and of time: the workers stay.
LEMMA ClientMoves ==
  ASSUME PushInv, PushTypeOK', UNCHANGED <<fan, digest, told, claims>>,
         \A s \in Subs : browser[s] <= browser'[s], hour <= hour',
         \A s \in Subs : pending'[s].events \subseteq pending[s].events,
         \A u \in Users : sentAt[u] <= sentAt'[u] /\ sentAt'[u] <= hour',
         \A s \in Subs : Stored(s)' => subs'[s].endpoint <= browser'[s],
         \A c \in Patches : PatchFits(patch[c])'
  PROVE  PushInv'
<1>1. PushTypeOK
  BY DEF PushInv
<1>2. \A s \in Subs : browser'[s] \in Nat
  BY DEF PushTypeOK
<1>3. hour' \in Nat
  BY DEF PushTypeOK, Hours
<1>4. (\A e \in Events : FanFits(fan[e])') /\ (\A d \in Schedulers : DigestFits(digest[d])')
  <2>1. (\A e \in Events : FanFits(fan[e])) /\ (\A d \in Schedulers : DigestFits(digest[d]))
    BY DEF PushInv
  <2>2. ASSUME NEW e \in Events
        PROVE  FanFits(fan[e])'
    <3>1. PICK f : f = fan[e]
      OBVIOUS
    <3>2. FanFits(f)'
      BY <1>1, <1>2, <1>3, <2>1, <3>1, StillFits
    <3>3. fan'[e] = f
      BY <3>1
    <3> QED
      BY <3>2, <3>3 DEF FanFits
  <2>3. ASSUME NEW d \in Schedulers
        PROVE  DigestFits(digest[d])'
    <3>1. PICK g : g = digest[d]
      OBVIOUS
    <3>2. DigestFits(g)'
      BY <1>1, <1>2, <1>3, <2>1, <3>1, StillFits
    <3>3. digest'[d] = g
      BY <3>1
    <3> QED
      BY <3>2, <3>3 DEF DigestFits
  <2> QED
    BY <2>2, <2>3
<1>5. OneRight'
  BY SameWorkers, FewerRights DEF PushInv
<1>6. ClaimsSent'
  <2>1. \A u \in Users : sentAt[u] \in Nat /\ sentAt'[u] \in Nat
    BY <1>1 DEF PushTypeOK, Hours
  <2> QED
    BY <2>1 DEF PushInv, ClaimsSent, Hours
<1>7. EndpointsKnown'
  BY DEF EndpointsKnown
<1> QED
  BY <1>1, <1>4, <1>5, <1>6, <1>7, PushAssumption DEF PushInv, Configured

\* The patches stay and the browsers only move on.
LEMMA PatchesStay ==
  ASSUME PushInv, UNCHANGED patch, PushTypeOK', \A s \in Subs : browser[s] <= browser'[s]
  PROVE  \A c \in Patches : PatchFits(patch[c])'
<1>1. \A s \in Subs : browser[s] \in Nat /\ browser'[s] \in Nat
  BY DEF PushInv, PushTypeOK
<1> QED
  BY <1>1 DEF PushInv, EndpointsKnown, PatchFits, PushTypeOK, Patchings

\* Nothing of the past gets ahead of hour.
LEMMA PastStays ==
  ASSUME PushInv
  PROVE  /\ hour \in Nat /\ hour <= hour
         /\ \A u \in Users : sentAt[u] <= sentAt[u] /\ sentAt[u] <= hour /\ sentAt[u] \in Nat
         /\ \A s \in Subs : browser[s] <= browser[s] /\ browser[s] \in Nat
BY DEF PushInv, PushTypeOK, ClaimsSent, Hours

\* A registration stores an endpoint the browser had.
LEMMA CreateStep ==
  ASSUME PushInv, NEW s \in Subs, NEW muted \in BOOLEAN, CreateSubscription(s, muted)
  PROVE  PushInv'
<1>0. PICK sent \in 0 .. browser[s] : subs' = [subs EXCEPT ![s] = [endpoint |-> sent, muted |-> muted]]
  BY DEF CreateSubscription
<1>1. /\ changes' \in 0 .. MaxChanges
      /\ UNCHANGED <<hour, accounts, pending, browser, fan, digest, patch, history>>
  BY PushAssumption DEF CreateSubscription, Requested, PushInv, PushTypeOK, Configured
<1>2. [endpoint |-> sent, muted |-> muted] \in SubscriptionRows /\ sent <= browser[s]
  BY PastStays DEF SubscriptionRows
<1>3. PushTypeOK'
  BY <1>0, <1>1, <1>2 DEF PushInv, PushTypeOK, accounts, history
<1>4. \A x \in Subs : Stored(x)' => subs'[x].endpoint <= browser'[x]
  <2>1. \A x \in Subs : subs'[x] = IF x = s THEN [endpoint |-> sent, muted |-> muted] ELSE subs[x]
    BY <1>0 DEF PushInv, PushTypeOK
  <2>2. \A x \in Subs : x # s /\ Stored(x)' => Stored(x)
    BY <2>1 DEF Stored
  <2> QED
    BY <1>1, <1>2, <2>1, <2>2 DEF PushInv, EndpointsKnown
<1>5. \A c \in Patches : PatchFits(patch[c])'
  BY <1>1, <1>3, PastStays, PatchesStay
<1> QED
  BY <1>1, <1>3, <1>4, <1>5, PastStays, ClientMoves DEF accounts, history

\* A PATCH reads the row: the endpoint it will write is that of the row or one
\* its client had.
LEMMA ReadPatchStep ==
  ASSUME PushInv, NEW c \in Patches, ReadForUpdate(c)
  PROVE  PushInv'
<1>1. PICK s \in Subs, muted \in BOOLEAN : \E sent \in 0 .. browser[s] :
        patch' = [patch EXCEPT ![c] = [pc |-> "write", s |-> s, muted |-> muted, endpoint |-> sent]]
  BY DEF ReadForUpdate
<1>2. changes' \in 0 .. MaxChanges /\ UNCHANGED <<hour, accounts, subs, pending, browser, fan, digest, history>>
  BY PushAssumption DEF ReadForUpdate, Requested, PushInv, PushTypeOK, Configured
<1>3. PICK sent \in 0 .. browser[s] :
        patch' = [patch EXCEPT ![c] = [pc |-> "write", s |-> s, muted |-> muted, endpoint |-> sent]]
  BY <1>1
<1> DEFINE X == [pc |-> "write", s |-> s, muted |-> muted, endpoint |-> sent]
<1>4. X \in Patchings /\ X.s = s /\ X.endpoint <= browser[s]
  BY PastStays DEF Patchings
<1> HIDE DEF X
<1>5. PushTypeOK'
  BY <1>2, <1>3, <1>4 DEF PushInv, PushTypeOK, accounts, history, X
<1>6. \A p \in Patches : PatchFits(patch[p])'
  <2>1. \A p \in Patches : patch'[p] = IF p = c THEN X ELSE patch[p]
    BY <1>3 DEF PushInv, PushTypeOK, X
  <2> QED
    BY <1>2, <1>4, <2>1 DEF PushInv, EndpointsKnown, PatchFits
<1>7. \A x \in Subs : Stored(x)' => subs'[x].endpoint <= browser'[x]
  BY <1>2 DEF PushInv, EndpointsKnown, Stored
<1> QED
  BY <1>2, <1>5, <1>6, <1>7, PastStays, ClientMoves DEF accounts, history

\* The row is written whole.
LEMMA WritePatchStep ==
  ASSUME PushInv, NEW c \in Patches, UpdateSubscription(c)
  PROVE  PushInv'
<1>0. PICK p : p = patch[c]
  OBVIOUS
<1>1. p.pc = "write" /\ p \in Patchings /\ p.s \in Subs /\ p.endpoint <= browser[p.s]
      /\ subs' = (IF Stored(p.s) THEN [subs EXCEPT ![p.s] = [endpoint |-> p.endpoint, muted |-> p.muted]] ELSE subs)
      /\ patch' = [patch EXCEPT ![c] = IdlePatch]
      /\ UNCHANGED <<changes, hour, accounts, pending, browser, fan, digest, history>>
  BY <1>0 DEF UpdateSubscription, PushInv, PushTypeOK, EndpointsKnown, PatchFits
<1>2. [endpoint |-> p.endpoint, muted |-> p.muted] \in SubscriptionRows
  BY <1>1 DEF SubscriptionRows, Patchings
<1>3. IdlePatch \in Patchings /\ IdlePatch.pc = "idle"
  BY DEF IdlePatch, Patchings
<1>4. PushTypeOK'
  BY <1>1, <1>2, <1>3 DEF PushInv, PushTypeOK, accounts, history
<1>5. \A x \in Patches : PatchFits(patch[x])'
  <2>1. \A x \in Patches : patch'[x] = IF x = c THEN IdlePatch ELSE patch[x]
    BY <1>1 DEF PushInv, PushTypeOK
  <2> QED
    BY <1>1, <1>3, <2>1 DEF PushInv, EndpointsKnown, PatchFits
<1>6. \A x \in Subs : Stored(x)' => subs'[x].endpoint <= browser'[x]
  <2>1. \A x \in Subs : \/ subs'[x] = subs[x]
                        \/ x = p.s /\ subs'[x] = [endpoint |-> p.endpoint, muted |-> p.muted]
    BY <1>1 DEF PushInv, PushTypeOK
  <2>2. \A x \in Subs : subs'[x] = subs[x] /\ Stored(x)' => Stored(x)
    BY DEF Stored
  <2> QED
    BY <1>1, <2>1, <2>2 DEF PushInv, EndpointsKnown
<1> QED
  BY <1>1, <1>4, <1>5, <1>6, PastStays, ClientMoves DEF accounts, history

\* A removed row, or none: nothing is counted for a subscription that had not
\* been before, and what is stored has an endpoint of its browser.
LEMMA Removed ==
  ASSUME PushInv, NEW s \in Subs, Remove(s), UNCHANGED browser
  PROVE  /\ subs' \in [Subs -> SubscriptionRows \cup {NoSub, Gone}]
         /\ pending' \in [Subs -> [events: SUBSET Events, last: Hours]]
         /\ \A x \in Subs : pending'[x].events \subseteq pending[x].events
         /\ \A x \in Subs : Stored(x)' => subs'[x].endpoint <= browser'[x]
<1>1. NoneCounted \in [events: SUBSET Events, last: Hours] /\ NoneCounted.events = {}
  BY PushAssumption DEF NoneCounted, Hours, PushInv, Configured
<1>2. \A x \in Subs : subs'[x] = IF x = s THEN Gone ELSE subs[x]
  BY DEF Remove, PushInv, PushTypeOK
<1>3. \A x \in Subs : Stored(x)' => Stored(x) /\ subs'[x] = subs[x]
  BY <1>2 DEF Stored
<1> QED
  BY <1>1, <1>3 DEF Remove, PushInv, PushTypeOK, EndpointsKnown

\* A client removes its subscription.
LEMMA DeleteStep ==
  ASSUME PushInv, NEW s \in Subs, DeleteSubscription(s)
  PROVE  PushInv'
<1>1. Remove(s) /\ changes' \in 0 .. MaxChanges /\ UNCHANGED <<hour, accounts, browser, fan, digest, patch, history>>
  BY PushAssumption DEF DeleteSubscription, Requested, PushInv, PushTypeOK, Configured
<1>2. PushTypeOK'
  BY <1>1, Removed DEF PushInv, PushTypeOK, accounts, history
<1>3. \A c \in Patches : PatchFits(patch[c])'
  BY <1>1, <1>2, PastStays, PatchesStay
<1> QED
  BY <1>1, <1>2, <1>3, Removed, PastStays, ClientMoves DEF accounts, history

\* A browser gets a new endpoint.
LEMMA RotateStep ==
  ASSUME PushInv, NEW s \in Subs, Rotate(s)
  PROVE  PushInv'
<1>1. changes' \in 0 .. MaxChanges /\ browser' = [browser EXCEPT ![s] = @ + 1]
      /\ UNCHANGED <<hour, accounts, subs, pending, fan, digest, patch, history>>
  BY PushAssumption DEF Rotate, Requested, PushInv, PushTypeOK, Configured
<1>2. \A x \in Subs : browser'[x] \in Nat /\ browser[x] <= browser'[x]
  BY <1>1, PastStays DEF PushInv, PushTypeOK
<1>3. PushTypeOK'
  BY <1>1, <1>2 DEF PushInv, PushTypeOK, accounts, history
<1>4. \A c \in Patches : PatchFits(patch[c])'
  BY <1>1, <1>2, <1>3, PatchesStay
<1>5. ASSUME NEW x \in Subs, Stored(x)'
      PROVE  subs'[x].endpoint <= browser'[x]
  <2>1. Stored(x) /\ subs'[x] = subs[x]
    BY <1>1, <1>5 DEF Stored
  <2>2. subs[x].endpoint \in Nat /\ subs[x].endpoint <= browser[x] /\ browser[x] \in Nat
    BY <2>1, StoredRow, PastStays DEF PushInv, EndpointsKnown
  <2> QED
    BY <1>2, <2>1, <2>2
<1> QED
  BY <1>1, <1>2, <1>3, <1>4, <1>5, PastStays, ClientMoves DEF accounts, history

\* An account changes its mode, which starts its count again.
LEMMA ModeStep ==
  ASSUME PushInv, NEW u \in Users, NEW m \in Modes, UpdateNotifyMode(u, m)
  PROVE  PushInv'
<1>1. changes' \in 0 .. MaxChanges /\ mode' = [mode EXCEPT ![u] = m]
      /\ sentAt' = [sentAt EXCEPT ![u] = IF m = "daily" /\ mode[u] # "daily" THEN hour ELSE @]
      /\ pending' = (IF m = "daily" /\ mode[u] = "daily" THEN pending
                     ELSE [s \in Subs |-> IF s \in Owned(u) THEN NoneCounted ELSE pending[s]])
      /\ UNCHANGED <<hour, members, seenAt, subs, browser, fan, digest, patch, history>>
  BY PushAssumption DEF UpdateNotifyMode, Requested, PushInv, PushTypeOK, Configured
<1>2. NoneCounted \in [events: SUBSET Events, last: Hours] /\ NoneCounted.events = {}
  BY PushAssumption DEF NoneCounted, Hours, PushInv, Configured
<1>3. pending' \in [Subs -> [events: SUBSET Events, last: Hours]] /\ \A s \in Subs : pending'[s].events \subseteq pending[s].events
  BY <1>1, <1>2 DEF PushInv, PushTypeOK
<1>4. sentAt' \in [Users -> Hours] /\ \A x \in Users : sentAt'[x] = sentAt[x] \/ sentAt'[x] = hour
  BY <1>1 DEF PushInv, PushTypeOK
<1>5. PushTypeOK'
  BY <1>1, <1>3, <1>4 DEF PushInv, PushTypeOK, history
<1>6. \A x \in Users : sentAt[x] <= sentAt'[x] /\ sentAt'[x] <= hour'
  BY <1>1, <1>4, PastStays
<1>7. \A c \in Patches : PatchFits(patch[c])'
  BY <1>1, <1>5, PastStays, PatchesStay
<1>8. \A x \in Subs : Stored(x)' => subs'[x].endpoint <= browser'[x]
  BY <1>1 DEF PushInv, EndpointsKnown, Stored
<1> QED
  BY <1>1, <1>3, <1>5, <1>6, <1>7, <1>8, PastStays, ClientMoves DEF history

\* An account says it looked, leaves the application, or time passes.
LEMMA AccountStep ==
  ASSUME PushInv, \/ \E u \in Users : (\E at \in 0 .. hour : UpdateNotificationsSeenAt(u, at)) \/ Leave(u)
                  \/ HourPasses
                  \/ UNCHANGED pushVars
  PROVE  PushInv'
<1>1. UNCHANGED <<mode, sentAt, subs, pending, browser, fan, digest, patch, history>>
  BY DEF UpdateNotificationsSeenAt, Leave, HourPasses, pushVars, accounts
<1>2. hour' \in Hours /\ hour <= hour'
  BY PastStays, PushAssumption DEF UpdateNotificationsSeenAt, Leave, HourPasses, pushVars, PushInv, PushTypeOK, Configured, Hours
<1>3. changes' \in 0 .. MaxChanges /\ members' \subseteq Users
  BY PushAssumption DEF UpdateNotificationsSeenAt, Leave, HourPasses, pushVars, accounts, Requested, PushInv, PushTypeOK, Configured
<1>4. seenAt' \in [Users -> Hours]
  <2>1. \A at \in 0 .. hour : at \in Hours
    BY PushAssumption DEF PushInv, PushTypeOK, Configured, Hours
  <2> QED
    BY <2>1 DEF UpdateNotificationsSeenAt, Leave, HourPasses, pushVars, accounts, PushInv, PushTypeOK
<1>5. PushTypeOK'
  BY <1>1, <1>2, <1>3, <1>4 DEF PushInv, PushTypeOK, history
<1>6. \A c \in Patches : PatchFits(patch[c])'
  BY <1>1, <1>5, PastStays, PatchesStay
<1>7. \A x \in Subs : Stored(x)' => subs'[x].endpoint <= browser'[x]
  BY <1>1 DEF PushInv, EndpointsKnown, Stored
<1>8. \A u \in Users : sentAt[u] <= sentAt'[u] /\ sentAt'[u] <= hour'
  BY <1>1, <1>2, PastStays DEF Hours
<1> QED
  BY <1>1, <1>2, <1>5, <1>6, <1>7, <1>8, PastStays, ClientMoves DEF history

-----------------------------------------------------------------------------
(* Steps of a fan-out. *)

\* What fits speaks of browser and hour only.
LEMMA SameFits ==
  ASSUME UNCHANGED <<browser, hour>>
  PROVE  /\ \A f : FanFits(f)' <=> FanFits(f)
         /\ \A g : DigestFits(g)' <=> DigestFits(g)
         /\ \A p : PatchFits(p)' <=> PatchFits(p)
BY DEF FanFits, DigestFits, PatchFits, SnapshotFits, LeftBehind

\* The same of what the workers have.
LEMMA SameFitting ==
  ASSUME UNCHANGED <<browser, hour>>
  PROVE  /\ \A e : FanFits(fan[e])' <=> FanFits(fan'[e])
         /\ \A d : DigestFits(digest[d])' <=> DigestFits(digest'[d])
         /\ \A c : PatchFits(patch[c])' <=> PatchFits(patch'[c])
BY DEF FanFits, DigestFits, PatchFits, SnapshotFits, LeftBehind

\* A fan-out goes to X, and the right to tell stays in one place.
LEMMA FanMoves ==
  ASSUME PushInv, NEW e \in Events, NEW X, FanFits(X), fan' = [fan EXCEPT ![e] = X], OneRight',
         subs' \in [Subs -> SubscriptionRows \cup {NoSub, Gone}],
         pending' \in [Subs -> [events: SUBSET Events, last: Hours]],
         told' \in [Deliveries -> Nat], crashes' \in 0 .. MaxCrashes,
         \A s \in Subs : Stored(s)' => subs'[s].endpoint <= browser'[s],
         UNCHANGED <<changes, hour, accounts, browser, digest, patch, claims>>
  PROVE  PushInv'
<1>1. \A y \in Events : fan'[y] = IF y = e THEN X ELSE fan[y]
  BY DEF PushInv, PushTypeOK
<1>2. PushTypeOK'
  BY DEF PushInv, PushTypeOK, accounts, FanFits
<1>3. (\A y \in Events : FanFits(fan[y])') /\ (\A d \in Schedulers : DigestFits(digest[d])')
      /\ (\A c \in Patches : PatchFits(patch[c])')
  BY <1>1, SameFitting DEF PushInv, EndpointsKnown
<1>4. ClaimsSent'
  BY DEF PushInv, ClaimsSent, accounts
<1>5. EndpointsKnown'
  BY <1>3 DEF EndpointsKnown
<1> QED
  BY <1>2, <1>3, <1>4, <1>5, PushAssumption DEF PushInv, Configured

\* A fan-out that loses rights and gives none away.
LEMMA FanLoses ==
  ASSUME PushInv, NEW e \in Events, NEW X, fan' = [fan EXCEPT ![e] = X],
         fan[e].pc \in {"new", "read"} \/ (X.pc \notin {"new", "read"} /\ \A x \in X.todo : x \in fan[e].todo),
         UNCHANGED <<digest, told>>, \A s \in Subs : pending'[s].events \subseteq pending[s].events
  PROVE  OneRight'
<1>1. \A y \in Events : fan'[y] = IF y = e THEN X ELSE fan[y]
  BY DEF PushInv, PushTypeOK
<1>2. \A y \in Events, s \in Subs : OfFan(y, s)' => OfFan(y, s)
  BY <1>1 DEF OfFan
<1>3. Fewer
  BY <1>2 DEF Fewer, OfDigest
<1> QED
  BY <1>3, FewerRights DEF PushInv

\* What a fan-out leaves alone.
LEMMA FanAlone ==
  ASSUME PushInv
  PROVE  /\ \A s \in Subs : pending[s].events \subseteq pending[s].events
         /\ subs \in [Subs -> SubscriptionRows \cup {NoSub, Gone}]
         /\ pending \in [Subs -> [events: SUBSET Events, last: Hours]]
         /\ told \in [Deliveries -> Nat] /\ crashes \in 0 .. MaxCrashes
         /\ UNCHANGED <<subs, browser>> => \A s \in Subs : Stored(s)' => subs'[s].endpoint <= browser'[s]
BY DEF PushInv, PushTypeOK, EndpointsKnown, Stored

\* The event commits and its recipients are read.
LEMMA BroadcastStep ==
  ASSUME PushInv, NEW e \in Events, broadcastEvent(e)
  PROVE  PushInv'
<1> DEFINE X == [NewFan EXCEPT !.pc = IF Recipients(e) = {} THEN "done" ELSE "read", !.to = Recipients(e)]
<1>1. fan[e].pc = "new" /\ fan' = [fan EXCEPT ![e] = X]
      /\ UNCHANGED <<changes, hour, accounts, subs, pending, browser, digest, patch, history>>
  BY DEF broadcastEvent
<1>2. Recipients(e) \in SUBSET Users
  <2>1. e.to \in Users \cup {Nobody} /\ members \subseteq Users
    BY PushAssumption DEF PushInv, PushTypeOK, Configured
  <2> QED
    BY <2>1 DEF Recipients
<1>3. X \in Fans /\ X.todo = {} /\ X.pc \in {"read", "done"}
  BY <1>2 DEF NewFan, Fans
<1> HIDE DEF X
<1>4. FanFits(X)
  BY <1>3 DEF FanFits, SnapshotFits
<1>5. OneRight'
  BY <1>1, FanLoses, FanAlone DEF history
<1> QED
  BY <1>1, <1>4, <1>5, FanMoves, FanAlone DEF history

\* The subscriptions of the recipients are read.
LEMMA FanoutStep ==
  ASSUME PushInv, NEW e \in Events, fanout(e)
  PROVE  PushInv'
<1> DEFINE S == GetSubscriptionsForUsers(fan[e].to)
           f == [fan[e] EXCEPT !.todo = S]
           X == Emptied(f)
<1>1. fan[e].pc = "read" /\ fan' = [fan EXCEPT ![e] = X]
      /\ UNCHANGED <<changes, hour, accounts, subs, pending, browser, digest, patch, history>>
  BY DEF fanout
<1>2. S \in SUBSET Snapshots /\ SnapshotFits(S)
  BY SnapshotRead
<1>3. fan[e] \in Fans
  BY DEF PushInv, PushTypeOK
<1>4. f \in Fans /\ f.todo = S
  BY <1>2, <1>3 DEF Fans
<1>5. FanFits(X)
  BY <1>2, <1>4, EmptiedFits
<1> HIDE DEF X
<1>6. OneRight'
  BY <1>1, FanLoses, FanAlone DEF history
<1> QED
  BY <1>1, <1>5, <1>6, FanMoves, FanAlone DEF history

\* The endpoint was gone: the subscription is removed.
LEMMA DeliverStep ==
  ASSUME PushInv, NEW e \in Events, deliver(e)
  PROVE  PushInv'
<1> DEFINE X == Emptied(fan[e])
<1>1. fan[e].pc = "gone" /\ fan' = [fan EXCEPT ![e] = X] /\ Remove(fan[e].at.s)
      /\ UNCHANGED <<changes, hour, accounts, browser, digest, patch, history>>
  BY DEF deliver
<1>2. FanFits(fan[e]) /\ fan[e] \in Fans
  BY DEF PushInv, PushTypeOK
<1>3. fan[e].at \in Snapshots /\ fan[e].at.s \in Subs
  BY <1>1, <1>2 DEF FanFits, LeftBehind, Fans, Snapshots
<1>4. FanFits(X) /\ X.todo = fan[e].todo /\ X.pc \in {"each", "done"}
  BY <1>2, EmptiedFits DEF FanFits
<1> HIDE DEF X
<1>5. OneRight'
  BY <1>1, <1>3, <1>4, FanLoses, Removed DEF history
<1> QED
  BY <1>1, <1>3, <1>4, <1>5, FanMoves, FanAlone, Removed DEF history

\* OneRight for one event and one subscription.
RightOf(e, s) ==
  /\ told[<<e, s>>] <= 1
  /\ OfFan(e, s) => told[<<e, s>>] = 0 /\ e \notin pending[s].events /\ \A d \in Schedulers : ~OfDigest(d, e, s)
  /\ e \in pending[s].events => told[<<e, s>>] = 0 /\ \A d \in Schedulers : ~OfDigest(d, e, s)
  /\ \A d \in Schedulers : OfDigest(d, e, s) =>
       told[<<e, s>>] = 0 /\ \A c \in Schedulers : OfDigest(c, e, s) => c = d

\* The rights, one at a time.
LEMMA RightsOf == OneRight <=> \A e \in Events, s \in Subs : RightOf(e, s)
BY DEF OneRight, RightOf

\* The same of the next state.
LEMMA RightsOfNext == OneRight' <=> \A e \in Events, s \in Subs : RightOf(e, s)'
BY DEF OneRight, RightOf

\* A right that nothing touches, or that goes.
LEMMA RightStays ==
  ASSUME NEW e, NEW s, RightOf(e, s),
         told'[<<e, s>>] = told[<<e, s>>], e \in pending'[s].events => e \in pending[s].events,
         OfFan(e, s)' => OfFan(e, s),
         \A d \in Schedulers : OfDigest(d, e, s)' => OfDigest(d, e, s)
  PROVE  RightOf(e, s)'
BY DEF RightOf

\* A fan-out uses its right, or hands it on to what is counted.
LEMMA FanGives ==
  ASSUME PushInv, NEW e \in Events, NEW x \in fan[e].todo, NEW X, fan' = [fan EXCEPT ![e] = X],
         X.pc \notin {"new", "read"}, X.todo = fan[e].todo \ {x}, UNCHANGED digest,
         \A s \in Subs : pending'[s].events \subseteq pending[s].events \cup (IF s = x.s THEN {e} ELSE {}),
         \/ UNCHANGED told
         \/ UNCHANGED pending /\ Hands({e}, x.s)
  PROVE  OneRight'
<1>1. \A y \in Events : fan'[y] = IF y = e THEN X ELSE fan[y]
  BY DEF PushInv, PushTypeOK
<1>2. x.s \in Subs /\ (\A y \in fan[e].todo : y.s = x.s => y = x) /\ \A k \in Deliveries : told[k] \in Nat
  BY DEF PushInv, PushTypeOK, Fans, FanFits, SnapshotFits, Snapshots
<1>3. OfFan(e, x.s) /\ ~OfFan(e, x.s)'
  BY <1>1, <1>2 DEF OfFan
<1>4. \A y \in Events, s \in Subs : OfFan(y, s)' => OfFan(y, s)
  BY <1>1 DEF OfFan
<1>5. \A y, s : \A d \in Schedulers : OfDigest(d, y, s)' <=> OfDigest(d, y, s)
  BY DEF OfDigest
<1>6. \A y \in Events, s \in Subs : RightOf(y, s)
  BY RightsOf DEF PushInv
<1>7. ASSUME NEW y \in Events, NEW s \in Subs, ~(y = e /\ s = x.s)
      PROVE  RightOf(y, s)'
  <2>1. told'[<<y, s>>] = told[<<y, s>>]
    BY <1>2, <1>7 DEF Hands, Deliveries
  <2>2. y \in pending'[s].events => y \in pending[s].events
    BY <1>7
  <2> QED
    BY <1>4, <1>5, <1>6, <2>1, <2>2, RightStays
<1>8. RightOf(e, x.s)'
  <2>1. told[<<e, x.s>>] = 0 /\ e \notin pending[x.s].events /\ \A d \in Schedulers : ~OfDigest(d, e, x.s)
    BY <1>2, <1>3, <1>6 DEF RightOf
  <2>2. told'[<<e, x.s>>] = 0 \/ (told'[<<e, x.s>>] = 1 /\ pending' = pending)
    BY <1>2, <2>1 DEF Hands, Deliveries
  <2> QED
    BY <1>3, <1>5, <2>1, <2>2 DEF RightOf
<1> QED
  BY <1>7, <1>8, RightsOfNext

\* A fan-out deals with a subscription of its snapshot.
LEMMA EachStep ==
  ASSUME PushInv, NEW e \in Events, NEW x \in fan[e].todo, eachSubscription(e, x)
  PROVE  PushInv'
<1> DEFINE rest == [fan[e] EXCEPT !.todo = @ \ {x}]
           X == Emptied(rest)
           Y == [rest EXCEPT !.pc = "gone", !.at = x]
<1>1. fan[e].pc = "each" /\ UNCHANGED <<changes, hour, accounts, subs, browser, digest, patch, claims, crashes>>
  BY DEF eachSubscription
<1>2. fan[e] \in Fans /\ FanFits(fan[e]) /\ x \in Snapshots /\ x.s \in Subs /\ fan[e].todo \in SUBSET Snapshots
  BY DEF PushInv, PushTypeOK, Fans, Snapshots
<1>3. rest \in Fans /\ rest.todo = fan[e].todo \ {x}
  BY <1>2 DEF Fans
<1>4. SnapshotFits(fan[e].todo \ {x})
  BY <1>2, SnapshotPart DEF FanFits
<1>5. FanFits(X) /\ X.todo = fan[e].todo \ {x} /\ X.pc \notin {"new", "read"}
  BY <1>3, <1>4, EmptiedFits
<1>6. Y \in Fans /\ Y.todo = fan[e].todo \ {x} /\ Y.pc = "gone" /\ Y.at = x
  BY <1>2, <1>3 DEF Fans
<1>7. MayBeGone(x) => FanFits(Y)
  <2>1. MayBeGone(x) => LeftBehind(x)
    <3>1. x.endpoint <= browser[x.s] /\ x.endpoint \in Nat /\ browser[x.s] \in Nat /\ x # NoSub
      BY <1>2, PushAssumption DEF FanFits, SnapshotFits, Snapshots, PushInv, PushTypeOK, Configured
    <3> QED
      BY <3>1 DEF MayBeGone, LeftBehind
  <2> HIDE DEF Y
  <2> QED
    BY <1>4, <1>6, <2>1 DEF FanFits
<1>8. \/ UNCHANGED <<pending, told>> /\ fan' = [fan EXCEPT ![e] = X]
      \/ CountDigest(e, x) /\ fan' = [fan EXCEPT ![e] = X] /\ UNCHANGED told
      \/ UNCHANGED pending /\ Hands({e}, x.s) /\ (fan' = [fan EXCEPT ![e] = X] \/ (MayBeGone(x) /\ fan' = [fan EXCEPT ![e] = Y]))
  BY DEF eachSubscription
<1> HIDE DEF X, Y
<1>9. /\ pending' \in [Subs -> [events: SUBSET Events, last: Hours]]
      /\ \A s \in Subs : pending'[s].events \subseteq pending[s].events \cup (IF s = x.s THEN {e} ELSE {})
  <2>1. CASE UNCHANGED pending
    BY <2>1 DEF PushInv, PushTypeOK
  <2>2. CASE CountDigest(e, x)
    BY <1>2, <2>2 DEF CountDigest, PushInv, PushTypeOK
  <2> QED
    BY <1>8, <2>1, <2>2
<1>10. told' \in [Deliveries -> Nat]
  BY <1>8 DEF Hands, PushInv, PushTypeOK
<1>11. UNCHANGED told \/ (UNCHANGED pending /\ Hands({e}, x.s))
  BY <1>8
<1>12. PICK Z \in {X, Y} : fan' = [fan EXCEPT ![e] = Z] /\ FanFits(Z)
  BY <1>5, <1>7, <1>8
<1>13. Z.pc \notin {"new", "read"} /\ Z.todo = fan[e].todo \ {x}
  BY <1>5, <1>6
<1>14. OneRight'
  BY <1>1, <1>9, <1>11, <1>12, <1>13, FanGives
<1> QED
  BY <1>1, <1>9, <1>10, <1>12, <1>14, FanMoves, FanAlone

-----------------------------------------------------------------------------
(* Steps of a digest. *)

\* A digest goes to X, with the rights and the claims in order.
LEMMA DigestMoves ==
  ASSUME PushInv, NEW d \in Schedulers, NEW X, DigestFits(X), digest' = [digest EXCEPT ![d] = X],
         OneRight', ClaimsSent',
         subs' \in [Subs -> SubscriptionRows \cup {NoSub, Gone}], sentAt' \in [Users -> Hours],
         pending' \in [Subs -> [events: SUBSET Events, last: Hours]],
         told' \in [Deliveries -> Nat], claims' \in [Due -> Nat], crashes' \in 0 .. MaxCrashes,
         \A s \in Subs : Stored(s)' => subs'[s].endpoint <= browser'[s],
         UNCHANGED <<changes, hour, members, mode, seenAt, browser, fan, patch>>
  PROVE  PushInv'
<1>1. \A y \in Schedulers : digest'[y] = IF y = d THEN X ELSE digest[y]
  BY DEF PushInv, PushTypeOK
<1>2. PushTypeOK'
  BY DEF PushInv, PushTypeOK, DigestFits
<1>3. (\A e \in Events : FanFits(fan[e])') /\ (\A y \in Schedulers : DigestFits(digest[y])')
      /\ (\A c \in Patches : PatchFits(patch[c])')
  BY <1>1, SameFitting DEF PushInv, EndpointsKnown
<1>4. EndpointsKnown'
  BY <1>3 DEF EndpointsKnown
<1> QED
  BY <1>2, <1>3, <1>4, PushAssumption DEF PushInv, Configured

\* A digest that loses rights and gives none away.
LEMMA DigestLoses ==
  ASSUME PushInv, NEW d \in Schedulers, NEW X, digest' = [digest EXCEPT ![d] = X],
         X.rows = {} \/ X.todo = {} \/ (X.rows = digest[d].rows /\ X.todo \subseteq digest[d].todo),
         UNCHANGED <<fan, told>>, \A s \in Subs : pending'[s].events \subseteq pending[s].events
  PROVE  OneRight'
<1>1. \A y \in Schedulers : digest'[y] = IF y = d THEN X ELSE digest[y]
  BY DEF PushInv, PushTypeOK
<1>2. \A y \in Schedulers, e \in Events, s \in Subs : OfDigest(y, e, s)' => OfDigest(y, e, s)
  BY <1>1 DEF OfDigest
<1>3. Fewer
  BY <1>2 DEF Fewer, OfFan
<1> QED
  BY <1>3, FewerRights DEF PushInv

\* What a step without a claim leaves alone.
LEMMA ClaimsAlone ==
  ASSUME PushInv
  PROVE  /\ UNCHANGED <<hour, sentAt, claims>> => ClaimsSent'
         /\ sentAt \in [Users -> Hours] /\ claims \in [Due -> Nat]
BY DEF PushInv, PushTypeOK, ClaimsSent

\* A tick lists the accounts in daily mode.
LEMMA ListDailyStep ==
  ASSUME PushInv, NEW d \in Schedulers, GetDailyUsers(d)
  PROVE  PushInv'
<1> DEFINE us == {[user |-> u, sent |-> sentAt[u]] : u \in {u \in Users : mode[u] = "daily"}}
           X == [IdleDigest EXCEPT !.pc = "users", !.clock = hour, !.users = us]
<1>1. digest' = [digest EXCEPT ![d] = X] /\ UNCHANGED <<changes, hour, accounts, subs, pending, browser, fan, patch, history>>
  BY DEF GetDailyUsers
<1>2. us \in SUBSET [user: Users, sent: Hours] /\ hour \in Hours /\ 0 \in Hours /\ hour <= hour
  BY PushAssumption DEF PushInv, PushTypeOK, Configured, Hours
<1>3. X \in Digests /\ X.pc = "users" /\ X.clock = hour /\ X.todo = {} /\ X.rows = {}
  BY <1>2 DEF IdleDigest, Digests
<1> HIDE DEF X
<1>4. DigestFits(X)
  BY <1>2, <1>3 DEF DigestFits, SnapshotFits
<1>5. OneRight'
  BY <1>1, <1>3, DigestLoses, FanAlone DEF history
<1>6. ClaimsSent'
  BY <1>1, ClaimsAlone DEF accounts, history
<1> QED
  BY <1>1, <1>4, <1>5, <1>6, DigestMoves, FanAlone, ClaimsAlone DEF accounts, history

\* An account that is due gets its subscriptions read.
LEMMA DueStep ==
  ASSUME PushInv, NEW d \in Schedulers, NEW x \in digest[d].users, digestFor(d, x)
  PROVE  PushInv'
<1> DEFINE g == [digest[d] EXCEPT !.users = @ \ {x}]
           S == GetSubscriptionsForUsers({x.user})
           Y == [g EXCEPT !.pc = "claim", !.user = x.user, !.todo = S]
<1>1. digest[d].pc = "users" /\ (digest' = [digest EXCEPT ![d] = NextUser(g)] \/ digest' = [digest EXCEPT ![d] = Y])
      /\ UNCHANGED <<changes, hour, accounts, subs, pending, browser, fan, patch, history>>
  BY DEF digestFor
<1>2. digest[d] \in Digests /\ DigestFits(digest[d]) /\ x.user \in Users /\ hour \in Hours
  BY DEF PushInv, PushTypeOK, Digests
<1>3. g \in Digests /\ g.clock = digest[d].clock /\ g.rows = {} /\ g.clock <= hour
  BY <1>1, <1>2 DEF Digests, DigestFits
<1>4. DigestFits(NextUser(g)) /\ NextUser(g).rows = {}
  BY <1>2, <1>3, NextUserFits
<1>5. S \in SUBSET Snapshots /\ SnapshotFits(S)
  BY SnapshotRead
<1>6. Y \in Digests /\ Y.pc = "claim" /\ Y.user = x.user /\ Y.todo = S /\ Y.clock = g.clock /\ Y.rows = g.rows
  BY <1>2, <1>3, <1>5 DEF Digests
<1> HIDE DEF Y
<1>7. DigestFits(Y)
  BY <1>2, <1>3, <1>5, <1>6 DEF DigestFits
<1>8. PICK X \in {NextUser(g), Y} : digest' = [digest EXCEPT ![d] = X]
  BY <1>1
<1>9. DigestFits(X) /\ X.rows = {}
  BY <1>3, <1>4, <1>6, <1>7
<1>10. OneRight'
  BY <1>1, <1>8, <1>9, DigestLoses, FanAlone DEF history
<1>11. ClaimsSent'
  BY <1>1, ClaimsAlone DEF accounts, history
<1> QED
  BY <1>1, <1>8, <1>9, <1>10, <1>11, DigestMoves, FanAlone, ClaimsAlone DEF accounts, history

\* The endpoint was gone: the subscription is removed.
LEMMA DeliverDigestStep ==
  ASSUME PushInv, NEW d \in Schedulers, deliverDigest(d)
  PROVE  PushInv'
<1> DEFINE X == Sent(digest[d])
<1>1. digest[d].pc = "gone" /\ digest' = [digest EXCEPT ![d] = X] /\ Remove(digest[d].at.s)
      /\ UNCHANGED <<changes, hour, accounts, browser, fan, patch, history>>
  BY DEF deliverDigest
<1>2. DigestFits(digest[d]) /\ digest[d] \in Digests /\ hour \in Hours
  BY DEF PushInv, PushTypeOK
<1>3. digest[d].at.s \in Subs
  BY <1>1, <1>2 DEF DigestFits, LeftBehind, Digests, Snapshots
<1>4. DigestFits(X) /\ X.todo = digest[d].todo /\ (X.rows = digest[d].rows \/ X.rows = {})
  BY <1>2, SentFits DEF DigestFits
<1> HIDE DEF X
<1>5. OneRight'
  BY <1>1, <1>3, <1>4, DigestLoses, Removed DEF history
<1>6. ClaimsSent'
  BY <1>1, ClaimsAlone DEF accounts, history
<1> QED
  BY <1>1, <1>3, <1>4, <1>5, <1>6, DigestMoves, FanAlone, ClaimsAlone, Removed DEF accounts, history

\* A claim takes what was counted, once for a due time.
LEMMA ClaimStep ==
  ASSUME PushInv, NEW d \in Schedulers, ClaimDigest(d)
  PROVE  PushInv'
<1>0. PICK g, u, due : g = digest[d] /\ u = g.user /\ due = lastDigestAt(g.clock)
  OBVIOUS
<1>1. g.pc = "claim" /\ g \in Digests /\ DigestFits(g) /\ u \in Users /\ g.rows = {} /\ g.clock \in Hours /\ g.clock <= hour
      /\ hour \in Hours
      /\ UNCHANGED <<changes, hour, members, mode, seenAt, subs, browser, fan, patch, told, crashes>>
  BY <1>0 DEF ClaimDigest, PushInv, PushTypeOK, DigestFits, Digests
<1>2. due \in Hours /\ due <= g.clock
  BY <1>0, <1>1, DueBefore
<1>3. CASE ~Unclaimed(u, due)
  <2>1. digest' = [digest EXCEPT ![d] = NextUser(g)] /\ UNCHANGED <<sentAt, pending, claims>>
    BY <1>0, <1>3 DEF ClaimDigest
  <2>2. DigestFits(NextUser(g)) /\ NextUser(g).rows = {}
    BY <1>1, NextUserFits
  <2>3. OneRight'
    BY <1>1, <2>1, <2>2, DigestLoses, FanAlone
  <2>4. ClaimsSent'
    BY <1>1, <2>1, ClaimsAlone
  <2> QED
    BY <1>1, <2>1, <2>2, <2>3, <2>4, DigestMoves, FanAlone, ClaimsAlone
<1>4. CASE Unclaimed(u, due)
  <2>0. PICK R, T : R = {[s |-> s, events |-> pending[s].events] : s \in Told(u)} /\ T = {x \in g.todo : x.s \in Told(u) /\ ~x.muted}
    OBVIOUS
  <2> DEFINE G == [g EXCEPT !.rows = R, !.todo = T]
             X == Sent(G)
  <2>1. sentAt' = [sentAt EXCEPT ![u] = g.clock] /\ pending' = Cleared(u)
        /\ claims' = [claims EXCEPT ![<<u, due>>] = @ + 1] /\ digest' = [digest EXCEPT ![d] = X]
    BY <1>0, <1>4, <2>0 DEF ClaimDigest
  <2>2. Told(u) \subseteq Owned(u) /\ Owned(u) \subseteq Subs
    BY DEF Told, Owned
  <2>3. \A r \in R : r.s \in Told(u) /\ r.events = pending[r.s].events
    BY <2>0
  <2>4. R \in SUBSET [s: Subs, events: SUBSET Events]
    <3>1. \A s \in Subs : pending[s].events \in SUBSET Events
      BY DEF PushInv, PushTypeOK
    <3> QED
      BY <2>0, <2>2, <3>1
  <2>5. T \in SUBSET g.todo /\ g.todo \in SUBSET Snapshots /\ SnapshotFits(T)
    BY <1>1, <2>0, SnapshotPart DEF DigestFits, Digests
  <2>6. G \in Digests /\ G.clock = g.clock /\ G.todo = T /\ G.rows = R
    BY <1>1, <2>4, <2>5 DEF Digests
  <2>7. DigestFits(X) /\ (X.rows = R \/ X.rows = {})
    BY <1>1, <2>5, <2>6, SentFits
  <2> HIDE DEF X, G
  <2>8. pending' \in [Subs -> [events: SUBSET Events, last: Hours]] /\ (\A s \in Subs : pending'[s].events \subseteq pending[s].events)
        /\ \A s \in Owned(u) : pending'[s].events = {}
    <3>1. NoneCounted \in [events: SUBSET Events, last: Hours] /\ NoneCounted.events = {}
      BY <1>1, PushAssumption DEF NoneCounted, Hours, Configured
    <3> QED
      BY <2>1, <2>2, <3>1 DEF Cleared, PushInv, PushTypeOK
  <2>9. \A y \in Schedulers : digest'[y] = IF y = d THEN X ELSE digest[y]
    BY <2>1 DEF PushInv, PushTypeOK
  <2>10. \A e, s : \A y \in Schedulers : OfDigest(y, e, s)' => OfDigest(y, e, s) \/ (y = d /\ s \in Told(u) /\ e \in pending[s].events)
    BY <2>3, <2>7, <2>9 DEF OfDigest
  <2>11. \A e, s : OfFan(e, s)' <=> OfFan(e, s)
    BY <1>1 DEF OfFan
  <2>12. \A e \in Events, s \in Subs : RightOf(e, s)
    BY RightsOf DEF PushInv
  <2>13. ASSUME NEW e \in Events, NEW s \in Subs
         PROVE  RightOf(e, s)'
    <3>1. CASE s \in Told(u) /\ e \in pending[s].events
      <4>1. told'[<<e, s>>] = 0 /\ ~OfFan(e, s)' /\ \A y \in Schedulers : ~OfDigest(y, e, s)
        BY <1>1, <2>11, <2>12, <3>1 DEF RightOf
      <4>2. e \notin pending'[s].events
        BY <2>2, <2>8, <3>1
      <4> QED
        BY <2>10, <4>1, <4>2 DEF RightOf
    <3>2. CASE ~(s \in Told(u) /\ e \in pending[s].events)
      <4>1. \A y \in Schedulers : OfDigest(y, e, s)' => OfDigest(y, e, s)
        BY <2>10, <3>2
      <4>2. e \in pending'[s].events => e \in pending[s].events
        BY <2>8
      <4> QED
        BY <1>1, <2>11, <2>12, <4>1, <4>2, RightStays
    <3> QED
      BY <3>1, <3>2
  <2>14. OneRight'
    BY <2>13, RightsOfNext
  <2>15. sentAt' \in [Users -> Hours] /\ claims' \in [Due -> Nat]
    BY <1>1, <1>2, <2>1 DEF PushInv, PushTypeOK, Due
  <2>16. ClaimsSent'
    <3>1. sentAt[u] < due /\ sentAt[u] \in Nat /\ due \in Nat /\ g.clock \in Nat
      BY <1>1, <1>2, <1>4 DEF Unclaimed, PushInv, PushTypeOK, Hours
    <3>2. \A v \in Users : sentAt'[v] = IF v = u THEN g.clock ELSE sentAt[v]
      BY <2>1 DEF PushInv, PushTypeOK
    <3>3. \A v \in Users, t \in Hours : claims'[<<v, t>>] = claims[<<v, t>>] + (IF v = u /\ t = due THEN 1 ELSE 0)
      <4>1. \A k \in Due : claims'[k] = claims[k] + (IF k = <<u, due>> THEN 1 ELSE 0)
        <5>1. claims \in [Due -> Nat]
          BY DEF PushInv, PushTypeOK
        <5> QED
          BY <2>1, <5>1
      <4>2. \A v \in Users, t \in Hours : <<v, t>> \in Due /\ (<<v, t>> = <<u, due>> <=> (v = u /\ t = due))
        BY DEF Due
      <4> QED
        BY <4>1, <4>2
    <3>4. \A v \in Users, t \in Hours : claims[<<v, t>>] \in Nat /\ t \in Nat /\ sentAt[v] \in Nat
      BY DEF PushInv, PushTypeOK, Due, Hours
    <3>5. \A v \in Users, t \in Hours : claims[<<v, t>>] <= 1 /\ (claims[<<v, t>>] > 0 => t <= sentAt[v])
      BY DEF PushInv, ClaimsSent
    <3>6. claims[<<u, due>>] = 0
      BY <1>1, <1>2, <3>1, <3>4, <3>5
    <3>7. \A v \in Users : sentAt'[v] <= hour'
      BY <1>1, <3>2, PastStays
    <3>8. ASSUME NEW v \in Users, NEW t \in Hours
          PROVE  claims'[<<v, t>>] <= 1 /\ (claims'[<<v, t>>] > 0 => t <= sentAt'[v])
      <4>1. CASE v = u /\ t = due
        BY <1>2, <3>2, <3>3, <3>6, <4>1
      <4>2. CASE v = u /\ t # due
        <5>1. claims'[<<v, t>>] = claims[<<v, t>>] /\ sentAt'[v] = g.clock
          BY <3>2, <3>3, <3>4, <4>2
        <5>2. claims[<<v, t>>] <= 1 /\ (claims[<<v, t>>] > 0 => t <= sentAt[u])
          BY <3>5, <4>2
        <5>3. t <= sentAt[u] => t <= g.clock
          BY <1>2, <3>1, <3>4
        <5> QED
          BY <5>1, <5>2, <5>3
      <4>3. CASE v # u
        BY <3>2, <3>3, <3>4, <3>5, <4>3
      <4> QED
        BY <4>1, <4>2, <4>3
    <3> QED
      BY <3>7, <3>8 DEF ClaimsSent
  <2> QED
    BY <1>1, <2>1, <2>7, <2>8, <2>14, <2>15, <2>16, DigestMoves, FanAlone
<1> QED
  BY <1>3, <1>4

\* A digest goes out to a subscription.
LEMMA SendStep ==
  ASSUME PushInv, NEW d \in Schedulers, NEW x \in digest[d].todo, sendDigest(d, x)
  PROVE  PushInv'
<1>0. PICK g : g = [digest[d] EXCEPT !.todo = @ \ {x}]
  OBVIOUS
<1>1. PICK es : es = UNION {r.events : r \in {r \in digest[d].rows : r.s = x.s}}
  OBVIOUS
<1> DEFINE X == Sent(g)
           Y == [g EXCEPT !.pc = "gone", !.at = x]
<1>2. digest[d] \in Digests /\ DigestFits(digest[d]) /\ hour \in Hours
      /\ x \in Snapshots /\ x.s \in Subs /\ digest[d].todo \in SUBSET Snapshots
  BY DEF PushInv, PushTypeOK, Digests, Snapshots
<1>3. g \in Digests /\ g.todo = digest[d].todo \ {x} /\ g.rows = digest[d].rows /\ g.clock = digest[d].clock
  BY <1>0, <1>2 DEF Digests
<1>4. digest[d].pc = "each" /\ Hands(es, x.s)
      /\ UNCHANGED <<changes, hour, accounts, subs, pending, browser, fan, patch, claims, crashes>>
      /\ (digest' = [digest EXCEPT ![d] = X] \/ (MayBeGone(x) /\ digest' = [digest EXCEPT ![d] = Y]))
  BY <1>0, <1>1, <1>3 DEF sendDigest
<1>5. SnapshotFits(g.todo)
  BY <1>2, <1>3, SnapshotPart DEF DigestFits
<1>6. DigestFits(X) /\ X.todo = g.todo /\ (X.rows = g.rows \/ X.rows = {})
  BY <1>2, <1>3, <1>5, SentFits DEF DigestFits
<1>7. Y \in Digests /\ Y.pc = "gone" /\ Y.at = x /\ Y.todo = g.todo /\ Y.rows = g.rows /\ Y.clock = g.clock
  BY <1>2, <1>3 DEF Digests
<1>8. MayBeGone(x) => LeftBehind(x)
  <2>1. x.endpoint <= browser[x.s] /\ x.endpoint \in Nat /\ browser[x.s] \in Nat /\ x # NoSub
    BY <1>2, PushAssumption DEF DigestFits, SnapshotFits, Snapshots, PushInv, PushTypeOK, Configured
  <2> QED
    BY <2>1 DEF MayBeGone, LeftBehind
<1> HIDE DEF X, Y
<1>9. MayBeGone(x) => DigestFits(Y)
  BY <1>2, <1>3, <1>5, <1>7, <1>8 DEF DigestFits
<1>10. PICK Z \in {X, Y} : digest' = [digest EXCEPT ![d] = Z] /\ DigestFits(Z)
  BY <1>4, <1>6, <1>9
<1>11. Z.todo = digest[d].todo \ {x} /\ (Z.rows = digest[d].rows \/ Z.rows = {})
  BY <1>3, <1>6, <1>7
<1>12. \A y \in Schedulers : digest'[y] = IF y = d THEN Z ELSE digest[y]
  BY <1>10 DEF PushInv, PushTypeOK
<1>13. \A e, s : \A y \in Schedulers : OfDigest(y, e, s)' => OfDigest(y, e, s)
  BY <1>11, <1>12 DEF OfDigest
<1>14. \A e : ~OfDigest(d, e, x.s)'
  BY <1>2, <1>11, <1>12 DEF OfDigest, DigestFits, SnapshotFits
<1>15. \A e \in es : OfDigest(d, e, x.s)
  BY <1>1 DEF OfDigest
<1>16. \A e, s : OfFan(e, s)' <=> OfFan(e, s)
  BY <1>4 DEF OfFan
<1>17. \A e \in Events, s \in Subs : RightOf(e, s) /\ told[<<e, s>>] \in Nat
  BY RightsOf DEF PushInv, PushTypeOK, Deliveries
<1>18. \A e \in Events, s \in Subs : told'[<<e, s>>] = told[<<e, s>>] + IF e \in es /\ s = x.s THEN 1 ELSE 0
  BY <1>4 DEF Hands, Deliveries
<1>19. ASSUME NEW e \in Events, NEW s \in Subs
       PROVE  RightOf(e, s)'
  <2>1. CASE e \in es /\ s = x.s
    <3>1. told[<<e, s>>] = 0 /\ ~OfFan(e, s) /\ e \notin pending[s].events /\ \A y \in Schedulers : OfDigest(y, e, s) => y = d
      BY <1>15, <1>17, <2>1 DEF RightOf
    <3>2. told'[<<e, s>>] = 1
      BY <1>18, <2>1, <3>1
    <3>3. \A y \in Schedulers : ~OfDigest(y, e, s)'
      BY <1>13, <1>14, <2>1, <3>1
    <3>4. ~OfFan(e, s)' /\ e \notin pending'[s].events
      BY <1>4, <1>16, <3>1
    <3> QED
      BY <3>2, <3>3, <3>4 DEF RightOf
  <2>2. CASE ~(e \in es /\ s = x.s)
    <3>1. told'[<<e, s>>] = told[<<e, s>>]
      BY <1>17, <1>18, <2>2
    <3> QED
      BY <1>4, <1>13, <1>16, <1>17, <3>1, RightStays
  <2> QED
    BY <2>1, <2>2
<1>20. OneRight'
  BY <1>19, RightsOfNext
<1>21. ClaimsSent'
  BY <1>4, ClaimsAlone DEF accounts
<1>22. told' \in [Deliveries -> Nat]
  BY <1>4 DEF Hands, PushInv, PushTypeOK
<1> QED
  BY <1>4, <1>10, <1>20, <1>21, <1>22, DigestMoves, FanAlone, ClaimsAlone DEF accounts

-----------------------------------------------------------------------------
(* The whole. *)

\* A process ends.
LEMMA CrashStep ==
  ASSUME PushInv, Crash
  PROVE  PushInv'
<1>1. crashes' \in 0 .. MaxCrashes /\ UNCHANGED <<changes, hour, accounts, subs, pending, browser, patch, told, claims>>
  BY PushAssumption DEF Crash, PushInv, PushTypeOK, Configured
<1>2. ASSUME NEW d \in Schedulers, digest' = [digest EXCEPT ![d] = IdleDigest], UNCHANGED fan
      PROVE  PushInv'
  <2>1. 0 \in Hours /\ 0 <= hour
    BY PushAssumption DEF PushInv, PushTypeOK, Configured, Hours
  <2>2. IdleDigest \in Digests /\ IdleDigest.clock = 0 /\ IdleDigest.pc = "idle" /\ IdleDigest.todo = {} /\ IdleDigest.rows = {}
    BY <2>1 DEF IdleDigest, Digests
  <2>3. DigestFits(IdleDigest)
    BY <2>1, <2>2 DEF DigestFits, SnapshotFits
  <2>4. OneRight'
    BY <1>1, <1>2, <2>2, DigestLoses, FanAlone
  <2>5. ClaimsSent'
    BY <1>1, ClaimsAlone DEF accounts
  <2> QED
    BY <1>1, <1>2, <2>3, <2>4, <2>5, DigestMoves, FanAlone, ClaimsAlone DEF accounts
<1>3. ASSUME NEW e \in Events, fan' = [fan EXCEPT ![e] = [NewFan EXCEPT !.pc = "done"]], UNCHANGED digest
      PROVE  PushInv'
  <2> DEFINE X == [NewFan EXCEPT !.pc = "done"]
  <2>1. X \in Fans /\ X.pc = "done" /\ X.todo = {}
    BY DEF NewFan, Fans
  <2> HIDE DEF X
  <2>2. FanFits(X)
    BY <2>1 DEF FanFits, SnapshotFits
  <2>3. fan' = [fan EXCEPT ![e] = X]
    BY <1>3 DEF X
  <2>4. OneRight'
    BY <1>1, <1>3, <2>1, <2>3, FanLoses, FanAlone
  <2> QED
    BY <1>1, <1>3, <2>2, <2>3, <2>4, FanMoves, FanAlone
<1> QED
  BY <1>2, <1>3 DEF Crash

\* At the start nobody has a subscription and nothing was told.
LEMMA PushStarts ==
  ASSUME PushInit
  PROVE  PushInv
<1>1. 0 \in Hours /\ 0 <= hour /\ hour \in Hours
  BY PushAssumption DEF PushInit, Configured, Hours
<1>2. NewFan \in Fans /\ NewFan.pc = "new" /\ NewFan.todo = {}
  BY DEF NewFan, Fans
<1>3. IdleDigest \in Digests /\ IdleDigest.clock = 0 /\ IdleDigest.pc = "idle" /\ IdleDigest.todo = {} /\ IdleDigest.rows = {}
  BY <1>1 DEF IdleDigest, Digests
<1>4. IdlePatch \in Patchings /\ IdlePatch.pc = "idle"
  BY DEF IdlePatch, Patchings
<1>5. NoneCounted \in [events: SUBSET Events, last: Hours] /\ NoneCounted.events = {}
  BY <1>1 DEF NoneCounted
<1>6. PushTypeOK
  BY <1>1, <1>2, <1>3, <1>4, <1>5, PushAssumption DEF PushInit, PushTypeOK, Configured, Modes
<1>7. (\A e \in Events : FanFits(fan[e])) /\ (\A d \in Schedulers : DigestFits(digest[d]))
  BY <1>1, <1>2, <1>3 DEF PushInit, FanFits, DigestFits, SnapshotFits
<1>8. OneRight
  <2>1. \A e \in Events, s \in Subs : told[<<e, s>>] = 0
    BY DEF PushInit, Deliveries
  <2>0. pending = [s \in Subs |-> NoneCounted] /\ digest = [d \in Schedulers |-> IdleDigest]
    BY DEF PushInit
  <2>2. \A e \in Events, s \in Subs : e \notin pending[s].events
    BY <1>5, <2>0
  <2>3. ASSUME NEW e \in Events, NEW s \in Subs
        PROVE  RightOf(e, s)
    <3>1. told[<<e, s>>] = 0 /\ e \notin pending[s].events
      BY <2>1, <2>2
    <3>2. \A d \in Schedulers : ~OfDigest(d, e, s)
      BY <1>3, <2>0 DEF OfDigest
    <3> QED
      BY <3>1, <3>2 DEF RightOf
  <2> QED
    BY <2>3, RightsOf
<1>9. ClaimsSent
  BY <1>1 DEF PushInit, ClaimsSent, Due
<1>10. EndpointsKnown
  BY <1>4 DEF PushInit, EndpointsKnown, Stored, PatchFits
<1> QED
  BY <1>6, <1>7, <1>8, <1>9, <1>10 DEF PushInv

\* Every step keeps it.
LEMMA PushStep ==
  ASSUME PushInv, [PushNext]_pushVars
  PROVE  PushInv'
<1>1. ASSUME NEW e \in Events, FanOut(e)
      PROVE  PushInv'
  BY <1>1, BroadcastStep, FanoutStep, EachStep, DeliverStep DEF FanOut
<1>2. ASSUME NEW d \in Schedulers, Digest(d)
      PROVE  PushInv'
  BY <1>2, ListDailyStep, DueStep, ClaimStep, SendStep, DeliverDigestStep DEF Digest
<1>3. ASSUME Client
      PROVE  PushInv'
  BY <1>3, CreateStep, DeleteStep, RotateStep, ReadPatchStep, WritePatchStep, ModeStep, AccountStep DEF Client
<1> QED
  BY <1>1, <1>2, <1>3, CrashStep, AccountStep DEF PushNext

\* PushInv holds in every state.
THEOREM PushInvHolds == PushSpec => []PushInv
<1>1. PushInit => PushInv
  BY PushStarts
<1>2. PushInv /\ [PushNext]_pushVars => PushInv'
  BY PushStep
<1> QED
  BY <1>1, <1>2, PTL DEF PushSpec

\* Fan-outs, digests, requests and tables only ever have the states the code
\* can produce.
THEOREM PushTypes == PushSpec => []PushTypeOK
<1>1. PushInv => PushTypeOK
  BY DEF PushInv
<1> QED
  BY <1>1, PushInvHolds, PTL

\* An event reaches a subscription at most once, as a push or in a digest.
THEOREM ToldOnce == PushSpec => []NotifiedOnce
<1>1. PushInv => NotifiedOnce
  BY DEF PushInv, OneRight, NotifiedOnce, Deliveries
<1> QED
  BY <1>1, PushInvHolds, PTL

\* Overlapping schedulers claim a digest once per due time.
THEOREM DigestOnce == PushSpec => []OneDigestPerDue
<1>1. PushInv => OneDigestPerDue
  BY DEF PushInv, ClaimsSent, OneDigestPerDue, Due
<1> QED
  BY <1>1, PushInvHolds, PTL

\* The endpoint a browser listens at leaves the table only by the client's DELETE,
\* or by a delivery or a PATCH that has an older one.
THEOREM LiveEndpointStays == PushSpec => LiveEndpointKept
<1> DEFINE Cause(s) ==
      \/ changes' # changes
      \/ \E e \in Events : fan[e].at # NoSub /\ fan[e].at.s = s /\ fan[e].at.endpoint < subs[s].endpoint
      \/ \E d \in Schedulers : digest[d].at # NoSub /\ digest[d].at.s = s /\ digest[d].at.endpoint < subs[s].endpoint
      \/ \E c \in Patches : patch[c].pc = "write" /\ patch[c].s = s /\ patch[c].endpoint < subs[s].endpoint
<1>1. ASSUME PushInv, [PushNext]_pushVars, NEW s \in Subs, Listening(s), browser' = browser, ~Listening(s)'
      PROVE  Cause(s)
  <2>1. subs[s].endpoint = browser[s] /\ browser[s] \in Nat /\ Stored(s)
    BY <1>1, PastStays DEF Listening
  <2>2. subs'[s] # subs[s]
    BY <1>1, <2>1 DEF Listening, Stored
  <2>3. ASSUME NEW x \in Snapshots, LeftBehind(x), Remove(x.s)
        PROVE  x.s = s /\ x.endpoint < subs[s].endpoint
    <3>1. x.s = s
      BY <1>1, <2>2, <2>3 DEF Remove, PushInv, PushTypeOK
    <3> QED
      BY <2>1, <2>3, <3>1 DEF LeftBehind, Snapshots
  <2>4. ASSUME NEW e \in Events, deliver(e)
        PROVE  Cause(s)
    <3>1. fan[e].at # NoSub /\ fan[e].at \in Snapshots /\ LeftBehind(fan[e].at) /\ Remove(fan[e].at.s)
      BY <1>1, <2>4 DEF deliver, PushInv, FanFits, LeftBehind, Fans
    <3> QED
      BY <2>3, <3>1
  <2>5. ASSUME NEW d \in Schedulers, deliverDigest(d)
        PROVE  Cause(s)
    <3>1. digest[d].at # NoSub /\ digest[d].at \in Snapshots /\ LeftBehind(digest[d].at) /\ Remove(digest[d].at.s)
      BY <1>1, <2>5 DEF deliverDigest, PushInv, DigestFits, LeftBehind, Digests
    <3> QED
      BY <2>3, <3>1
  <2>6. ASSUME NEW c \in Patches, UpdateSubscription(c)
        PROVE  Cause(s)
    <3>0. PICK p : p = patch[c]
      OBVIOUS
    <3>1. p.pc = "write" /\ p \in Patchings /\ p.s \in Subs /\ p.endpoint <= browser[p.s]
          /\ subs' = (IF Stored(p.s) THEN [subs EXCEPT ![p.s] = [endpoint |-> p.endpoint, muted |-> p.muted]] ELSE subs)
      BY <1>1, <2>6, <3>0 DEF UpdateSubscription, PushInv, PushTypeOK, EndpointsKnown, PatchFits
    <3>2. p.s = s /\ subs'[s] = [endpoint |-> p.endpoint, muted |-> p.muted]
      BY <1>1, <2>2, <3>1 DEF PushInv, PushTypeOK
    <3>3. subs'[s] \in SubscriptionRows /\ subs'[s].endpoint = p.endpoint
      BY <3>1, <3>2 DEF SubscriptionRows, Patchings
    <3>4. Stored(s)'
      BY <1>1, <3>3, PushAssumption DEF Stored, PushInv, Configured
    <3>5. p.endpoint # browser[s]
      BY <1>1, <3>3, <3>4 DEF Listening
    <3>6. p.endpoint < subs[s].endpoint
      BY <2>1, <3>1, <3>2, <3>5 DEF Patchings
    <3> QED
      BY <3>0, <3>1, <3>2, <3>6
  <2>7. ASSUME Requested
        PROVE  Cause(s)
    <3>1. changes \in 0 .. MaxChanges /\ changes' = changes + 1
      BY <1>1, <2>7 DEF Requested, PushInv, PushTypeOK
    <3>2. changes' # changes
      BY <3>1
    <3> QED
      BY <3>2
  <2>8. subs' = subs \/ Requested \/ (\E e \in Events : deliver(e)) \/ (\E d \in Schedulers : deliverDigest(d))
        \/ (\E c \in Patches : UpdateSubscription(c))
    BY <1>1 DEF PushNext, pushVars, FanOut, Digest, Client, Crash, HourPasses, broadcastEvent, fanout, eachSubscription,
                GetDailyUsers, digestFor, ClaimDigest, sendDigest, CreateSubscription, ReadForUpdate, DeleteSubscription,
                Rotate, UpdateNotifyMode, UpdateNotificationsSeenAt, Leave
  <2> QED
    BY <2>2, <2>4, <2>5, <2>6, <2>7, <2>8
<1>2. PushInv /\ [PushNext]_pushVars => [\A s \in Subs : Listening(s) /\ browser' = browser /\ ~Listening(s)' => Cause(s)]_pushVars
  BY <1>1
<1>3. PushInv /\ [PushNext]_pushVars => [\A s \in Subs : Listening(s) /\ browser' = browser /\ ~Listening(s)' =>
         \/ changes' # changes
         \/ \E e \in Events : fan[e].at # NoSub /\ fan[e].at.s = s /\ fan[e].at.endpoint < subs[s].endpoint
         \/ \E d \in Schedulers : digest[d].at # NoSub /\ digest[d].at.s = s /\ digest[d].at.endpoint < subs[s].endpoint
         \/ \E c \in Patches : patch[c].pc = "write" /\ patch[c].s = s /\ patch[c].endpoint < subs[s].endpoint]_pushVars
  BY <1>2
<1> QED
  BY <1>3, PushInvHolds, PTL DEF PushSpec, LiveEndpointKept
=============================================================================
