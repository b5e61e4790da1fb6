------------------------------ MODULE Reminder ------------------------------
(***************************************************************************)
(* Reminders of one application: the rule changes its members send, and the *)
(* schedulers that fire what has fallen due.                                *)
(*                                                                          *)
(* A rule has one row per offset.  A scheduler lists the keys of due rows   *)
(* without locks, then takes them one by one: it locks the row in a         *)
(* transaction of its own, produces reminder_fired in another transaction   *)
(* (which waits for the application's row), and advances the row.  A rule   *)
(* change is an event: it holds the application's row while ApplyRuleChange *)
(* replaces the rule's rows in a third transaction, and commits afterwards. *)
(* So a scheduler and a request can each hold what the other waits for, in  *)
(* a cycle the database cannot see.                                         *)
(*                                                                          *)
(* Who holds a row or the application follows from where the workers and    *)
(* the requests are (Locked, AppFree).  Several workers are the schedulers  *)
(* of processes that overlap.  A recurrence is its period and a count.      *)
(***************************************************************************)
EXTENDS Integers, Sequences, FiniteSets, FiniteSetsExt

CONSTANTS
  Rules, NoRow,
  Workers, Reqs,
  Messages, NoMsg,       \* the requests that may arrive
  Offsets,               \* sequence of offsets to the occurrence
  Period,                \* distance of two occurrences
  BatchSize, Grace,
  MaxClock, MaxFaults    \* bounds

tombstoneOffsetIndex == 0   \* -1 in the code, whose offsets start at 0
Index == 0 .. Len(Offsets)
Keys == Rules \X Index
Rows == [state: {"pending", "done", "skipped", "cancelled"}, anchor: Nat, due: Nat, fire: Int,
         count: Nat, rev: Nat]
Changes ==
  [op: {"change"}, rule: Rules, rev: Nat, state: {"pending", "cancelled"}, due: Nat, count: Nat]
Occurrences == [key: Keys, rev: Nat, due: Nat]

ASSUME ConstantsAssumption ==
  /\ Offsets \in Seq(Int) /\ Offsets # <<>>
  /\ {Period, BatchSize, Grace, MaxClock, MaxFaults} \subseteq Nat /\ Period > 0 /\ BatchSize > 0
  /\ Messages \subseteq Changes \cup [op: {"deleteComponent", "deleteApplication"}]
  /\ NoRow \notin Rows /\ NoMsg \notin Messages

VARIABLES
  now,
  rows,        \* the reminder table
  live,        \* the application is not soft-deleted
  component,   \* the component the rules belong to exists
  worker, request,
  logged,      \* changes whose event committed
  orphaned,    \* changes applied to the rows whose event did not commit
  fired,       \* how often each occurrence's reminder_fired committed
  lost,        \* how often it was fired without the row being advanced
  faults

vars == <<now, rows, live, component, worker, request, logged, orphaned, fired, lost, faults>>

IdleWorker == [pc |-> "idle", todo |-> {}, key |-> <<>>, seen |-> 0, row |-> NoRow]
IdleRequest == [pc |-> "idle", msg |-> NoMsg, fresh |-> FALSE]
NoRows == [i \in Index |-> NoRow]

\* A count of occurrences: a function whose domain grows.
Nothing == [o \in {} |-> 0]
Times(o, B) == IF o \in DOMAIN B THEN B[o] ELSE 0
Counted(o, B) == [x \in DOMAIN B \cup {o} |-> Times(x, B) + IF x = o THEN 1 ELSE 0]

Init ==
  /\ now = 0 /\ faults = 0
  /\ rows = [r \in Rules |-> NoRows]
  /\ live = TRUE /\ component = TRUE
  /\ worker = [w \in Workers |-> IdleWorker]
  /\ request = [q \in Reqs |-> IdleRequest]
  /\ logged = {} /\ orphaned = {}
  /\ fired = Nothing /\ lost = Nothing

-----------------------------------------------------------------------------
(* Locks. *)

At(k) == rows[k[1]][k[2]]

\* A worker's transaction holds its row from lockRow to its end.
Locked(k) == \E w \in Workers : worker[w].pc \in {"check", "produce", "commit", "advance"} /\ worker[w].key = k

\* Mutant: the rows are replaced under a scheduler that works on them.
RuleFreeAlways(r) == TRUE

RuleFree(r) == \A i \in Index : ~Locked(<<r, i>>)

\* FOR NO KEY UPDATE on the application, held until the event's transaction ends.
AppFree ==
  /\ \A w \in Workers : worker[w].pc # "commit"
  /\ \A q \in Reqs : request[q].pc \in {"idle", "lock"}

-----------------------------------------------------------------------------
(* The scheduler. *)

Fired(row, k) == [key |-> k, rev |-> row.rev, due |-> row.due]

FireAt(due, i) == due + Offsets[i]

isWithinGrace(row) == now - row.fire <= Grace

\* Whether the rule has an occurrence after this one, counted from its anchor.
Recurs(row) == row.due + Period < row.anchor + Period * row.count

\* Mutant: rows are listed ahead of their time.
IsDueSoon(row) == row # NoRow /\ row.state = "pending" /\ row.fire <= now + 1

IsDue(row) == row # NoRow /\ row.state = "pending" /\ row.fire <= now

\* The due rows, at most BatchSize of them and the earliest first.
Batches ==
  LET due == {k \in Keys : IsDue(At(k))}
  IN  {b \in SUBSET due :
         /\ b # {}
         /\ Cardinality(b) = Min({BatchSize, Cardinality(due)})
         /\ \A k \in b, j \in due \ b : At(k).fire <= At(j).fire}

selectDueRowKeys(w) ==
  /\ worker[w].pc = "idle"
  /\ \E b \in Batches :
       worker' = [worker EXCEPT ![w] = [IdleWorker EXCEPT !.pc = "next", !.todo = {[key |-> k, fire |-> At(k).fire] : k \in b}]]
  /\ UNCHANGED <<now, rows, live, component, request, logged, orphaned, fired, lost, faults>>

\* The worker goes on with the keys it has left.
Continued(w) ==
  IF worker[w].todo = {} THEN IdleWorker ELSE [IdleWorker EXCEPT !.pc = "next", !.todo = worker[w].todo]

\* Mutant: the state is not looked at again.
LockableAnyState(k) == At(k) # NoRow /\ ~Locked(k)

Lockable(k) == At(k) # NoRow /\ At(k).state = "pending" /\ ~Locked(k)

lockRow(w) ==
  /\ worker[w].pc = "next"
  /\ \E e \in worker[w].todo :
       LET rest == worker[w].todo \ {e}
       IN  /\ \A o \in rest : e.fire <= o.fire
           /\ worker' = [worker EXCEPT ![w] =
                IF Lockable(e.key)
                THEN [pc |-> "check", todo |-> rest, key |-> e.key, seen |-> e.fire, row |-> At(e.key)]
                ELSE [IdleWorker EXCEPT !.pc = IF rest = {} THEN "idle" ELSE "next", !.todo = rest]]
  /\ UNCHANGED <<now, rows, live, component, request, logged, orphaned, fired, lost, faults>>

StoreRow(w, row) ==
  /\ rows' = [rows EXCEPT ![worker[w].key[1]][worker[w].key[2]] = row]
  /\ worker' = [worker EXCEPT ![w] = Continued(w)]

markSkipped(w) == StoreRow(w, [worker[w].row EXCEPT !.state = "skipped"])

processRow(w) ==
  /\ worker[w].pc = "check"
  /\ IF isWithinGrace(worker[w].row)
     THEN worker' = [worker EXCEPT ![w].pc = "produce"] /\ UNCHANGED rows
     ELSE markSkipped(w)
  /\ UNCHANGED <<now, live, component, request, logged, orphaned, fired, lost, faults>>

\* Mutant: an event that can never apply is tried again.
fireRetries(w) ==
  /\ worker[w].pc = "produce" /\ AppFree
  /\ worker' = [worker EXCEPT ![w] = IF live THEN [worker[w] EXCEPT !.pc = "commit"] ELSE Continued(w)]
  /\ UNCHANGED <<now, rows, live, component, request, logged, orphaned, fired, lost, faults>>

\* ProduceEvent gets the application's row.  A soft-deleted application makes
\* the event unappliable, and the row is skipped.
fire(w) ==
  /\ worker[w].pc = "produce" /\ AppFree
  /\ IF live
     THEN worker' = [worker EXCEPT ![w].pc = "commit"] /\ UNCHANGED rows
     ELSE markSkipped(w)
  /\ UNCHANGED <<now, live, component, request, logged, orphaned, fired, lost, faults>>

\* Mutant: no lock_timeout.
fireWaits(w) == FALSE /\ UNCHANGED vars

\* lock_timeout: the event and the row's transaction roll back.
fireTimesOut(w) ==
  /\ worker[w].pc = "produce" /\ ~AppFree
  /\ worker' = [worker EXCEPT ![w] = Continued(w)]
  /\ UNCHANGED <<now, rows, live, component, request, logged, orphaned, fired, lost, faults>>

ProduceCommits(w) ==
  /\ worker[w].pc = "commit"
  /\ fired' = Counted(Fired(worker[w].row, worker[w].key), fired)
  /\ worker' = [worker EXCEPT ![w].pc = "advance"]
  /\ UNCHANGED <<now, rows, live, component, request, logged, orphaned, lost, faults>>

Advanced(row, i) ==
  IF Recurs(row)
  THEN [row EXCEPT !.due = row.due + Period, !.fire = FireAt(row.due + Period, i)]
  ELSE [row EXCEPT !.state = "done"]

advance(w) ==
  /\ worker[w].pc = "advance"
  /\ StoreRow(w, Advanced(worker[w].row, worker[w].key[2]))
  /\ UNCHANGED <<now, live, component, request, logged, orphaned, fired, lost, faults>>

\* A statement or a commit fails (the worker goes on) or the process ends (it
\* starts afresh): open transactions roll back, a committed event stays.
WorkerFails(w) ==
  /\ worker[w].pc # "idle" /\ faults < MaxFaults
  /\ faults' = faults + 1
  /\ worker' \in {[worker EXCEPT ![w] = Continued(w)], [worker EXCEPT ![w] = IdleWorker]}
  /\ lost' = IF worker[w].pc = "advance" THEN Counted(Fired(worker[w].row, worker[w].key), lost) ELSE lost
  /\ UNCHANGED <<now, rows, live, component, request, logged, orphaned, fired>>

-----------------------------------------------------------------------------
(* Events of members.  A request that got the application's row is at       *)
(* "read" (a rule change), "cascade" (a component is deleted) or "commit".   *)

Submit(q) ==
  /\ request[q].pc = "idle"
  /\ \E m \in Messages : request' = [request EXCEPT ![q] = [IdleRequest EXCEPT !.pc = "lock", !.msg = m]]
  /\ UNCHANGED <<now, rows, live, component, worker, logged, orphaned, fired, lost, faults>>

Ends(q) == request' = [request EXCEPT ![q] = IdleRequest]
Goes(q, pc) == request' = [request EXCEPT ![q].pc = pc]

\* The application's row, then the id: a logged change sent again changes nothing.
persistAndApply(q) ==
  LET m == request[q].msg
  IN  /\ request[q].pc = "lock" /\ AppFree
      /\ IF ~live \/ m \in logged THEN Ends(q)
         ELSE \/ m.op = "change" /\ Goes(q, "read")
              \/ m.op = "deleteComponent" /\ IF component THEN Goes(q, "cascade") ELSE Ends(q)
              \/ m.op = "deleteApplication" /\ Goes(q, "commit")
      /\ UNCHANGED <<now, rows, live, component, worker, logged, orphaned, fired, lost, faults>>

\* lock_timeout: on the application's row, or on a reminder row the cascade reaches.
RequestTimesOut(q) ==
  /\ \/ request[q].pc = "lock" /\ ~AppFree
     \/ request[q].pc = "cascade" /\ \E k \in Keys : At(k) # NoRow /\ Locked(k)
  /\ Ends(q)
  /\ UNCHANGED <<now, rows, live, component, worker, logged, orphaned, fired, lost, faults>>

Revs(r) == {rows[r][i].rev : i \in {i \in Index : rows[r][i] # NoRow}}

\* Mutant: no comparison of revisions.
NeverStale(m) == FALSE

Stale(m) == \E v \in Revs(m.rule) : m.rev <= v

readRev(q) ==
  /\ request[q].pc = "read"
  /\ Goes(q, IF Stale(request[q].msg) THEN "commit" ELSE "apply")
  /\ UNCHANGED <<now, rows, live, component, worker, logged, orphaned, fired, lost, faults>>

insertRow(m, i) ==
  [state |-> m.state, anchor |-> m.due, due |-> m.due, count |-> m.count, rev |-> m.rev,
   fire |-> IF i = tombstoneOffsetIndex THEN m.due ELSE FireAt(m.due, i)]

Replaced(m) ==
  [i \in Index |-> IF (i = tombstoneOffsetIndex) = (m.state = "cancelled") THEN insertRow(m, i) ELSE NoRow]

\* The DELETE waits for the rows' locks, without a timeout.  Without the
\* component the INSERT fails, and the event with it.
ApplyRuleChange(q) ==
  LET m == request[q].msg
  IN  /\ request[q].pc = "apply" /\ RuleFree(m.rule)
      /\ IF component
         THEN /\ rows' = [rows EXCEPT ![m.rule] = Replaced(m)]
              /\ request' = [request EXCEPT ![q].pc = "commit", ![q].fresh = TRUE]
         ELSE Ends(q) /\ UNCHANGED rows
      /\ UNCHANGED <<now, live, component, worker, logged, orphaned, fired, lost, faults>>

EventCommits(q) ==
  /\ request[q].pc = "commit"
  /\ logged' = IF request[q].msg.op = "change" THEN logged \cup {request[q].msg} ELSE logged
  /\ live' = (request[q].msg.op # "deleteApplication")
  /\ Ends(q)
  /\ UNCHANGED <<now, rows, component, worker, orphaned, fired, lost, faults>>

deleteComponent(q) ==
  /\ request[q].pc = "cascade"
  /\ \A k \in Keys : At(k) # NoRow => ~Locked(k)
  /\ component' = FALSE
  /\ rows' = [r \in Rules |-> NoRows]
  /\ Ends(q)
  /\ UNCHANGED <<now, live, worker, logged, orphaned, fired, lost, faults>>

RequestFails(q) ==
  /\ request[q].pc # "idle" /\ faults < MaxFaults
  /\ faults' = faults + 1
  /\ orphaned' = IF request[q].fresh THEN orphaned \cup {request[q].msg} ELSE orphaned
  /\ Ends(q)
  /\ UNCHANGED <<now, rows, live, component, worker, logged, fired, lost>>

\* A registration of the application brings it back.
Revive ==
  /\ ~live /\ AppFree
  /\ live' = TRUE
  /\ UNCHANGED <<now, rows, component, worker, request, logged, orphaned, fired, lost, faults>>

Tick ==
  /\ now < MaxClock /\ now' = now + 1
  /\ UNCHANGED <<rows, live, component, worker, request, logged, orphaned, fired, lost, faults>>

-----------------------------------------------------------------------------

Work(w) ==
  \/ selectDueRowKeys(w) \/ lockRow(w) \/ processRow(w)
  \/ fire(w) \/ fireTimesOut(w) \/ ProduceCommits(w) \/ advance(w)

Serve(q) ==
  \/ persistAndApply(q) \/ RequestTimesOut(q) \/ readRev(q) \/ ApplyRuleChange(q)
  \/ EventCommits(q) \/ deleteComponent(q)

Next ==
  \/ \E w \in Workers : Work(w) \/ WorkerFails(w)
  \/ \E q \in Reqs : Submit(q) \/ Serve(q) \/ RequestFails(q)
  \/ Revive \/ Tick

Spec == Init /\ [][Next]_vars

\* Goroutines run, and a DELETE that waits for a row gets it in its turn.
FairSpec ==
  /\ Spec
  /\ \A w \in Workers : WF_vars(Work(w))
  /\ \A q \in Reqs : WF_vars(Serve(q)) /\ SF_vars(ApplyRuleChange(q))

-----------------------------------------------------------------------------
(* Properties. *)

WorkerStates ==
  [pc: {"idle", "next", "check", "produce", "commit", "advance"}, todo: SUBSET [key: Keys, fire: Int],
   key: Keys \cup {<<>>}, seen: Int, row: Rows \cup {NoRow}]
RequestStates ==
  [pc: {"idle", "lock", "read", "apply", "cascade", "commit"}, msg: Messages \cup {NoMsg}, fresh: BOOLEAN]

\* Every table row, position of a worker or a request, and record of what
\* happened is one the code can produce.
TypeOK ==
  /\ now \in 0 .. MaxClock /\ faults \in 0 .. MaxFaults
  /\ rows \in [Rules -> [Index -> Rows \cup {NoRow}]]
  /\ live \in BOOLEAN /\ component \in BOOLEAN
  /\ worker \in [Workers -> WorkerStates]
  /\ request \in [Reqs -> RequestStates]
  /\ logged \subseteq Messages /\ orphaned \subseteq Messages
  /\ \A B \in {fired, lost} : DOMAIN B \subseteq Occurrences /\ B \in [DOMAIN B -> Nat]

\* A reminder_fired event commits only for what its row says at that moment:
\* an edit or a cancellation that ApplyRuleChange committed is never followed
\* by a firing under the former rule.
FiresTheRule ==
  [][\A o \in DOMAIN fired' :
       Times(o, fired') > Times(o, fired) =>
         LET row == At(o.key)
         IN  row # NoRow /\ row.state = "pending" /\ row.rev = o.rev /\ row.due = o.due]_vars

\* An occurrence is fired again only if the transaction that should have
\* advanced its row was lost after the event had committed: once per loss,
\* whatever schedulers overlap and whatever changes are sent again.
FiredOncePerLoss == \A o \in DOMAIN fired : Times(o, fired) <= 1 + Times(o, lost)

\* The changes that reached the rows, committed or not.
Applied(r) ==
  {m \in logged \cup orphaned \cup {request[q].msg : q \in {q \in Reqs : request[q].fresh}} :
     m.op = "change" /\ m.rule = r}

\* Whatever order changes arrive in, and however often, the rows of a rule are
\* those of the change with the highest revision, and a cancelled rule comes
\* back only by a higher one: ApplyRuleChange reads the stored revision and
\* replaces the rows in different statements.
NewestRuleWins ==
  \A r \in Rules : component /\ Applied(r) # {} =>
    \E m \in Applied(r) :
      /\ \A o \in Applied(r) : o.rev <= m.rev
      /\ \A i \in Index :
           /\ rows[r][i] # NoRow <=> Replaced(m)[i] # NoRow
           /\ rows[r][i] # NoRow => rows[r][i].rev = m.rev /\ rows[r][i].anchor = m.due

\* A worker on its way to fire a row before its time listed that key when the
\* row had another time: lockRow asks only whether the row is pending, so a
\* rule moved to a later time, or a row another scheduler advanced, between
\* the listing and the lock is fired at once.
EarlyOnlyIfRescheduled ==
  \A w \in Workers : worker[w].pc \in {"produce", "commit"} /\ worker[w].row.fire > now =>
    worker[w].row.fire # worker[w].seen

\* Every request ends: the row lock of a scheduler that waits for the
\* application, under a request that waits for the row, is given up.
RequestsEnd == \A q \in Reqs : request[q].pc # "idle" ~> request[q].pc = "idle"

\* When no more requests come, a due row is fired, advanced or skipped.
DueRowsSettle ==
  <>[](\A q \in Reqs : request[q].pc = "idle") =>
    \A k \in Keys : [](IsDue(At(k)) => <>~IsDue(At(k)))
=============================================================================
