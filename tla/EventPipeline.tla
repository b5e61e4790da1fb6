--------------------------- MODULE EventPipeline ---------------------------
(***************************************************************************)
(* The event pipeline of a space and the application rows it serialises on. *)
(*                                                                          *)
(* HTTP handlers run concurrently.  Each one is a request with a program    *)
(* counter; every action below is one round trip to PostgreSQL (READ        *)
(* COMMITTED: a statement sees what is committed when it runs), so what one *)
(* step checked may be stale when the next one acts.  persistAndApply is a   *)
(* transaction: it takes the application's row lock (FOR NO KEY UPDATE) and  *)
(* its writes become visible at Commit.  Every other writer of that row      *)
(* (registration, the move operations, deletion, purge) is a single          *)
(* transaction that waits for the lock.                                      *)
(***************************************************************************)
EXTENDS EventRules, FiniteSets

CONSTANTS
  Reqs,              \* concurrently served requests (goroutines)
  NoReq,             \* nobody holds the row lock
  NoMsg, NoRow,      \* an idle request serves nothing and has inserted nothing
  Messages,          \* the requests that may arrive
  SpaceIds,          \* event ids the space draws (uuid.NewV7)
  SpaceOwners,       \* keys with the space-owner role, exempt from the limit
  MaxAppsPerAccount, \* 0 = unlimited
  Retention,         \* retentionDays of the event cleanup, in ticks
  PurgeAfter,        \* deletedAppRetention, in ticks
  MaxOrdinal,        \* bound: event rows ever inserted
  MaxClock           \* bound: clock

ASSUME ReqsAssumption == NoReq \notin Reqs
ASSUME MessagesAssumption == Messages \subseteq Requests
ASSUME SpaceIdsAssumption == SpaceIds \subseteq Ids
ASSUME BoundsAssumption ==
  /\ MaxAppsPerAccount \in Nat
  /\ Retention \in Nat
  /\ PurgeAfter \in Nat
  /\ MaxOrdinal \in Nat
  /\ MaxClock \in Nat

VARIABLES
  apps,     \* applications table
  members,  \* members table, by application and key
  events,   \* events table: committed rows
  nextOrd,  \* the BIGSERIAL behind events.ordinal; never rolled back
  lock,     \* holder of each application's row lock
  pc, msg,  \* per request: the next step, and what it is serving
  row,      \* per request: the row it inserted and has not committed
  clock,    \* time in days; starts at 1 so that 0 can stand for NULL
  issued,   \* history: what was committed since the app row was created
  wiped     \* history: a completed move has emptied this app's log

vars == <<apps, members, events, nextOrd, lock, pc, msg, row, clock, issued, wiped>>

\* deletedAt and movedAt: 0 is NULL.  movedTo: moved_to_url is set.
AppRows ==
  [exists: BOOLEAN, deletedAt: Nat, movedTo: BOOLEAN, movedAt: Nat,
   lastSeq: Nat, agentRead: BOOLEAN]
NoAppRow ==
  [exists |-> FALSE, deletedAt |-> 0, movedTo |-> FALSE, movedAt |-> 0,
   lastSeq |-> 0, agentRead |-> FALSE]

Steps == {"idle", "regOwner", "regQuota", "guard", "authorize", "owner", "write",
          "begin", "dedupe", "insert", "commit", "broadcast"}

Issues == [app: Apps \cup {NoApp}, seq: Nat, id: Ids, at: Nat, type: EventTypes]

TablesOK ==
  /\ apps \in [Apps -> AppRows]
  /\ members \in [Apps -> [Keys -> MemberRows]]
  /\ events \subseteq EventRows
  /\ nextOrd \in Nat
  /\ lock \in [Apps -> Reqs \cup {NoReq}]
  /\ clock \in Nat \ {0}
  /\ issued \subseteq Issues
  /\ wiped \in [Apps -> BOOLEAN]

RequestsOK ==
  /\ pc \in [Reqs -> Steps]
  /\ msg \in [Reqs -> Requests \cup {NoMsg}]
  /\ row \in [Reqs -> EventRows \cup {NoRow}]
  /\ \A r \in Reqs : pc[r] # "idle" => msg[r] \in Requests
  /\ \A r \in Reqs : pc[r] = "commit" => row[r] \in EventRows

\* Every table, lock and request has its type, and a request that is under way
\* knows what it serves and, once inserted, which row it is about to commit.
TypeOK == TablesOK /\ RequestsOK

Init ==
  /\ apps = [a \in Apps |-> NoAppRow]
  /\ members = [a \in Apps |-> [k \in Keys |-> NoMember]]
  /\ events = {}
  /\ nextOrd = 1
  /\ lock = [a \in Apps |-> NoReq]
  /\ pc = [r \in Reqs |-> "idle"]
  /\ msg = [r \in Reqs |-> NoMsg]
  /\ row = [r \in Reqs |-> NoRow]
  /\ clock = 1
  /\ issued = {}
  /\ wiped = [a \in Apps |-> FALSE]

-----------------------------------------------------------------------------
(* Small vocabulary.                                                        *)

appVars == <<apps, members, wiped>>
logVars == <<events, nextOrd, issued>>
reqVars == <<pc, msg, row>>

Sequenced(m) == m.app # NoApp
Live(a) == apps[a].exists /\ apps[a].deletedAt = 0
Wiped(a) == a \in Apps /\ wiped[a]

Goto(r, step) == /\ pc' = [pc EXCEPT ![r] = step]
                 /\ UNCHANGED <<msg, row>>

\* The handler returns (with an answer or an error).
Return(r) == /\ pc' = [pc EXCEPT ![r] = "idle"]
             /\ msg' = [msg EXCEPT ![r] = NoMsg]
             /\ row' = [row EXCEPT ![r] = NoRow]

\* Mutant: the lock survives the transaction.
UnlockedNever(r) == lock

\* tx.Commit or the deferred tx.Rollback: the transaction's row lock goes.
Unlocked(r) == [a \in Apps |-> IF lock[a] = r THEN NoReq ELSE lock[a]]
\* The transaction is rolled back and the handler answers with an error.
Abort(r) == /\ Return(r)
            /\ lock' = Unlocked(r)
            /\ UNCHANGED <<appVars, logVars, clock>>

\* A uuid the space has not used.
FreshIds == {id \in SpaceIds : /\ \A x \in issued : x.id # id
                               /\ \A r \in Reqs : pc[r] # "idle" => msg[r].id # id}

\* Bound: each request inserts at most one row.
WithinBound == nextOrd + Cardinality(Reqs) <= MaxOrdinal

-----------------------------------------------------------------------------
(* Arrivals.                                                                *)

\* AcceptEvent up to the duplicate check.  A retry of a stored event is
\* answered with the stored row: no state changes, so no step.
AcceptEvent(r) ==
  /\ pc[r] = "idle"
  /\ WithinBound
  /\ \E m \in Messages :
       /\ m.op = "accept"
       /\ m.app = NoApp <=> m.type \in UserScopedTypes
       /\ ValidateEvent(m)
       /\ ~ \E e \in events : IsRetryOf(e, m.id, m.app, m.by, m.type)
       /\ m.type \in UserScopedTypes => AuthorizeUserScopedEvent(m)
       /\ msg' = [msg EXCEPT ![r] = m]
       /\ pc' = [pc EXCEPT ![r] = IF Sequenced(m) THEN "guard" ELSE "begin"]
  /\ UNCHANGED <<appVars, logVars, lock, row, clock>>

\* ProduceEvent: no authorization; the id is drawn by the space.
ProduceEvent(r) ==
  /\ pc[r] = "idle"
  /\ WithinBound
  /\ \E m \in Messages, id \in FreshIds :
       /\ m.op = "produce"
       /\ ValidateEvent(m)
       /\ msg' = [msg EXCEPT ![r] = [m EXCEPT !.id = id]]
  /\ pc' = [pc EXCEPT ![r] = "begin"]
  /\ UNCHANGED <<appVars, logVars, lock, row, clock>>

\* The application endpoints.  completeMove may go on to produce an event, so
\* its id is drawn here.
ApplicationRequest(r) ==
  /\ pc[r] = "idle"
  /\ WithinBound
  /\ \E m \in Messages, id \in FreshIds :
       /\ m.op \notin {"accept", "produce"}
       /\ m.app \in Apps
       /\ m.op = "register" => ValidRegistration(m)
       /\ msg' = [msg EXCEPT ![r] = [m EXCEPT !.id = id]]
       /\ pc' = [pc EXCEPT ![r] = IF m.op = "register" THEN "regOwner" ELSE "guard"]
  /\ UNCHANGED <<appVars, logVars, lock, row, clock>>

-----------------------------------------------------------------------------
(* Checks made before the write, each against what is committed now.        *)

\* MoveGuard's two verdicts.
Moved(a, k) ==
  apps[a].exists /\ apps[a].movedAt # 0 /\ Active(members[a][k], clock)
Moving(a, write) ==
  apps[a].exists /\ apps[a].movedAt = 0 /\ apps[a].movedTo /\ write

IsMoveOp(m) == m.op \in {"startMove", "abortMove", "completeMove"}

\* MoveGuard; authorizeOwner calls it for reading, everyone else for writing,
\* and RegisterApplication lets the owner of a tombstone through.
MoveGuard(r) ==
  LET m == msg[r] IN
  /\ pc[r] = "guard"
  /\ IF \/ Moved(m.app, m.by) /\ m.op # "register"
        \/ Moving(m.app, ~IsMoveOp(m))
       THEN Return(r)
       ELSE Goto(r, CASE m.op = "accept" -> "authorize"
                      [] m.op = "register" -> "write"
                      [] OTHER -> "owner")
  /\ UNCHANGED <<appVars, logVars, lock, clock>>

\* AcceptEvent: GetApplicationByID, AuthorizeEvent, checkEventStaleness.
Authorize(r) ==
  LET m == msg[r] IN
  /\ pc[r] = "authorize"
  /\ IF /\ Live(m.app)
        /\ AuthorizeEvent(m, members[m.app], clock, apps[m.app].agentRead)
        /\ ~IsStale(m, clock)
       THEN Goto(r, "begin")
       ELSE Return(r)
  /\ UNCHANGED <<appVars, logVars, lock, clock>>

\* authorizeOwner's role check, or GetApplicationByID and GetOwnerPublicKey in
\* DeleteApplication and SetAgentRead (which must find the app live, and take
\* whichever owner row comes first).
OwnerCheck(r) ==
  LET m == msg[r]
      owners == Owners(members[m.app], clock)
  IN
  /\ pc[r] = "owner"
  /\ \/ /\ m.by \in owners
        /\ IsMoveOp(m) \/ Live(m.app)
        /\ Goto(r, "write")
     \/ /\ \/ m.by \notin owners
           \/ ~IsMoveOp(m) /\ (owners # {m.by} \/ ~Live(m.app))
        /\ Return(r)
  /\ UNCHANGED <<appVars, logVars, lock, clock>>

\* HasOtherOwner (which ignores expiry).
RegisterOwnerCheck(r) ==
  LET m == msg[r] IN
  /\ pc[r] = "regOwner"
  /\ IF \E k \in Keys \ {m.by} : members[m.app][k].role = "owner"
       THEN Return(r)
       ELSE Goto(r, "regQuota")
  /\ UNCHANGED <<appVars, logVars, lock, clock>>

\* CountOwnedApplications.
OwnedApplications(k) == {a \in Apps : Live(a) /\ k \in Owners(members[a], clock)}

RegisterQuotaCheck(r) ==
  LET m == msg[r] IN
  /\ pc[r] = "regQuota"
  /\ IF /\ MaxAppsPerAccount > 0
        /\ m.by \notin SpaceOwners
        /\ ~Live(m.app)
        /\ Cardinality(OwnedApplications(m.by)) >= MaxAppsPerAccount
       THEN Return(r)
       ELSE Goto(r, "guard")
  /\ UNCHANGED <<appVars, logVars, lock, clock>>

-----------------------------------------------------------------------------
(* Writes of the application row: one transaction each, blocked while        *)
(* persistAndApply holds the row lock.                                       *)

Writes(r, op) ==
  /\ pc[r] = "write"
  /\ msg[r].op = op
  /\ lock[msg[r].app] = NoReq

\* RegisterApplication: the upsert revives a deleted or moved row but keeps its
\* last_sequence, and overwrites the role and expiry of every listed member.
RegisterApplication(r) ==
  LET m == msg[r]
      a == m.app
  IN
  /\ Writes(r, "register")
  /\ apps' = [apps EXCEPT ![a] =
       [@ EXCEPT !.exists = TRUE, !.deletedAt = 0, !.movedTo = FALSE, !.movedAt = 0]]
  /\ members' = [members EXCEPT ![a] =
       [k \in Keys |-> IF m.members[k] = "none" THEN @[k]
                        ELSE [role |-> m.members[k], expires |-> 0]]]
  /\ Return(r)
  /\ UNCHANGED <<wiped, logVars, lock, clock>>

\* StartMove, AbortMove, DeleteApplication and SetAgentReadEnabled: an UPDATE
\* whose WHERE clause is re-evaluated on the row it finally locks.
UpdateApplication(r, op, where, newRow) ==
  /\ Writes(r, op)
  /\ apps' = [apps EXCEPT ![msg[r].app] =
       IF apps[msg[r].app].exists /\ where THEN newRow ELSE @]
  /\ Return(r)
  /\ UNCHANGED <<members, wiped, logVars, lock, clock>>

StartMove(r) ==
  LET app == apps[msg[r].app] IN
  UpdateApplication(r, "startMove", app.deletedAt = 0 /\ app.movedAt = 0,
                    [app EXCEPT !.movedTo = TRUE])

AbortMove(r) ==
  LET app == apps[msg[r].app] IN
  UpdateApplication(r, "abortMove", app.movedAt = 0, [app EXCEPT !.movedTo = FALSE])

DeleteApplication(r) ==
  LET app == apps[msg[r].app] IN
  UpdateApplication(r, "deleteApp", TRUE, [app EXCEPT !.deletedAt = clock])

SetAgentRead(r) ==
  LET app == apps[msg[r].app] IN
  \/ UpdateApplication(r, "agentReadOn", app.deletedAt = 0, [app EXCEPT !.agentRead = TRUE])
  \/ UpdateApplication(r, "agentReadOff", app.deletedAt = 0, [app EXCEPT !.agentRead = FALSE])

\* CompleteMove: the row becomes a tombstone and its log is emptied in one
\* transaction; the application_moved event is produced in another.
CompleteMove(r) ==
  LET a == msg[r].app
      app == apps[a]
  IN
  /\ Writes(r, "completeMove")
  /\ IF app.exists /\ app.movedTo /\ app.movedAt = 0 /\ app.deletedAt = 0
       THEN /\ apps' = [apps EXCEPT ![a] = [app EXCEPT !.movedAt = clock, !.deletedAt = clock]]
            /\ events' = {e \in events : e.app # a}
            /\ wiped' = [wiped EXCEPT ![a] = TRUE]
            /\ msg' = [msg EXCEPT ![r] = [@ EXCEPT !.op = "produce", !.type = "application_moved"]]
            /\ pc' = [pc EXCEPT ![r] = "begin"]
            /\ row' = row
       ELSE /\ Return(r)
            /\ UNCHANGED <<apps, events, wiped>>
  /\ UNCHANGED <<members, nextOrd, issued, lock, clock>>

-----------------------------------------------------------------------------
(* persistAndApply.                                                         *)

\* Mutant: a plain SELECT, no row lock.
BeginTxUnlocked(r) ==
  /\ pc[r] = "begin"
  /\ IF Sequenced(msg[r]) /\ ~Live(msg[r].app)
          /\ ~(apps[msg[r].app].exists /\ msg[r].type = "application_moved")
       THEN Return(r)
       ELSE Goto(r, "dedupe")
  /\ UNCHANGED <<appVars, logVars, clock, lock>>

\* Mutant: the row is locked but deleted_at is not looked at.
BeginTxAnyRow(r) ==
  LET m == msg[r] IN
  /\ pc[r] = "begin"
  /\ Sequenced(m) => lock[m.app] = NoReq
  /\ Goto(r, "dedupe")
  /\ lock' = IF Sequenced(m) THEN [lock EXCEPT ![m.app] = r] ELSE lock
  /\ UNCHANGED <<appVars, logVars, clock>>

\* BEGIN; SELECT ... FOR NO KEY UPDATE; a missing or deleted application ends
\* the request, except that application_moved is for a tombstone.
BeginTx(r) ==
  LET m == msg[r] IN
  /\ pc[r] = "begin"
  /\ Sequenced(m) => lock[m.app] = NoReq
  /\ IF Sequenced(m) /\ ~Live(m.app)
          /\ ~(apps[m.app].exists /\ m.type = "application_moved")
       THEN /\ Return(r)
            /\ lock' = lock
       ELSE /\ Goto(r, "dedupe")
            /\ lock' = IF Sequenced(m) THEN [lock EXCEPT ![m.app] = r] ELSE lock
  /\ UNCHANGED <<appVars, logVars, clock>>

\* The duplicate check, now under the lock: a retry is answered with the stored
\* row and a foreign event with that id makes this one unappliable; both end
\* the transaction.
Dedupe(r) ==
  /\ pc[r] = "dedupe"
  /\ IF \E e \in events : e.id = msg[r].id
       THEN Return(r) /\ lock' = Unlocked(r)
       ELSE Goto(r, "insert") /\ lock' = lock
  /\ UNCHANGED <<appVars, logVars, clock>>

\* executeEvent: what the event does to the member rows.
ExecuteOnMembers(m, rows) ==
  CASE m.type = "member_added" ->
         [rows EXCEPT ![m.target] = [role |-> m.role, expires |-> m.expires]]
    [] m.type = "member_removed" /\ Active(rows[m.target], clock) ->
         [rows EXCEPT ![m.target] = NoMember]
    [] m.type = "member_role_changed" ->
         [rows EXCEPT ![m.target].role = m.role]
    [] OTHER -> rows

\* executeMemberRoleChanged of a member who is gone: ErrUnappliable.
Unappliable(m) ==
  m.type = "member_role_changed" /\ ~Active(members[m.app][m.target], clock)

\* An uncommitted INSERT of the same primary key makes a second one wait.
InsertBlocked(r) ==
  \E q \in Reqs \ {r} : pc[q] = "commit" /\ row[q].id = msg[r].id

RowFor(m, seq) ==
  [id |-> m.id, app |-> m.app, seq |-> seq, type |-> m.type, by |-> m.by,
   ord |-> nextOrd, at |-> clock, tpl |-> m.tpl, rev |-> m.rev]

\* GetNextSequence, INSERT, executeEvent, updateAppVersion.  The ordinal is
\* consumed even when the insert conflicts or the execution fails.
InsertAndExecute(r) ==
  LET m == msg[r] IN
  /\ pc[r] = "insert"
  /\ ~InsertBlocked(r)
  /\ nextOrd' = nextOrd + 1
  /\ IF (\E e \in events : e.id = m.id) \/ Unappliable(m)
       THEN Return(r) /\ lock' = Unlocked(r)
       ELSE /\ \/ /\ Sequenced(m)
                  /\ \E seq \in GetNextSequence(events, m.app, apps[m.app].lastSeq) :
                       row' = [row EXCEPT ![r] = RowFor(m, seq)]
               \/ /\ ~Sequenced(m)
                  /\ row' = [row EXCEPT ![r] = RowFor(m, 0)]
            /\ pc' = [pc EXCEPT ![r] = "commit"]
            /\ UNCHANGED <<msg, lock>>
  /\ UNCHANGED <<appVars, events, issued, clock>>

\* Mutant: only submitted events raise the mark.
AfterExecutionAccepted(app, m, seq) ==
  CASE m.type = "application_deleted" -> [app EXCEPT !.deletedAt = clock]
    [] m.op = "accept" /\ m.type # "application_deleted" /\ app.deletedAt = 0 /\ seq > app.lastSeq ->
         [app EXCEPT !.lastSeq = seq]
    [] OTHER -> app

\* UpdateLastSequence raises the high-water mark of an application that is not
\* deleted; on one that is, it fails and the failure is only logged.
AfterExecution(app, m, seq) ==
  CASE m.type = "application_deleted" -> [app EXCEPT !.deletedAt = clock]
    [] m.type # "application_deleted" /\ app.deletedAt = 0 /\ seq > app.lastSeq ->
         [app EXCEPT !.lastSeq = seq]
    [] OTHER -> app

\* tx.Commit: row, effects and high-water mark become visible together.
Commit(r) ==
  LET m == msg[r] IN
  /\ pc[r] = "commit"
  /\ events' = events \cup {row[r]}
  /\ issued' = issued \cup
       {[app |-> m.app, seq |-> row[r].seq, id |-> m.id, at |-> row[r].at, type |-> m.type]}
  /\ IF Sequenced(m)
       THEN /\ apps' = [apps EXCEPT ![m.app] = AfterExecution(@, m, row[r].seq)]
            /\ members' = [members EXCEPT ![m.app] = ExecuteOnMembers(m, @)]
       ELSE UNCHANGED <<apps, members>>
  /\ lock' = Unlocked(r)
  /\ Goto(r, "broadcast")
  /\ UNCHANGED <<nextOrd, wiped, clock>>

\* broadcastEvent, after the lock is gone, and the answer.
Broadcast(r) ==
  /\ pc[r] = "broadcast"
  /\ Return(r)
  /\ UNCHANGED <<appVars, logVars, lock, clock>>

\* lock_timeout = 5s: waiting for the row lock or for another insert.
LockTimeout(r) ==
  /\ pc[r] \in {"begin", "insert"}
  /\ Sequenced(msg[r])
  /\ \/ pc[r] = "begin" /\ lock[msg[r].app] # NoReq
     \/ pc[r] = "insert" /\ InsertBlocked(r)
  /\ Abort(r)

-----------------------------------------------------------------------------
(* Failures and background work.                                            *)

\* A statement fails (connection lost, pool exhausted): everything the
\* transaction did is rolled back.
StatementFails(r) == pc[r] \notin {"idle", "broadcast"} /\ Abort(r)

\* The process dies: every transaction rolls back, no answer is sent.
Crash ==
  /\ \E r \in Reqs : pc[r] # "idle"
  /\ pc' = [r \in Reqs |-> "idle"]
  /\ msg' = [r \in Reqs |-> NoMsg]
  /\ row' = [r \in Reqs |-> NoRow]
  /\ lock' = [a \in Apps |-> NoReq]
  /\ UNCHANGED <<appVars, logVars, clock>>

\* CleanupOldEvents.
CleanupOldEvents ==
  /\ events' = Retained(events, clock - Retention)
  /\ UNCHANGED <<appVars, nextOrd, issued, lock, reqVars, clock>>

\* PurgeApplication: the row goes, and its members and events by cascade.
PurgeApplication(a) ==
  /\ apps[a].exists
  /\ apps[a].deletedAt # 0
  /\ apps[a].deletedAt < clock - PurgeAfter
  /\ lock[a] = NoReq
  /\ apps' = [apps EXCEPT ![a] = NoAppRow]
  /\ members' = [members EXCEPT ![a] = [k \in Keys |-> NoMember]]
  /\ events' = {e \in events : e.app # a}
  /\ issued' = {x \in issued : x.app # a}
  /\ wiped' = [wiped EXCEPT ![a] = FALSE]
  /\ UNCHANGED <<nextOrd, lock, reqVars, clock>>

\* A tick is a day; requests end within seconds, so none is under way.
Tick ==
  /\ clock < MaxClock
  /\ \A r \in Reqs : pc[r] = "idle"
  /\ clock' = clock + 1
  /\ UNCHANGED <<appVars, logVars, lock, reqVars>>

RequestStep(r) ==
  \/ MoveGuard(r) \/ Authorize(r) \/ OwnerCheck(r)
  \/ RegisterOwnerCheck(r) \/ RegisterQuotaCheck(r)
  \/ RegisterApplication(r) \/ StartMove(r) \/ AbortMove(r)
  \/ CompleteMove(r) \/ DeleteApplication(r) \/ SetAgentRead(r)
  \/ BeginTx(r) \/ Dedupe(r) \/ InsertAndExecute(r)
  \/ Commit(r) \/ Broadcast(r)

Arrival(r) == AcceptEvent(r) \/ ProduceEvent(r) \/ ApplicationRequest(r)

Next ==
  \/ \E r \in Reqs : Arrival(r) \/ RequestStep(r) \/ LockTimeout(r) \/ StatementFails(r)
  \/ Crash
  \/ CleanupOldEvents
  \/ \E a \in Apps : PurgeApplication(a)
  \/ Tick

Spec == Init /\ [][Next]_vars

\* A goroutine that can run does run, and PostgreSQL queues row-lock waiters:
\* one that keeps finding the lock free is eventually granted it.
Fairness == \A r \in Reqs : SF_vars(RequestStep(r))

FairSpec == Spec /\ Fairness

-----------------------------------------------------------------------------
(* Properties.                                                              *)

\* Two rows of one application never carry the same sequence number, whatever
\* requests race (GetNextSequence under the row lock of persistAndApply).
SequenceUnique ==
  \A e, f \in events : (e.app # NoApp /\ e.app = f.app /\ e.seq = f.seq) => e = f

\* Within an application the feed's cursor order (ordinal) is the sequence
\* order, so a client that reads GET /events in order never sees a sequence
\* number go down, and the newest row DeleteOlderThan keeps is the highest.
CursorFollowsSequence ==
  \A e, f \in events : (e.app # NoApp /\ e.app = f.app /\ e.seq < f.seq) => e.ord < f.ord

\* A request between BEGIN and COMMIT of a sequenced event holds the row lock of
\* its application ...
InTx(r) == pc[r] \in {"dedupe", "insert", "commit"}

LockHeld ==
  \A r \in Reqs : (InTx(r) /\ Sequenced(msg[r])) => lock[msg[r].app] = r

\* ... so that the row it is about to commit lies above the whole log of the
\* application, in sequence and in cursor order, and above its high-water mark.
PendingRowOnTop ==
  \A r \in Reqs :
    pc[r] = "commit" =>
      /\ row[r].app = msg[r].app
      /\ row[r].type = msg[r].type
      /\ row[r].ord < nextOrd
      /\ Sequenced(msg[r]) =>
           /\ apps[msg[r].app].lastSeq < row[r].seq
           /\ \A e \in events : e.app = row[r].app => e.seq < row[r].seq /\ e.ord < row[r].ord

OrdinalsBelowNext == \A e \in events : e.ord < nextOrd

\* The inductive invariant behind the order of the log.
OrderInv ==
  LockHeld /\ PendingRowOnTop /\ OrdinalsBelowNext /\ SequenceUnique /\ CursorFollowsSequence

\* A retried submission is applied at most once within the retention of its
\* row (the duplicate check of AcceptEvent and the one under the lock).
AppliedOnce ==
  \A x, y \in issued :
    (x.id = y.id /\ x # y /\ ~Wiped(x.app) /\ ~Wiped(y.app)) =>
      x.at - y.at > Retention \/ y.at - x.at > Retention

\* The inductive invariant behind AppliedOnce, beside LogInv: what was committed
\* less than the retention ago is still in the log, unless a completed move
\* emptied it, and what is about to be committed is stamped with today.
IssuedKept ==
  \A x \in issued :
    \/ Wiped(x.app) \/ x.at + Retention < clock
    \/ \E e \in events : e.id = x.id /\ e.app = x.app /\ e.at = x.at
RowsOfToday == \A r \in Reqs : pc[r] = "commit" => row[r].at = clock
AppliedInv == IssuedKept /\ RowsOfToday /\ AppliedOnce

\* The log of a moved application holds nothing but application_moved: no event
\* that raced CompleteMove lands on the tombstone.
TombstoneClean ==
  \A e \in events :
    (e.app # NoApp /\ apps[e.app].movedAt # 0) => e.type = "application_moved"

\* A moved application is deleted, and a transaction for another event than
\* application_moved is never open on a moved one.
TombstoneDeleted == \A a \in Apps : apps[a].movedAt # 0 => apps[a].deletedAt # 0

TxOnUnmovedRow ==
  \A r \in Reqs :
    (InTx(r) /\ Sequenced(msg[r]) /\ msg[r].type # "application_moved") =>
      apps[msg[r].app].movedAt = 0

\* The inductive invariant behind TombstoneClean.
TombstoneInv == TombstoneDeleted /\ TxOnUnmovedRow /\ TombstoneClean

\* No accepted event ever takes an application's last owner away
\* (AuthorizeEvent's owner rules, checked before the row lock is taken).
OwnerKept ==
  \A a \in Apps : apps[a].exists => \E k \in Keys : members[a][k].role = "owner"

\* Every request ends: nobody waits for a row lock for ever.
RequestsEnd == \A r \in Reqs : pc[r] # "idle" ~> pc[r] = "idle"

-----------------------------------------------------------------------------
(* The log as its readers see it (AppLog).                                   *)

\* What GetNextSequence starts from.
Mark(a) ==
  LET marks == HighWater(events, a, apps[a].lastSeq)
  IN CHOOSE h \in marks : \A s \in marks : s <= h

Marks == [a \in Apps |-> Mark(a)]

\* What a reader can tell of the committed rows.
Entries == {[app |-> e.app, seq |-> e.seq, id |-> e.id] : e \in events}

Log == INSTANCE AppLog WITH
  log <- Entries,
  mark <- Marks,
  people <- members,
  NobodyIn <- [k \in Keys |-> NoMember]

\* However requests race, fail or are retried, and whatever cleanup prunes, the
\* pipeline is one atomic, gap-free log per application: a number, its event
\* and the event's effect on the members appear together, no number is skipped
\* or given twice between two ends of the log, and no id is in it twice.
ImplementsLog == Log!Spec

\* The inductive invariant behind ImplementsLog.  An application with rows has
\* a newest one, the one cleanup spares ...
NewestThere ==
  \A e \in events : e.app # NoApp =>
    \E n \in events : n.app = e.app /\ \A f \in events : f.app = e.app => f.ord <= n.ord

\* ... the row about to be committed has the number after the mark ...
PendingNext ==
  \A r \in Reqs : pc[r] = "commit" =>
    IF Sequenced(msg[r])
      THEN row[r].seq - 1 \in HighWater(events, msg[r].app, apps[msg[r].app].lastSeq)
      ELSE row[r].seq = 0

\* ... and an id of its own.
PendingIds ==
  \A r \in Reqs : pc[r] = "commit" =>
    /\ row[r].id = msg[r].id
    /\ \A e \in events : e.id # row[r].id
    /\ \A q \in Reqs : pc[q] = "commit" /\ row[q].id = row[r].id => q = r

LogInv == NewestThere /\ PendingNext /\ PendingIds
=============================================================================
