------------------------ MODULE EventPipelineProofs ------------------------
(***************************************************************************)
(* Machine-checked proofs about the event pipeline and the feed read from   *)
(* it, for every set of requests, applications, keys and messages and every *)
(* value of the bounds, in four parts:                                      *)
(*   - EventPipeline keeps its types, the order of its log, the tombstones  *)
(*     of moved applications and their founders;                            *)
(*   - it implements AppLog: every step is a step of one atomic log per     *)
(*     application, or changes nothing that a reader of the log can see;    *)
(*   - from the same invariant, no id is applied twice in the retention;    *)
(*   - EventFeed gives a client every row it may see, and what it loses     *)
(*     shows in the numbers and versions it is sent.                        *)
(***************************************************************************)
EXTENDS EventFeed, TLAPS, FiniteSetTheorems, WellFoundedInduction

USE ReqsAssumption, MessagesAssumption, SpaceIdsAssumption, NoAppAssumption,
    NoTplAssumption, NoKeyAssumption, BoundsAssumption

-----------------------------------------------------------------------------
(* Type correctness.                                                        *)

\* A handler that returns leaves the request table well-formed.
LEMMA ReturnKeepsType ==
  ASSUME RequestsOK, NEW r \in Reqs, Return(r)
  PROVE  RequestsOK'
BY DEF RequestsOK, Return, Steps

\* So does a handler that goes on to a later step, unless that step is the
\* commit of a row it does not have.
LEMMA GotoKeepsType ==
  ASSUME RequestsOK, NEW r \in Reqs, NEW step \in Steps \ {"idle", "commit"},
         pc[r] # "idle", Goto(r, step)
  PROVE  RequestsOK'
BY DEF RequestsOK, Goto, Steps

\* Commit and rollback only ever free locks.
LEMMA UnlockedType ==
  ASSUME lock \in [Apps -> Reqs \cup {NoReq}], NEW r \in Reqs
  PROVE  Unlocked(r) \in [Apps -> Reqs \cup {NoReq}]
BY DEF Unlocked

\* A request keeps its type when the space gives it an id.
LEMMA RequestWithId ==
  ASSUME NEW m \in Requests, NEW id \in Ids
  PROVE  [m EXCEPT !.id = id] \in Requests
BY DEF Requests

\* The request that completed a move is one for an application_moved event.
LEMMA RequestMoved ==
  ASSUME NEW m \in Requests
  PROVE  [m EXCEPT !.op = "produce", !.type = "application_moved"] \in Requests
BY DEF Requests, Ops, EventTypes, AppScopedTypes

\* A row built for a request is a row of the events table.
LEMMA RowForType ==
  ASSUME NEW m \in Requests, NEW seq \in Nat, nextOrd \in Nat, clock \in Nat
  PROVE  RowFor(m, seq) \in EventRows
BY DEF RowFor, EventRows, Requests

\* The next sequence number is a natural number.
LEMMA NextSequenceType ==
  ASSUME NEW E \in SUBSET EventRows, NEW a, NEW l \in Nat,
         NEW n \in GetNextSequence(E, a, l)
  PROVE  n \in Nat /\ \A s \in HighWater(E, a, l) : s < n
<1>1. HighWater(E, a, l) \subseteq Nat
  BY DEF HighWater, EventRows
<1>2. PICK h \in HighWater(E, a, l) :
        n = h + 1 /\ \A s \in HighWater(E, a, l) : s <= h
  BY DEF GetNextSequence
<1>3. QED
  BY <1>1, <1>2

\* What executeEvent does to the member rows leaves member rows.
LEMMA ExecuteType ==
  ASSUME NEW m \in Requests, NEW rows \in [Keys -> MemberRows]
  PROVE  ExecuteOnMembers(m, rows) \in [Keys -> MemberRows]
<1>1. [role |-> m.role, expires |-> m.expires] \in MemberRows
  BY DEF Requests, MemberRows
<1>2. NoMember \in MemberRows
  BY DEF NoMember, MemberRows
<1>3. [rows EXCEPT ![m.target].role = m.role] \in [Keys -> MemberRows]
  BY DEF Requests, MemberRows
<1>4. QED
  BY <1>1, <1>2, <1>3 DEF ExecuteOnMembers

\* What it does to the application row leaves an application row.
LEMMA AfterExecutionType ==
  ASSUME NEW app \in AppRows, NEW m \in Requests, NEW seq \in Nat, clock \in Nat
  PROVE  AfterExecution(app, m, seq) \in AppRows
BY DEF AfterExecution, AppRows

\* Updating one entry of a table keeps its type.
LEMMA UpdateType ==
  ASSUME NEW S, NEW T, NEW f \in [S -> T], NEW x, NEW v, x \in S => v \in T
  PROVE  [f EXCEPT ![x] = v] \in [S -> T]
OBVIOUS

\* The application rows that the move operations, deletion and the agent switch
\* write are application rows.
LEMMA NewAppRowType ==
  ASSUME NEW app \in AppRows, NEW now \in Nat, NEW flag \in BOOLEAN
  PROVE  /\ [app EXCEPT !.movedTo = flag] \in AppRows
         /\ [app EXCEPT !.deletedAt = now] \in AppRows
         /\ [app EXCEPT !.agentRead = flag] \in AppRows
         /\ [app EXCEPT !.movedAt = now, !.deletedAt = now] \in AppRows
BY DEF AppRows

\* An UPDATE of one application row keeps the table's type.
LEMMA UpdateApplicationType ==
  ASSUME NEW r, NEW op, NEW where, NEW newRow,
         apps \in [Apps -> AppRows], msg[r].app \in Apps => newRow \in AppRows,
         UpdateApplication(r, op, where, newRow)
  PROVE  apps' \in [Apps -> AppRows]
<1> DEFINE a == msg[r].app
           v == IF apps[a].exists /\ where THEN newRow ELSE apps[a]
<1>1. a \in Apps => v \in AppRows
  OBVIOUS
<1>2. apps' = [apps EXCEPT ![a] = v]
  BY DEF UpdateApplication
<1>3. QED
  BY <1>1, <1>2, UpdateType

\* The initial state is well-typed.
LEMMA TypeInit == Init => TypeOK
BY DEF Init, TypeOK, TablesOK, RequestsOK, NoAppRow, AppRows, NoMember, MemberRows, Steps

\* Every step keeps the types: one case per action.
LEMMA TypeStep == TypeOK /\ [Next]_vars => TypeOK'
<1> SUFFICES ASSUME TypeOK, [Next]_vars PROVE TypeOK'
  OBVIOUS
<1> USE DEF TypeOK
<1>1. ASSUME NEW r \in Reqs, AcceptEvent(r) PROVE TypeOK'
  <2>1. TablesOK'
    BY <1>1 DEF AcceptEvent, TablesOK, appVars, logVars
  <2>2. RequestsOK'
    BY <1>1 DEF AcceptEvent, RequestsOK, Steps
  <2>3. QED
    BY <2>1, <2>2
<1>2. ASSUME NEW r \in Reqs, ProduceEvent(r) PROVE TypeOK'
  <2>1. TablesOK'
    BY <1>2 DEF ProduceEvent, TablesOK, appVars, logVars
  <2>2. PICK m \in Messages, id \in FreshIds : msg' = [msg EXCEPT ![r] = [m EXCEPT !.id = id]]
    BY <1>2 DEF ProduceEvent
  <2>3. [m EXCEPT !.id = id] \in Requests
    BY <2>2, RequestWithId DEF FreshIds
  <2>4. RequestsOK'
    BY <1>2, <2>2, <2>3 DEF ProduceEvent, RequestsOK, Steps
  <2>5. QED
    BY <2>1, <2>4
<1>3. ASSUME NEW r \in Reqs, ApplicationRequest(r) PROVE TypeOK'
  <2>1. TablesOK'
    BY <1>3 DEF ApplicationRequest, TablesOK, appVars, logVars
  <2>2. PICK m \in Messages, id \in FreshIds :
          /\ msg' = [msg EXCEPT ![r] = [m EXCEPT !.id = id]]
          /\ pc' = [pc EXCEPT ![r] = IF m.op = "register" THEN "regOwner" ELSE "guard"]
    BY <1>3 DEF ApplicationRequest
  <2>3. [m EXCEPT !.id = id] \in Requests
    BY <2>2, RequestWithId DEF FreshIds
  <2>4. RequestsOK'
    BY <1>3, <2>2, <2>3 DEF ApplicationRequest, RequestsOK, Steps
  <2>5. QED
    BY <2>1, <2>4
<1>4. ASSUME NEW r \in Reqs, MoveGuard(r) PROVE TypeOK'
  <2>1. TablesOK'
    BY <1>4 DEF MoveGuard, TablesOK, appVars, logVars
  <2>2. PICK step \in {"authorize", "write", "owner"} : Return(r) \/ Goto(r, step)
    BY <1>4 DEF MoveGuard
  <2>3. RequestsOK'
    BY <1>4, <2>2, ReturnKeepsType, GotoKeepsType DEF MoveGuard, Steps
  <2>4. QED
    BY <2>1, <2>3
<1>5. ASSUME NEW r \in Reqs,
             Authorize(r) \/ OwnerCheck(r) \/ RegisterOwnerCheck(r) \/ RegisterQuotaCheck(r)
      PROVE TypeOK'
  <2>1. TablesOK'
    BY <1>5 DEF Authorize, OwnerCheck, RegisterOwnerCheck, RegisterQuotaCheck, TablesOK, appVars, logVars
  <2>2. PICK step \in {"begin", "write", "regQuota", "guard"} : Return(r) \/ Goto(r, step)
    BY <1>5 DEF Authorize, OwnerCheck, RegisterOwnerCheck, RegisterQuotaCheck
  <2>3. pc[r] # "idle"
    BY <1>5 DEF Authorize, OwnerCheck, RegisterOwnerCheck, RegisterQuotaCheck
  <2>4. RequestsOK'
    BY <2>2, <2>3, ReturnKeepsType, GotoKeepsType DEF Steps
  <2>5. QED
    BY <2>1, <2>4
<1>6. ASSUME NEW r \in Reqs, RegisterApplication(r) PROVE TypeOK'
  <2>1. msg[r] \in Requests
    BY <1>6 DEF RegisterApplication, Writes, RequestsOK
  <2>2. RequestsOK'
    BY <1>6, ReturnKeepsType DEF RegisterApplication
  <2>3. apps' \in [Apps -> AppRows]
    BY <1>6 DEF RegisterApplication, TablesOK, AppRows
  <2>4. members' \in [Apps -> [Keys -> MemberRows]]
    <3> DEFINE rows(a) == [k \in Keys |-> IF msg[r].members[k] = "none" THEN members[a][k]
                             ELSE [role |-> msg[r].members[k], expires |-> 0]]
    <3>1. ASSUME NEW a \in Apps PROVE rows(a) \in [Keys -> MemberRows]
      BY <2>1 DEF TablesOK, MemberRows, Requests
    <3>2. members' = [members EXCEPT ![msg[r].app] = rows(msg[r].app)]
      BY <1>6 DEF RegisterApplication
    <3>3. QED
      BY <3>1, <3>2 DEF TablesOK
  <2>5. TablesOK'
    BY <1>6, <2>3, <2>4 DEF RegisterApplication, TablesOK, logVars
  <2>6. QED
    BY <2>2, <2>5
<1>7. ASSUME NEW r \in Reqs,
             StartMove(r) \/ AbortMove(r) \/ DeleteApplication(r) \/ SetAgentRead(r)
      PROVE TypeOK'
  <2>1. msg[r] \in Requests /\ pc[r] = "write" /\ Return(r)
    BY <1>7 DEF StartMove, AbortMove, DeleteApplication, SetAgentRead, UpdateApplication, Writes, RequestsOK
  <2>2. RequestsOK'
    BY <2>1, ReturnKeepsType
  <2>4. apps' \in [Apps -> AppRows]
    <3>0. /\ apps \in [Apps -> AppRows]
          /\ msg[r].app \in Apps =>
               /\ \A flag \in BOOLEAN : /\ [apps[msg[r].app] EXCEPT !.movedTo = flag] \in AppRows
                                        /\ [apps[msg[r].app] EXCEPT !.agentRead = flag] \in AppRows
               /\ [apps[msg[r].app] EXCEPT !.deletedAt = clock] \in AppRows
      BY NewAppRowType DEF TablesOK
    <3>1. CASE StartMove(r)
      BY <3>1, <3>0, UpdateApplicationType DEF StartMove
    <3>2. CASE AbortMove(r)
      BY <3>2, <3>0, UpdateApplicationType DEF AbortMove
    <3>3. CASE DeleteApplication(r)
      BY <3>3, <3>0, UpdateApplicationType DEF DeleteApplication
    <3>4. CASE SetAgentRead(r)
      BY <3>4, <3>0, UpdateApplicationType DEF SetAgentRead
    <3>10. QED
      BY <1>7, <3>1, <3>2, <3>3, <3>4
  <2>5. UNCHANGED <<members, wiped, logVars, lock, clock>>
    BY <1>7 DEF StartMove, AbortMove, DeleteApplication, SetAgentRead, UpdateApplication
  <2>6. QED
    BY <2>2, <2>4, <2>5 DEF TablesOK, logVars
<1>8. ASSUME NEW r \in Reqs, CompleteMove(r) PROVE TypeOK'
  <2>1. msg[r] \in Requests
    BY <1>8 DEF CompleteMove, Writes, RequestsOK
  <2>2. [msg[r] EXCEPT !.op = "produce", !.type = "application_moved"] \in Requests
    BY <2>1, RequestMoved
  <2>3. TablesOK'
    <3>1. msg[r].app \in Apps =>
            [apps[msg[r].app] EXCEPT !.movedAt = clock, !.deletedAt = clock] \in AppRows
      BY NewAppRowType DEF TablesOK
    <3>2. apps' \in [Apps -> AppRows]
      BY <1>8, <3>1, UpdateType DEF CompleteMove, TablesOK
    <3>3. QED
      BY <1>8, <3>2 DEF CompleteMove, TablesOK
  <2>4. CASE Return(r)
    BY <2>3, <2>4, ReturnKeepsType
  <2>5. CASE /\ msg' = [msg EXCEPT ![r] = [msg[r] EXCEPT !.op = "produce", !.type = "application_moved"]]
             /\ pc' = [pc EXCEPT ![r] = "begin"]
             /\ row' = row
    BY <2>2, <2>3, <2>5 DEF RequestsOK, Steps
  <2>6. QED
    BY <1>8, <2>1, <2>4, <2>5 DEF CompleteMove, RequestsOK
<1>9. ASSUME NEW r \in Reqs, BeginTx(r) PROVE TypeOK'
  <2>1. msg[r] \in Requests
    BY <1>9 DEF BeginTx, RequestsOK
  <2>2. RequestsOK'
    BY <1>9, ReturnKeepsType, GotoKeepsType DEF BeginTx, Steps
  <2>3. TablesOK'
    BY <1>9, <2>1 DEF BeginTx, TablesOK, appVars, logVars, Requests, Sequenced
  <2>4. QED
    BY <2>2, <2>3
<1>10. ASSUME NEW r \in Reqs, Dedupe(r) PROVE TypeOK'
  <2>1. RequestsOK'
    BY <1>10, ReturnKeepsType, GotoKeepsType DEF Dedupe, Steps
  <2>2. TablesOK'
    BY <1>10, UnlockedType DEF Dedupe, TablesOK, appVars, logVars
  <2>3. QED
    BY <2>1, <2>2
<1>11. ASSUME NEW r \in Reqs, InsertAndExecute(r) PROVE TypeOK'
  <2>1. msg[r] \in Requests /\ nextOrd \in Nat /\ clock \in Nat /\ events \in SUBSET EventRows
    BY <1>11 DEF InsertAndExecute, RequestsOK, TablesOK
  <2>2. TablesOK'
    BY <1>11, UnlockedType DEF InsertAndExecute, TablesOK, appVars
  <2>3. CASE Return(r)
    BY <2>2, <2>3, ReturnKeepsType
  <2>4. CASE ~Return(r)
    <3>1. PICK seq \in Nat : row' = [row EXCEPT ![r] = RowFor(msg[r], seq)]
      <4>1. CASE Sequenced(msg[r])
        <5>1. msg[r].app \in Apps
          BY <2>1, <4>1 DEF Sequenced, Requests
        <5>2. apps[msg[r].app].lastSeq \in Nat
          BY <5>1 DEF TablesOK, AppRows
        <5>3. PICK seq \in GetNextSequence(events, msg[r].app, apps[msg[r].app].lastSeq) :
                row' = [row EXCEPT ![r] = RowFor(msg[r], seq)]
          BY <1>11, <2>4, <4>1 DEF InsertAndExecute
        <5>4. seq \in Nat
          BY <2>1, <5>2, <5>3, NextSequenceType
        <5>5. QED
          BY <5>3, <5>4
      <4>2. CASE ~Sequenced(msg[r])
        BY <1>11, <2>4, <4>2 DEF InsertAndExecute
      <4>3. QED
        BY <4>1, <4>2
    <3>2. RowFor(msg[r], seq) \in EventRows
      BY <2>1, RowForType
    <3>3. pc' = [pc EXCEPT ![r] = "commit"] /\ msg' = msg
      BY <1>11, <2>4 DEF InsertAndExecute
    <3>4. RequestsOK'
      BY <2>1, <3>1, <3>2, <3>3 DEF RequestsOK, Steps
    <3>5. QED
      BY <2>2, <3>4
  <2>5. QED
    BY <2>3, <2>4
<1>12. ASSUME NEW r \in Reqs, Commit(r) PROVE TypeOK'
  <2>1. msg[r] \in Requests /\ row[r] \in EventRows
    BY <1>12 DEF Commit, RequestsOK
  <2>2. RequestsOK'
    BY <1>12, GotoKeepsType DEF Commit, Steps
  <2>3. lock' \in [Apps -> Reqs \cup {NoReq}]
    BY <1>12, UnlockedType DEF Commit, TablesOK
  <2>4. events' \subseteq EventRows /\ issued' \subseteq Issues
    BY <1>12, <2>1 DEF Commit, TablesOK, Issues, EventRows, Requests
  <2>5. row[r].seq \in Nat /\ clock \in Nat
    BY <2>1 DEF EventRows, TablesOK
  <2>6. apps' \in [Apps -> AppRows]
    BY <1>12, <2>1, <2>5, AfterExecutionType DEF Commit, TablesOK
  <2>7. members' \in [Apps -> [Keys -> MemberRows]]
    BY <1>12, <2>1, ExecuteType DEF Commit, TablesOK
  <2>8. QED
    BY <1>12, <2>2, <2>3, <2>4, <2>6, <2>7 DEF Commit, TablesOK
<1>13. ASSUME NEW r \in Reqs, Broadcast(r) PROVE TypeOK'
  BY <1>13, ReturnKeepsType DEF Broadcast, TablesOK, appVars, logVars
<1>14. ASSUME NEW r \in Reqs, Abort(r) PROVE TypeOK'
  BY <1>14, ReturnKeepsType, UnlockedType DEF Abort, TablesOK, appVars, logVars
<1>15. CASE Crash
  BY <1>15 DEF Crash, TablesOK, RequestsOK, Steps, appVars, logVars
<1>16. CASE CleanupOldEvents
  BY <1>16 DEF CleanupOldEvents, Retained, TablesOK, RequestsOK, reqVars, appVars
<1>17. ASSUME NEW a \in Apps, PurgeApplication(a) PROVE TypeOK'
  <2>1. NoAppRow \in AppRows /\ NoMember \in MemberRows
    BY DEF NoAppRow, AppRows, NoMember, MemberRows
  <2>2. QED
    BY <1>17, <2>1 DEF PurgeApplication, TablesOK, RequestsOK, reqVars
<1>18. CASE Tick
  BY <1>18 DEF Tick, TablesOK, RequestsOK, reqVars, appVars, logVars
<1>19. CASE UNCHANGED vars
  BY <1>19 DEF vars, TablesOK, RequestsOK
<1>20. QED
  BY <1>1, <1>2, <1>3, <1>4, <1>5, <1>6, <1>7, <1>8, <1>9, <1>10, <1>11, <1>12, <1>13,
     <1>14, <1>15, <1>16, <1>17, <1>18, <1>19
  DEF Next, Arrival, RequestStep, LockTimeout, StatementFails

\* Type correctness: in every behaviour every table, lock and request has its
\* type, and a request that is under way knows what it serves.
THEOREM TypeCorrect == Spec => []TypeOK
BY TypeInit, TypeStep, PTL DEF Spec
-----------------------------------------------------------------------------
(* The order of the log.                                                    *)

\* What most steps have in common: no row is added, ordinals only grow, and a
\* request that is inside a transaction afterwards was there before, with the
\* same request, row, lock and application row.
Frame ==
  /\ events' \subseteq events
  /\ nextOrd' >= nextOrd
  /\ \A q \in Reqs :
       InTx(q)' =>
         /\ InTx(q) /\ pc'[q] = pc[q] /\ msg'[q] = msg[q] /\ row'[q] = row[q]
         /\ Sequenced(msg[q]) =>
              /\ lock'[msg[q].app] = lock[msg[q].app]
              /\ apps'[msg[q].app] = apps[msg[q].app]

\* A framed step keeps the log's order.
LEMMA FrameKeepsOrder ==
  ASSUME TypeOK, TypeOK', OrderInv, Frame
  PROVE  OrderInv'
<1> USE DEF TypeOK, TablesOK, RequestsOK
<1>1. LockHeld'
  BY DEF OrderInv, LockHeld, Frame, Sequenced
<1>2. OrdinalsBelowNext'
  BY DEF OrderInv, OrdinalsBelowNext, Frame, EventRows
<1>3. PendingRowOnTop'
  <2> SUFFICES ASSUME NEW q \in Reqs, pc'[q] = "commit"
               PROVE  /\ row'[q].app = msg'[q].app
                      /\ row'[q].type = msg'[q].type
                      /\ row'[q].ord < nextOrd'
                      /\ Sequenced(msg[q])' =>
                           /\ apps'[msg'[q].app].lastSeq < row'[q].seq
                           /\ \A e \in events' : e.app = row'[q].app => e.seq < row'[q].seq /\ e.ord < row'[q].ord
    BY DEF PendingRowOnTop
  <2>1. /\ pc[q] = "commit" /\ msg'[q] = msg[q] /\ row'[q] = row[q]
        /\ Sequenced(msg[q]) => apps'[msg[q].app].lastSeq = apps[msg[q].app].lastSeq
    BY DEF Frame, InTx
  <2>2. row[q] \in EventRows
    BY <2>1
  <2>3. row'[q].ord < nextOrd'
    BY <2>1, <2>2 DEF OrderInv, PendingRowOnTop, Frame, EventRows
  <2>4. QED
    BY <2>1, <2>3 DEF OrderInv, PendingRowOnTop, Frame, Sequenced
<1>4. SequenceUnique' /\ CursorFollowsSequence'
  BY DEF OrderInv, SequenceUnique, CursorFollowsSequence, Frame
<1>5. QED
  BY <1>1, <1>2, <1>3, <1>4 DEF OrderInv

\* A handler that returns, freeing only locks of its own, is a framed step.
LEMMA ReturnIsFramed ==
  ASSUME TypeOK, LockHeld, NEW r \in Reqs, Return(r),
         lock' = lock \/ lock' = Unlocked(r),
         apps' = apps, events' = events, nextOrd' >= nextOrd
  PROVE  Frame
<1> USE DEF TypeOK, TablesOK, RequestsOK
<1>1. ASSUME NEW q \in Reqs, InTx(q)'
      PROVE  /\ q # r /\ InTx(q) /\ pc'[q] = pc[q] /\ msg'[q] = msg[q] /\ row'[q] = row[q]
             /\ Sequenced(msg[q]) => lock'[msg[q].app] = lock[msg[q].app]
  <2>1. q # r /\ InTx(q) /\ pc'[q] = pc[q] /\ msg'[q] = msg[q] /\ row'[q] = row[q]
    BY <1>1 DEF Return, InTx
  <2>2. ASSUME Sequenced(msg[q]) PROVE lock'[msg[q].app] = lock[msg[q].app]
    <3>1. msg[q] \in Requests
      BY <2>1 DEF InTx
    <3>2. lock[msg[q].app] = q /\ msg[q].app \in Apps
      BY <2>1, <2>2, <3>1 DEF LockHeld, Sequenced, Requests
    <3>3. QED
      BY <2>1, <3>2 DEF Unlocked
  <2>3. QED
    BY <2>1, <2>2
<1>2. QED
  BY <1>1 DEF Frame

\* So is a handler that goes on to a step outside any transaction.
LEMMA GotoIsFramed ==
  ASSUME TypeOK, NEW r \in Reqs, NEW step, pc' = [pc EXCEPT ![r] = step],
         step \notin {"dedupe", "insert", "commit"},
         \A q \in Reqs \ {r} : msg'[q] = msg[q] /\ row'[q] = row[q],
         lock' = lock, apps' = apps, events' = events, nextOrd' = nextOrd
  PROVE  Frame
BY DEF TypeOK, TablesOK, RequestsOK, Frame, InTx

\* Every check and arrival is framed.
LEMMA ChecksAreFramed ==
  ASSUME TypeOK, LockHeld, NEW r \in Reqs,
         \/ Arrival(r) \/ MoveGuard(r) \/ Authorize(r) \/ OwnerCheck(r)
         \/ RegisterOwnerCheck(r) \/ RegisterQuotaCheck(r)
  PROVE  Frame
<1> USE DEF TypeOK, TablesOK, RequestsOK
<1>1. CASE Arrival(r)
  <2>1. PICK step \in {"guard", "begin", "regOwner"} : pc' = [pc EXCEPT ![r] = step]
    BY <1>1 DEF Arrival, AcceptEvent, ProduceEvent, ApplicationRequest
  <2>2. /\ \A q \in Reqs \ {r} : msg'[q] = msg[q] /\ row'[q] = row[q]
        /\ lock' = lock /\ apps' = apps /\ events' = events /\ nextOrd' = nextOrd
    BY <1>1 DEF Arrival, AcceptEvent, ProduceEvent, ApplicationRequest, appVars, logVars
  <2>3. QED
    BY <2>1, <2>2, GotoIsFramed
<1>2. CASE ~Arrival(r)
  <2>1. /\ lock' = lock /\ apps' = apps /\ events' = events /\ nextOrd' = nextOrd
        /\ \/ Return(r)
           \/ \E step \in {"authorize", "write", "owner", "begin", "regQuota", "guard"} : Goto(r, step)
    BY <1>2 DEF MoveGuard, Authorize, OwnerCheck, RegisterOwnerCheck, RegisterQuotaCheck, appVars, logVars
  <2>2. CASE Return(r)
    BY <2>1, <2>2, ReturnIsFramed
  <2>3. ASSUME NEW step \in {"authorize", "write", "owner", "begin", "regQuota", "guard"}, Goto(r, step)
        PROVE Frame
    BY <2>1, <2>3, GotoIsFramed DEF Goto
  <2>4. QED
    BY <2>1, <2>2, <2>3
<1>3. QED
  BY <1>1, <1>2

\* A write of an application row that waits for the row lock is framed: nobody
\* is inside a transaction on that application.
LEMMA LockedWritesAreFramed ==
  ASSUME TypeOK, LockHeld, NEW a, lock[a] = NoReq, lock' = lock,
         events' \subseteq events, nextOrd' = nextOrd,
         \A b \in Apps \ {a} : apps'[b] = apps[b],
         \A q \in Reqs : InTx(q)' =>
            InTx(q) /\ pc'[q] = pc[q] /\ msg'[q] = msg[q] /\ row'[q] = row[q]
  PROVE  Frame
<1> USE DEF TypeOK, TablesOK, RequestsOK
<1>1. ASSUME NEW q \in Reqs, InTx(q), Sequenced(msg[q])
      PROVE  msg[q].app \in Apps \ {a}
  <2>1. msg[q] \in Requests
    BY <1>1 DEF InTx
  <2>2. msg[q].app \in Apps /\ lock[msg[q].app] = q
    BY <1>1, <2>1 DEF LockHeld, Sequenced, Requests
  <2>3. QED
    BY <2>2
<1>2. QED
  BY <1>1 DEF Frame

\* The requests a write leaves inside a transaction were there before.
LEMMA WritesLeaveTx ==
  ASSUME TypeOK, NEW r \in Reqs, pc[r] = "write",
         \/ Return(r)
         \/ /\ pc' = [pc EXCEPT ![r] = "begin"]
            /\ row' = row
            /\ \A q \in Reqs \ {r} : msg'[q] = msg[q]
  PROVE  \A q \in Reqs : InTx(q)' =>
            InTx(q) /\ pc'[q] = pc[q] /\ msg'[q] = msg[q] /\ row'[q] = row[q]
BY DEF TypeOK, RequestsOK, Return, InTx

\* The application writes and the purge are framed.
LEMMA AppWritesAreFramed ==
  ASSUME TypeOK, LockHeld, NEW r \in Reqs,
         \/ RegisterApplication(r) \/ StartMove(r) \/ AbortMove(r)
         \/ DeleteApplication(r) \/ SetAgentRead(r) \/ CompleteMove(r)
  PROVE  Frame
<1> USE DEF TypeOK, TablesOK, RequestsOK
<1>1. /\ pc[r] = "write" /\ lock[msg[r].app] = NoReq /\ lock' = lock /\ nextOrd' = nextOrd
  BY DEF RegisterApplication, StartMove, AbortMove, DeleteApplication, SetAgentRead,
         CompleteMove, UpdateApplication, Writes, logVars
<1>2. events' \subseteq events
  BY DEF RegisterApplication, StartMove, AbortMove, DeleteApplication, SetAgentRead,
         CompleteMove, UpdateApplication, logVars
<1>3. \A b \in Apps \ {msg[r].app} : apps'[b] = apps[b]
  BY DEF RegisterApplication, StartMove, AbortMove, DeleteApplication, SetAgentRead,
         CompleteMove, UpdateApplication
<1>4. \/ Return(r)
      \/ /\ pc' = [pc EXCEPT ![r] = "begin"]
         /\ row' = row
         /\ \A q \in Reqs \ {r} : msg'[q] = msg[q]
  BY DEF RegisterApplication, StartMove, AbortMove, DeleteApplication, SetAgentRead,
         CompleteMove, UpdateApplication
<1>5. QED
  BY <1>1, <1>2, <1>3, <1>4, WritesLeaveTx, LockedWritesAreFramed

\* Purge is framed for the same reason.
LEMMA PurgeIsFramed ==
  ASSUME TypeOK, LockHeld, NEW a \in Apps, PurgeApplication(a)
  PROVE  Frame
<1>1. \A q \in Reqs : InTx(q)' =>
         InTx(q) /\ pc'[q] = pc[q] /\ msg'[q] = msg[q] /\ row'[q] = row[q]
  BY DEF PurgeApplication, reqVars, InTx
<1>2. /\ lock[a] = NoReq /\ lock' = lock /\ events' \subseteq events /\ nextOrd' = nextOrd
      /\ \A b \in Apps \ {a} : apps'[b] = apps[b]
  BY DEF PurgeApplication, TypeOK, TablesOK
<1>3. QED
  BY <1>1, <1>2, LockedWritesAreFramed

\* Rollbacks, crashes, cleanup and the clock are framed.
LEMMA BackgroundIsFramed ==
  ASSUME TypeOK, LockHeld,
         \/ \E r \in Reqs : Broadcast(r) \/ Abort(r)
         \/ Crash \/ CleanupOldEvents \/ Tick \/ UNCHANGED vars
  PROVE  Frame
<1> USE DEF TypeOK, TablesOK
<1>1. ASSUME NEW r \in Reqs, Broadcast(r) \/ Abort(r) PROVE Frame
  <2>1. /\ Return(r)
        /\ lock' = lock \/ lock' = Unlocked(r)
        /\ apps' = apps /\ events' = events /\ nextOrd' = nextOrd
    BY <1>1 DEF Broadcast, Abort, appVars, logVars
  <2>2. QED
    BY <2>1, ReturnIsFramed
<1>2. CASE Crash
  BY <1>2 DEF Crash, Frame, InTx, appVars, logVars
<1>3. CASE CleanupOldEvents
  BY <1>3 DEF CleanupOldEvents, Retained, Frame, InTx, reqVars, appVars
<1>4. CASE Tick
  BY <1>4 DEF Tick, Frame, InTx, reqVars, appVars, logVars
<1>5. CASE UNCHANGED vars
  BY <1>5 DEF vars, Frame, InTx
<1>6. QED
  BY <1>1, <1>2, <1>3, <1>4, <1>5

\* The four steps of persistAndApply keep the log's order.
LEMMA TxStepsKeepOrder ==
  ASSUME TypeOK, TypeOK', OrderInv, NEW r \in Reqs,
         BeginTx(r) \/ Dedupe(r) \/ InsertAndExecute(r) \/ Commit(r)
  PROVE  OrderInv'
<1> USE DEF TypeOK, TablesOK, RequestsOK
<1>0. LockHeld /\ PendingRowOnTop /\ OrdinalsBelowNext /\ SequenceUnique /\ CursorFollowsSequence
  BY DEF OrderInv
<1>1. CASE Return(r)
  <2>1. /\ lock' = lock \/ lock' = Unlocked(r)
        /\ apps' = apps /\ events' = events /\ nextOrd' >= nextOrd
    BY <1>1 DEF BeginTx, Dedupe, InsertAndExecute, Commit, Return, Goto, appVars, logVars
  <2>2. QED
    BY <1>0, <1>1, <2>1, ReturnIsFramed, FrameKeepsOrder
<1>2. CASE ~Return(r) /\ BeginTx(r)
  <2>1. /\ pc[r] = "begin" /\ pc' = [pc EXCEPT ![r] = "dedupe"] /\ msg' = msg /\ row' = row
        /\ events' = events /\ nextOrd' = nextOrd /\ apps' = apps
        /\ lock' = IF Sequenced(msg[r]) THEN [lock EXCEPT ![msg[r].app] = r] ELSE lock
        /\ Sequenced(msg[r]) => lock[msg[r].app] = NoReq
    BY <1>2 DEF BeginTx, Goto, appVars, logVars
  <2>2. LockHeld'
    <3> SUFFICES ASSUME NEW q \in Reqs, InTx(q)', Sequenced(msg[q])
                 PROVE  lock'[msg[q].app] = q
      BY <2>1 DEF LockHeld, Sequenced
    <3>1. msg[q] \in Requests /\ msg[q].app \in Apps
      BY <2>1 DEF InTx, Requests, Sequenced
    <3>2. CASE q = r
      BY <2>1, <3>1, <3>2
    <3>3. CASE q # r
      <4>1. lock[msg[q].app] = q
        BY <1>0, <2>1, <3>3 DEF LockHeld, InTx
      <4>2. QED
        BY <2>1, <4>1, <3>1
    <3>4. QED
      BY <3>2, <3>3
  <2>3. PendingRowOnTop'
    BY <1>0, <2>1 DEF PendingRowOnTop, Sequenced
  <2>4. QED
    BY <1>0, <2>1, <2>2, <2>3 DEF OrderInv, OrdinalsBelowNext, SequenceUnique, CursorFollowsSequence
<1>3. CASE ~Return(r) /\ Dedupe(r)
  <2>1. /\ pc[r] = "dedupe" /\ pc' = [pc EXCEPT ![r] = "insert"] /\ msg' = msg /\ row' = row
        /\ events' = events /\ nextOrd' = nextOrd /\ apps' = apps /\ lock' = lock
    BY <1>3 DEF Dedupe, Goto, appVars, logVars
  <2>2. LockHeld' /\ PendingRowOnTop'
    BY <1>0, <2>1 DEF LockHeld, InTx, PendingRowOnTop, Sequenced
  <2>3. QED
    BY <1>0, <2>1, <2>2 DEF OrderInv, OrdinalsBelowNext, SequenceUnique, CursorFollowsSequence
<1>4. CASE ~Return(r) /\ InsertAndExecute(r)
  <2> DEFINE m == msg[r]
  <2>1. /\ pc[r] = "insert" /\ pc' = [pc EXCEPT ![r] = "commit"] /\ msg' = msg /\ lock' = lock
        /\ events' = events /\ nextOrd' = nextOrd + 1 /\ apps' = apps
    BY <1>4 DEF InsertAndExecute, appVars
  <2>2. m \in Requests
    BY <2>1
  <2>3. PICK seq : /\ row' = [row EXCEPT ![r] = RowFor(m, seq)]
                   /\ Sequenced(m) => seq \in GetNextSequence(events, m.app, apps[m.app].lastSeq)
    BY <1>4 DEF InsertAndExecute
  <2>4. /\ row'[r].app = m.app /\ row'[r].type = m.type
        /\ row'[r].ord = nextOrd /\ row'[r].seq = seq
    BY <2>3 DEF RowFor
  <2>5. ASSUME Sequenced(m)
        PROVE  /\ apps[m.app].lastSeq < seq
               /\ \A e \in events : e.app = m.app => e.seq < seq /\ e.ord < nextOrd
    <3>1. apps[m.app].lastSeq \in Nat
      BY <2>2, <2>5 DEF Sequenced, Requests, AppRows
    <3>2. \A s \in HighWater(events, m.app, apps[m.app].lastSeq) : s < seq
      BY <2>3, <2>5, <3>1, NextSequenceType
    <3>3. QED
      BY <1>0, <3>2 DEF HighWater, OrdinalsBelowNext
  <2>6. LockHeld'
    BY <1>0, <2>1 DEF LockHeld, InTx, Sequenced
  <2>7. PendingRowOnTop'
    <3> SUFFICES ASSUME NEW q \in Reqs, pc'[q] = "commit"
                 PROVE  /\ row'[q].app = msg[q].app
                        /\ row'[q].type = msg[q].type
                        /\ row'[q].ord < nextOrd + 1
                        /\ Sequenced(msg[q]) =>
                             /\ apps[msg[q].app].lastSeq < row'[q].seq
                             /\ \A e \in events : e.app = row'[q].app => e.seq < row'[q].seq /\ e.ord < row'[q].ord
      BY <2>1 DEF PendingRowOnTop, Sequenced
    <3>1. CASE q = r
      BY <2>4, <2>5, <3>1
    <3>2. CASE q # r
      <4>1. pc[q] = "commit" /\ row'[q] = row[q] /\ row[q] \in EventRows
        BY <2>1, <2>3, <3>2
      <4>2. row[q].ord < nextOrd + 1
        BY <1>0, <4>1 DEF PendingRowOnTop, EventRows
      <4>3. QED
        BY <1>0, <4>1, <4>2 DEF PendingRowOnTop
    <3>3. QED
      BY <3>1, <3>2
  <2>8. OrdinalsBelowNext'
    BY <1>0, <2>1 DEF OrdinalsBelowNext, EventRows
  <2>9. QED
    BY <1>0, <2>1, <2>6, <2>7, <2>8 DEF OrderInv, SequenceUnique, CursorFollowsSequence
<1>5. CASE ~Return(r) /\ Commit(r)
  <2> DEFINE m == msg[r]
  <2>1. /\ pc[r] = "commit" /\ pc' = [pc EXCEPT ![r] = "broadcast"] /\ msg' = msg /\ row' = row
        /\ lock' = Unlocked(r) /\ events' = events \cup {row[r]} /\ nextOrd' = nextOrd
    BY <1>5 DEF Commit, Goto
  <2>2. m \in Requests /\ row[r] \in EventRows
    BY <2>1
  <2>3. /\ row[r].app = m.app /\ row[r].ord < nextOrd
        /\ Sequenced(m) => /\ lock[m.app] = r
                           /\ \A e \in events : e.app = row[r].app => e.seq < row[r].seq /\ e.ord < row[r].ord
    BY <1>0, <2>1 DEF PendingRowOnTop, LockHeld, InTx
  <2>4. ASSUME NEW q \in Reqs, q # r, InTx(q), Sequenced(msg[q])
        PROVE  /\ msg[q].app \in Apps /\ msg[q].app # m.app
               /\ lock[msg[q].app] = q
               /\ apps'[msg[q].app] = apps[msg[q].app]
    <3>1. msg[q] \in Requests /\ lock[msg[q].app] = q
      BY <1>0, <2>4 DEF LockHeld, InTx
    <3>2. msg[q].app \in Apps /\ msg[q].app # m.app
      BY <2>3, <2>4, <3>1 DEF Requests, Sequenced
    <3>3. QED
      BY <1>5, <3>1, <3>2 DEF Commit
  <2>5. LockHeld'
    <3> SUFFICES ASSUME NEW q \in Reqs, InTx(q)', Sequenced(msg[q])
                 PROVE  lock'[msg[q].app] = q
      BY <2>1 DEF LockHeld, Sequenced
    <3>1. q # r /\ InTx(q)
      BY <2>1 DEF InTx
    <3>2. QED
      BY <2>1, <2>4, <3>1 DEF Unlocked
  <2>6. PendingRowOnTop'
    <3> SUFFICES ASSUME NEW q \in Reqs, pc'[q] = "commit"
                 PROVE  /\ row[q].app = msg[q].app
                        /\ row[q].type = msg[q].type
                        /\ row[q].ord < nextOrd
                        /\ Sequenced(msg[q]) =>
                             /\ apps'[msg[q].app].lastSeq < row[q].seq
                             /\ \A e \in events \cup {row[r]} :
                                  e.app = row[q].app => e.seq < row[q].seq /\ e.ord < row[q].ord
      BY <2>1 DEF PendingRowOnTop, Sequenced
    <3>1. q # r /\ pc[q] = "commit" /\ InTx(q)
      BY <2>1 DEF InTx
    <3>2. QED
      BY <1>0, <2>3, <2>4, <3>1 DEF PendingRowOnTop
  <2>7. OrdinalsBelowNext'
    BY <1>0, <2>1, <2>3 DEF OrdinalsBelowNext
  <2>8. SequenceUnique' /\ CursorFollowsSequence'
    <3>1. ASSUME NEW e \in events, e.app # NoApp, e.app = row[r].app
          PROVE  e.seq < row[r].seq /\ e.ord < row[r].ord /\ e.seq \in Nat /\ e.ord \in Nat
      BY <2>3, <3>1 DEF Sequenced, EventRows
    <3>2. row[r].seq \in Nat /\ row[r].ord \in Nat
      BY <2>2 DEF EventRows
    <3>3. SequenceUnique'
      BY <1>0, <2>1, <3>1, <3>2 DEF SequenceUnique
    <3>4. CursorFollowsSequence'
      BY <1>0, <2>1, <3>1, <3>2 DEF CursorFollowsSequence
    <3>5. QED
      BY <3>3, <3>4
  <2>9. QED
    BY <2>5, <2>6, <2>7, <2>8 DEF OrderInv
<1>6. QED
  BY <1>1, <1>2, <1>3, <1>4, <1>5

\* The order of the log is an inductive invariant, given the types.
LEMMA OrderStep == TypeOK /\ TypeOK' /\ OrderInv /\ [Next]_vars => OrderInv'
<1> SUFFICES ASSUME TypeOK, TypeOK', OrderInv, [Next]_vars PROVE OrderInv'
  OBVIOUS
<1>0. LockHeld
  BY DEF OrderInv
<1>1. ASSUME NEW r \in Reqs, Arrival(r) \/ RequestStep(r) PROVE OrderInv'
  BY <1>0, <1>1, ChecksAreFramed, AppWritesAreFramed, BackgroundIsFramed, TxStepsKeepOrder, FrameKeepsOrder
  DEF RequestStep
<1>2. ASSUME NEW r \in Reqs, LockTimeout(r) \/ StatementFails(r) PROVE OrderInv'
  BY <1>0, <1>2, BackgroundIsFramed, FrameKeepsOrder DEF LockTimeout, StatementFails
<1>3. ASSUME NEW a \in Apps, PurgeApplication(a) PROVE OrderInv'
  BY <1>0, <1>3, PurgeIsFramed, FrameKeepsOrder
<1>4. CASE Crash \/ CleanupOldEvents \/ Tick \/ UNCHANGED vars
  BY <1>0, <1>4, BackgroundIsFramed, FrameKeepsOrder
<1>5. QED
  BY <1>1, <1>2, <1>3, <1>4 DEF Next

\* Whatever requests race, the row lock keeps what persistAndApply is about to
\* commit on top of its application's log, so that sequence numbers are
\* distinct and the cursor order is the sequence order.
THEOREM OrderHolds == Spec => []OrderInv
<1>1. Init => OrderInv
  BY DEF Init, OrderInv, LockHeld, PendingRowOnTop, OrdinalsBelowNext, SequenceUnique,
         CursorFollowsSequence, InTx
<1>2. QED
  BY <1>1, OrderStep, TypeCorrect, PTL DEF Spec

\* A client that reads the feed in cursor order never sees an application's
\* sequence number go down.
THEOREM LogOrdered == Spec => []CursorFollowsSequence
<1>1. OrderInv => CursorFollowsSequence
  BY DEF OrderInv
<1>2. QED
  BY <1>1, OrderHolds, PTL

-----------------------------------------------------------------------------
(* The tombstone of a moved application.                                    *)

\* A framed step keeps transactions off moved rows.
LEMMA FrameKeepsTxOnUnmovedRow ==
  ASSUME TxOnUnmovedRow, Frame
  PROVE  TxOnUnmovedRow'
BY DEF TxOnUnmovedRow, Frame, Sequenced

\* A step that adds no event and moves no application keeps its log clean.
LEMMA KeepsClean ==
  ASSUME TypeOK, TombstoneClean, events' \subseteq events,
         \A a \in Apps : apps'[a].movedAt # 0 => apps[a].movedAt # 0 \/ \A e \in events' : e.app # a
  PROVE  TombstoneClean'
<1>1. \A e \in events : e.app \in Apps \cup {NoApp}
  BY DEF TypeOK, TablesOK, EventRows
<1>2. QED
  BY <1>1 DEF TombstoneClean

\* What the application writes do to a row's deletion and move times.
LEMMA AppWritesTimes ==
  ASSUME TypeOK, NEW r \in Reqs,
         \/ RegisterApplication(r) \/ StartMove(r) \/ AbortMove(r)
         \/ DeleteApplication(r) \/ SetAgentRead(r) \/ CompleteMove(r)
  PROVE  \A a \in Apps :
           \/ apps'[a].movedAt = apps[a].movedAt /\ apps'[a].deletedAt \in {apps[a].deletedAt, clock}
           \/ apps'[a].movedAt = 0
           \/ apps'[a].deletedAt = clock /\ \A e \in events' : e.app # a
<1> DEFINE Goal == \A a \in Apps :
           \/ apps'[a].movedAt = apps[a].movedAt /\ apps'[a].deletedAt \in {apps[a].deletedAt, clock}
           \/ apps'[a].movedAt = 0
           \/ apps'[a].deletedAt = clock /\ \A e \in events' : e.app # a
<1>a. apps \in [Apps -> AppRows]
  BY DEF TypeOK, TablesOK
<1>u. ASSUME NEW op, NEW where, NEW newRow, UpdateApplication(r, op, where, newRow),
             msg[r].app \in Apps => /\ newRow.movedAt = apps[msg[r].app].movedAt
                                    /\ newRow.deletedAt \in {apps[msg[r].app].deletedAt, clock}
      PROVE  Goal
  BY <1>a, <1>u DEF UpdateApplication
<1>v. msg[r].app \in Apps => apps[msg[r].app] \in AppRows
  BY <1>a
<1>1. CASE RegisterApplication(r)
  BY <1>1, <1>a DEF RegisterApplication, AppRows
<1>2. CASE StartMove(r)
  BY <1>2, <1>u, <1>v DEF StartMove, AppRows
<1>3. CASE AbortMove(r)
  BY <1>3, <1>u, <1>v DEF AbortMove, AppRows
<1>4. CASE DeleteApplication(r)
  BY <1>4, <1>u, <1>v DEF DeleteApplication, AppRows
<1>5. CASE SetAgentRead(r)
  BY <1>5, <1>u, <1>v DEF SetAgentRead, AppRows
<1>6. CASE CompleteMove(r)
  <2> DEFINE a == msg[r].app
             tomb == [apps[a] EXCEPT !.movedAt = clock, !.deletedAt = clock]
  <2>1. CASE apps' = apps
    BY <2>1
  <2>2. CASE apps' = [apps EXCEPT ![a] = tomb] /\ events' = {e \in events : e.app # a}
    <3>1. a \in Apps => tomb.deletedAt = clock
      BY <1>v DEF AppRows
    <3> HIDE DEF tomb
    <3>2. QED
      BY <1>a, <2>2, <3>1
  <2>3. QED
    BY <1>6, <2>1, <2>2 DEF CompleteMove
<1>7. QED
  BY <1>1, <1>2, <1>3, <1>4, <1>5, <1>6

\* An event leaves the move time of its application alone, and may only set
\* its deletion time.
LEMMA CommitTimes ==
  ASSUME TypeOK, NEW r \in Reqs, Commit(r)
  PROVE  \A a \in Apps : /\ apps'[a].movedAt = apps[a].movedAt
                         /\ apps'[a].deletedAt \in {apps[a].deletedAt, clock}
<1>1. ASSUME NEW app \in AppRows, NEW m, NEW seq
      PROVE  /\ AfterExecution(app, m, seq).movedAt = app.movedAt
             /\ AfterExecution(app, m, seq).deletedAt \in {app.deletedAt, clock}
  BY DEF AfterExecution, AppRows
<1>2. \/ apps' = apps
      \/ apps' = [apps EXCEPT ![msg[r].app] = AfterExecution(apps[msg[r].app], msg[r], row[r].seq)]
  BY DEF Commit
<1>3. QED
  BY <1>1, <1>2 DEF TypeOK, TablesOK

\* The tombstone invariant is inductive, given the types and the row locks.
LEMMA TombstoneStep ==
  TypeOK /\ OrderInv /\ TombstoneInv /\ [Next]_vars => TombstoneInv'
<1> SUFFICES ASSUME TypeOK, OrderInv, TombstoneInv, [Next]_vars PROVE TombstoneInv'
  OBVIOUS
<1>0. /\ LockHeld /\ PendingRowOnTop /\ TombstoneDeleted /\ TxOnUnmovedRow /\ TombstoneClean
      /\ clock # 0
  BY DEF OrderInv, TombstoneInv, TypeOK, TablesOK
<1>1. ASSUME Frame, events' = events, apps' = apps PROVE TombstoneInv'
  BY <1>0, <1>1, FrameKeepsTxOnUnmovedRow, KeepsClean DEF TombstoneInv, TombstoneDeleted
<1>2. ASSUME NEW r \in Reqs,
             \/ Arrival(r) \/ MoveGuard(r) \/ Authorize(r) \/ OwnerCheck(r)
             \/ RegisterOwnerCheck(r) \/ RegisterQuotaCheck(r)
      PROVE  TombstoneInv'
  <2>1. events' = events /\ apps' = apps
    BY <1>2 DEF Arrival, AcceptEvent, ProduceEvent, ApplicationRequest, MoveGuard, Authorize,
                OwnerCheck, RegisterOwnerCheck, RegisterQuotaCheck, appVars, logVars
  <2>2. QED
    BY <1>0, <1>1, <1>2, <2>1, ChecksAreFramed
<1>3. ASSUME NEW r \in Reqs,
             \/ RegisterApplication(r) \/ StartMove(r) \/ AbortMove(r)
             \/ DeleteApplication(r) \/ SetAgentRead(r) \/ CompleteMove(r)
      PROVE  TombstoneInv'
  <2>1. Frame
    BY <1>0, <1>3, AppWritesAreFramed
  <2>2. TombstoneDeleted'
    BY <1>0, <1>3, AppWritesTimes DEF TombstoneDeleted
  <2>3. TombstoneClean'
    BY <1>0, <1>3, <2>1, AppWritesTimes, KeepsClean DEF Frame
  <2>4. QED
    BY <1>0, <2>1, <2>2, <2>3, FrameKeepsTxOnUnmovedRow DEF TombstoneInv
<1>4. ASSUME NEW r \in Reqs, BeginTx(r) \/ Dedupe(r) \/ InsertAndExecute(r) PROVE TombstoneInv'
  <2>1. events' = events /\ apps' = apps
    BY <1>4 DEF BeginTx, Dedupe, InsertAndExecute, appVars, logVars
  <2>2. TxOnUnmovedRow'
    <3> SUFFICES ASSUME NEW q \in Reqs, InTx(q)', Sequenced(msg'[q]), msg'[q].type # "application_moved"
                 PROVE  apps[msg'[q].app].movedAt = 0
      BY <2>1 DEF TxOnUnmovedRow, Sequenced
    <3>1. msg'[q] = msg[q] /\ (InTx(q) \/ (q = r /\ BeginTx(r) /\ ~Return(r)))
      BY <1>4 DEF BeginTx, Dedupe, InsertAndExecute, Goto, Return, InTx, TypeOK, RequestsOK
    <3>2. CASE InTx(q)
      BY <1>0, <3>1, <3>2 DEF TxOnUnmovedRow
    <3>3. CASE q = r /\ BeginTx(r) /\ ~Return(r)
      <4>1. Live(msg[r].app)
        BY <3>1, <3>3 DEF BeginTx
      <4>2. msg[r].app \in Apps
        BY <3>1, <3>3 DEF BeginTx, TypeOK, RequestsOK, Requests, Sequenced
      <4>3. QED
        BY <1>0, <3>1, <3>3, <4>1, <4>2 DEF Live, TombstoneDeleted
    <3>4. QED
      BY <3>1, <3>2, <3>3
  <2>3. QED
    BY <1>0, <2>1, <2>2, KeepsClean DEF TombstoneInv, TombstoneDeleted
<1>5. ASSUME NEW r \in Reqs, Commit(r) PROVE TombstoneInv'
  <2>1. /\ pc[r] = "commit" /\ InTx(r) /\ msg' = msg
        /\ pc' = [pc EXCEPT ![r] = "broadcast"] /\ events' = events \cup {row[r]}
    BY <1>5 DEF Commit, Goto, InTx
  <2>2. TombstoneDeleted'
    BY <1>0, <1>5, CommitTimes DEF TombstoneDeleted
  <2>3. ASSUME NEW q \in Reqs, pc[q] # "idle", Sequenced(msg[q]) PROVE msg[q].app \in Apps
    BY <2>3 DEF TypeOK, RequestsOK, Requests, Sequenced
  <2>4. TxOnUnmovedRow'
    <3> SUFFICES ASSUME NEW q \in Reqs, InTx(q)', Sequenced(msg[q]), msg[q].type # "application_moved"
                 PROVE  apps'[msg[q].app].movedAt = 0
      BY <2>1 DEF TxOnUnmovedRow, Sequenced
    <3>1. InTx(q) /\ pc[q] # "idle"
      BY <2>1 DEF InTx, TypeOK, RequestsOK
    <3>2. QED
      BY <1>0, <1>5, <2>3, <3>1, CommitTimes DEF TxOnUnmovedRow
  <2>5. TombstoneClean'
    <3> SUFFICES ASSUME NEW e \in events', e.app # NoApp, apps'[e.app].movedAt # 0
                 PROVE  e.type = "application_moved"
      BY DEF TombstoneClean
    <3>1. CASE e \in events
      BY <1>0, <1>5, <3>1, CommitTimes DEF TombstoneClean, TypeOK, TablesOK, EventRows
    <3>2. CASE e = row[r]
      <4>1. e.app = msg[r].app /\ e.type = msg[r].type
        BY <1>0, <2>1, <3>2 DEF PendingRowOnTop
      <4>2. Sequenced(msg[r]) /\ msg[r].app \in Apps
        BY <2>1, <2>3, <4>1 DEF Sequenced
      <4>3. QED
        BY <1>0, <1>5, <2>1, <4>1, <4>2, CommitTimes DEF TxOnUnmovedRow
    <3>3. QED
      BY <2>1, <3>1, <3>2
  <2>6. QED
    BY <2>2, <2>4, <2>5 DEF TombstoneInv
<1>6. ASSUME \/ \E r \in Reqs : Broadcast(r) \/ Abort(r)
             \/ Crash \/ CleanupOldEvents \/ Tick \/ UNCHANGED vars
      PROVE  TombstoneInv'
  <2>1. Frame
    BY <1>0, <1>6, BackgroundIsFramed
  <2>2. apps' = apps
    BY <1>6 DEF Broadcast, Abort, Crash, CleanupOldEvents, Tick, appVars, vars
  <2>3. QED
    BY <1>0, <2>1, <2>2, FrameKeepsTxOnUnmovedRow, KeepsClean DEF TombstoneInv, TombstoneDeleted, Frame
<1>7. ASSUME NEW a \in Apps, PurgeApplication(a) PROVE TombstoneInv'
  <2>1. Frame
    BY <1>0, <1>7, PurgeIsFramed
  <2>2. /\ \A b \in Apps : apps'[b] = apps[b] \/ apps'[b].movedAt = 0
    BY <1>7 DEF PurgeApplication, NoAppRow, TypeOK, TablesOK
  <2>3. QED
    BY <1>0, <2>1, <2>2, FrameKeepsTxOnUnmovedRow, KeepsClean DEF TombstoneInv, TombstoneDeleted, Frame
<1>8. QED
  BY <1>2, <1>3, <1>4, <1>5, <1>6, <1>7 DEF Next, RequestStep, LockTimeout, StatementFails

\* The log of a moved application holds nothing but application_moved: an event
\* that passed MoveGuard before CompleteMove never lands on the tombstone,
\* because persistAndApply re-reads deleted_at under the row lock.
THEOREM TombstoneStaysClean == Spec => []TombstoneClean
<1>1. Init => TombstoneInv
  BY DEF Init, TombstoneInv, TombstoneDeleted, TxOnUnmovedRow, TombstoneClean, InTx, NoAppRow
<1>2. TombstoneInv => TombstoneClean
  BY DEF TombstoneInv
<1>3. QED
  BY <1>1, <1>2, OrderHolds, TombstoneStep, TypeCorrect, PTL DEF Spec

-----------------------------------------------------------------------------
(* The owner of an application.                                             *)

\* The workloads OwnerKept is about.  An application is registered, and moved
\* back, by one account: its id is drawn by the client that creates it.  The
\* space itself adds, removes or changes no owner: Join produces member_added for
\* an account that is no member, and deleting an account member_removed for one
\* that is not the owner.
MemberTypes == {"member_added", "member_removed", "member_role_changed"}
FoundedBy(founder) ==
  /\ founder \in [Apps -> Keys]
  /\ \A m \in Messages : m.app \in Apps =>
       /\ m.op = "register" => m.by = founder[m.app]
       /\ m.op = "produce" /\ m.type \in MemberTypes => m.target # founder[m.app]

\* The founder of an application is its owner; a registration under way is the
\* founder's, and an event about to be executed does not name the founder.
OwnerRow == [role |-> "owner", expires |-> 0]
FounderOwns(founder) == \A a \in Apps : apps[a].exists => members[a][founder[a]] = OwnerRow
Harmless(founder, m) == m.app \in Apps /\ m.type \in MemberTypes => m.target # founder[m.app]
RequestsHarmless(founder) ==
  \A r \in Reqs : pc[r] # "idle" =>
    /\ msg[r].op = "register" => msg[r].app \in Apps /\ msg[r].by = founder[msg[r].app] /\ ValidRegistration(msg[r])
    /\ msg[r].op = "produce" => Harmless(founder, msg[r])
    /\ InTx(r) \/ pc[r] = "begin" => Harmless(founder, msg[r])
FounderInv(founder) == FounderOwns(founder) /\ RequestsHarmless(founder)

\* A handler that returns, or goes on outside any transaction or inside one,
\* with the same message, keeps the requests harmless.
LEMMA HarmlessMoves ==
  ASSUME NEW founder, TypeOK, RequestsHarmless(founder), NEW r \in Reqs,
         \/ Return(r)
         \/ /\ pc[r] # "idle" /\ msg' = msg
            /\ \E step : /\ pc' = [pc EXCEPT ![r] = step]
                         /\ step \in {"begin", "dedupe", "insert", "commit"} =>
                              InTx(r) \/ pc[r] = "begin" \/ Harmless(founder, msg[r])
  PROVE  RequestsHarmless(founder)'
BY DEF RequestsHarmless, Harmless, Return, InTx, TypeOK, RequestsOK

\* Accepting an event: one outside any application concerns no member.
LEMMA ArrivalsHarmless ==
  ASSUME NEW founder, FoundedBy(founder), TypeOK, FounderInv(founder), NEW r \in Reqs, Arrival(r)
  PROVE  FounderInv(founder)'
<1>1. UNCHANGED <<apps, members>> /\ pc[r] = "idle"
  BY DEF Arrival, AcceptEvent, ProduceEvent, ApplicationRequest, appVars
<1>2. FounderOwns(founder)'
  BY <1>1 DEF FounderInv, FounderOwns
<1>3. PICK m, n, step :
        /\ m \in Messages
        /\ msg' = [msg EXCEPT ![r] = n] /\ pc' = [pc EXCEPT ![r] = step]
        /\ \/ /\ m.op = "accept" /\ n = m
              /\ step = "guard" \/ (step = "begin" /\ m.app = NoApp)
           \/ /\ m.op # "accept" /\ \E id \in FreshIds : n = [m EXCEPT !.id = id]
              /\ m.op \notin {"accept", "produce"} => step \in {"regOwner", "guard"} /\ m.app \in Apps
              /\ m.op = "register" => ValidRegistration(m)
  BY DEF Arrival, AcceptEvent, ProduceEvent, ApplicationRequest, Sequenced
<1>4. /\ n.op = m.op /\ n.app = m.app /\ n.by = m.by /\ n.type = m.type /\ n.target = m.target
      /\ n.members = m.members
  BY <1>3 DEF Requests
<1>5. /\ n.op = "register" => n.app \in Apps /\ n.by = founder[n.app] /\ ValidRegistration(n)
      /\ n.op = "produce" => Harmless(founder, n)
      /\ step \in {"begin", "dedupe", "insert", "commit"} => Harmless(founder, n)
  BY <1>3, <1>4 DEF FoundedBy, Harmless, ValidRegistration
<1>6. RequestsHarmless(founder)'
  BY <1>3, <1>5 DEF FounderInv, RequestsHarmless, Harmless, InTx, TypeOK, RequestsOK
<1>7. QED
  BY <1>2, <1>6 DEF FounderInv

\* AuthorizeEvent lets nobody remove or demote the founder, who is an owner while
\* the application is there.
LEMMA AuthorizedHarmless ==
  ASSUME NEW founder, FoundedBy(founder), TypeOK, FounderInv(founder), NEW r \in Reqs, Authorize(r),
         Goto(r, "begin")
  PROVE  Harmless(founder, msg[r])
<1>1. CASE pc'[r] # "begin"
  BY <1>1 DEF Goto, TypeOK, RequestsOK
<1>2. CASE pc'[r] = "begin"
  <2>1. Live(msg[r].app) /\ AuthorizeEvent(msg[r], members[msg[r].app], clock, apps[msg[r].app].agentRead)
    BY <1>2 DEF Authorize, Return, TypeOK, RequestsOK
  <2>2. msg[r].app \in Apps => members[msg[r].app][founder[msg[r].app]].role = "owner"
    BY <2>1 DEF FounderInv, FounderOwns, Live, OwnerRow
  <2>3. QED
    BY <2>1, <2>2 DEF AuthorizeEvent, Harmless, MemberTypes
<1>3. QED
  BY <1>1, <1>2

\* The other checks, the lock, the duplicate check, the insert, the answers and
\* the rollbacks change no member and no application.
LEMMA ChecksHarmless ==
  ASSUME NEW founder, FoundedBy(founder), TypeOK, FounderInv(founder), NEW r \in Reqs,
         \/ LockTimeout(r) \/ StatementFails(r) \/ MoveGuard(r) \/ Authorize(r) \/ OwnerCheck(r)
         \/ RegisterOwnerCheck(r) \/ RegisterQuotaCheck(r)
         \/ BeginTx(r) \/ Dedupe(r) \/ InsertAndExecute(r) \/ Broadcast(r)
  PROVE  FounderInv(founder)'
<1>1. UNCHANGED <<apps, members>>
  BY DEF LockTimeout, StatementFails, Abort, MoveGuard, Authorize, OwnerCheck, RegisterOwnerCheck,
         RegisterQuotaCheck, BeginTx, Dedupe, InsertAndExecute, Broadcast, appVars
<1>2. FounderOwns(founder)'
  BY <1>1 DEF FounderInv, FounderOwns
<1>3. CASE Return(r)
  BY <1>2, <1>3, HarmlessMoves DEF FounderInv
<1>4. CASE ~Return(r)
  <2>1. pc[r] # "idle" /\ msg' = msg
    BY <1>4 DEF LockTimeout, StatementFails, Abort, MoveGuard, Authorize, OwnerCheck, RegisterOwnerCheck,
         RegisterQuotaCheck, BeginTx, Dedupe, InsertAndExecute, Broadcast, Goto
  <2>2. PICK step : /\ pc' = [pc EXCEPT ![r] = step]
                    /\ step \in {"begin", "dedupe", "insert", "commit"} =>
                         InTx(r) \/ pc[r] = "begin" \/ (Authorize(r) /\ Goto(r, "begin"))
    BY <1>4 DEF LockTimeout, StatementFails, Abort, MoveGuard, Authorize, OwnerCheck, RegisterOwnerCheck,
         RegisterQuotaCheck, BeginTx, Dedupe, InsertAndExecute, Broadcast, Goto, InTx
  <2>3. RequestsHarmless(founder)'
    BY <2>1, <2>2, AuthorizedHarmless, HarmlessMoves DEF FounderInv
  <2>4. QED
    BY <1>2, <2>3 DEF FounderInv
<1>5. QED
  BY <1>3, <1>4

\* The writes of an application row: a registration enters the founder as owner,
\* and no other write touches a member row or makes an application.
LEMMA WritesKeepFounder ==
  ASSUME NEW founder, FoundedBy(founder), TypeOK, FounderInv(founder), NEW r \in Reqs,
         \/ RegisterApplication(r) \/ StartMove(r) \/ AbortMove(r) \/ DeleteApplication(r) \/ SetAgentRead(r)
         \/ CompleteMove(r)
  PROVE  FounderInv(founder)'
<1>0. /\ apps \in [Apps -> AppRows] /\ members \in [Apps -> [Keys -> MemberRows]]
      /\ founder \in [Apps -> Keys] /\ pc[r] = "write"
  BY DEF TypeOK, TablesOK, FoundedBy, RegisterApplication, StartMove, AbortMove, DeleteApplication, SetAgentRead,
         CompleteMove, UpdateApplication, Writes
<1>1. CASE RegisterApplication(r)
  <2>1. /\ msg[r].app \in Apps /\ msg[r].by = founder[msg[r].app]
        /\ \A k \in Keys : msg[r].members[k] = "owner" <=> k = msg[r].by
    BY <1>0, <1>1 DEF FounderInv, RequestsHarmless, RegisterApplication, Writes, ValidRegistration
  <2>2. PICK a \in Apps : a = msg[r].app
    BY <2>1
  <2>3. /\ Return(r) /\ \A b \in Apps \ {a} : apps'[b] = apps[b] /\ members'[b] = members[b]
        /\ members'[a] = [k \in Keys |-> IF msg[r].members[k] = "none" THEN members[a][k]
                                          ELSE [role |-> msg[r].members[k], expires |-> 0]]
    BY <1>0, <1>1, <2>2 DEF RegisterApplication
  <2>4. members'[a][founder[a]] = OwnerRow
    BY <1>0, <2>1, <2>2, <2>3 DEF OwnerRow
  <2>5. FounderOwns(founder)'
    BY <2>3, <2>4 DEF FounderInv, FounderOwns
  <2>6. QED
    BY <2>3, <2>5, HarmlessMoves DEF FounderInv
<1>2. ASSUME NEW op, NEW where, NEW newRow, UpdateApplication(r, op, where, newRow),
             msg[r].app \in Apps => newRow.exists = apps[msg[r].app].exists
      PROVE  FounderInv(founder)'
  <2>1. Return(r) /\ members' = members /\ \A a \in Apps : apps'[a].exists => apps[a].exists
    BY <1>0, <1>2 DEF UpdateApplication
  <2>2. FounderOwns(founder)'
    BY <2>1 DEF FounderInv, FounderOwns
  <2>3. QED
    BY <2>1, <2>2, HarmlessMoves DEF FounderInv
<1>3. msg[r].app \in Apps => apps[msg[r].app] \in AppRows
  BY <1>0
<1>4. CASE StartMove(r) \/ AbortMove(r) \/ DeleteApplication(r) \/ SetAgentRead(r)
  BY <1>2, <1>3, <1>4 DEF StartMove, AbortMove, DeleteApplication, SetAgentRead, AppRows
<1>5. CASE CompleteMove(r)
  <2>1. members' = members /\ \A a \in Apps : apps'[a].exists => apps[a].exists
    BY <1>0, <1>5 DEF CompleteMove, AppRows
  <2>2. FounderOwns(founder)'
    BY <2>1 DEF FounderInv, FounderOwns
  <2>3. CASE Return(r)
    BY <2>2, <2>3, HarmlessMoves DEF FounderInv
  <2>4. CASE ~Return(r)
    <3>1. PICK n : /\ n = [msg[r] EXCEPT !.op = "produce", !.type = "application_moved"]
                   /\ msg' = [msg EXCEPT ![r] = n] /\ pc' = [pc EXCEPT ![r] = "begin"]
      BY <1>5, <2>4 DEF CompleteMove
    <3>2. n.op = "produce" /\ n.type = "application_moved"
      BY <1>0, <3>1 DEF TypeOK, RequestsOK, Requests
    <3>3. Harmless(founder, n)
      BY <3>2 DEF Harmless, MemberTypes
    <3>4. RequestsHarmless(founder)'
      BY <3>1, <3>2, <3>3 DEF FounderInv, RequestsHarmless, Harmless, InTx, TypeOK, RequestsOK
    <3>5. QED
      BY <2>2, <3>4 DEF FounderInv
  <2>5. QED
    BY <2>3, <2>4
<1>6. QED
  BY <1>1, <1>4, <1>5

\* A committed event leaves the founder's row alone.
LEMMA CommitKeepsFounder ==
  ASSUME NEW founder, FoundedBy(founder), TypeOK, FounderInv(founder), NEW r \in Reqs, Commit(r)
  PROVE  FounderInv(founder)'
<1>1. /\ pc[r] = "commit" /\ msg' = msg /\ pc' = [pc EXCEPT ![r] = "broadcast"]
      /\ Harmless(founder, msg[r]) /\ msg[r] \in Requests
  BY DEF Commit, Goto, FounderInv, RequestsHarmless, InTx, TypeOK, RequestsOK
<1>2. ASSUME NEW a \in Apps, apps'[a].exists PROVE members'[a][founder[a]] = OwnerRow
  <2>1. ASSUME NEW seq PROVE AfterExecution(apps[a], msg[r], seq).exists = apps[a].exists
    <3>1. apps[a] \in AppRows
      BY DEF TypeOK, TablesOK
    <3>2. QED
      BY <3>1 DEF AfterExecution, AppRows
  <2>2. apps[a].exists
    BY <1>2, <2>1 DEF Commit, TypeOK, TablesOK
  <2>3. members[a][founder[a]] = OwnerRow /\ members[a] \in [Keys -> MemberRows] /\ founder[a] \in Keys
    BY <2>2 DEF FounderInv, FounderOwns, TypeOK, TablesOK, FoundedBy
  <2>4. CASE members'[a] = members[a]
    BY <2>3, <2>4
  <2>5. CASE a = msg[r].app /\ members'[a] = ExecuteOnMembers(msg[r], members[a])
    <3>1. msg[r].type \in MemberTypes => msg[r].target # founder[a]
      BY <1>1, <2>5 DEF Harmless
    <3>2. QED
      BY <2>3, <2>5, <3>1 DEF ExecuteOnMembers, MemberTypes
  <2>6. QED
    BY <2>4, <2>5 DEF Commit, TypeOK, TablesOK
<1>3. RequestsHarmless(founder)'
  BY <1>1, HarmlessMoves DEF FounderInv
<1>4. QED
  BY <1>2, <1>3 DEF FounderInv, FounderOwns

\* In every space whose applications are each founded by one account, however
\* the account's registrations, removals, role changes, joins, moves and agents
\* race, an application that exists has an owner.
THEOREM FounderStaysOwner ==
  ASSUME NEW CONSTANT founder, FoundedBy(founder)
  PROVE  Spec => []OwnerKept
<1>1. Init => FounderInv(founder)
  BY DEF Init, FounderInv, FounderOwns, RequestsHarmless, NoAppRow
<1>2. TypeOK /\ FounderInv(founder) /\ [Next]_vars => FounderInv(founder)'
  <2> SUFFICES ASSUME TypeOK, FounderInv(founder), [Next]_vars PROVE FounderInv(founder)'
    OBVIOUS
  <2>1. ASSUME NEW r \in Reqs, Arrival(r) \/ RequestStep(r) \/ LockTimeout(r) \/ StatementFails(r)
        PROVE  FounderInv(founder)'
    BY <2>1, ArrivalsHarmless, ChecksHarmless, WritesKeepFounder, CommitKeepsFounder DEF RequestStep
  <2>2. CASE Crash
    BY <2>2 DEF Crash, FounderInv, FounderOwns, RequestsHarmless, appVars
  <2>3. CASE CleanupOldEvents \/ Tick \/ UNCHANGED vars
    BY <2>3 DEF CleanupOldEvents, Tick, vars, FounderInv, FounderOwns, RequestsHarmless, Harmless, InTx, appVars,
                reqVars
  <2>4. ASSUME NEW a \in Apps, PurgeApplication(a) PROVE FounderInv(founder)'
    <3>1. /\ apps' = [apps EXCEPT ![a] = NoAppRow] /\ UNCHANGED <<pc, msg>>
          /\ members' = [members EXCEPT ![a] = [k \in Keys |-> NoMember]]
      BY <2>4 DEF PurgeApplication, reqVars
    <3>2. FounderOwns(founder)'
      BY <3>1 DEF FounderInv, FounderOwns, NoAppRow, TypeOK, TablesOK
    <3>3. RequestsHarmless(founder)'
      BY <3>1 DEF FounderInv, RequestsHarmless, Harmless, InTx
    <3>4. QED
      BY <3>2, <3>3 DEF FounderInv
  <2>5. QED
    BY <2>1, <2>2, <2>3, <2>4 DEF Next
<1>3. FounderInv(founder) => OwnerKept
  BY DEF FounderInv, FounderOwns, OwnerKept, FoundedBy, OwnerRow
<1>4. QED
  BY <1>1, <1>2, <1>3, TypeCorrect, PTL DEF Spec
-----------------------------------------------------------------------------
(* What follows cites these assumptions where it needs them.                *)

HIDE MessagesAssumption
HIDE SpaceIdsAssumption
HIDE NoTplAssumption
HIDE NoKeyAssumption
HIDE BoundsAssumption

-----------------------------------------------------------------------------
(* The mark.                                                                *)

\* A set has one greatest element.
LEMMA GreatestIsUnique ==
  ASSUME NEW S \in SUBSET Nat, NEW h \in S, \A s \in S : s <= h
  PROVE  (CHOOSE x \in S : \A s \in S : s <= x) = h
<1> DEFINE g == CHOOSE x \in S : \A s \in S : s <= x
<1>1. \E x \in S : \A s \in S : s <= x
  OBVIOUS
<1>2. g \in S /\ \A s \in S : s <= g
  BY <1>1
<1>3. g = h
  <2> HIDE DEF g
  <2>1. g \in Nat /\ h \in Nat /\ g <= h /\ h <= g
    BY <1>2
  <2>2. QED
    BY <2>1
<1>4. QED
  BY <1>3

\* What is in S or n is at most n, when all of S is below n.
LEMMA AboveAll ==
  ASSUME NEW S \in SUBSET Nat, NEW T, NEW n \in Nat,
         \A s \in S : s < n, \A s \in T : s \in S \/ s = n
  PROVE  \A s \in T : s <= n
<1> SUFFICES ASSUME NEW s \in T PROVE s <= n
  OBVIOUS
<1>1. CASE s = n
  BY <1>1
<1>2. CASE s \in S
  <2>1. s \in Nat /\ s < n
    BY <1>2
  <2>2. QED
    BY <2>1
<1>3. QED
  BY <1>1, <1>2

\* Marks are natural numbers.
LEMMA HighWaterType ==
  ASSUME NEW E \in SUBSET EventRows, NEW a, NEW l \in Nat
  PROVE  HighWater(E, a, l) \subseteq Nat /\ l \in HighWater(E, a, l)
BY DEF HighWater, EventRows

\* The mark of an application is the greatest of its numbers and last_sequence.
LEMMA MarkIsGreatest ==
  ASSUME TypeOK, OrderInv, NewestThere, NEW a \in Apps
  PROVE  /\ Mark(a) \in HighWater(events, a, apps[a].lastSeq)
         /\ Mark(a) \in Nat
         /\ \A s \in HighWater(events, a, apps[a].lastSeq) : s <= Mark(a)
<1> DEFINE l == apps[a].lastSeq
           S == HighWater(events, a, l)
<1> USE DEF TypeOK, TablesOK
<1>1. l \in Nat /\ S \subseteq Nat /\ l \in S
  BY HighWaterType DEF AppRows
<1>2. \E h \in S : \A s \in S : s <= h
  <2>1. CASE \E e \in events : e.app = a
    <3>1. PICK n \in events : n.app = a /\ \A f \in events : f.app = a => f.ord <= n.ord
      BY <2>1 DEF NewestThere
    <3>2. n.seq \in S
      BY <3>1 DEF HighWater
    <3>3. ASSUME NEW f \in events, f.app = a PROVE f.seq <= n.seq
      <4>1. f.ord <= n.ord /\ f.ord \in Nat /\ n.ord \in Nat /\ f.seq \in Nat /\ n.seq \in Nat
        BY <3>1, <3>3 DEF EventRows
      <4>2. n.seq < f.seq => n.ord < f.ord
        BY <3>1, <3>3 DEF OrderInv, CursorFollowsSequence
      <4>3. QED
        BY <4>1, <4>2
    <3>4. n.seq \in Nat
      BY DEF EventRows
    <3>5. CASE l <= n.seq
      BY <3>2, <3>3, <3>5 DEF HighWater
    <3>6. CASE ~(l <= n.seq)
      <4>1. \A s \in S : s <= l
        BY <1>1, <3>3, <3>4, <3>6 DEF HighWater, EventRows
      <4>2. QED
        BY <1>1, <4>1
    <3>7. QED
      BY <3>5, <3>6
  <2>2. CASE ~ \E e \in events : e.app = a
    <3>1. \A s \in S : s = l
      BY <2>2 DEF HighWater
    <3>2. QED
      BY <1>1, <3>1
  <2>3. QED
    BY <2>1, <2>2
<1>3. PICK h \in S : \A s \in S : s <= h
  BY <1>2
<1>4. Mark(a) = h
  BY <1>1, <1>3, GreatestIsUnique DEF Mark
<1>5. QED
  BY <1>1, <1>3, <1>4

\* A new greatest number is the mark.
LEMMA MarkBecomes ==
  ASSUME TypeOK', NEW a \in Apps, NEW h,
         h \in HighWater(events', a, apps'[a].lastSeq),
         \A s \in HighWater(events', a, apps'[a].lastSeq) : s <= h
  PROVE  Mark(a)' = h
<1>1. HighWater(events', a, apps'[a].lastSeq) \subseteq Nat
  BY HighWaterType DEF TypeOK, TablesOK, AppRows
<1>2. QED
  BY <1>1, GreatestIsUnique DEF Mark

\* The mark stays when nothing below it but the rest of the log goes.
LEMMA MarkStays ==
  ASSUME TypeOK, TypeOK', OrderInv, NewestThere, NEW a \in Apps,
         events' \subseteq events, apps'[a].lastSeq = apps[a].lastSeq,
         \A e \in events \ events' : e.app = a => \E f \in events' : f.app = a /\ f.seq > e.seq
  PROVE  Mark(a)' = Mark(a)
<1> USE DEF TypeOK, TablesOK
<1>1. /\ Mark(a) \in HighWater(events, a, apps[a].lastSeq)
      /\ Mark(a) \in Nat
      /\ \A s \in HighWater(events, a, apps[a].lastSeq) : s <= Mark(a)
  BY MarkIsGreatest
<1>2. \A s \in HighWater(events', a, apps'[a].lastSeq) : s <= Mark(a)
  BY <1>1 DEF HighWater
<1>3. Mark(a) \in HighWater(events', a, apps'[a].lastSeq)
  <2>1. CASE Mark(a) = apps[a].lastSeq
    BY <2>1 DEF HighWater
  <2>2. CASE Mark(a) # apps[a].lastSeq
    <3>1. PICK e \in events : e.app = a /\ e.seq = Mark(a)
      BY <1>1, <2>2 DEF HighWater
    <3>2. e \in events'
      <4> SUFFICES ASSUME e \notin events' PROVE FALSE
        OBVIOUS
      <4>1. PICK f \in events' : f.app = a /\ f.seq > e.seq
        BY <3>1
      <4>2. f.seq <= Mark(a) /\ f.seq \in Nat
        BY <1>1, <4>1 DEF HighWater, EventRows
      <4>3. QED
        BY <1>1, <3>1, <4>1, <4>2
    <3>3. QED
      BY <3>1, <3>2 DEF HighWater
  <2>3. QED
    BY <2>1, <2>2
<1>4. QED
  BY <1>2, <1>3, MarkBecomes

-----------------------------------------------------------------------------
(* Steps that add no row.                                                   *)

\* A row that goes leaves a higher one of its application behind.
Topped(a) == \A e \in events \ events' : e.app = a => \E f \in events' : f.app = a /\ f.seq > e.seq

\* A framed step keeps the pending rows next, if it takes nothing from their
\* applications but what lies below.
LEMMA FrameKeepsPending ==
  ASSUME TypeOK, TypeOK', OrderInv, OrderInv', LogInv, Frame,
         \A q \in Reqs : InTx(q)' /\ Sequenced(msg[q]) => Topped(msg[q].app)
  PROVE  PendingNext' /\ PendingIds'
<1> USE DEF TypeOK, TablesOK, RequestsOK
<1>1. ASSUME NEW q \in Reqs, pc'[q] = "commit"
      PROVE  /\ pc[q] = "commit" /\ msg'[q] = msg[q] /\ row'[q] = row[q] /\ InTx(q)'
             /\ Sequenced(msg[q]) => apps'[msg[q].app].lastSeq = apps[msg[q].app].lastSeq
  BY <1>1 DEF Frame, InTx
<1>2. PendingIds'
  <2>1. events' \subseteq events
    BY DEF Frame
  <2>2. QED
    BY <1>1, <2>1 DEF LogInv, PendingIds
<1>3. ASSUME NEW q \in Reqs, pc'[q] = "commit"
      PROVE  IF Sequenced(msg[q])'
               THEN row'[q].seq - 1 \in HighWater(events', msg'[q].app, apps'[msg'[q].app].lastSeq)
               ELSE row'[q].seq = 0
  <2>1. /\ pc[q] = "commit" /\ msg'[q] = msg[q] /\ row'[q] = row[q] /\ InTx(q)'
        /\ Sequenced(msg[q]) => apps'[msg[q].app].lastSeq = apps[msg[q].app].lastSeq
    BY <1>1, <1>3
  <2>2. CASE ~Sequenced(msg[q])
    BY <2>1, <2>2 DEF LogInv, PendingNext, Sequenced
  <2>3. CASE Sequenced(msg[q])
    <3> DEFINE a == msg[q].app
               n == row[q].seq
    <3>1. /\ n - 1 \in HighWater(events, a, apps[a].lastSeq)
          /\ n \in Nat /\ row[q].app = a
          /\ \A f \in events' : f.app = a => f.seq < n
      BY <1>3, <2>1, <2>3 DEF LogInv, PendingNext, OrderInv, PendingRowOnTop, EventRows, Sequenced
    <3>2. Topped(a)
      BY <2>1, <2>3
    <3>3. n - 1 \in HighWater(events', a, apps'[a].lastSeq)
      <4>1. CASE n - 1 = apps[a].lastSeq
        BY <2>1, <2>3, <4>1 DEF HighWater
      <4>2. CASE n - 1 # apps[a].lastSeq
        <5>1. PICK e \in events : e.app = a /\ e.seq = n - 1
          BY <3>1, <4>2 DEF HighWater
        <5>2. e \in events'
          <6> SUFFICES ASSUME e \notin events' PROVE FALSE
            OBVIOUS
          <6>1. PICK f \in events' : f.app = a /\ f.seq > e.seq
            BY <3>2, <5>1 DEF Topped
          <6>2. f.seq < n /\ f.seq \in Nat
            BY <3>1, <6>1 DEF EventRows
          <6>3. QED
            BY <3>1, <5>1, <6>1, <6>2
        <5>3. QED
          BY <5>1, <5>2 DEF HighWater
      <4>3. QED
        BY <4>1, <4>2
    <3>4. QED
      BY <2>1, <2>3, <3>3 DEF Sequenced
  <2>4. QED
    BY <2>2, <2>3
<1>4. QED
  BY <1>2, <1>3 DEF PendingNext

-----------------------------------------------------------------------------
(* Steps that leave the log alone.                                          *)

\* No row comes or goes, no mark moves, and no request comes to its commit.
Quiet ==
  /\ events' = events
  /\ \A a \in Apps : apps'[a].lastSeq = apps[a].lastSeq
  /\ \A q \in Reqs : pc'[q] = "commit" => pc[q] = "commit" /\ msg'[q] = msg[q] /\ row'[q] = row[q]

\* A quiet step keeps the invariant ...
LEMMA QuietKeepsLog ==
  ASSUME TypeOK, LogInv, Quiet
  PROVE  LogInv'
<1> USE DEF TypeOK, TablesOK, RequestsOK
<1>1. NewestThere' /\ PendingIds'
  BY DEF Quiet, LogInv, NewestThere, PendingIds
<1>2. ASSUME NEW q \in Reqs, pc'[q] = "commit"
      PROVE  IF Sequenced(msg[q])'
               THEN row'[q].seq - 1 \in HighWater(events', msg'[q].app, apps'[msg'[q].app].lastSeq)
               ELSE row'[q].seq = 0
  <2>1. /\ pc[q] = "commit" /\ msg'[q] = msg[q] /\ row'[q] = row[q] /\ events' = events
        /\ msg[q] \in Requests
    BY <1>2 DEF Quiet
  <2>2. Sequenced(msg[q]) => apps'[msg[q].app].lastSeq = apps[msg[q].app].lastSeq
    BY <2>1 DEF Quiet, Sequenced, Requests
  <2>3. QED
    BY <2>1, <2>2 DEF LogInv, PendingNext, Sequenced
<1>3. QED
  BY <1>1, <1>2 DEF LogInv, PendingNext

\* ... and shows no reader anything, but perhaps a registration.
LEMMA QuietIsSilent ==
  ASSUME Quiet
  PROVE  Entries' = Entries /\ Marks' = Marks
<1>1. Entries' = Entries
  BY DEF Quiet, Entries
<1>2. ASSUME NEW a \in Apps PROVE Mark(a)' = Mark(a)
  BY DEF Quiet, Mark
<1>3. QED
  BY <1>1, <1>2 DEF Marks

\* The checks, the lock, the duplicate check, the answers and the rollbacks
\* are quiet.
LEMMA ChecksAreQuiet ==
  ASSUME TypeOK, NEW r \in Reqs,
         \/ Arrival(r) \/ MoveGuard(r) \/ Authorize(r) \/ OwnerCheck(r)
         \/ RegisterOwnerCheck(r) \/ RegisterQuotaCheck(r)
         \/ BeginTx(r) \/ Dedupe(r) \/ Broadcast(r) \/ LockTimeout(r) \/ StatementFails(r)
  PROVE  Quiet /\ members' = members
<1> USE DEF TypeOK, TablesOK, RequestsOK
<1>1. CASE Arrival(r)
  <2>1. PICK step \in {"guard", "begin", "regOwner"} : pc' = [pc EXCEPT ![r] = step]
    BY <1>1 DEF Arrival, AcceptEvent, ProduceEvent, ApplicationRequest
  <2>2. /\ \A q \in Reqs \ {r} : msg'[q] = msg[q] /\ row'[q] = row[q]
        /\ apps' = apps /\ events' = events /\ members' = members
    BY <1>1 DEF Arrival, AcceptEvent, ProduceEvent, ApplicationRequest, appVars, logVars
  <2>3. QED
    BY <2>1, <2>2 DEF Quiet
<1>2. CASE ~Arrival(r)
  <2>1. /\ apps' = apps /\ events' = events /\ members' = members
        /\ \/ Return(r)
           \/ \E step \in {"authorize", "write", "owner", "begin", "regQuota", "guard", "dedupe", "insert"} : Goto(r, step)
    BY <1>2 DEF MoveGuard, Authorize, OwnerCheck, RegisterOwnerCheck, RegisterQuotaCheck, BeginTx, Dedupe,
                Broadcast, LockTimeout, StatementFails, Abort, appVars, logVars
  <2>2. QED
    BY <2>1 DEF Return, Goto, Quiet
<1>3. QED
  BY <1>1, <1>2

\* An UPDATE that keeps last_sequence is quiet.
LEMMA UpdateIsQuiet ==
  ASSUME TypeOK, NEW r \in Reqs, NEW op, NEW where, NEW newRow,
         UpdateApplication(r, op, where, newRow),
         msg[r].app \in Apps => newRow.lastSeq = apps[msg[r].app].lastSeq
  PROVE  Quiet /\ members' = members
<1> USE DEF TypeOK, TablesOK, RequestsOK
<1> DEFINE a == msg[r].app
           v == IF apps[a].exists /\ where THEN newRow ELSE apps[a]
<1>1. a \in Apps => v.lastSeq = apps[a].lastSeq
  OBVIOUS
<1>2. apps' = [apps EXCEPT ![a] = v] /\ events' = events /\ members' = members /\ Return(r)
  BY DEF UpdateApplication, logVars
<1>3. \A b \in Apps : apps'[b].lastSeq = apps[b].lastSeq
  <2> HIDE DEF v
  <2>1. QED
    BY <1>1, <1>2
<1>4. QED
  BY <1>2, <1>3 DEF Quiet, Return

\* So are the writes of an application row, except the end of a move.
LEMMA WritesAreQuiet ==
  ASSUME TypeOK, NEW r \in Reqs,
         \/ RegisterApplication(r) \/ StartMove(r) \/ AbortMove(r)
         \/ DeleteApplication(r) \/ SetAgentRead(r) \/ (CompleteMove(r) /\ Return(r))
  PROVE  Quiet /\ (members' = members \/ \E a \in Apps : \A b \in Apps \ {a} : members'[b] = members[b])
<1> USE DEF TypeOK, TablesOK, RequestsOK
<1> DEFINE a == msg[r].app
           row0 == apps[a]
<1>1. ASSUME NEW flag \in BOOLEAN, a \in Apps
      PROVE  /\ [row0 EXCEPT !.movedTo = flag].lastSeq = row0.lastSeq
             /\ [row0 EXCEPT !.deletedAt = clock].lastSeq = row0.lastSeq
             /\ [row0 EXCEPT !.agentRead = flag].lastSeq = row0.lastSeq
  BY <1>1 DEF AppRows
<1>2. CASE RegisterApplication(r)
  <2>1. /\ events' = events /\ Return(r)
        /\ apps' = [apps EXCEPT ![a] = [@ EXCEPT !.exists = TRUE, !.deletedAt = 0, !.movedTo = FALSE, !.movedAt = 0]]
        /\ \A b \in Apps \ {a} : members'[b] = members[b]
    BY <1>2 DEF RegisterApplication, logVars
  <2>2. \A b \in Apps : apps'[b].lastSeq = apps[b].lastSeq
    BY <2>1 DEF AppRows
  <2>3. a \notin Apps => members' = members
    BY <1>2 DEF RegisterApplication
  <2>4. Quiet
    BY <2>1, <2>2 DEF Quiet, Return
  <2>5. QED
    BY <2>1, <2>3, <2>4
<1>3. CASE CompleteMove(r) /\ Return(r)
  <2>1. pc'[r] = "idle" /\ pc[r] = "write"
    BY <1>3 DEF Return, CompleteMove, Writes
  <2>2. apps' = apps /\ events' = events /\ members' = members
    BY <1>3, <2>1 DEF CompleteMove
  <2>3. QED
    BY <1>3, <2>2 DEF Quiet, Return
<1>4. CASE StartMove(r)
  BY <1>1, <1>4, UpdateIsQuiet DEF StartMove
<1>5. CASE AbortMove(r)
  BY <1>1, <1>5, UpdateIsQuiet DEF AbortMove
<1>6. CASE DeleteApplication(r)
  BY <1>1, <1>6, UpdateIsQuiet DEF DeleteApplication
<1>7. CASE SetAgentRead(r)
  BY <1>1, <1>7, UpdateIsQuiet DEF SetAgentRead
<1>8. QED
  BY <1>2, <1>3, <1>4, <1>5, <1>6, <1>7

\* So are a crash and the clock.
LEMMA CrashAndTickAreQuiet ==
  ASSUME TypeOK, Crash \/ Tick \/ UNCHANGED vars
  PROVE  Quiet /\ members' = members
BY DEF Crash, Tick, vars, appVars, logVars, reqVars, Quiet, TypeOK, RequestsOK

-----------------------------------------------------------------------------
(* Steps of the log.                                                        *)

\* InsertAndExecute shows no reader anything; the row it leaves pending has the
\* next number and an id of its own.
LEMMA InsertKeepsLog ==
  ASSUME TypeOK, LogInv, NEW r \in Reqs, InsertAndExecute(r)
  PROVE  LogInv' /\ Entries' = Entries /\ Marks' = Marks /\ members' = members
<1> USE DEF TypeOK, TablesOK, RequestsOK
<1>1. events' = events /\ apps' = apps /\ members' = members /\ pc[r] = "insert" /\ msg[r] \in Requests
  BY DEF InsertAndExecute, appVars
<1>2. CASE Return(r)
  <2>1. Quiet
    BY <1>1, <1>2 DEF Quiet, Return
  <2>2. QED
    BY <1>1, <2>1, QuietKeepsLog, QuietIsSilent
<1>3. CASE ~Return(r)
  <2> DEFINE m == msg[r]
  <2>1. /\ pc' = [pc EXCEPT ![r] = "commit"] /\ msg' = msg
        /\ \A e \in events : e.id # m.id
        /\ \A q \in Reqs \ {r} : pc[q] = "commit" => row[q].id # m.id
    BY <1>3 DEF InsertAndExecute, InsertBlocked
  <2>2. PICK seq : /\ row' = [row EXCEPT ![r] = RowFor(m, seq)]
                   /\ IF Sequenced(m)
                        THEN seq \in GetNextSequence(events, m.app, apps[m.app].lastSeq)
                        ELSE seq = 0
    BY <1>3 DEF InsertAndExecute
  <2>3. row'[r].id = m.id /\ row'[r].seq = seq
    BY <2>2 DEF RowFor
  <2>4. Sequenced(m) => seq - 1 \in HighWater(events, m.app, apps[m.app].lastSeq)
    <3> SUFFICES ASSUME Sequenced(m)
                 PROVE  seq - 1 \in HighWater(events, m.app, apps[m.app].lastSeq)
      OBVIOUS
    <3>1. apps[m.app].lastSeq \in Nat
      BY <1>1 DEF Sequenced, Requests, AppRows
    <3>2. PICK h \in HighWater(events, m.app, apps[m.app].lastSeq) : seq = h + 1
      BY <2>2 DEF GetNextSequence
    <3>3. h \in Nat
      BY <3>1, <3>2, HighWaterType
    <3>4. QED
      BY <3>2, <3>3
  <2>5. PendingNext'
    <3> SUFFICES ASSUME NEW q \in Reqs, pc'[q] = "commit"
                 PROVE  IF Sequenced(msg[q])
                          THEN row'[q].seq - 1 \in HighWater(events, msg[q].app, apps[msg[q].app].lastSeq)
                          ELSE row'[q].seq = 0
      BY <1>1, <2>1 DEF PendingNext, Sequenced
    <3>1. CASE q = r
      BY <2>2, <2>3, <2>4, <3>1
    <3>2. CASE q # r
      BY <2>1, <2>2, <3>2 DEF LogInv, PendingNext
    <3>3. QED
      BY <3>1, <3>2
  <2>6. PendingIds'
    <3>1. ASSUME NEW q \in Reqs, q # r, pc'[q] = "commit"
          PROVE  pc[q] = "commit" /\ row'[q] = row[q] /\ row[q].id # m.id
      BY <2>1, <2>2, <3>1
    <3>2. QED
      BY <1>1, <2>1, <2>3, <3>1 DEF LogInv, PendingIds
  <2>7. NewestThere' /\ Entries' = Entries /\ Marks' = Marks
    BY <1>1 DEF LogInv, NewestThere, Entries, Marks, Mark
  <2>8. QED
    BY <1>1, <2>5, <2>6, <2>7 DEF LogInv
<1>4. QED
  BY <1>2, <1>3

\* An event leaves last_sequence alone or raises it to its own number.
LEMMA CommitRaises ==
  ASSUME NEW app \in AppRows, NEW m, NEW seq
  PROVE  AfterExecution(app, m, seq).lastSeq \in {app.lastSeq, seq}
BY DEF AfterExecution, AppRows

\* The newest row stays there when one goes on top of the log.
LEMMA CommitKeepsNewest ==
  ASSUME TypeOK, OrderInv, NewestThere, NEW r \in Reqs, Commit(r)
  PROVE  NewestThere'
<1> USE DEF TypeOK, TablesOK, RequestsOK
<1> SUFFICES ASSUME NEW e \in events', e.app # NoApp
             PROVE  \E n \in events' : n.app = e.app /\ \A f \in events' : f.app = e.app => f.ord <= n.ord
  BY DEF NewestThere
<1>1. /\ events' = events \cup {row[r]} /\ row[r] \in EventRows
      /\ \A f \in events : f.app = row[r].app /\ row[r].app # NoApp => f.ord < row[r].ord
  BY DEF Commit, OrderInv, PendingRowOnTop, Sequenced
<1>2. row[r].ord \in Nat /\ \A f \in events : f.ord \in Nat
  BY <1>1 DEF EventRows
<1>3. CASE e.app = row[r].app
  <2>1. \A f \in events' : f.app = e.app => f.ord <= row[r].ord
    BY <1>1, <1>2, <1>3
  <2>2. QED
    BY <1>1, <1>3, <2>1
<1>4. CASE e.app # row[r].app
  <2>1. PICK n \in events : n.app = e.app /\ \A f \in events : f.app = e.app => f.ord <= n.ord
    BY <1>1, <1>4 DEF NewestThere
  <2>2. QED
    BY <1>1, <1>4, <2>1
<1>5. QED
  BY <1>3, <1>4

\* Commit is an entry of the log: the next number of its application, or a
\* note of an account.
LEMMA CommitRefines ==
  ASSUME TypeOK, TypeOK', OrderInv, LogInv, NEW r \in Reqs, Commit(r)
  PROVE  /\ LogInv'
         /\ \/ \E a \in Apps, id \in Ids : Log!Append(a, id)
            \/ \E id \in Ids : Log!Note(id)
<1> USE DEF TypeOK, TablesOK, RequestsOK
<1> DEFINE m == msg[r]
           n == row[r].seq
<1>1. /\ pc[r] = "commit" /\ pc' = [pc EXCEPT ![r] = "broadcast"] /\ msg' = msg /\ row' = row
      /\ events' = events \cup {row[r]}
  BY DEF Commit, Goto
<1>2. m \in Requests /\ row[r] \in EventRows /\ n \in Nat /\ m.id \in Ids
  BY <1>1 DEF EventRows, Requests
<1>3. /\ row[r].app = m.app /\ row[r].id = m.id
      /\ \A e \in events : e.id # m.id
  BY <1>1 DEF OrderInv, PendingRowOnTop, LogInv, PendingIds
<1>4. NewestThere'
  BY CommitKeepsNewest DEF LogInv
<1>5. \A b \in Apps \ {m.app} : apps'[b] = apps[b] /\ members'[b] = members[b]
  BY DEF Commit
<1>6. ASSUME NEW b \in Apps, b # m.app
      PROVE  HighWater(events', b, apps'[b].lastSeq) = HighWater(events, b, apps[b].lastSeq)
  BY <1>1, <1>3, <1>5, <1>6 DEF HighWater
<1>7. PendingIds'
  <2>1. \A q \in Reqs : pc'[q] = "commit" => pc[q] = "commit" /\ q # r
    BY <1>1
  <2>2. QED
    BY <1>1, <2>1 DEF LogInv, PendingIds
<1>8. PendingNext'
  <2> SUFFICES ASSUME NEW q \in Reqs, pc'[q] = "commit"
               PROVE  IF Sequenced(msg[q])
                        THEN row[q].seq - 1 \in HighWater(events', msg[q].app, apps'[msg[q].app].lastSeq)
                        ELSE row[q].seq = 0
    BY <1>1 DEF PendingNext, Sequenced
  <2>1. pc[q] = "commit" /\ q # r /\ msg[q] \in Requests
    BY <1>1
  <2>2. CASE Sequenced(msg[q])
    <3>1. msg[q].app \in Apps /\ lock[msg[q].app] = q
      BY <2>1, <2>2 DEF OrderInv, LockHeld, InTx, Sequenced, Requests
    <3>2. m.app # NoApp => lock[m.app] = r
      BY <1>1 DEF OrderInv, LockHeld, InTx, Sequenced
    <3>3. msg[q].app # m.app
      BY <2>1, <2>2, <3>1, <3>2 DEF Sequenced
    <3>4. QED
      BY <1>6, <2>1, <2>2, <3>1, <3>3 DEF LogInv, PendingNext
  <2>3. CASE ~Sequenced(msg[q])
    BY <2>1, <2>3 DEF LogInv, PendingNext
  <2>4. QED
    BY <2>2, <2>3
<1>9. ASSUME NEW b \in Apps, b # m.app PROVE Mark(b)' = Mark(b)
  BY <1>6, <1>9 DEF Mark
<1>10. Entries' = Entries \cup {[app |-> m.app, seq |-> n, id |-> m.id]}
  BY <1>1, <1>3 DEF Entries
<1>11. \A e \in Entries : e.id # m.id
  BY <1>3 DEF Entries
<1>12. CASE ~Sequenced(m)
  <2>1. n = 0 /\ m.app = NoApp
    BY <1>1, <1>12 DEF LogInv, PendingNext, Sequenced
  <2>2. members' = members
    BY <1>12 DEF Commit
  <2>3. Marks' = Marks
    BY <1>9, <2>1 DEF Marks
  <2>4. Log!Note(m.id)
    BY <1>10, <1>11, <2>1, <2>2, <2>3 DEF Log!Note
  <2>5. QED
    BY <1>2, <1>4, <1>7, <1>8, <2>4 DEF LogInv
<1>13. CASE Sequenced(m)
  <2>1. PICK a \in Apps : a = m.app
    BY <1>2, <1>13 DEF Requests, Sequenced
  <2> DEFINE S == HighWater(events, a, apps[a].lastSeq)
             T == HighWater(events', a, apps'[a].lastSeq)
  <2>2. S \subseteq Nat /\ apps[a].lastSeq \in S /\ apps[a].lastSeq \in Nat
    BY <2>1, HighWaterType DEF AppRows
  <2>3. n - 1 \in S /\ \A s \in S : s < n
    <3>1. n - 1 \in S
      BY <1>1, <1>13, <2>1 DEF LogInv, PendingNext
    <3>2. apps[a].lastSeq < n /\ \A e \in events : e.app = a => e.seq < n
      BY <1>1, <1>3, <1>13, <2>1 DEF OrderInv, PendingRowOnTop
    <3>3. QED
      BY <3>1, <3>2 DEF HighWater
  <2>4. Mark(a) = n - 1
    <3>1. \A s \in S : s <= n - 1
      BY <1>2, <2>2, <2>3
    <3>2. QED
      BY <2>2, <2>3, <3>1, GreatestIsUnique DEF Mark
  <2>5. Mark(a)' = n
    <3>1. n \in T
      BY <1>1, <1>3, <2>1 DEF HighWater
    <3>2. apps' = [apps EXCEPT ![a] = AfterExecution(apps[a], m, n)]
      BY <1>13, <2>1 DEF Commit
    <3>3. apps'[a].lastSeq \in {apps[a].lastSeq, n}
      BY <2>1, <3>2, CommitRaises
    <3>4. \A s \in T : s \in S \/ s = n
      BY <1>1, <2>1, <2>2, <3>3 DEF HighWater
    <3>5. \A s \in T : s <= n
      BY <1>2, <2>2, <2>3, <3>4, AboveAll
    <3>6. QED
      BY <2>1, <3>1, <3>5, MarkBecomes
  <2>6. Marks' = [Marks EXCEPT ![a] = @ + 1]
    <3>1. Mark(a)' = Mark(a) + 1
      BY <1>2, <2>4, <2>5
    <3>2. QED
      BY <1>9, <2>1, <3>1 DEF Marks
  <2>7. n = Marks[a] + 1
    BY <1>2, <2>1, <2>4 DEF Marks
  <2>8. Log!OnlyPeopleOf(a)
    BY <1>5, <2>1 DEF Log!OnlyPeopleOf
  <2>9. Log!Append(a, m.id)
    BY <1>10, <1>11, <2>1, <2>6, <2>7, <2>8 DEF Log!Append
  <2>10. QED
    BY <1>2, <1>4, <1>7, <1>8, <2>1, <2>9 DEF LogInv
<1>14. QED
  BY <1>12, <1>13

\* Natural numbers are ordered.
LEMMA NotBelow ==
  ASSUME NEW x \in Nat, NEW y \in Nat, ~(x < y)
  PROVE  x = y \/ y < x
OBVIOUS

\* Of every application with rows cleanup spares the newest row, which has the
\* highest number.
LEMMA NewestIsSpared ==
  ASSUME TypeOK, OrderInv, NewestThere, CleanupOldEvents
  PROVE  \A e \in events : e.app # NoApp =>
           \E n \in events' : /\ n.app = e.app
                              /\ \A f \in events : f.app = e.app => f.ord <= n.ord
                              /\ e = n \/ e.seq < n.seq
<1> USE DEF TypeOK, TablesOK
<1>1. events' = Retained(events, clock - Retention)
  BY DEF CleanupOldEvents
<1>2. ASSUME NEW e \in events, e.app # NoApp
      PROVE  \E n \in events' : /\ n.app = e.app
                                /\ \A f \in events : f.app = e.app => f.ord <= n.ord
                                /\ e = n \/ e.seq < n.seq
  <2>1. PICK n \in events : n.app = e.app /\ \A f \in events : f.app = e.app => f.ord <= n.ord
    BY <1>2 DEF NewestThere
  <2>2. n \in events'
    BY <1>1, <1>2, <2>1 DEF Retained, NewestOfItsStream
  <2>3. e.ord <= n.ord /\ e.ord \in Nat /\ n.ord \in Nat /\ e.seq \in Nat /\ n.seq \in Nat
    BY <2>1 DEF EventRows
  <2>4. n.seq < e.seq => n.ord < e.ord
    BY <1>2, <2>1 DEF OrderInv, CursorFollowsSequence
  <2>5. n.seq = e.seq => n = e
    BY <1>2, <2>1 DEF OrderInv, SequenceUnique
  <2>6. e = n \/ e.seq < n.seq
    <3>1. ~(n.seq < e.seq)
      BY <2>3, <2>4
    <3>2. n.seq = e.seq \/ e.seq < n.seq
      BY <2>3, <3>1, NotBelow
    <3>3. QED
      BY <2>5, <3>2
  <2>7. QED
    BY <2>1, <2>2, <2>6
<1>3. QED
  BY <1>2

\* CleanupOldEvents prunes the log, but never the newest row of an application.
LEMMA CleanupRefines ==
  ASSUME TypeOK, TypeOK', OrderInv, OrderInv', LogInv, CleanupOldEvents
  PROVE  LogInv' /\ Log!Prune
<1> USE DEF TypeOK, TablesOK, RequestsOK
<1>1. /\ events' = Retained(events, clock - Retention) /\ events' \subseteq events
      /\ apps' = apps /\ members' = members
  BY DEF CleanupOldEvents, Retained, appVars
<1>2. Frame
  BY BackgroundIsFramed DEF OrderInv
<1>3. \A e \in events : e.app # NoApp =>
        \E n \in events' : /\ n.app = e.app
                           /\ \A f \in events : f.app = e.app => f.ord <= n.ord
                           /\ e = n \/ e.seq < n.seq
  BY NewestIsSpared DEF LogInv
<1>4. NewestThere'
  BY <1>1, <1>3 DEF NewestThere
<1>5. ASSUME NEW a \in Apps PROVE Topped(a)
  <2> SUFFICES ASSUME NEW e \in events \ events', e.app = a
               PROVE  \E f \in events' : f.app = a /\ f.seq > e.seq
    BY DEF Topped
  <2>1. e.app # NoApp
    OBVIOUS
  <2>2. PICK n \in events' : n.app = e.app /\ (e = n \/ e.seq < n.seq)
    BY <1>3, <2>1
  <2>3. e.seq \in Nat /\ n.seq \in Nat /\ e.seq < n.seq
    BY <2>2 DEF EventRows
  <2>4. QED
    BY <2>2, <2>3
<1>6. PendingNext' /\ PendingIds'
  <2>1. ASSUME NEW q \in Reqs, InTx(q)', Sequenced(msg[q]) PROVE msg[q].app \in Apps
    BY <1>2, <2>1 DEF Frame, InTx, Sequenced, Requests
  <2>2. QED
    BY <1>2, <1>5, <2>1, FrameKeepsPending
<1>7. Marks' = Marks
  <2>1. ASSUME NEW a \in Apps PROVE Mark(a)' = Mark(a)
    BY <1>1, <1>5, MarkStays DEF Topped, LogInv
  <2>2. QED
    BY <2>1 DEF Marks
<1>8. Entries' \subseteq Entries
  BY <1>1 DEF Entries
<1>9. ASSUME NEW x \in Entries \ Entries', x.app \in Apps
      PROVE  \E y \in Entries' : y.app = x.app /\ y.seq > x.seq
  <2>1. PICK e \in events : x = [app |-> e.app, seq |-> e.seq, id |-> e.id]
    BY DEF Entries
  <2>2. e \notin events' /\ e.app \in Apps
    BY <1>9, <2>1 DEF Entries
  <2>3. PICK f \in events' : f.app = e.app /\ f.seq > e.seq
    BY <1>5, <2>2 DEF Topped
  <2>4. [app |-> f.app, seq |-> f.seq, id |-> f.id] \in Entries'
    BY DEF Entries
  <2>5. QED
    BY <2>1, <2>3, <2>4
<1>10. QED
  BY <1>1, <1>4, <1>6, <1>7, <1>8, <1>9 DEF LogInv, Log!Prune

\* A step that takes the whole log of an application, while nobody holds its
\* row lock, ends it.
LEMMA EndRefines ==
  ASSUME TypeOK, TypeOK', OrderInv, OrderInv', LogInv, Frame, NEW a \in Apps,
         lock[a] = NoReq, events' = {e \in events : e.app # a},
         \A b \in Apps \ {a} : apps'[b] = apps[b],
         apps'[a].lastSeq \in {apps[a].lastSeq, 0},
         members' = members \/ members' = [members EXCEPT ![a] = [k \in Keys |-> NoMember]]
  PROVE  LogInv' /\ Log!End(a)
<1> USE DEF TypeOK, TablesOK, RequestsOK
<1>1. NewestThere'
  <2> SUFFICES ASSUME NEW e \in events', e.app # NoApp
               PROVE  \E n \in events' : n.app = e.app /\ \A f \in events' : f.app = e.app => f.ord <= n.ord
    BY DEF NewestThere
  <2>1. PICK n \in events : n.app = e.app /\ \A f \in events : f.app = e.app => f.ord <= n.ord
    BY DEF LogInv, NewestThere
  <2>2. QED
    BY <2>1
<1>2. \A b \in Apps \ {a} : Topped(b)
  BY DEF Topped
<1>3. PendingNext' /\ PendingIds'
  <2>1. ASSUME NEW q \in Reqs, InTx(q)', Sequenced(msg[q]) PROVE msg[q].app \in Apps \ {a}
    <3>1. InTx(q) /\ lock[msg[q].app] = q
      BY <2>1 DEF Frame, OrderInv, LockHeld
    <3>2. msg[q].app \in Apps
      BY <2>1, <3>1 DEF InTx, Sequenced, Requests
    <3>3. QED
      BY <3>1, <3>2
  <2>2. QED
    BY <1>2, <2>1, FrameKeepsPending
<1>4. ASSUME NEW b \in Apps, b # a PROVE Mark(b)' = Mark(b)
  BY <1>2, <1>4, MarkStays DEF Topped, LogInv
<1>5. Mark(a)' \in 0 .. Mark(a)
  <2> DEFINE l == apps'[a].lastSeq
  <2>1. l \in Nat /\ apps[a].lastSeq \in Nat
    BY DEF AppRows
  <2>2. HighWater(events', a, l) = {l}
    BY DEF HighWater
  <2>3. Mark(a)' = l
    <3>1. l \in HighWater(events', a, l) /\ \A s \in HighWater(events', a, l) : s <= l
      <4> HIDE DEF l
      <4>1. QED
        BY <2>1, <2>2
    <3>2. QED
      BY <3>1, MarkBecomes
  <2>4. Mark(a) \in Nat /\ apps[a].lastSeq <= Mark(a)
    BY <2>1, MarkIsGreatest, HighWaterType DEF LogInv
  <2>5. QED
    BY <2>1, <2>3, <2>4
<1>6. Marks' = [Marks EXCEPT ![a] = Mark(a)'] /\ Marks[a] = Mark(a)
  BY <1>4 DEF Marks
<1>7. Entries' = Entries \ Log!Of(a)
  BY DEF Entries, Log!Of
<1>8. QED
  BY <1>1, <1>3, <1>5, <1>6, <1>7 DEF LogInv, Log!End

-----------------------------------------------------------------------------
(* The application endpoints name an application.                           *)

\* Only events may be outside every application.
OpsNameApps ==
  \A r \in Reqs : pc[r] # "idle" => msg[r].op \in {"accept", "produce"} \/ msg[r].app \in Apps

\* No step loses the application of an application request.
LEMMA OpsStep == TypeOK /\ OpsNameApps /\ [Next]_vars => OpsNameApps'
<1> SUFFICES ASSUME TypeOK, OpsNameApps, [Next]_vars PROVE OpsNameApps'
  OBVIOUS
<1> USE DEF TypeOK, RequestsOK
<1>1. ASSUME NEW r \in Reqs, Arrival(r) PROVE OpsNameApps'
  <2>1. /\ \A q \in Reqs \ {r} : msg'[q] = msg[q] /\ pc'[q] = pc[q]
        /\ msg'[r].op \in {"accept", "produce"} \/ msg'[r].app \in Apps
    <3>1. CASE AcceptEvent(r)
      BY <3>1 DEF AcceptEvent
    <3>2. CASE ProduceEvent(r)
      BY <3>2, MessagesAssumption DEF ProduceEvent, Requests
    <3>3. CASE ApplicationRequest(r)
      BY <3>3, MessagesAssumption DEF ApplicationRequest, Requests
    <3>4. QED
      BY <1>1, <3>1, <3>2, <3>3 DEF Arrival
  <2>2. QED
    BY <2>1 DEF OpsNameApps
<1>2. ASSUME NEW r \in Reqs, Return(r) PROVE OpsNameApps'
  BY <1>2 DEF Return, OpsNameApps
<1>3. ASSUME NEW r \in Reqs, pc[r] # "idle", msg' = msg, NEW step, pc' = [pc EXCEPT ![r] = step]
      PROVE  OpsNameApps'
  BY <1>3 DEF OpsNameApps
<1>4. ASSUME NEW r \in Reqs, CompleteMove(r), ~Return(r) PROVE OpsNameApps'
  <2>1. /\ msg' = [msg EXCEPT ![r] = [@ EXCEPT !.op = "produce", !.type = "application_moved"]]
        /\ pc' = [pc EXCEPT ![r] = "begin"] /\ msg[r] \in Requests
    BY <1>4 DEF CompleteMove, Writes
  <2>2. msg'[r].op = "produce"
    BY <2>1 DEF Requests
  <2>3. QED
    BY <2>1, <2>2 DEF OpsNameApps
<1>5. ASSUME NEW r \in Reqs, RequestStep(r) \/ LockTimeout(r) \/ StatementFails(r) PROVE OpsNameApps'
  <2>1. \/ Return(r)
        \/ CompleteMove(r) /\ ~Return(r)
        \/ pc[r] # "idle" /\ msg' = msg /\ \E step : pc' = [pc EXCEPT ![r] = step]
    BY <1>5 DEF RequestStep, MoveGuard, Authorize, OwnerCheck, RegisterOwnerCheck, RegisterQuotaCheck,
                RegisterApplication, StartMove, AbortMove, DeleteApplication, SetAgentRead, UpdateApplication,
                BeginTx, Dedupe, InsertAndExecute, Commit, Broadcast, LockTimeout, StatementFails, Abort, Goto
  <2>2. QED
    BY <1>2, <1>3, <1>4, <2>1
<1>6. CASE Crash \/ CleanupOldEvents \/ Tick \/ UNCHANGED vars \/ \E a \in Apps : PurgeApplication(a)
  BY <1>6 DEF Crash, CleanupOldEvents, Tick, vars, PurgeApplication, reqVars, OpsNameApps
<1>7. QED
  BY <1>1, <1>5, <1>6 DEF Next

-----------------------------------------------------------------------------
(* The refinement.                                                          *)

\* A space starts with an empty log.
LEMMA RefinementInit == Init => LogInv /\ OpsNameApps /\ Log!Init
<1> SUFFICES ASSUME Init PROVE LogInv /\ OpsNameApps /\ Log!Init
  OBVIOUS
<1>1. LogInv /\ OpsNameApps
  BY DEF Init, LogInv, NewestThere, PendingNext, PendingIds, OpsNameApps
<1>2. Entries = {}
  BY DEF Init, Entries
<1>3. ASSUME NEW a \in Apps PROVE Mark(a) = 0
  <2>1. HighWater(events, a, apps[a].lastSeq) = {0}
    BY DEF Init, HighWater, NoAppRow
  <2>2. QED
    BY <2>1, GreatestIsUnique DEF Mark
<1>4. QED
  BY <1>1, <1>2, <1>3 DEF Init, Log!Init, Marks

\* Every step keeps the invariant and is a step of the log, or none.
LEMMA RefinementStep ==
  ASSUME TypeOK, TypeOK', OrderInv, OrderInv', OpsNameApps, LogInv, [Next]_vars
  PROVE  LogInv' /\ [Log!Next]_(Log!logVars)
<1>1. ASSUME Quiet,
             members' = members \/ \E a \in Apps : \A b \in Apps \ {a} : members'[b] = members[b]
      PROVE  LogInv' /\ [Log!Next]_(Log!logVars)
  <2>1. LogInv' /\ Entries' = Entries /\ Marks' = Marks
    BY <1>1, QuietKeepsLog, QuietIsSilent
  <2>2. CASE members' = members
    BY <2>1, <2>2 DEF Log!logVars
  <2>3. CASE \E a \in Apps : \A b \in Apps \ {a} : members'[b] = members[b]
    BY <2>1, <2>3 DEF Log!Next, Log!Register, Log!OnlyPeopleOf
  <2>4. QED
    BY <1>1, <2>2, <2>3
<1>2. ASSUME NEW r \in Reqs, CompleteMove(r), ~Return(r)
      PROVE  LogInv' /\ [Log!Next]_(Log!logVars)
  <2>1. pc[r] = "write" /\ msg[r].op = "completeMove" /\ lock[msg[r].app] = NoReq
    BY <1>2 DEF CompleteMove, Writes
  <2>2. PICK a \in Apps : a = msg[r].app
    BY <2>1 DEF OpsNameApps
  <2>3. /\ apps' = [apps EXCEPT ![a] = [apps[a] EXCEPT !.movedAt = clock, !.deletedAt = clock]]
        /\ events' = {e \in events : e.app # a} /\ members' = members
    BY <1>2, <2>2 DEF CompleteMove
  <2>4. apps'[a].lastSeq = apps[a].lastSeq /\ \A b \in Apps \ {a} : apps'[b] = apps[b]
    BY <2>3 DEF TypeOK, TablesOK, AppRows
  <2>5. Frame
    BY <1>2, AppWritesAreFramed DEF OrderInv
  <2>6. LogInv' /\ Log!End(a)
    BY <2>1, <2>2, <2>3, <2>4, <2>5, EndRefines
  <2>7. QED
    BY <2>6 DEF Log!Next
<1>3. ASSUME NEW a \in Apps, PurgeApplication(a)
      PROVE  LogInv' /\ [Log!Next]_(Log!logVars)
  <2>1. /\ lock[a] = NoReq /\ events' = {e \in events : e.app # a}
        /\ members' = [members EXCEPT ![a] = [k \in Keys |-> NoMember]]
        /\ apps' = [apps EXCEPT ![a] = NoAppRow]
    BY <1>3 DEF PurgeApplication
  <2>2. apps'[a].lastSeq = 0 /\ \A b \in Apps \ {a} : apps'[b] = apps[b]
    BY <2>1 DEF TypeOK, TablesOK, NoAppRow
  <2>3. Frame
    BY <1>3, PurgeIsFramed DEF OrderInv
  <2>4. LogInv' /\ Log!End(a)
    BY <2>1, <2>2, <2>3, EndRefines
  <2>5. QED
    BY <2>4 DEF Log!Next
<1>4. ASSUME NEW r \in Reqs, InsertAndExecute(r)
      PROVE  LogInv' /\ [Log!Next]_(Log!logVars)
  BY <1>4, InsertKeepsLog DEF Log!logVars
<1>5. ASSUME NEW r \in Reqs, Commit(r)
      PROVE  LogInv' /\ [Log!Next]_(Log!logVars)
  BY <1>5, CommitRefines DEF Log!Next
<1>6. CASE CleanupOldEvents
  BY <1>6, CleanupRefines DEF Log!Next
<1>7. CASE Crash \/ Tick \/ UNCHANGED vars
  BY <1>1, <1>7, CrashAndTickAreQuiet
<1>8. ASSUME NEW r \in Reqs, Arrival(r) \/ RequestStep(r) \/ LockTimeout(r) \/ StatementFails(r)
      PROVE  LogInv' /\ [Log!Next]_(Log!logVars)
  BY <1>1, <1>2, <1>4, <1>5, <1>8, ChecksAreQuiet, WritesAreQuiet DEF RequestStep
<1>9. QED
  BY <1>3, <1>6, <1>7, <1>8 DEF Next

\* The invariant of the log holds in every state.
THEOREM LogInvHolds == Spec => [](LogInv /\ OpsNameApps)
<1>1. TypeOK /\ OpsNameApps /\ [Next]_vars => OpsNameApps'
  BY OpsStep
<1>2. TypeOK /\ TypeOK' /\ OrderInv /\ OrderInv' /\ OpsNameApps /\ LogInv /\ [Next]_vars => LogInv'
  BY RefinementStep
<1>3. QED
  BY <1>1, <1>2, TypeCorrect, OrderHolds, RefinementInit, PTL DEF Spec

\* The event pipeline implements one atomic, gap-free log per application, for
\* any number of requests, applications and members: the row lock of
\* persistAndApply, the duplicate check under it and the newest row that
\* DeleteOlderThan spares are what the argument rests on.
THEOREM PipelineImplementsLog == Spec => ImplementsLog
<1>1. TypeOK /\ TypeOK' /\ OrderInv /\ OrderInv' /\ OpsNameApps /\ LogInv /\ [Next]_vars
        => [Log!Next]_(Log!logVars)
  BY RefinementStep
<1>2. Init => Log!Init
  BY RefinementInit
<1>3. QED
  BY <1>1, <1>2, TypeCorrect, OrderHolds, LogInvHolds, PTL DEF Spec, ImplementsLog, Log!Spec

-----------------------------------------------------------------------------
(* A retry is applied once.                                                 *)

\* What a step does that commits nothing: it drops only rows past the retention
\* or with all the application's history, and nothing comes to its commit.
NothingIssued ==
  /\ issued' \subseteq issued
  /\ clock' \in Nat /\ clock' >= clock
  /\ \A x \in issued' : Wiped(x.app) => Wiped(x.app)'
  /\ \A e \in events : \/ e \in events' \/ e.at + Retention < clock' \/ Wiped(e.app)'
                       \/ \A x \in issued' : x.app # e.app
  /\ \A q \in Reqs : pc'[q] = "commit" => pc[q] = "commit" /\ row'[q] = row[q] /\ clock' = clock

\* Such a step keeps AppliedInv.
LEMMA NothingIssuedKeeps ==
  ASSUME TypeOK, AppliedInv, NothingIssued
  PROVE  AppliedInv'
<1>1. IssuedKept'
  <2> SUFFICES ASSUME NEW x \in issued'
               PROVE  \/ Wiped(x.app)' \/ x.at + Retention < clock'
                      \/ \E e \in events' : e.id = x.id /\ e.app = x.app /\ e.at = x.at
    BY DEF IssuedKept, Wiped
  <2>1. x \in issued /\ x.at \in Nat /\ clock \in Nat /\ clock' \in Nat /\ clock <= clock'
    BY DEF NothingIssued, TypeOK, TablesOK, Issues
  <2>2. CASE Wiped(x.app)
    BY <2>1, <2>2 DEF NothingIssued
  <2>3. CASE x.at + Retention < clock
    BY <2>1, <2>3, BoundsAssumption
  <2>4. ASSUME NEW e \in events, e.id = x.id, e.app = x.app, e.at = x.at
        PROVE  \/ Wiped(x.app)' \/ x.at + Retention < clock'
               \/ \E f \in events' : f.id = x.id /\ f.app = x.app /\ f.at = x.at
    <3>1. e \in events' \/ e.at + Retention < clock' \/ Wiped(e.app)'
      BY <2>4 DEF NothingIssued
    <3>2. CASE e \in events'
      BY <2>4, <3>2
    <3>3. CASE e.at + Retention < clock'
      BY <2>4, <3>3
    <3>4. CASE Wiped(e.app)'
      BY <2>4, <3>4 DEF Wiped
    <3>5. QED
      BY <3>1, <3>2, <3>3, <3>4
  <2>5. QED
    BY <2>1, <2>2, <2>3, <2>4 DEF AppliedInv, IssuedKept
<1>2. RowsOfToday'
  BY DEF AppliedInv, RowsOfToday, NothingIssued
<1>3. AppliedOnce'
  <2>1. ASSUME NEW x \in issued', NEW y \in issued', x.id = y.id, x # y, ~Wiped(x.app)', ~Wiped(y.app)'
        PROVE  x.at - y.at > Retention \/ y.at - x.at > Retention
    <3>1. x \in issued /\ y \in issued /\ ~Wiped(x.app) /\ ~Wiped(y.app)
      BY <2>1 DEF NothingIssued
    <3>2. QED
      BY <2>1, <3>1 DEF AppliedInv, AppliedOnce
  <2>2. QED
    BY <2>1 DEF AppliedOnce, Wiped
<1>4. QED
  BY <1>1, <1>2, <1>3 DEF AppliedInv

\* Arrivals, checks, writes of the application row, the lock, the duplicate
\* check, answers and rollbacks commit nothing; a completed move wipes what it
\* drops.
LEMMA ChecksIssueNothing ==
  ASSUME TypeOK, NEW r \in Reqs,
         \/ Arrival(r) \/ LockTimeout(r) \/ StatementFails(r)
         \/ MoveGuard(r) \/ Authorize(r) \/ OwnerCheck(r) \/ RegisterOwnerCheck(r) \/ RegisterQuotaCheck(r)
         \/ RegisterApplication(r) \/ StartMove(r) \/ AbortMove(r) \/ DeleteApplication(r) \/ SetAgentRead(r)
         \/ BeginTx(r) \/ Dedupe(r) \/ Broadcast(r)
  PROVE  NothingIssued
<1>1. UNCHANGED <<issued, events, wiped, clock>>
  BY DEF Arrival, AcceptEvent, ProduceEvent, ApplicationRequest, LockTimeout, StatementFails, Abort, MoveGuard,
         Authorize, OwnerCheck, RegisterOwnerCheck, RegisterQuotaCheck, RegisterApplication, StartMove,
         AbortMove, DeleteApplication, SetAgentRead, UpdateApplication, BeginTx, Dedupe, Broadcast, appVars,
         logVars
<1>2. \A q \in Reqs : pc'[q] = "commit" => pc[q] = "commit" /\ row'[q] = row[q]
  <2>1. CASE Arrival(r)
    BY <2>1 DEF Arrival, AcceptEvent, ProduceEvent, ApplicationRequest, TypeOK, RequestsOK
  <2>2. CASE ~Arrival(r)
    <3>1. \/ Return(r)
          \/ \E step \in {"authorize", "write", "owner", "regQuota", "guard", "begin", "dedupe", "insert"} :
               Goto(r, step)
      BY <2>2 DEF LockTimeout, StatementFails, Abort, MoveGuard, Authorize, OwnerCheck, RegisterOwnerCheck,
         RegisterQuotaCheck, RegisterApplication, StartMove, AbortMove, DeleteApplication, SetAgentRead,
         UpdateApplication, BeginTx, Dedupe, Broadcast
    <3>2. CASE Return(r)
      BY <3>2 DEF Return, TypeOK, RequestsOK
    <3>3. ASSUME NEW step \in {"authorize", "write", "owner", "regQuota", "guard", "begin", "dedupe", "insert"},
                 Goto(r, step)
          PROVE  \A q \in Reqs : pc'[q] = "commit" => pc[q] = "commit" /\ row'[q] = row[q]
      BY <3>3 DEF Goto, TypeOK, RequestsOK
    <3>4. QED
      BY <3>1, <3>2, <3>3
  <2>3. QED
    BY <2>1, <2>2
<1>3. QED
  BY <1>1, <1>2 DEF NothingIssued, Wiped, TypeOK, TablesOK

\* CompleteMove wipes the application whose rows it drops.
LEMMA CompleteMoveIssuesNothing ==
  ASSUME TypeOK, OpsNameApps, NEW r \in Reqs, CompleteMove(r)
  PROVE  NothingIssued
<1>1. pc[r] = "write" /\ msg[r].app \in Apps /\ UNCHANGED <<issued, clock>>
  BY DEF CompleteMove, Writes, OpsNameApps
<1>2. \A q \in Reqs : pc'[q] = "commit" => pc[q] = "commit" /\ row'[q] = row[q]
  BY DEF CompleteMove, Return, TypeOK, RequestsOK
<1>3. \/ UNCHANGED <<events, wiped>>
      \/ events' = {e \in events : e.app # msg[r].app} /\ wiped' = [wiped EXCEPT ![msg[r].app] = TRUE]
  BY DEF CompleteMove
<1>4. QED
  BY <1>1, <1>2, <1>3 DEF NothingIssued, Wiped, TypeOK, TablesOK

\* Cleanup drops rows past the retention only, purge takes the application's
\* history with its rows, a crash rolls back, and no transaction is open when
\* the day changes.
LEMMA BackgroundIssuesNothing ==
  ASSUME TypeOK, \/ Crash \/ CleanupOldEvents \/ Tick \/ UNCHANGED vars
                 \/ \E a \in Apps : PurgeApplication(a)
  PROVE  NothingIssued
<1>0. clock \in Nat /\ wiped \in [Apps -> BOOLEAN] /\ events \subseteq EventRows
  BY DEF TypeOK, TablesOK
<1>1. CASE Crash
  BY <1>0, <1>1 DEF Crash, NothingIssued, Wiped, appVars, logVars
<1>2. CASE CleanupOldEvents
  <2>1. \A e \in events : e \in events' \/ e.at + Retention < clock
    <3>1. ASSUME NEW e \in events, e \notin events' PROVE e.at + Retention < clock
      <4>1. ~(e.at >= clock - Retention) /\ e.at \in Nat
        BY <1>0, <1>2, <3>1 DEF CleanupOldEvents, Retained, EventRows
      <4>2. QED
        BY <1>0, <4>1, BoundsAssumption
    <3>2. QED
      BY <3>1
  <2>2. UNCHANGED <<issued, wiped, clock, pc, row>>
    BY <1>2 DEF CleanupOldEvents, appVars, reqVars
  <2>3. QED
    BY <1>0, <2>1, <2>2 DEF NothingIssued, Wiped
<1>3. CASE Tick
  BY <1>0, <1>3 DEF Tick, NothingIssued, Wiped, appVars, logVars, reqVars
<1>4. CASE UNCHANGED vars
  BY <1>0, <1>4 DEF vars, NothingIssued, Wiped
<1>5. ASSUME NEW a \in Apps, PurgeApplication(a) PROVE NothingIssued
  <2>1. /\ issued' = {x \in issued : x.app # a} /\ events' = {e \in events : e.app # a}
        /\ wiped' = [wiped EXCEPT ![a] = FALSE] /\ UNCHANGED <<clock, pc, row>>
    BY <1>5 DEF PurgeApplication, reqVars
  <2>2. QED
    BY <1>0, <2>1 DEF NothingIssued, Wiped
<1>6. QED
  BY <1>1, <1>2, <1>3, <1>4, <1>5

\* InsertAndExecute stamps the row it leaves pending with today.
LEMMA InsertIsOfToday ==
  ASSUME TypeOK, AppliedInv, NEW r \in Reqs, InsertAndExecute(r)
  PROVE  AppliedInv'
<1>1. UNCHANGED <<issued, events, wiped, clock>>
  BY DEF InsertAndExecute, appVars
<1>2. IssuedKept' /\ AppliedOnce'
  BY <1>1 DEF AppliedInv, IssuedKept, AppliedOnce, Wiped
<1>3. \A q \in Reqs : pc'[q] = "commit" => (pc[q] = "commit" /\ row'[q] = row[q]) \/ row'[q].at = clock
  <2>1. CASE Return(r)
    BY <2>1 DEF Return, TypeOK, RequestsOK
  <2>2. ASSUME NEW seq, row' = [row EXCEPT ![r] = RowFor(msg[r], seq)], pc' = [pc EXCEPT ![r] = "commit"]
        PROVE  \A q \in Reqs : pc'[q] = "commit" => (pc[q] = "commit" /\ row'[q] = row[q]) \/ row'[q].at = clock
    BY <2>2 DEF RowFor, TypeOK, RequestsOK
  <2>3. QED
    BY <2>1, <2>2 DEF InsertAndExecute
<1>4. RowsOfToday'
  BY <1>1, <1>3 DEF AppliedInv, RowsOfToday
<1>5. QED
  BY <1>2, <1>4 DEF AppliedInv

\* A commit issues an id that is not in the log: what was committed with that id
\* before lies beyond the retention, or was wiped.
LEMMA CommitAppliesOnce ==
  ASSUME TypeOK, OrderInv, LogInv, AppliedInv, NEW r \in Reqs, Commit(r)
  PROVE  AppliedInv'
<1> DEFINE new == [app |-> msg[r].app, seq |-> row[r].seq, id |-> msg[r].id, at |-> row[r].at, type |-> msg[r].type]
<1>1. /\ pc[r] = "commit" /\ events' = events \cup {row[r]} /\ issued' = issued \cup {new}
      /\ UNCHANGED <<wiped, clock, row>> /\ pc' = [pc EXCEPT ![r] = "broadcast"]
  BY DEF Commit, Goto
<1>2. /\ row[r].id = new.id /\ row[r].app = new.app /\ row[r].at = new.at /\ new.at = clock
      /\ \A e \in events : e.id # new.id
  BY <1>1 DEF LogInv, PendingIds, OrderInv, PendingRowOnTop, AppliedInv, RowsOfToday
<1>3. clock \in Nat /\ \A x \in issued : x.at \in Nat
  BY DEF TypeOK, TablesOK, Issues
<1> HIDE DEF new
<1>4. IssuedKept'
  <2>1. ASSUME NEW x \in issued'
        PROVE  \/ Wiped(x.app) \/ x.at + Retention < clock
               \/ \E e \in events' : e.id = x.id /\ e.app = x.app /\ e.at = x.at
    <3>1. CASE x = new
      BY <1>1, <1>2, <3>1
    <3>2. CASE x \in issued
      BY <1>1, <3>2 DEF AppliedInv, IssuedKept
    <3>3. QED
      BY <1>1, <2>1, <3>1, <3>2
  <2>2. QED
    BY <1>1, <2>1 DEF IssuedKept, Wiped
<1>5. RowsOfToday'
  BY <1>1 DEF AppliedInv, RowsOfToday, TypeOK, RequestsOK
<1>6. ASSUME NEW x \in issued, x.id = new.id, ~Wiped(x.app)
      PROVE  new.at - x.at > Retention
  <2>1. x.at + Retention < clock
    BY <1>2, <1>6 DEF AppliedInv, IssuedKept
  <2>2. QED
    BY <1>2, <1>3, <1>6, <2>1, BoundsAssumption
<1>7. AppliedOnce'
  <2>1. ASSUME NEW x \in issued', NEW y \in issued', x.id = y.id, x # y, ~Wiped(x.app), ~Wiped(y.app)
        PROVE  x.at - y.at > Retention \/ y.at - x.at > Retention
    <3>1. CASE x \in issued /\ y \in issued
      BY <2>1, <3>1 DEF AppliedInv, AppliedOnce
    <3>2. CASE x = new /\ y \in issued
      BY <1>6, <2>1, <3>2
    <3>3. CASE x \in issued /\ y = new
      BY <1>6, <2>1, <3>3
    <3>4. QED
      BY <1>1, <2>1, <3>1, <3>2, <3>3
  <2>2. QED
    BY <1>1, <2>1 DEF AppliedOnce, Wiped
<1>8. QED
  BY <1>4, <1>5, <1>7 DEF AppliedInv

\* However retries, cleanups, moves and purges interleave, no id is applied twice
\* within the retention of its row.
THEOREM RetriesAppliedOnce == Spec => []AppliedOnce
<1>1. Init => AppliedInv
  BY DEF Init, AppliedInv, IssuedKept, RowsOfToday, AppliedOnce
<1>2. TypeOK /\ OrderInv /\ LogInv /\ OpsNameApps /\ AppliedInv /\ [Next]_vars => AppliedInv'
  <2> SUFFICES ASSUME TypeOK, OrderInv, LogInv, OpsNameApps, AppliedInv, [Next]_vars PROVE AppliedInv'
    OBVIOUS
  <2>1. ASSUME NEW r \in Reqs, InsertAndExecute(r) \/ Commit(r) \/ CompleteMove(r) PROVE AppliedInv'
    BY <2>1, InsertIsOfToday, CommitAppliesOnce, CompleteMoveIssuesNothing, NothingIssuedKeeps
  <2>2. ASSUME NEW r \in Reqs, Arrival(r) \/ RequestStep(r) \/ LockTimeout(r) \/ StatementFails(r)
        PROVE  AppliedInv'
    BY <2>1, <2>2, ChecksIssueNothing, NothingIssuedKeeps DEF RequestStep
  <2>3. QED
    BY <2>2, BackgroundIssuesNothing, NothingIssuedKeeps DEF Next
<1>3. AppliedInv => AppliedOnce
  BY DEF AppliedInv
<1>4. QED
  BY <1>1, <1>2, <1>3, TypeCorrect, OrderHolds, LogInvHolds, PTL DEF Spec
-----------------------------------------------------------------------------
(* What a poll does not change, and where rows come from.                   *)

\* The tables the client's side keeps are what they are declared to be.
FeedTypes ==
  /\ poll \in [pc: {"away", "query", "versions", "answer"}, since: Nat,
               page: SUBSET EventRows, versions: [Apps -> Nat]]
  /\ cursor \in [id: Ids \cup {NoCursor}, ord: Nat]
  /\ got \subseteq EventRows
  /\ passed \subseteq Nat
  /\ poll.page # {} => Last(poll.page) \in poll.page

\* Two numbers that are not equal are in a strict order.
LEMMA Strictly ==
  ASSUME NEW x \in Nat, NEW y \in Nat, x <= y, x # y
  PROVE  x < y
OBVIOUS

\* A set of natural numbers that is not empty has a least element.
LEMMA LeastExists ==
  ASSUME NEW S \in SUBSET Nat, S # {}
  PROVE  \E x \in S : \A y \in S : x <= y
<1>1. PICK x \in S : \A y \in S : ~(<<y, x>> \in OpToRel(<, Nat))
  BY NatLessThanWellFounded, WFMin, Zenon
<1>2. \A y \in S : ~(y < x)
  BY <1>1, Zenon DEF OpToRel
<1>3. QED
  BY <1>2

\* A set of rows with bounded ordinals has a last one.
LEMMA LastExists ==
  ASSUME NEW page \in SUBSET EventRows, page # {}, NEW top \in Nat, \A e \in page : e.ord < top
  PROVE  Last(page) \in page /\ \A f \in page : f.ord <= Last(page).ord
<1> DEFINE S == {top - e.ord : e \in page}
<1>1. S \in SUBSET Nat /\ S # {}
  BY DEF EventRows
<1>2. PICK x \in S : \A y \in S : x <= y
  BY <1>1, LeastExists
<1>3. PICK e \in page : x = top - e.ord
  BY <1>2
<1>4. \A f \in page : f.ord <= e.ord
  <2> SUFFICES ASSUME NEW f \in page PROVE f.ord <= e.ord
    OBVIOUS
  <2>1. top - e.ord <= top - f.ord
    BY <1>2, <1>3
  <2>2. e.ord \in Nat /\ f.ord \in Nat
    BY DEF EventRows
  <2>3. QED
    BY <2>1, <2>2
<1>5. QED
  BY <1>4 DEF Last

\* A page is closed below: what a query selects under a row of the page is on it.
LEMMA PageIsClosed ==
  ASSUME NEW rows \in SUBSET EventRows, IsFiniteSet(rows), Limit \in Nat,
         NEW e \in rows, NEW f \in FirstOf(rows), e.ord <= f.ord
  PROVE  e \in FirstOf(rows)
<1> DEFINE A == {x \in rows : x.ord < e.ord}
           B == {x \in rows : x.ord < f.ord}
<1>1. f \in rows /\ Cardinality(B) < Limit
  BY DEF FirstOf
<1>2. A \subseteq B
  BY <1>1 DEF EventRows
<1>3. IsFiniteSet(B)
  BY FS_Subset
<1>4. IsFiniteSet(A) /\ Cardinality(A) <= Cardinality(B)
  BY <1>2, <1>3, FS_Subset
<1>5. Cardinality(A) \in Nat /\ Cardinality(B) \in Nat
  BY <1>3, <1>4, FS_CardinalityType
<1>6. Cardinality(A) < Limit
  BY <1>1, <1>4, <1>5
<1>7. QED
  BY <1>6 DEF FirstOf

\* A step that inserts and commits nothing ...
NoRowMoves ==
  /\ events' \subseteq events /\ nextOrd' >= nextOrd
  /\ \A q \in Reqs : pc'[q] = "commit" => pc[q] = "commit" /\ row'[q] = row[q]

\* ... one that inserts a row, with the next ordinal ...
RowInserted(r) ==
  /\ events' = events /\ nextOrd' = nextOrd + 1
  /\ row'[r].ord = nextOrd
  /\ \A q \in Reqs \ {r} : pc'[q] = "commit" => pc[q] = "commit" /\ row'[q] = row[q]

\* ... and one that commits a row that was inserted before.
RowCommitted(r) ==
  /\ pc[r] = "commit" /\ events' = events \cup {row[r]} /\ nextOrd' = nextOrd
  /\ \A q \in Reqs : pc'[q] = "commit" => q # r /\ pc[q] = "commit" /\ row'[q] = row[q]

\* Beside Frame, only the steps of a transaction touch a row.
LEMMA FrameMovesNoRow == Frame => NoRowMoves
BY DEF Frame, NoRowMoves, InTx

\* The pipeline does nothing else to the rows.
LEMMA RowsMove ==
  ASSUME TypeOK, OrderInv, [Next]_vars
  PROVE  NoRowMoves \/ \E r \in Reqs : RowInserted(r) \/ RowCommitted(r)
<1> USE DEF TypeOK, TablesOK, RequestsOK
<1>0. LockHeld
  BY DEF OrderInv
<1>1. ASSUME NEW r \in Reqs, BeginTx(r) PROVE NoRowMoves
  BY <1>1 DEF BeginTx, Return, Goto, NoRowMoves, logVars
<1>2. ASSUME NEW r \in Reqs, Dedupe(r) PROVE NoRowMoves
  BY <1>2 DEF Dedupe, Return, Goto, NoRowMoves, logVars
<1>3. ASSUME NEW r \in Reqs, InsertAndExecute(r) PROVE NoRowMoves \/ RowInserted(r)
  <2>1. CASE Return(r)
    BY <1>3, <2>1 DEF InsertAndExecute, Return, NoRowMoves
  <2>2. CASE ~Return(r)
    <3>1. PICK seq : row' = [row EXCEPT ![r] = RowFor(msg[r], seq)]
      BY <1>3, <2>2 DEF InsertAndExecute
    <3>2. row'[r].ord = nextOrd
      BY <3>1 DEF RowFor
    <3>3. pc' = [pc EXCEPT ![r] = "commit"] /\ events' = events /\ nextOrd' = nextOrd + 1
      BY <1>3, <2>2 DEF InsertAndExecute
    <3>4. QED
      BY <3>1, <3>2, <3>3 DEF RowInserted
  <2>3. QED
    BY <2>1, <2>2
<1>4. ASSUME NEW r \in Reqs, Commit(r) PROVE RowCommitted(r)
  BY <1>4 DEF Commit, Goto, RowCommitted
<1>5. ASSUME NEW r \in Reqs, Arrival(r) \/ RequestStep(r)
      PROVE  NoRowMoves \/ RowInserted(r) \/ RowCommitted(r)
  BY <1>0, <1>1, <1>2, <1>3, <1>4, <1>5, ChecksAreFramed, AppWritesAreFramed, BackgroundIsFramed, FrameMovesNoRow
  DEF RequestStep
<1>6. ASSUME NEW r \in Reqs, LockTimeout(r) \/ StatementFails(r) PROVE NoRowMoves
  BY <1>0, <1>6, BackgroundIsFramed, FrameMovesNoRow DEF LockTimeout, StatementFails
<1>7. ASSUME NEW a \in Apps, PurgeApplication(a) PROVE NoRowMoves
  BY <1>0, <1>7, PurgeIsFramed, FrameMovesNoRow
<1>8. CASE Crash \/ CleanupOldEvents \/ Tick \/ UNCHANGED vars
  BY <1>0, <1>8, BackgroundIsFramed, FrameMovesNoRow
<1>9. QED
  BY <1>5, <1>6, <1>7, <1>8 DEF Next

\* Ordinals stay apart, and an inserted row gets one nobody has.
LEMMA OrdinalsStayApart ==
  ASSUME TypeOK, TypeOK', OrderInv, OrdinalsApart, nextOrd # 0, [Next]_vars
  PROVE  OrdinalsApart' /\ nextOrd' # 0
<1> USE DEF TypeOK, TablesOK, RequestsOK
<1>1. /\ \A e \in events : e.ord < nextOrd /\ e.ord \in Nat
      /\ \A q \in Reqs : pc[q] = "commit" => row[q].ord < nextOrd /\ row[q].ord \in Nat
  BY DEF OrderInv, OrdinalsBelowNext, PendingRowOnTop, EventRows
<1>2. CASE NoRowMoves
  <2>1. IsFiniteSet(events')
    BY <1>2, FS_Subset DEF OrdinalsApart, NoRowMoves
  <2>2. QED
    BY <1>2, <2>1 DEF OrdinalsApart, NoRowMoves
<1>3. ASSUME NEW r \in Reqs, RowInserted(r) PROVE OrdinalsApart' /\ nextOrd' # 0
  <2>1. events' = events /\ nextOrd' = nextOrd + 1 /\ row'[r].ord = nextOrd
    BY <1>3 DEF RowInserted
  <2>2. ASSUME NEW q \in Reqs, pc'[q] = "commit", q # r
        PROVE  pc[q] = "commit" /\ row'[q] = row[q] /\ row'[q].ord < nextOrd /\ row'[q].ord \in Nat
    BY <1>1, <1>3, <2>2 DEF RowInserted
  <2>3. ASSUME NEW q \in Reqs, pc'[q] = "commit"
        PROVE  /\ row'[q].ord # 0
               /\ \A e \in events' : e.ord # row'[q].ord
               /\ \A p \in Reqs : (pc'[p] = "commit" /\ row'[p].ord = row'[q].ord) => p = q
    <3>1. CASE q = r
      BY <1>1, <2>1, <2>2, <3>1
    <3>2. CASE q # r
      BY <2>1, <2>2, <2>3, <3>2 DEF OrdinalsApart
    <3>3. QED
      BY <3>1, <3>2
  <2>4. nextOrd' # 0
    BY <2>1
  <2>5. QED
    BY <2>1, <2>3, <2>4 DEF OrdinalsApart
<1>4. ASSUME NEW r \in Reqs, RowCommitted(r) PROVE OrdinalsApart' /\ nextOrd' # 0
  <2>1. IsFiniteSet(events')
    BY <1>4, FS_AddElement DEF OrdinalsApart, RowCommitted
  <2>2. QED
    BY <1>1, <1>4, <2>1 DEF OrdinalsApart, RowCommitted
<1>5. QED
  BY <1>2, <1>3, <1>4, RowsMove

\* What is covered stays covered while the pipeline runs on.
LEMMA CoveredStays ==
  ASSUME TypeOK, TypeOK', OrderInv, [Next]_vars, NEW ord \in Nat, NEW given,
         Covered(ord, given), passed' = passed
  PROVE  /\ ord < nextOrd'
         /\ \A e \in events' : e.ord <= ord => e \in given \/ e.ord \in passed'
         /\ \A r \in Reqs : (pc'[r] = "commit" /\ row'[r].ord <= ord) => row'[r].ord \in passed'
<1> USE DEF TypeOK, TablesOK, RequestsOK
<1>1. CASE NoRowMoves
  BY <1>1 DEF Covered, NoRowMoves
<1>2. ASSUME NEW r \in Reqs, RowInserted(r)
      PROVE  /\ ord < nextOrd'
             /\ \A e \in events' : e.ord <= ord => e \in given \/ e.ord \in passed'
             /\ \A q \in Reqs : (pc'[q] = "commit" /\ row'[q].ord <= ord) => row'[q].ord \in passed'
  BY <1>2 DEF Covered, RowInserted
<1>3. ASSUME NEW r \in Reqs, RowCommitted(r)
      PROVE  /\ ord < nextOrd'
             /\ \A e \in events' : e.ord <= ord => e \in given \/ e.ord \in passed'
             /\ \A q \in Reqs : (pc'[q] = "commit" /\ row'[q].ord <= ord) => row'[q].ord \in passed'
  BY <1>3 DEF Covered, RowCommitted
<1>4. QED
  BY <1>1, <1>2, <1>3, RowsMove

-----------------------------------------------------------------------------
(* A poll.                                                                  *)

\* The rows GetSince selects from.
RowsAbove(since) == {e \in events : Visible(e) /\ e.ord > since}

\* What a page ends with: the last of its rows, which is one of those selected.
LEMMA PageEnds ==
  ASSUME TypeOK, OrderInv, NEW since \in Nat, FirstOf(RowsAbove(since)) # {}
  PROVE  /\ Last(FirstOf(RowsAbove(since))) \in FirstOf(RowsAbove(since))
         /\ Last(FirstOf(RowsAbove(since))) \in events
         /\ Visible(Last(FirstOf(RowsAbove(since))))
         /\ Last(FirstOf(RowsAbove(since))).ord < nextOrd
<1> DEFINE page == FirstOf(RowsAbove(since))
<1>1. /\ page \subseteq EventRows /\ nextOrd \in Nat
      /\ \A e \in page : e \in events /\ Visible(e) /\ e.ord < nextOrd
  BY DEF FirstOf, RowsAbove, TypeOK, TablesOK, OrderInv, OrdinalsBelowNext
<1>2. Last(page) \in page
  <2> HIDE DEF page
  <2>1. page # {}
    BY DEF page
  <2>2. QED
    BY <1>1, <2>1, LastExists
<1>3. QED
  BY <1>1, <1>2

\* A page covers everything up to its last row: what it skips, it goes past.
LEMMA PageCovers ==
  ASSUME TypeOK, OrderInv, OrdinalsApart, NEW since \in Nat, Covered(since, got),
         NEW page, page = FirstOf(RowsAbove(since)), page # {},
         passed' = passed \cup GoesPast(page), UNCHANGED vars
  PROVE  /\ Last(page).ord < nextOrd'
         /\ \A e \in events' : e.ord <= Last(page).ord => e \in got \cup page \/ e.ord \in passed'
         /\ \A r \in Reqs : (pc'[r] = "commit" /\ row'[r].ord <= Last(page).ord) => row'[r].ord \in passed'
<1> USE DEF TypeOK, TablesOK, RequestsOK
<1>0. events' = events /\ pc' = pc /\ row' = row /\ nextOrd' = nextOrd
  BY DEF vars
<1>1. PICK last : last = Last(page)
  OBVIOUS
<1>2. /\ last \in page /\ last \in events /\ Visible(last) /\ last.ord < nextOrd
      /\ last.ord \in Nat /\ last \in EventRows
  <2>1. last \in page /\ last \in events /\ Visible(last) /\ last.ord < nextOrd
    BY <1>1, PageEnds
  <2>2. QED
    BY <2>1 DEF EventRows
<1>3. ASSUME NEW e \in events, e.ord <= last.ord PROVE e \in got \cup page \/ e.ord \in passed'
  <2>1. e.ord \in Nat
    BY DEF EventRows
  <2>2. CASE e.ord <= since
    BY <2>2 DEF Covered
  <2>3. CASE e.ord > since /\ Visible(e)
    <3>1. IsFiniteSet(RowsAbove(since)) /\ RowsAbove(since) \subseteq EventRows
      BY FS_Subset DEF RowsAbove, OrdinalsApart
    <3>2. e \in RowsAbove(since)
      BY <2>3 DEF RowsAbove
    <3>3. e \in page
      BY <1>2, <1>3, <3>1, <3>2, PageIsClosed, FeedAssumption
    <3>4. QED
      BY <3>3
  <2>4. CASE ~Visible(e)
    <3>1. e # last
      BY <1>2, <2>4
    <3>2. e.ord # last.ord
      BY <1>2, <3>1 DEF OrdinalsApart
    <3>3. e.ord < last.ord
      BY <1>2, <1>3, <2>1, <3>2, Strictly
    <3>4. e.ord \in GoesPast(page)
      BY <1>1, <2>4, <3>3 DEF GoesPast
    <3>5. QED
      BY <3>4
  <2>5. QED
    BY <2>1, <2>2, <2>3, <2>4
<1>4. ASSUME NEW r \in Reqs, pc[r] = "commit", row[r].ord <= last.ord PROVE row[r].ord \in passed'
  <2>1. row[r] \in EventRows /\ row[r].ord \in Nat
    BY <1>4 DEF EventRows
  <2>2. row[r].ord < last.ord
    BY <1>2, <1>4, <2>1 DEF OrdinalsApart
  <2>3. row[r].app = NoApp \/ row[r].app # last.app
    <3> SUFFICES ASSUME row[r].app # NoApp, row[r].app = last.app PROVE FALSE
      OBVIOUS
    <3>1. Sequenced(msg[r])
      BY <1>4 DEF OrderInv, PendingRowOnTop, Sequenced
    <3>2. last.ord < row[r].ord
      BY <1>2, <1>4, <3>1 DEF OrderInv, PendingRowOnTop
    <3>3. QED
      BY <1>2, <2>1, <2>2, <3>2
  <2>4. row[r].ord \in GoesPast(page)
    BY <1>1, <1>4, <2>2, <2>3 DEF GoesPast
  <2>5. QED
    BY <2>4
<1>5. QED
  BY <1>0, <1>1, <1>2, <1>3, <1>4

\* The tables a poll and the client keep stay what they are declared to be.
LEMMA FeedTypesStay ==
  ASSUME TypeOK, OrderInv, FeedTypes, FeedNext \/ UNCHANGED <<vars, feedVars>>
  PROVE  FeedTypes'
<1> USE DEF TypeOK, TablesOK, RequestsOK
<1>1. CASE UNCHANGED feedVars
  BY <1>1 DEF FeedTypes, feedVars
<1>2. NoPoll \in [pc: {"away", "query", "versions", "answer"}, since: Nat,
                  page: SUBSET EventRows, versions: [Apps -> Nat]]
  BY DEF NoPoll
<1>3. CASE FindCursor
  <2>1. PICK since \in Nat : /\ poll' = [NoPoll EXCEPT !.pc = "query", !.since = since]
                             /\ passed' = passed \cup ((cursor.ord + 1) .. since)
    <3>1. PICK since \in {e.ord : e \in {x \in events : x.id = cursor.id}} \cup {o \in {0} : cursor.id = NoCursor} :
            /\ poll' = [NoPoll EXCEPT !.pc = "query", !.since = since]
            /\ passed' = passed \cup ((cursor.ord + 1) .. since)
      BY <1>3 DEF FindCursor
    <3>2. since \in Nat
      BY DEF EventRows
    <3>3. QED
      BY <3>1, <3>2
  <2>2. (cursor.ord + 1) .. since \subseteq Nat
    BY <2>1 DEF FeedTypes
  <2>3. UNCHANGED <<cursor, got>>
    BY <1>3 DEF FindCursor
  <2>4. QED
    BY <1>2, <2>1, <2>2, <2>3 DEF FeedTypes, NoPoll
<1>4. CASE FullResync
  BY <1>4 DEF FullResync, Start, FeedTypes
<1>5. CASE GetSince
  <2>1. PICK page \in SUBSET EventRows, step \in {"versions", "answer"} :
          /\ page = FirstOf(RowsAbove(poll.since))
          /\ poll' = [poll EXCEPT !.pc = step, !.page = page]
          /\ passed' = IF page = {} THEN passed ELSE passed \cup GoesPast(page)
    BY <1>5 DEF GetSince, FirstOf, RowsAbove
  <2>2. GoesPast(page) \subseteq Nat
    BY DEF GoesPast, EventRows
  <2>3. UNCHANGED <<cursor, got>>
    BY <1>5 DEF GetSince
  <2>4. page # {} => Last(page) \in page
    BY <2>1, PageEnds DEF FeedTypes
  <2>5. poll'.page = page /\ poll' \in [pc: {"away", "query", "versions", "answer"}, since: Nat,
                                        page: SUBSET EventRows, versions: [Apps -> Nat]]
    BY <2>1 DEF FeedTypes
  <2>6. QED
    BY <2>1, <2>2, <2>3, <2>4, <2>5 DEF FeedTypes
<1>6. CASE LoadAppVersions
  <2>1. AppVersions \in [Apps -> Nat] /\ NoPoll.versions \in [Apps -> Nat]
    BY DEF AppVersions, NoPoll, AppRows
  <2>2. QED
    <3>1. PICK v \in [Apps -> Nat] : poll' = [poll EXCEPT !.pc = "answer", !.versions = v]
      BY <1>6, <2>1 DEF LoadAppVersions
    <3>2. UNCHANGED <<cursor, got, passed>>
      BY <1>6 DEF LoadAppVersions
    <3>3. QED
      BY <3>1, <3>2 DEF FeedTypes
<1>7. CASE Receive
  <2>1. CASE poll.page = {}
    BY <1>2, <1>7, <2>1 DEF Receive, FeedTypes, NoPoll
  <2>2. CASE poll.page # {}
    <3>1. Last(poll.page) \in EventRows
      BY <2>2 DEF FeedTypes
    <3>2. [id |-> Last(poll.page).id, ord |-> Last(poll.page).ord] \in [id: Ids \cup {NoCursor}, ord: Nat]
      BY <3>1 DEF EventRows
    <3>3. QED
      BY <1>2, <1>7, <2>2, <3>2 DEF Receive, FeedTypes, NoPoll
  <2>3. QED
    BY <2>1, <2>2
<1>8. CASE PollFails
  BY <1>2, <1>8 DEF PollFails, FeedTypes, NoPoll
<1>9. QED
  BY <1>1, <1>3, <1>4, <1>5, <1>6, <1>7, <1>8 DEF FeedNext, Poll, feedVars

\* While the pipeline runs on, everything covered stays covered.
LEMMA PipelineKeepsCover ==
  ASSUME TypeOK, TypeOK', OrderInv, FeedTypes, FeedCovered, [Next]_vars, UNCHANGED feedVars
  PROVE  FeedCovered'
<1>1. poll' = poll /\ cursor' = cursor /\ got' = got /\ passed' = passed
  BY DEF feedVars
<1>2. cursor.ord \in Nat /\ poll.since \in Nat
  BY DEF FeedTypes
<1>3. Covered(cursor.ord, got)'
  BY <1>1, <1>2, CoveredStays DEF FeedCovered, Covered
<1>4. ASSUME poll.pc = "query" PROVE Covered(poll.since, got)'
  BY <1>1, <1>2, <1>4, CoveredStays DEF FeedCovered, Covered
<1>5. ASSUME poll.pc \in {"versions", "answer"}, poll.page # {}
      PROVE  Covered(Last(poll.page).ord, got \cup poll.page)'
  <2>1. PICK ord, given : ord = Last(poll.page).ord /\ given = got \cup poll.page
    OBVIOUS
  <2>2. ord \in Nat /\ Covered(ord, given)
    BY <1>5, <2>1 DEF FeedTypes, FeedCovered, EventRows
  <2>3. ord = Last(poll'.page).ord /\ given = got' \cup poll'.page
    BY <1>1, <2>1
  <2>4. /\ ord < nextOrd'
        /\ \A e \in events' : e.ord <= ord => e \in given \/ e.ord \in passed'
        /\ \A r \in Reqs : (pc'[r] = "commit" /\ row'[r].ord <= ord) => row'[r].ord \in passed'
    BY <1>1, <2>2, CoveredStays
  <2>5. QED
    BY <2>3, <2>4 DEF Covered
<1>6. QED
  BY <1>1, <1>3, <1>4, <1>5 DEF FeedCovered

\* Every step of a poll covers what it moves the client to.
LEMMA PollKeepsCover ==
  ASSUME TypeOK, OrderInv, OrdinalsApart, nextOrd # 0, FeedTypes, FeedTypes', FeedCovered, Poll, UNCHANGED vars
  PROVE  FeedCovered'
<1> USE DEF TypeOK, TablesOK, RequestsOK
<1>0. events' = events /\ pc' = pc /\ row' = row /\ nextOrd' = nextOrd
  BY DEF vars
<1>1. /\ \A e \in events : e.ord \in Nat /\ e.ord # 0 /\ e.ord < nextOrd
      /\ \A r \in Reqs : pc[r] = "commit" => row[r].ord \in Nat /\ row[r].ord # 0
      /\ cursor.ord \in Nat /\ Covered(cursor.ord, got)
  BY DEF EventRows, OrdinalsApart, FeedTypes, FeedCovered, OrderInv, OrdinalsBelowNext
<1>2. CASE FindCursor
  <2>1. PICK since : /\ since \in {e.ord : e \in {x \in events : x.id = cursor.id}} \cup {o \in {0} : cursor.id = NoCursor}
                     /\ poll' = [NoPoll EXCEPT !.pc = "query", !.since = since]
                     /\ passed' = passed \cup ((cursor.ord + 1) .. since)
    BY <1>2 DEF FindCursor
  <2>2. cursor' = cursor /\ got' = got
    BY <1>2 DEF FindCursor
  <2>3. since \in Nat /\ since < nextOrd
    BY <1>1, <2>1
  <2>4. poll'.pc = "query" /\ poll'.since = since
    BY <2>1 DEF NoPoll
  <2>5. ASSUME NEW o \in Nat, o <= since PROVE o <= cursor.ord \/ o \in passed'
    BY <1>1, <2>1, <2>3, <2>5
  <2>6. Covered(cursor.ord, got)'
    BY <1>0, <1>1, <2>1, <2>2 DEF Covered
  <2>7. Covered(poll.since, got)'
    BY <1>0, <1>1, <2>1, <2>2, <2>3, <2>4, <2>5 DEF Covered
  <2>8. QED
    BY <2>4, <2>6, <2>7 DEF FeedCovered
<1>3. CASE FullResync
  <2>1. poll' = poll /\ poll.pc = "away" /\ cursor'.ord = 0
    BY <1>3 DEF FullResync, Start
  <2>2. Covered(cursor.ord, got)'
    BY <1>0, <1>1, <2>1 DEF Covered
  <2>3. QED
    BY <2>1, <2>2 DEF FeedCovered
<1>4. CASE GetSince
  <2>1. PICK page : page = FirstOf(RowsAbove(poll.since))
    OBVIOUS
  <2>2. /\ poll.pc = "query" /\ poll'.pc \in {"versions", "answer"} /\ poll'.page = page
        /\ passed' = IF page = {} THEN passed ELSE passed \cup GoesPast(page)
        /\ cursor' = cursor /\ got' = got
    BY <1>4, <2>1 DEF GetSince, RowsAbove, FeedTypes
  <2>3. Covered(cursor.ord, got)'
    BY <1>0, <1>1, <2>2 DEF Covered
  <2>4. ASSUME page # {} PROVE Covered(Last(poll.page).ord, got \cup poll.page)'
    <3>1. poll.since \in Nat /\ Covered(poll.since, got)
      BY <2>2 DEF FeedTypes, FeedCovered
    <3>2. /\ Last(page).ord < nextOrd'
          /\ \A e \in events' : e.ord <= Last(page).ord => e \in got \cup page \/ e.ord \in passed'
          /\ \A r \in Reqs : (pc'[r] = "commit" /\ row'[r].ord <= Last(page).ord) => row'[r].ord \in passed'
      BY <2>1, <2>2, <2>4, <3>1, PageCovers
    <3>3. QED
      BY <2>2, <3>2 DEF Covered
  <2>5. QED
    BY <2>2, <2>3, <2>4 DEF FeedCovered
<1>5. CASE LoadAppVersions
  <2>1. /\ poll.pc = "versions" /\ poll'.pc = "answer" /\ poll'.page = poll.page
        /\ cursor' = cursor /\ got' = got /\ passed' = passed
    BY <1>5 DEF LoadAppVersions, FeedTypes
  <2>2. Covered(cursor.ord, got)'
    BY <1>0, <1>1, <2>1 DEF Covered
  <2>3. ASSUME poll.page # {} PROVE Covered(Last(poll.page).ord, got \cup poll.page)'
    BY <1>0, <2>1, <2>3 DEF FeedCovered, Covered
  <2>4. QED
    BY <2>1, <2>2, <2>3 DEF FeedCovered
<1>6. CASE Receive
  <2>1. /\ poll.pc = "answer" /\ poll' = NoPoll /\ got' = got \cup poll.page /\ passed' = passed
        /\ cursor'.ord = IF poll.page = {} THEN cursor.ord ELSE Last(poll.page).ord
    BY <1>6 DEF Receive
  <2>2. Covered(cursor.ord, got)'
    <3>1. CASE poll.page = {}
      BY <1>0, <1>1, <2>1, <3>1 DEF Covered
    <3>2. CASE poll.page # {}
      BY <1>0, <2>1, <3>2 DEF FeedCovered, Covered
    <3>3. QED
      BY <3>1, <3>2
  <2>3. QED
    BY <2>1, <2>2 DEF FeedCovered, NoPoll
<1>7. CASE PollFails
  <2>1. poll' = NoPoll /\ cursor' = cursor /\ got' = got /\ passed' = passed
    BY <1>7 DEF PollFails
  <2>2. Covered(cursor.ord, got)'
    BY <1>0, <1>1, <2>1 DEF Covered
  <2>3. QED
    BY <2>1, <2>2 DEF FeedCovered, NoPoll
<1>8. QED
  BY <1>2, <1>3, <1>4, <1>5, <1>6, <1>7 DEF Poll

\* The feed runs over the pipeline: whatever the pipeline keeps, it keeps.
LEMMA FeedOverPipeline == FeedSpec => Spec
<1>1. FeedInit => Init
  BY DEF FeedInit
<1>2. [FeedNext]_<<vars, feedVars>> => [Next]_vars
  BY DEF FeedNext
<1>3. QED
  BY <1>1, <1>2, PTL DEF FeedSpec, Spec

\* The inductive invariant of the feed: ordinals are apart, and what lies below
\* the client's cursor, the ordinal of its poll or the end of its page was given
\* to it or passed for a reason.
THEOREM FeedInvHolds == FeedSpec => [](FeedTypes /\ FeedInv)
<1> DEFINE I == FeedTypes /\ OrdinalsApart /\ nextOrd # 0 /\ FeedCovered
<1>1. FeedInit => I
  <2> SUFFICES ASSUME FeedInit PROVE I
    OBVIOUS
  <2>1. FeedTypes
    BY DEF FeedInit, FeedTypes, NoPoll, Start
  <2>2. OrdinalsApart /\ nextOrd # 0
    BY FS_EmptySet DEF FeedInit, Init, OrdinalsApart
  <2>3. FeedCovered
    BY DEF FeedInit, Init, FeedCovered, Covered, NoPoll, Start
  <2>4. QED
    BY <2>1, <2>2, <2>3
<1>2. TypeOK /\ TypeOK' /\ OrderInv /\ I /\ [FeedNext]_<<vars, feedVars>> => I'
  <2> SUFFICES ASSUME TypeOK, TypeOK', OrderInv, I, [FeedNext]_<<vars, feedVars>> PROVE I'
    OBVIOUS
  <2>1. FeedTypes'
    BY FeedTypesStay
  <2>2. [Next]_vars
    BY DEF FeedNext
  <2>3. OrdinalsApart' /\ nextOrd' # 0
    BY <2>2, OrdinalsStayApart
  <2>4. FeedCovered'
    BY <2>1, <2>2, PipelineKeepsCover, PollKeepsCover DEF FeedNext
  <2>5. QED
    BY <2>1, <2>3, <2>4
<1>3. I => FeedTypes /\ FeedInv
  BY DEF FeedInv
<1> HIDE DEF I
<1>4. QED
  BY <1>1, <1>2, <1>3, FeedOverPipeline, TypeCorrect, OrderHolds, PTL DEF FeedSpec

\* A client that follows its cursor has every row below it that it may see, or
\* the page went past the row for a reason the definition names, for every
\* number of requests, applications, ids and rows to a page (GetSince).
THEOREM FeedIsComplete == FeedSpec => []FeedComplete
<1>1. FeedInv => FeedComplete
  BY DEF FeedInv, FeedCovered, Covered, FeedComplete
<1>2. QED
  BY <1>1, FeedInvHolds, PTL

-----------------------------------------------------------------------------
(* The numbers of an application.                                           *)

NumbersPart == NumbersOnce /\ NumbersTopped /\ VersionCovers

\* A step that issues nothing keeps them, if of every application whose history
\* stays it keeps the mark and something at or above each row.
LEMMA NumbersKept ==
  ASSUME TypeOK, TypeOK', NumbersPart, issued' \subseteq issued,
         \A x \in issued' : Kept(x)' =>
           /\ Kept(x)
           /\ apps'[x.app].lastSeq = apps[x.app].lastSeq
           /\ \A e \in events : e.app = x.app => \E f \in events' : f.app = x.app /\ e.seq <= f.seq
  PROVE  NumbersPart'
<1> USE DEF TypeOK, TablesOK
<1>1. NumbersOnce' /\ VersionCovers'
  BY DEF NumbersPart, NumbersOnce, VersionCovers, Kept, Unversioned
<1>2. ASSUME NEW x \in issued', Kept(x)'
      PROVE  x.seq <= apps'[x.app].lastSeq \/ \E f \in events' : f.app = x.app /\ x.seq <= f.seq
  <2>1. /\ x \in issued /\ Kept(x) /\ apps'[x.app].lastSeq = apps[x.app].lastSeq
        /\ \A e \in events : e.app = x.app => \E f \in events' : f.app = x.app /\ e.seq <= f.seq
    BY <1>2
  <2>2. x.seq <= apps[x.app].lastSeq \/ \E e \in events : e.app = x.app /\ x.seq <= e.seq
    BY <2>1 DEF NumbersPart, NumbersTopped
  <2>3. ASSUME NEW e \in events, e.app = x.app, x.seq <= e.seq
        PROVE  \E f \in events' : f.app = x.app /\ x.seq <= f.seq
    <3>1. PICK f \in events' : f.app = x.app /\ e.seq <= f.seq
      BY <2>1, <2>3
    <3>2. x.seq \in Nat /\ e.seq \in Nat /\ f.seq \in Nat
      BY <2>1 DEF Issues, EventRows
    <3>3. QED
      BY <2>3, <3>1, <3>2
  <2>4. QED
    BY <2>1, <2>2, <2>3
<1>3. QED
  BY <1>1, <1>2 DEF NumbersPart, NumbersTopped

\* A row stands for itself.
LEMMA RowsStand ==
  ASSUME events \subseteq EventRows, NEW a, \A e \in events : e.app = a => e \in events'
  PROVE  \A e \in events : e.app = a => \E f \in events' : f.app = a /\ e.seq <= f.seq
BY DEF EventRows

\* So a quiet step keeps them.
LEMMA QuietKeepsNumbers ==
  ASSUME TypeOK, TypeOK', NumbersPart, Quiet, issued' = issued, wiped' = wiped
  PROVE  NumbersPart'
<1>1. \A x \in issued : Kept(x)' <=> Kept(x)
  BY DEF Kept
<1>2. \A x \in issued : Kept(x) => apps'[x.app].lastSeq = apps[x.app].lastSeq
  BY DEF Kept, Quiet
<1>3. ASSUME NEW a
      PROVE  \A e \in events : e.app = a => \E f \in events' : f.app = a /\ e.seq <= f.seq
  BY RowsStand DEF Quiet, TypeOK, TablesOK
<1>4. QED
  BY <1>1, <1>2, <1>3, NumbersKept

\* An application keeps its numbers through a completed move of another, or has
\* been emptied by its own.
LEMMA MoveKeepsNumbers ==
  ASSUME TypeOK, TypeOK', OpsNameApps, NumbersPart, NEW r \in Reqs, CompleteMove(r), ~Return(r)
  PROVE  NumbersPart'
<1>1. pc[r] = "write" /\ msg[r].op = "completeMove"
  BY DEF CompleteMove, Writes
<1>2. PICK a \in Apps : a = msg[r].app
  BY <1>1 DEF OpsNameApps
<1>3. /\ apps' = [apps EXCEPT ![a] = [apps[a] EXCEPT !.movedAt = clock, !.deletedAt = clock]]
      /\ events' = {e \in events : e.app # a} /\ issued' = issued
      /\ wiped' = [wiped EXCEPT ![a] = TRUE]
  BY <1>2 DEF CompleteMove
<1>4. ASSUME NEW x \in issued, Kept(x)'
      PROVE  /\ Kept(x) /\ apps'[x.app].lastSeq = apps[x.app].lastSeq
             /\ \A e \in events : e.app = x.app => \E f \in events' : f.app = x.app /\ e.seq <= f.seq
  <2>1. x.app # a /\ x.app \in Apps /\ ~wiped[x.app]
    BY <1>3, <1>4 DEF Kept, TypeOK, TablesOK
  <2>2. \A e \in events : e.app = x.app => e \in events'
    BY <1>3, <2>1
  <2>3. \A e \in events : e.app = x.app => \E f \in events' : f.app = x.app /\ e.seq <= f.seq
    BY <2>2, RowsStand DEF TypeOK, TablesOK
  <2>4. QED
    BY <1>3, <2>1, <2>3 DEF Kept, TypeOK, TablesOK
<1>5. QED
  BY <1>3, <1>4, NumbersKept

\* Purge takes the application's history with its numbers.
LEMMA PurgeKeepsNumbers ==
  ASSUME TypeOK, TypeOK', NumbersPart, NEW a \in Apps, PurgeApplication(a)
  PROVE  NumbersPart'
<1>1. /\ apps' = [apps EXCEPT ![a] = NoAppRow]
      /\ events' = {e \in events : e.app # a} /\ issued' = {x \in issued : x.app # a}
      /\ wiped' = [wiped EXCEPT ![a] = FALSE]
  BY DEF PurgeApplication
<1>2. ASSUME NEW x \in issued', Kept(x)'
      PROVE  /\ Kept(x) /\ apps'[x.app].lastSeq = apps[x.app].lastSeq
             /\ \A e \in events : e.app = x.app => \E f \in events' : f.app = x.app /\ e.seq <= f.seq
  <2>1. x.app # a /\ x.app \in Apps /\ ~wiped[x.app]
    BY <1>1, <1>2 DEF Kept, TypeOK, TablesOK
  <2>2. \A e \in events : e.app = x.app => e \in events'
    BY <1>1, <2>1
  <2>3. \A e \in events : e.app = x.app => \E f \in events' : f.app = x.app /\ e.seq <= f.seq
    BY <2>2, RowsStand DEF TypeOK, TablesOK
  <2>4. QED
    BY <1>1, <2>1, <2>3 DEF Kept, TypeOK, TablesOK
<1>3. QED
  BY <1>1, <1>2, NumbersKept

\* Cleanup spares the highest number of every application.
LEMMA CleanupKeepsNumbers ==
  ASSUME TypeOK, TypeOK', OrderInv, LogInv, NumbersPart, CleanupOldEvents
  PROVE  NumbersPart'
<1>1. UNCHANGED <<apps, issued, wiped>>
  BY DEF CleanupOldEvents, appVars
<1>2. ASSUME NEW x \in issued, Kept(x), NEW e \in events, e.app = x.app
      PROVE  \E f \in events' : f.app = x.app /\ e.seq <= f.seq
  <2>1. e.app # NoApp
    BY <1>2 DEF Kept
  <2>2. PICK n \in events' : n.app = e.app /\ (e = n \/ e.seq < n.seq)
    BY <2>1, NewestIsSpared DEF LogInv
  <2>3. e.seq \in Nat /\ n.seq \in Nat
    BY DEF TypeOK, TablesOK, EventRows
  <2>4. QED
    BY <1>2, <2>2, <2>3
<1>3. \A x \in issued : Kept(x)' <=> Kept(x)
  BY <1>1 DEF Kept
<1>4. QED
  BY <1>1, <1>2, <1>3, NumbersKept

\* A commit gives out a number above every one its application has had, and the
\* mark follows it unless the application goes with the event.
LEMMA CommitKeepsNumbers ==
  ASSUME TypeOK, TypeOK', OrderInv, NumbersPart, TxOnLiveRow, NEW r \in Reqs, Commit(r)
  PROVE  NumbersPart'
<1> USE DEF TypeOK, TablesOK, RequestsOK
<1>1. PICK m, e, a : m = msg[r] /\ e = row[r] /\ a = msg[r].app
  OBVIOUS
<1> DEFINE new == [app |-> a, seq |-> e.seq, id |-> m.id, at |-> e.at, type |-> m.type]
<1>2. /\ pc[r] = "commit" /\ m \in Requests /\ e \in EventRows /\ a \in Apps \cup {NoApp}
      /\ events' = events \cup {e} /\ issued' = issued \cup {new} /\ wiped' = wiped
      /\ a \in Apps => apps' = [apps EXCEPT ![a] = AfterExecution(apps[a], m, e.seq)]
      /\ a \notin Apps => apps' = apps
      /\ e.app = a /\ e.seq \in Nat
  BY <1>1 DEF Commit, Sequenced, Requests, EventRows, OrderInv, PendingRowOnTop
<1>3. ASSUME a \in Apps
      PROVE  /\ apps[a].lastSeq < e.seq
             /\ \A f \in events : f.app = a => f.seq < e.seq
  BY <1>1, <1>2, <1>3 DEF OrderInv, PendingRowOnTop, Sequenced
<1>4. ASSUME NEW x \in issued, Kept(x), x.app = a PROVE x.seq < e.seq
  <2>1. x.seq \in Nat /\ a \in Apps /\ apps[a].lastSeq \in Nat
    BY <1>4 DEF Issues, Kept, AppRows
  <2>2. CASE x.seq <= apps[a].lastSeq
    BY <1>2, <1>3, <2>1, <2>2
  <2>3. ASSUME NEW f \in events, f.app = a, x.seq <= f.seq PROVE x.seq < e.seq
    <3>1. f.seq \in Nat /\ f.seq < e.seq
      BY <1>3, <2>1, <2>3 DEF EventRows
    <3>2. QED
      BY <1>2, <2>1, <2>3, <3>1
  <2>4. QED
    BY <1>4, <2>2, <2>3 DEF NumbersPart, NumbersTopped
<1>5. ASSUME NEW b \in Apps PROVE apps[b].lastSeq <= apps'[b].lastSeq
  <2>1. CASE b = a
    <3>1. apps'[a] = AfterExecution(apps[a], m, e.seq) /\ apps[a] \in AppRows
      BY <1>2, <2>1
    <3>2. apps'[a].lastSeq \in {apps[a].lastSeq, e.seq} /\ apps[a].lastSeq \in Nat
      BY <3>1, CommitRaises DEF AppRows
    <3>3. QED
      BY <1>2, <1>3, <2>1, <3>2
  <2>2. CASE b # a
    BY <1>2, <2>2 DEF AppRows
  <2>3. QED
    BY <2>1, <2>2
<1>6. new.app = a /\ new.seq = e.seq /\ new.type = m.type
  OBVIOUS
<1> HIDE DEF new
<1>7. \A x \in issued' : (x \in issued \/ x = new) /\ (Kept(x)' <=> Kept(x))
  BY <1>2 DEF Kept
<1>8. NumbersOnce'
  <2> SUFFICES ASSUME NEW x \in issued', NEW y \in issued', Kept(x), x.app = y.app, x.seq = y.seq
               PROVE  x = y
    BY <1>7 DEF NumbersOnce
  <2>1. Kept(y)
    BY DEF Kept
  <2>2. CASE x \in issued /\ y \in issued
    BY <2>2 DEF NumbersPart, NumbersOnce
  <2>3. CASE x \in issued /\ y = new
    <3>1. x.seq < e.seq /\ x.seq = e.seq
      BY <1>4, <1>6, <2>3
    <3>2. QED
      BY <1>2, <3>1
  <2>4. CASE x = new /\ y \in issued
    <3>1. y.seq < e.seq /\ y.seq = e.seq
      BY <1>4, <1>6, <2>1, <2>4
    <3>2. QED
      BY <1>2, <3>1
  <2>5. QED
    BY <1>7, <2>2, <2>3, <2>4
<1>9. NumbersTopped'
  <2> SUFFICES ASSUME NEW x \in issued', Kept(x)
               PROVE  x.seq <= apps'[x.app].lastSeq \/ \E f \in events' : f.app = x.app /\ x.seq <= f.seq
    BY <1>7 DEF NumbersTopped
  <2>1. CASE x = new
    BY <1>2, <1>6, <2>1
  <2>2. CASE x \in issued
    <3>1. /\ x.seq \in Nat /\ apps[x.app].lastSeq \in Nat /\ apps'[x.app].lastSeq \in Nat
          /\ apps[x.app].lastSeq <= apps'[x.app].lastSeq
      BY <1>5, <2>2 DEF Issues, Kept, AppRows
    <3>2. x.seq <= apps[x.app].lastSeq \/ \E f \in events : f.app = x.app /\ x.seq <= f.seq
      BY <2>2 DEF NumbersPart, NumbersTopped
    <3>3. QED
      BY <1>2, <3>1, <3>2
  <2>3. QED
    BY <1>7, <2>1, <2>2
<1>10. VersionCovers'
  <2> SUFFICES ASSUME NEW x \in issued', Kept(x), ~Unversioned(x)
               PROVE  x.seq <= apps'[x.app].lastSeq
    BY <1>7 DEF VersionCovers, Unversioned
  <2>1. CASE x = new
    <3>1. a \in Apps /\ m.type \notin {"application_deleted", "application_moved"}
      BY <1>6, <2>1 DEF Kept, Unversioned
    <3>2. apps[a].deletedAt = 0
      BY <1>1, <1>2, <3>1 DEF TxOnLiveRow, InTx, Sequenced, Live
    <3>3. apps'[a].lastSeq = e.seq
      BY <1>2, <1>3, <3>1, <3>2 DEF AfterExecution, AppRows
    <3>4. QED
      BY <1>2, <1>6, <2>1, <3>3
  <2>2. CASE x \in issued
    <3>1. /\ x.seq \in Nat /\ apps[x.app].lastSeq \in Nat /\ apps'[x.app].lastSeq \in Nat
          /\ apps[x.app].lastSeq <= apps'[x.app].lastSeq
      BY <1>5, <2>2 DEF Issues, Kept, AppRows
    <3>2. x.seq <= apps[x.app].lastSeq
      BY <2>2 DEF NumbersPart, VersionCovers
    <3>3. QED
      BY <3>1, <3>2
  <2>3. QED
    BY <1>7, <2>1, <2>2
<1>11. QED
  BY <1>8, <1>9, <1>10 DEF NumbersPart

\* A framed step leaves the application of an open transaction as it is.
LEMMA FrameKeepsTxOnLiveRow ==
  ASSUME TxOnLiveRow, Frame
  PROVE  TxOnLiveRow'
BY DEF TxOnLiveRow, Frame, Sequenced, Live

\* BeginTx looks at the row it locks, and the transaction keeps it until it ends.
LEMMA TxStaysOnLiveRow ==
  ASSUME TypeOK, TypeOK', OrderInv, TxOnLiveRow, [Next]_vars
  PROVE  TxOnLiveRow'
<1> USE DEF TypeOK, TablesOK, RequestsOK
<1>0. LockHeld
  BY DEF OrderInv
<1>1. ASSUME NEW r \in Reqs, BeginTx(r) PROVE TxOnLiveRow'
  <2>1. UNCHANGED <<apps, msg>> \/ Return(r)
    BY <1>1 DEF BeginTx, Goto, appVars
  <2>2. apps' = apps
    BY <1>1 DEF BeginTx, appVars
  <2>3. \A q \in Reqs \ {r} : pc'[q] = pc[q] /\ msg'[q] = msg[q]
    BY <1>1 DEF BeginTx, Goto, Return
  <2>4. ASSUME InTx(r)', Sequenced(msg[r])', msg'[r].type # "application_moved" PROVE Live(msg[r].app)'
    <3>1. msg' = msg
      BY <1>1, <2>4 DEF BeginTx, Goto, Return, InTx
    <3>2. Live(msg[r].app)
      BY <1>1, <2>4, <3>1 DEF BeginTx, Return, InTx, Sequenced
    <3>3. QED
      BY <2>2, <3>1, <3>2 DEF Live
  <2>5. QED
    BY <2>2, <2>3, <2>4 DEF TxOnLiveRow, InTx, Sequenced, Live
<1>2. ASSUME NEW r \in Reqs, Dedupe(r) \/ InsertAndExecute(r) PROVE TxOnLiveRow'
  <2>1. apps' = apps
    BY <1>2 DEF Dedupe, InsertAndExecute, appVars
  <2>2. \A q \in Reqs : InTx(q)' => InTx(q) /\ msg'[q] = msg[q]
    BY <1>2 DEF Dedupe, InsertAndExecute, Goto, Return, InTx
  <2>3. QED
    BY <2>1, <2>2 DEF TxOnLiveRow, Sequenced, Live
<1>3. ASSUME NEW r \in Reqs, Commit(r) PROVE TxOnLiveRow'
  <2>1. msg' = msg /\ pc[r] = "commit" /\ \A q \in Reqs : InTx(q)' => InTx(q) /\ q # r
    BY <1>3 DEF Commit, Goto, InTx
  <2>2. ASSUME NEW q \in Reqs \ {r}, InTx(q), Sequenced(msg[q]) PROVE apps'[msg[q].app] = apps[msg[q].app]
    <3>1. msg[q].app \in Apps /\ msg[r] \in Requests
      BY <2>1, <2>2 DEF InTx, Sequenced, Requests
    <3>2. Sequenced(msg[r]) => msg[q].app # msg[r].app
      BY <1>0, <2>1, <2>2 DEF LockHeld, InTx
    <3>3. QED
      BY <1>3, <3>1, <3>2 DEF Commit
  <2>3. QED
    BY <2>1, <2>2 DEF TxOnLiveRow, Sequenced, Live
<1>4. ASSUME NEW r \in Reqs, Arrival(r) \/ RequestStep(r) PROVE TxOnLiveRow'
  BY <1>0, <1>1, <1>2, <1>3, <1>4, ChecksAreFramed, AppWritesAreFramed, BackgroundIsFramed, FrameKeepsTxOnLiveRow
  DEF RequestStep
<1>5. ASSUME NEW r \in Reqs, LockTimeout(r) \/ StatementFails(r) PROVE TxOnLiveRow'
  BY <1>0, <1>5, BackgroundIsFramed, FrameKeepsTxOnLiveRow DEF LockTimeout, StatementFails
<1>6. ASSUME NEW a \in Apps, PurgeApplication(a) PROVE TxOnLiveRow'
  BY <1>0, <1>6, PurgeIsFramed, FrameKeepsTxOnLiveRow
<1>7. CASE Crash \/ CleanupOldEvents \/ Tick \/ UNCHANGED vars
  BY <1>0, <1>7, BackgroundIsFramed, FrameKeepsTxOnLiveRow
<1>8. QED
  BY <1>4, <1>5, <1>6, <1>7 DEF Next

\* Every step keeps the numbers.
LEMMA NumbersStep ==
  ASSUME TypeOK, TypeOK', OrderInv, LogInv, OpsNameApps, NumbersInv, [Next]_vars
  PROVE  NumbersInv'
<1>0. NumbersPart /\ TxOnLiveRow
  BY DEF NumbersInv, NumbersPart
<1>1. ASSUME NEW r \in Reqs,
             \/ Arrival(r) \/ LockTimeout(r) \/ StatementFails(r)
             \/ MoveGuard(r) \/ Authorize(r) \/ OwnerCheck(r) \/ RegisterOwnerCheck(r) \/ RegisterQuotaCheck(r)
             \/ RegisterApplication(r) \/ StartMove(r) \/ AbortMove(r) \/ DeleteApplication(r) \/ SetAgentRead(r)
             \/ BeginTx(r) \/ Dedupe(r) \/ Broadcast(r)
      PROVE  NumbersPart'
  <2>1. UNCHANGED <<issued, wiped>>
    BY <1>1 DEF Arrival, AcceptEvent, ProduceEvent, ApplicationRequest, LockTimeout, StatementFails, Abort, MoveGuard,
           Authorize, OwnerCheck, RegisterOwnerCheck, RegisterQuotaCheck, RegisterApplication, StartMove,
           AbortMove, DeleteApplication, SetAgentRead, UpdateApplication, BeginTx, Dedupe, Broadcast, appVars,
           logVars
  <2>2. Quiet
    BY <1>1, ChecksAreQuiet, WritesAreQuiet
  <2>3. QED
    BY <1>0, <2>1, <2>2, QuietKeepsNumbers
<1>2. ASSUME NEW r \in Reqs, CompleteMove(r) PROVE NumbersPart'
  <2>1. CASE Return(r)
    <3>1. UNCHANGED <<issued, wiped>>
      <4>1. pc[r] = "write" /\ pc'[r] = "idle"
        BY <1>2, <2>1 DEF CompleteMove, Writes, Return, TypeOK, RequestsOK
      <4>2. QED
        BY <1>2, <4>1 DEF CompleteMove, TypeOK, RequestsOK
    <3>2. QED
      BY <1>0, <1>2, <2>1, <3>1, WritesAreQuiet, QuietKeepsNumbers
  <2>2. CASE ~Return(r)
    BY <1>0, <1>2, <2>2, MoveKeepsNumbers
  <2>3. QED
    BY <2>1, <2>2
<1>3. ASSUME NEW r \in Reqs, InsertAndExecute(r) PROVE NumbersPart'
  <2>1. UNCHANGED <<apps, events, issued, wiped>>
    BY <1>3 DEF InsertAndExecute, appVars
  <2>2. QED
    BY <1>0, <2>1 DEF NumbersPart, NumbersOnce, NumbersTopped, VersionCovers, Kept
<1>4. ASSUME NEW r \in Reqs, Commit(r) PROVE NumbersPart'
  BY <1>0, <1>4, CommitKeepsNumbers
<1>5. ASSUME NEW a \in Apps, PurgeApplication(a) PROVE NumbersPart'
  BY <1>0, <1>5, PurgeKeepsNumbers
<1>6. ASSUME CleanupOldEvents PROVE NumbersPart'
  BY <1>0, <1>6, CleanupKeepsNumbers
<1>7. ASSUME Crash \/ Tick \/ UNCHANGED vars PROVE NumbersPart'
  <2>1. UNCHANGED <<issued, wiped>>
    BY <1>7 DEF Crash, Tick, vars, appVars, logVars
  <2>2. QED
    BY <1>0, <1>7, <2>1, CrashAndTickAreQuiet, QuietKeepsNumbers
<1>8. NumbersPart'
  BY <1>1, <1>2, <1>3, <1>4, <1>5, <1>6, <1>7 DEF Next, RequestStep
<1>9. QED
  BY <1>0, <1>8, TxStaysOnLiveRow DEF NumbersInv, NumbersPart

\* Of an application that no move has emptied, no number is ever given to two
\* events, and the high-water mark is at or above every number that counts
\* towards the version (GetNextSequence and updateAppVersion under the row lock).
THEOREM NumbersHold == Spec => []NumbersInv
<1>1. Init => NumbersInv
  BY DEF Init, NumbersInv, NumbersOnce, NumbersTopped, VersionCovers, TxOnLiveRow, InTx
<1>2. TypeOK /\ TypeOK' /\ OrderInv /\ LogInv /\ OpsNameApps /\ NumbersInv /\ [Next]_vars => NumbersInv'
  BY NumbersStep
<1>3. QED
  BY <1>1, <1>2, TypeCorrect, OrderHolds, LogInvHolds, PTL DEF Spec

\* Numbers that run without a hole from the least a client holds to the version
\* it is sent account for every event in between.
LEMMA NothingMissing ==
  ASSUME TypeOK, FeedTypes, NumbersInv, NEW a \in Apps, ~wiped[a],
         Agrees(a, apps[a].lastSeq), NEW x \in issued, x.app = a,
         x.seq >= Min(Numbers(Held(a))), ~Unversioned(x)
  PROVE  \E e \in Held(a) : e.id = x.id
<1> USE DEF TypeOK, TablesOK
<1>1. Held(a) # {} /\ \A n \in Min(Numbers(Held(a))) .. apps[a].lastSeq : n \in Numbers(Held(a))
  BY DEF Agrees
<1>2. Numbers(Held(a)) \in SUBSET Nat /\ Numbers(Held(a)) # {}
  BY <1>1 DEF Numbers, Held, FeedTypes, EventRows
<1>3. Min(Numbers(Held(a))) \in Nat
  BY <1>2, LeastExists DEF Min
<1>4. x.seq <= apps[a].lastSeq /\ x.seq \in Nat /\ apps[a].lastSeq \in Nat
  BY DEF NumbersInv, VersionCovers, Kept, Issues, AppRows
<1>5. x.seq \in Numbers(Held(a))
  BY <1>1, <1>3, <1>4
<1>6. PICK e \in Held(a) : e.seq = x.seq
  BY <1>5 DEF Numbers
<1>7. PICK y \in issued : y.app = a /\ y.seq = e.seq /\ y.id = e.id
  BY DEF Held
<1>8. y = x
  BY <1>6, <1>7 DEF NumbersInv, NumbersOnce, Kept
<1>9. QED
  BY <1>7, <1>8

\* What the feed loses shows: a client whose numbers agree with the version sent
\* with the last page has every event of the application that was committed
\* since the first one it has, for every number of requests and any workload
\* (loadAppVersions, GetNextSequence, CleanupOldEvents).
THEOREM LossIsShown == FeedSpec => LossShows
<1> DEFINE Shown ==
      \A a \in Apps :
        (/\ poll.pc = "versions" /\ poll'.pc = "answer" /\ poll'.versions[a] # 0
         /\ ~wiped[a] /\ Agrees(a, poll'.versions[a])) =>
          \A x \in issued : (x.app = a /\ x.seq >= Min(Numbers(Held(a))) /\ ~Unversioned(x)) =>
            \E e \in Held(a) : e.id = x.id
<1>1. TypeOK /\ FeedTypes /\ NumbersInv /\ FeedNext => Shown
  <2> SUFFICES ASSUME TypeOK, FeedTypes, NumbersInv, FeedNext,
                      NEW a \in Apps, poll.pc = "versions", poll'.pc = "answer", poll'.versions[a] # 0,
                      ~wiped[a], Agrees(a, poll'.versions[a])
               PROVE  \A x \in issued : (x.app = a /\ x.seq >= Min(Numbers(Held(a))) /\ ~Unversioned(x)) =>
                        \E e \in Held(a) : e.id = x.id
    OBVIOUS
  <2>1. LoadAppVersions
    <3>1. ~UNCHANGED feedVars
      BY DEF feedVars
    <3>2. ~FindCursor /\ ~FullResync /\ ~GetSince /\ ~Receive
      BY DEF FindCursor, FullResync, GetSince, Receive
    <3>3. ~PollFails
      BY DEF PollFails, NoPoll
    <3>4. QED
      BY <3>1, <3>2, <3>3 DEF FeedNext, Poll
  <2>2. PICK v \in {AppVersions, NoPoll.versions} : poll' = [poll EXCEPT !.pc = "answer", !.versions = v]
    BY <2>1 DEF LoadAppVersions
  <2>3. poll'.versions = v
    BY <2>2 DEF FeedTypes
  <2>4. v = AppVersions
    BY <2>2, <2>3 DEF NoPoll
  <2>5. poll'.versions[a] = apps[a].lastSeq
    BY <2>3, <2>4 DEF AppVersions
  <2>6. QED
    BY <2>5, NothingMissing
<1>2. QED
  BY <1>1, FeedOverPipeline, TypeCorrect, FeedInvHolds, NumbersHold, PTL DEF FeedSpec, LossShows
=============================================================================
