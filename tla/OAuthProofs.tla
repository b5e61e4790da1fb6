----------------------------- MODULE OAuthProofs -----------------------------
(***************************************************************************)
(* Machine-checked proofs about OAuth, for any number of grants, agent      *)
(* devices and concurrent requests and any limits: a code makes one agent,  *)
(* a replay of it costs that agent, a refresh token rotates once.           *)
(*                                                                          *)
(* The right to make the agent of a grant is handed on: from the pending    *)
(* request to the approval that takes it, to the unused code, to the        *)
(* exchange that marks the code and back if that fails, and to the agent.   *)
(* The invariant says that it is in one place at a time.                    *)
(***************************************************************************)
EXTENDS OAuth, FiniteSetTheorems, TLAPS

-----------------------------------------------------------------------------
(* The inductive invariant. *)

Requests ==
  [pc: Steps, op: Ops, grant: Grants \cup {NoDevice}, user: Users \cup {NoUser},
   match: BOOLEAN, device: Devices \cup {NoDevice}, gen: Nat]

\* Request r has the right to make the agent of its grant.
Holds(r) == req[r].pc \in {"addCode", "count", "create", "unmark"}
Agentless(g) == \A d \in Devices : agents[d].grant # g
\* Nothing has come of the grant yet.
Untouched(g) == ~ codes[g].stored /\ g \notin replayed /\ Agentless(g)

\* A request undecided, or not yet made; an unused code; a code and its agent.
GrantOK(g) ==
  /\ g \notin opened => Entries(g) = {}
  /\ g \notin opened \/ Entries(g) # {} => Untouched(g) /\ \A r \in Reqs : Holds(r) => req[r].grant # g
  /\ codes[g].stored /\ ~ codes[g].used =>
       Agentless(g) /\ \A r \in Reqs : Holds(r) => req[r].grant # g
  /\ codes[g].stored /\ g \in replayed => codes[g].reuseSeen
  /\ codes[g].device # NoDevice => agents[codes[g].device].grant = g

\* What a request's step assumes of its grant and its device.
RequestOK(r) ==
  /\ req[r].pc \in {"get", "canAdd", "take", "consume", "setDevice"} \/ Holds(r) => req[r].grant \in opened
  /\ Holds(r) => Agentless(req[r].grant)
  /\ At(r, "addCode") => Untouched(req[r].grant)
  /\ req[r].pc \in {"setDevice", "revoke", "rotate", "previous"} =>
       req[r].device \in Devices /\ agents[req[r].device].st # "none"
  /\ At(r, "setDevice") => agents[req[r].device].grant = req[r].grant

\* Two requests never hold the same right.
SoleHolder ==
  \A q, r \in Reqs : Holds(q) /\ Holds(r) /\ req[q].grant = req[r].grant => q = r

\* An agent's tokens leave only with the code, if it is still there, naming it.
AgentOK(d) ==
  /\ agents[d].st = "none" => agents[d] = NoAgent /\ d \notin handed
  /\ agents[d].st # "none" => agents[d].grant \in opened
  /\ d \in handed /\ codes[agents[d].grant].stored => codes[agents[d].grant].device = d

\* A token that was exchanged is older than the current one.
TokensSpent ==
  \A d \in Devices, k \in 0..MaxGeneration :
    spent[<<d, k>>] <= 1 /\ (spent[<<d, k>>] > 0 => k < agents[d].gen)

OAuthInv ==
  /\ TypeOK
  /\ \A g \in Grants : GrantOK(g)
  /\ \A r \in Reqs : RequestOK(r)
  /\ SoleHolder
  /\ \A d \in Devices : AgentOK(d)
  /\ OneAgentPerCode /\ ReplayKillsAgent
  /\ TokensSpent

-----------------------------------------------------------------------------
(* Steps that leave the right to an agent where it is, or drop it. *)

\* A step that changes pending requests, at most losing some, and the request
\* r, which gains no right to an agent; a revocation it ends there is lost.
LEMMA RequestMove ==
  ASSUME OAuthInv, NEW r \in Reqs, NEW x \in Requests, req' = [req EXCEPT ![r] = x], TypeOK',
         UNCHANGED <<codes, agents, opened, replayed, handed, spent>>,
         \A g \in Grants : Entries(g)' # {} => Entries(g) # {},
         lost \subseteq lost', At(r, "revoke") => req[r].device \in lost',
         RequestOK(r)', Holds(r)' => Holds(r) /\ x.grant = req[r].grant
  PROVE  OAuthInv'
<1>1. \A q \in Reqs \ {r} : req'[q] = req[q]
  BY DEF OAuthInv, TypeOK
<1>2. req'[r] = x
  BY DEF OAuthInv, TypeOK
<1>3. \A q \in Reqs : Holds(q)' => Holds(q) /\ req'[q].grant = req[q].grant
  BY <1>1, <1>2 DEF Holds
<1>4. \A g \in Grants : (Agentless(g)' <=> Agentless(g)) /\ (Untouched(g)' <=> Untouched(g))
  BY DEF Agentless, Untouched
<1>5. \A g \in Grants : GrantOK(g)'
  BY <1>3, <1>4 DEF OAuthInv, GrantOK
<1>6. \A q \in Reqs : RequestOK(q)'
  BY <1>1, <1>4 DEF OAuthInv, RequestOK, Holds, At, Agentless, Untouched
<1>7. SoleHolder'
  BY <1>3 DEF OAuthInv, SoleHolder
<1>8. \A d \in Devices : AgentOK(d)'
  BY DEF OAuthInv, AgentOK
<1>9. OneAgentPerCode' /\ TokensSpent'
  BY DEF OAuthInv, OneAgentPerCode, TokensSpent
<1>10. ReplayKillsAgent'
  BY <1>1, <1>2 DEF OAuthInv, ReplayKillsAgent, Escaped, At
<1>11. QED
  BY <1>5, <1>6, <1>7, <1>8, <1>9, <1>10 DEF OAuthInv

\* Losing or binding pending requests takes no right away from anyone else.
LEMMA PendingMove ==
  ASSUME OAuthInv, TypeOK', \A g \in Grants : Entries(g)' # {} => Entries(g) # {},
         UNCHANGED <<codes, agents, opened, req, replayed, handed, spent, lost>>
  PROVE  OAuthInv'
<1>1. \A g \in Grants : (Agentless(g)' <=> Agentless(g)) /\ (Untouched(g)' <=> Untouched(g))
  BY DEF Agentless, Untouched
<1>2. \A r \in Reqs : Holds(r)' <=> Holds(r)
  BY DEF Holds
<1>3. \A g \in Grants : GrantOK(g)'
  BY <1>1, <1>2 DEF OAuthInv, GrantOK
<1>4. \A q \in Reqs : RequestOK(q)'
  BY DEF OAuthInv, RequestOK, Holds, At, Agentless, Untouched
<1>5. SoleHolder' /\ (\A d \in Devices : AgentOK(d)') /\ OneAgentPerCode' /\ TokensSpent'
  BY <1>2 DEF OAuthInv, SoleHolder, AgentOK, OneAgentPerCode, TokensSpent
<1>6. ReplayKillsAgent'
  BY DEF OAuthInv, ReplayKillsAgent, Escaped, At
<1>7. QED
  BY <1>3, <1>4, <1>5, <1>6 DEF OAuthInv

\* What is left when a grant's request goes, or is bound to an account.
LEMMA PendingLeft ==
  ASSUME TypeOK, NEW g \in Grants
  PROVE  /\ Without(g) \subseteq pending
         /\ \A p \in Without(g) : p.grant # g
         /\ \A u \in Users \cup {NoUser} :
              /\ Bind(g, u) \subseteq [grant: Grants, user: Users \cup {NoUser}, at: Nat]
              /\ \A p \in Bind(g, u) : \E q \in pending : q.grant = p.grant
<1> SUFFICES ASSUME NEW u \in Users \cup {NoUser}
             PROVE  /\ Bind(g, u) \subseteq [grant: Grants, user: Users \cup {NoUser}, at: Nat]
                    /\ \A p \in Bind(g, u) : \E q \in pending : q.grant = p.grant
  BY DEF Without, Entries
<1>1. \A p \in Entries(g) : /\ [p EXCEPT !.user = u] \in [grant: Grants, user: Users \cup {NoUser}, at: Nat]
                            /\ [p EXCEPT !.user = u].grant = p.grant
  BY DEF TypeOK, Entries
<1>2. Bind(g, u) \subseteq [grant: Grants, user: Users \cup {NoUser}, at: Nat]
  BY <1>1 DEF Bind, Without, TypeOK
<1>3. ASSUME NEW p \in Bind(g, u)
      PROVE  \E q \in pending : q.grant = p.grant
  <2>1. CASE p \in Without(g)
    BY <2>1 DEF Without
  <2>2. CASE p \notin Without(g)
    <3>1. PICK q \in Entries(g) : p = [q EXCEPT !.user = u]
      BY <2>2 DEF Bind
    <3>2. QED
      BY <1>1, <3>1 DEF Entries
  <2>3. QED
    BY <2>1, <2>2
<1>4. QED
  BY <1>2, <1>3

-----------------------------------------------------------------------------
(* Authorization and consent. *)

\* Authorize opens a grant that nobody has a right to yet.
LEMMA AuthorizeStep ==
  ASSUME OAuthInv, NEW g \in Grants, Authorize(g)
  PROVE  OAuthInv'
<1>1. /\ g \notin opened /\ codes' = Swept
      /\ UNCHANGED <<agents, req, arrived, replayed, handed, spent, lost>>
  BY DEF Authorize, AddPending, history
<1>2. /\ opened \subseteq opened' /\ opened' \subseteq opened \cup {g}
      /\ \A p \in pending' : p \in pending \/ p = [grant |-> g, user |-> NoUser, at |-> Cardinality(opened)]
      /\ g \in opened' \/ UNCHANGED <<pending, opened>>
  BY DEF Authorize, AddPending, Without
<1>3. Cardinality(opened) \in Nat
  <2>1. IsFiniteSet(opened)
    BY SetsAssumption, FS_Subset DEF OAuthInv, TypeOK
  <2>2. QED
    BY <2>1, FS_CardinalityType
<1>4. \A h \in Grants : codes'[h] = NoCode \/ codes'[h] = codes[h]
  BY <1>1 DEF Swept
<1>5. NoCode \in Codes /\ ~ NoCode.stored /\ NoCode.device = NoDevice
  BY DEF NoCode, Codes
<1>6. TypeOK'
  <2>1. codes' \in [Grants -> Codes]
    BY <1>1, <1>5 DEF Swept, OAuthInv, TypeOK
  <2>2. pending' \subseteq [grant: Grants, user: Users \cup {NoUser}, at: Nat]
    BY <1>2, <1>3 DEF OAuthInv, TypeOK
  <2>3. QED
    BY <1>1, <1>2, <2>1, <2>2 DEF OAuthInv, TypeOK
<1>7. \A h \in Grants : (Agentless(h)' <=> Agentless(h)) /\ (Untouched(h) => Untouched(h)')
  BY <1>1, <1>4, <1>5 DEF Agentless, Untouched
<1>8. \A r \in Reqs : (Holds(r)' <=> Holds(r)) /\ (Holds(r) => req[r].grant # g)
  BY <1>1 DEF Holds, OAuthInv, RequestOK
<1>9. ASSUME NEW h \in Grants
      PROVE  GrantOK(h)'
  <2>1. h # g => (Entries(h)' # {} => Entries(h) # {}) /\ (h \in opened' <=> h \in opened)
    BY <1>2 DEF Entries
  <2>2. h = g => Untouched(h)' /\ (h \notin opened' => Entries(h)' = {})
    BY <1>1, <1>2, <1>7 DEF OAuthInv, GrantOK, Entries
  <2>3. QED
    BY <1>1, <1>4, <1>5, <1>7, <1>8, <2>1, <2>2 DEF OAuthInv, GrantOK
<1>10. \A r \in Reqs : RequestOK(r)'
  <2>1. \A r \in Reqs : Holds(r) => req[r].grant \in Grants
    BY DEF OAuthInv, RequestOK, TypeOK
  <2>2. QED
    BY <1>1, <1>2, <1>7, <1>8, <2>1 DEF OAuthInv, RequestOK, At, Holds
<1>11. SoleHolder' /\ OneAgentPerCode' /\ TokensSpent'
  BY <1>1, <1>8 DEF OAuthInv, SoleHolder, OneAgentPerCode, TokensSpent
<1>12. \A d \in Devices : agents[d].st # "none" => agents[d].grant \in Grants
  BY DEF OAuthInv, AgentOK, TypeOK
<1>13. \A d \in Devices : AgentOK(d)'
  BY <1>1, <1>2, <1>4, <1>5, <1>12 DEF OAuthInv, AgentOK
<1>14. ReplayKillsAgent'
  BY <1>1, <1>4, <1>5, <1>12 DEF OAuthInv, ReplayKillsAgent, Escaped, At
<1>15. QED
  BY <1>6, <1>9, <1>10, <1>11, <1>13, <1>14 DEF OAuthInv

\* GetRequest, Deny and a pending request's expiry.
LEMMA PendingSteps ==
  ASSUME OAuthInv, NEW g \in Grants,
         pending' = Without(g) \/ \E u \in Users : pending' = Bind(g, u),
         UNCHANGED <<codes, agents, opened, req, arrived, replayed, handed, spent, lost>>
  PROVE  OAuthInv'
<1>1. TypeOK
  BY DEF OAuthInv
<1>2. \A p \in pending' : \E q \in pending : q.grant = p.grant
  BY <1>1, PendingLeft
<1>3. pending' \subseteq [grant: Grants, user: Users \cup {NoUser}, at: Nat]
  BY <1>1, PendingLeft DEF TypeOK
<1>4. \A h \in Grants : Entries(h)' # {} => Entries(h) # {}
  BY <1>2 DEF Entries
<1>5. TypeOK'
  BY <1>1, <1>3 DEF TypeOK
<1>6. QED
  BY <1>4, <1>5, PendingMove

\* A request that has ended assumes nothing and holds nothing.
LEMMA EndedRequest ==
  ASSUME NEW r \in Reqs, req'[r] = Idle
  PROVE  RequestOK(r)' /\ ~ Holds(r)'
BY DEF Idle, RequestOK, Holds, At

\* The local variables of an idle request are typed.
LEMMA IdleType == Idle \in Requests
BY DEF Idle, Requests, Steps, Ops

\* A request that ends, no revocation under way, or with one that is lost.
LEMMA RequestEnd ==
  ASSUME OAuthInv, NEW r \in Reqs, Return(r), arrived' \in 0..MaxRequests,
         lost' = IF At(r, "revoke") THEN lost \cup {req[r].device} ELSE lost,
         UNCHANGED <<store, agents, opened, replayed, handed, spent>>
  PROVE  OAuthInv'
<1>1. req' = [req EXCEPT ![r] = Idle] /\ req'[r] = Idle
  BY DEF Return, OAuthInv, TypeOK
<1>2. At(r, "revoke") => req[r].device \in Devices
  BY DEF At, OAuthInv, RequestOK
<1>3. TypeOK'
  BY <1>1, <1>2, IdleType DEF OAuthInv, TypeOK, Requests, store
<1>4. QED
  BY <1>1, <1>3, IdleType, EndedRequest, RequestMove DEF Entries, store

\* A request that goes on with the same right or none, having changed nothing.
LEMMA RequestGoesOn ==
  ASSUME OAuthInv, NEW r \in Reqs, NEW step \in Steps, Goto(r, step), arrived' \in 0..MaxRequests,
         ~ At(r, "revoke"), UNCHANGED <<store, agents, opened, history>>,
         step \in {"addCode", "count", "create", "unmark"} => Holds(r),
         RequestOK(r)'
  PROVE  OAuthInv'
<1> DEFINE x == [req[r] EXCEPT !.pc = step]
<1>1. x \in Requests /\ x.pc = step /\ x.grant = req[r].grant
  BY DEF OAuthInv, TypeOK, Requests
<1>2. req' = [req EXCEPT ![r] = x] /\ req'[r] = x
  BY DEF Goto, OAuthInv, TypeOK
<1>3. TypeOK'
  BY <1>1, <1>2 DEF OAuthInv, TypeOK, Requests, store, history
<1>4. Holds(r)' => Holds(r) /\ x.grant = req[r].grant
  BY <1>1, <1>2 DEF Holds
<1> HIDE DEF x
<1>5. QED
  BY <1>1, <1>2, <1>3, <1>4, RequestMove DEF Entries, store, history

\* ArriveApprove, ArriveExchange and ArriveRefresh.
LEMMA ArriveSteps ==
  ASSUME OAuthInv, NEW r \in Reqs, ArriveApprove(r) \/ ArriveExchange(r) \/ ArriveRefresh(r)
  PROVE  OAuthInv'
<1>1. PICK x \in Requests :
        /\ req' = [req EXCEPT ![r] = x]
        /\ \/ x.pc \in {"get", "consume"} /\ x.grant \in opened
           \/ x.pc = "rotate" /\ x.device \in handed
  <2>1. CASE ArriveApprove(r)
    <3>1. PICK g \in opened, u \in Users :
            req' = [req EXCEPT ![r] = [Idle EXCEPT !.pc = "get", !.op = "approve", !.grant = g, !.user = u]]
      BY <2>1 DEF ArriveApprove
    <3>2. [Idle EXCEPT !.pc = "get", !.op = "approve", !.grant = g, !.user = u] \in Requests
      BY DEF Idle, Requests, Steps, Ops, OAuthInv, TypeOK
    <3>3. QED
      BY <3>1, <3>2 DEF Idle
  <2>2. CASE ArriveExchange(r)
    <3>1. PICK g \in opened, match \in BOOLEAN :
            req' = [req EXCEPT ![r] =
                      [Idle EXCEPT !.pc = "consume", !.op = "exchange", !.grant = g, !.match = match]]
      BY <2>2 DEF ArriveExchange
    <3>2. [Idle EXCEPT !.pc = "consume", !.op = "exchange", !.grant = g, !.match = match] \in Requests
      BY DEF Idle, Requests, Steps, Ops, OAuthInv, TypeOK
    <3>3. QED
      BY <3>1, <3>2 DEF Idle
  <2>3. CASE ArriveRefresh(r)
    <3>1. PICK d \in handed : \E k \in 0..agents[d].gen :
            req' = [req EXCEPT ![r] =
                      [Idle EXCEPT !.pc = "rotate", !.op = "refresh", !.device = d, !.gen = k]]
      BY <2>3 DEF ArriveRefresh
    <3>2. PICK k \in 0..agents[d].gen :
            req' = [req EXCEPT ![r] =
                      [Idle EXCEPT !.pc = "rotate", !.op = "refresh", !.device = d, !.gen = k]]
      BY <3>1
    <3>3. d \in Devices /\ k \in Nat
      BY DEF OAuthInv, TypeOK
    <3>4. [Idle EXCEPT !.pc = "rotate", !.op = "refresh", !.device = d, !.gen = k] \in Requests
      BY <3>3 DEF Idle, Requests, Steps, Ops
    <3>5. QED
      BY <3>2, <3>4 DEF Idle
  <2>4. QED
    BY <2>1, <2>2, <2>3
<1>2. /\ At(r, "idle") /\ arrived < MaxRequests /\ arrived' = arrived + 1
      /\ UNCHANGED <<pending, codes, agents, opened, replayed, handed, spent, lost>>
  BY DEF ArriveApprove, ArriveExchange, ArriveRefresh, store, history
<1>3. req'[r] = x
  BY <1>1 DEF OAuthInv, TypeOK
<1>4. TypeOK'
  <2>1. arrived' \in 0..MaxRequests
    BY <1>2, SetsAssumption DEF OAuthInv, TypeOK
  <2>2. QED
    BY <1>1, <1>2, <2>1 DEF OAuthInv, TypeOK, Requests
<1>5. handed \subseteq Devices /\ \A d \in handed : agents[d].st # "none"
  BY DEF OAuthInv, TypeOK, AgentOK
<1>6. RequestOK(r)' /\ ~ Holds(r)' /\ ~ At(r, "revoke")
  BY <1>1, <1>2, <1>3, <1>5 DEF RequestOK, Holds, At
<1>7. QED
  BY <1>1, <1>2, <1>4, <1>6, RequestMove DEF Entries

\* getPending, with the account bound to the request that is found.
LEMMA ApproveGetStep ==
  ASSUME OAuthInv, NEW r \in Reqs, ApproveGet(r)
  PROVE  OAuthInv'
<1> DEFINE g == req[r].grant
           u == req[r].user
<1>1. /\ At(r, "get") /\ pending' = IF MayDecide(g, u) THEN Bind(g, u) ELSE pending
      /\ Proceed(r, MayDecide(g, u), "canAdd")
      /\ UNCHANGED <<codes, agents, opened, arrived, replayed, handed, spent, lost>>
  BY DEF ApproveGet, history
<1>2. g \in opened /\ g \in Grants /\ u \in Users \cup {NoUser}
  BY <1>1 DEF OAuthInv, RequestOK, TypeOK, At
<1>3. PICK x \in Requests : req' = [req EXCEPT ![r] = x] /\ (x = Idle \/ (x.pc = "canAdd" /\ x.grant = g))
  <2>1. CASE MayDecide(g, u)
    <3>1. req' = [req EXCEPT ![r] = [req[r] EXCEPT !.pc = "canAdd"]]
      BY <1>1, <2>1 DEF Proceed, Goto, OAuthInv, TypeOK
    <3>2. [req[r] EXCEPT !.pc = "canAdd"] \in Requests
      BY DEF OAuthInv, TypeOK, Requests, Steps
    <3>3. QED
      BY <3>1, <3>2 DEF Requests
  <2>2. CASE ~ MayDecide(g, u)
    BY <1>1, <2>2, IdleType DEF Proceed, Return
  <2>3. QED
    BY <2>1, <2>2
<1>4. req'[r] = x
  BY <1>3 DEF OAuthInv, TypeOK
<1>5. /\ \A p \in pending' : \E q \in pending : q.grant = p.grant
      /\ pending' \subseteq [grant: Grants, user: Users \cup {NoUser}, at: Nat]
  BY <1>1, <1>2, PendingLeft DEF OAuthInv, TypeOK
<1>6. \A h \in Grants : Entries(h)' # {} => Entries(h) # {}
  BY <1>5 DEF Entries
<1>7. TypeOK'
  BY <1>1, <1>3, <1>5 DEF OAuthInv, TypeOK, Requests
<1>8. RequestOK(r)' /\ ~ Holds(r)' /\ ~ At(r, "revoke")
  BY <1>1, <1>2, <1>3, <1>4 DEF RequestOK, Holds, At, Idle
<1> HIDE DEF g, u
<1>9. QED
  BY <1>1, <1>3, <1>6, <1>7, <1>8, RequestMove

\* CanAddAgent and the second count: the right stays with the request.
LEMMA CountAgentsStep ==
  ASSUME OAuthInv, NEW r \in Reqs, CountAgents(r)
  PROVE  OAuthInv'
<1>1. /\ req[r].pc \in {"canAdd", "count"}
      /\ Proceed(r, Cardinality(LiveAgents(req[r].user)) < MaxLiveAgents,
                 IF At(r, "canAdd") THEN "take" ELSE "create")
      /\ UNCHANGED <<store, agents, opened, arrived, history>>
  BY DEF CountAgents, At
<1>2. arrived' \in 0..MaxRequests /\ ~ At(r, "revoke")
  BY <1>1 DEF OAuthInv, TypeOK, At
<1>3. CASE Return(r)
  BY <1>1, <1>2, <1>3, RequestEnd DEF history
<1>4. ASSUME NEW step \in {"take", "create"}, Goto(r, step), step = "create" => At(r, "count")
      PROVE  OAuthInv'
  <2>1. req'[r] = [req[r] EXCEPT !.pc = step] /\ step \in Steps
    BY <1>4 DEF Goto, OAuthInv, TypeOK, Steps
  <2>2. req'[r].pc = step /\ req'[r].grant = req[r].grant
    BY <2>1 DEF OAuthInv, TypeOK
  <2>3. RequestOK(r)'
    BY <1>1, <1>4, <2>2 DEF OAuthInv, RequestOK, Holds, At, Agentless
  <2>4. step \in {"addCode", "count", "create", "unmark"} => Holds(r)
    BY <1>4 DEF At, Holds
  <2>5. QED
    BY <1>1, <1>2, <1>4, <2>1, <2>3, <2>4, RequestGoesOn
<1>5. QED
  <2>1. \/ Return(r)
        \/ Goto(r, IF At(r, "canAdd") THEN "take" ELSE "create")
    BY <1>1 DEF Proceed
  <2>2. At(r, "canAdd") \/ At(r, "count")
    BY <1>1 DEF At
  <2>3. QED
    BY <1>3, <1>4, <2>1, <2>2

\* takePending: the right passes from the pending request to whoever takes it.
LEMMA ApproveTakeStep ==
  ASSUME OAuthInv, NEW r \in Reqs, ApproveTake(r)
  PROVE  OAuthInv'
<1>0. PICK g \in opened : g = req[r].grant
  BY DEF ApproveTake, OAuthInv, RequestOK, At
<1>1. /\ At(r, "take") /\ pending' = IF MayDecide(g, req[r].user) THEN Without(g) ELSE pending
      /\ Proceed(r, MayDecide(g, req[r].user), "addCode")
      /\ UNCHANGED <<codes, agents, opened, arrived, replayed, handed, spent, lost>>
  BY <1>0 DEF ApproveTake
<1>2. g \in opened /\ g \in Grants
  BY DEF OAuthInv, TypeOK
<1>3. CASE ~ MayDecide(g, req[r].user)
  <2>1. Return(r) /\ ~ At(r, "revoke") /\ arrived' \in 0..MaxRequests
    BY <1>1, <1>3 DEF Proceed, At, OAuthInv, TypeOK
  <2>2. QED
    BY <1>1, <1>3, <2>1, RequestEnd DEF store
<1>4. CASE MayDecide(g, req[r].user)
  <2>1. /\ req' = [req EXCEPT ![r].pc = "addCode"] /\ pending' = Without(g)
        /\ Entries(g) # {}
    BY <1>1, <1>4 DEF Proceed, Goto, MayDecide
  <2>2. req'[r] = [req[r] EXCEPT !.pc = "addCode"] /\ \A q \in Reqs \ {r} : req'[q] = req[q]
    BY <2>1 DEF OAuthInv, TypeOK
  <2>3. req'[r].pc = "addCode" /\ req'[r].grant = g
    BY <1>0, <2>2 DEF OAuthInv, TypeOK
  <2>4. Without(g) \subseteq pending /\ \A p \in Without(g) : p.grant # g
    BY <1>2, PendingLeft DEF OAuthInv
  <2>5. TypeOK'
    BY <1>1, <2>1, <2>4 DEF OAuthInv, TypeOK, Steps
  <2>6. Untouched(g) /\ \A q \in Reqs : Holds(q) => req[q].grant # g
    BY <1>2, <2>1 DEF OAuthInv, GrantOK
  <2>7. \A h \in Grants : (Agentless(h)' <=> Agentless(h)) /\ (Untouched(h)' <=> Untouched(h))
    BY <1>1 DEF Agentless, Untouched
  <2>8. \A q \in Reqs \ {r} : (Holds(q)' <=> Holds(q)) /\ req'[q].grant = req[q].grant
    BY <2>2 DEF Holds
  <2>9. \A h \in Grants : (Entries(h)' # {} => Entries(h) # {}) /\ Entries(g)' = {}
    BY <2>1, <2>4 DEF Entries
  <2>10. \A h \in Grants : GrantOK(h)'
    <3>1. ASSUME NEW h \in Grants, h # g
          PROVE  GrantOK(h)'
      BY <1>1, <2>3, <2>7, <2>8, <2>9, <3>1 DEF OAuthInv, GrantOK
    <3>2. GrantOK(g)'
      BY <1>1, <1>2, <2>6, <2>7, <2>9 DEF OAuthInv, GrantOK, Untouched
    <3>3. QED
      BY <3>1, <3>2
  <2>11. \A q \in Reqs : RequestOK(q)'
    <3>1. RequestOK(r)'
      BY <1>1, <1>2, <2>3, <2>6, <2>7 DEF RequestOK, Holds, At, Untouched
    <3>2. ASSUME NEW q \in Reqs \ {r}
          PROVE  RequestOK(q)'
      BY <1>1, <2>2 DEF OAuthInv, RequestOK, Holds, At, Agentless, Untouched
    <3>3. QED
      BY <3>1, <3>2
  <2>12. SoleHolder'
    BY <2>3, <2>6, <2>8 DEF OAuthInv, SoleHolder
  <2>13. (\A d \in Devices : AgentOK(d)') /\ OneAgentPerCode' /\ TokensSpent'
    BY <1>1 DEF OAuthInv, AgentOK, OneAgentPerCode, TokensSpent
  <2>14. ReplayKillsAgent'
    BY <1>1, <2>2 DEF OAuthInv, ReplayKillsAgent, Escaped, At
  <2>15. QED
    BY <2>5, <2>10, <2>11, <2>12, <2>13, <2>14 DEF OAuthInv
<1>5. QED
  BY <1>3, <1>4

\* addCode: the right passes to the code.
LEMMA AddCodeStep ==
  ASSUME OAuthInv, NEW r \in Reqs, AddCode(r)
  PROVE  OAuthInv'
<1>0. PICK g \in opened : g = req[r].grant
  BY DEF AddCode, OAuthInv, RequestOK, At, Holds
<1> DEFINE c == [NoCode EXCEPT !.stored = TRUE, !.user = req[r].user]
<1>1. /\ At(r, "addCode") /\ codes' = [Swept EXCEPT ![g] = c] /\ req' = [req EXCEPT ![r] = Idle]
      /\ UNCHANGED <<pending, agents, opened, arrived, replayed, handed, spent, lost>>
  BY <1>0 DEF AddCode, Return, history
<1>2. g \in opened /\ g \in Grants /\ Untouched(g) /\ Holds(r)
  BY <1>0, <1>1 DEF OAuthInv, RequestOK, TypeOK, At, Holds
<1>3. c \in Codes /\ c.stored /\ ~ c.used /\ c.device = NoDevice
  BY DEF NoCode, Codes, OAuthInv, TypeOK
<1>4. NoCode \in Codes /\ ~ NoCode.stored /\ NoCode.device = NoDevice
  BY DEF NoCode, Codes
<1> HIDE DEF c
<1>5. Swept \in [Grants -> Codes] /\ \A h \in Grants : Swept[h] = NoCode \/ Swept[h] = codes[h]
  BY <1>4 DEF Swept, OAuthInv, TypeOK
<1>6. codes'[g] = c /\ \A h \in Grants \ {g} : codes'[h] = NoCode \/ codes'[h] = codes[h]
  BY <1>1, <1>2, <1>5
<1>7. req'[r] = Idle /\ ~ Holds(r)' /\ \A q \in Reqs \ {r} : req'[q] = req[q]
  BY <1>1 DEF OAuthInv, TypeOK, Holds, Idle
<1>8. TypeOK'
  BY <1>1, <1>3, <1>5, IdleType DEF OAuthInv, TypeOK, Requests
<1>9. \A q \in Reqs \ {r} : (Holds(q)' <=> Holds(q)) /\ (Holds(q) => req[q].grant # g)
  BY <1>0, <1>2, <1>7 DEF Holds, OAuthInv, SoleHolder
<1>10. /\ \A h \in Grants : Agentless(h)' <=> Agentless(h)
       /\ \A h \in Grants \ {g} : Untouched(h) => Untouched(h)'
  BY <1>1, <1>4, <1>6 DEF Agentless, Untouched
<1>11. \A h \in Grants : GrantOK(h)'
  <2>1. \A h \in Grants : Entries(h)' = Entries(h)
    BY <1>1 DEF Entries
  <2>2. Entries(g) = {}
    BY <1>0, <1>2 DEF OAuthInv, GrantOK
  <2>3. GrantOK(g)'
    <3>1. g \in opened' /\ Entries(g)' = {} /\ g \notin replayed' /\ Agentless(g)'
      BY <1>1, <1>2, <1>10, <2>1, <2>2 DEF Untouched
    <3>2. \A q \in Reqs : Holds(q)' => req'[q].grant # g
      BY <1>7, <1>9
    <3>3. codes'[g].device = NoDevice
      BY <1>3, <1>6
    <3>4. QED
      BY <3>1, <3>2, <3>3 DEF GrantOK
  <2>4. ASSUME NEW h \in Grants \ {g}
        PROVE  GrantOK(h)'
    BY <1>1, <1>4, <1>6, <1>7, <1>9, <1>10, <2>1 DEF OAuthInv, GrantOK
  <2>5. QED
    BY <2>3, <2>4
<1>12. \A q \in Reqs : RequestOK(q)'
  <2>1. RequestOK(r)'
    BY <1>7, EndedRequest
  <2>2. ASSUME NEW q \in Reqs \ {r}
        PROVE  RequestOK(q)'
    <3>1. Holds(q) => req[q].grant \in Grants \ {g}
      BY <1>9 DEF OAuthInv, RequestOK, TypeOK
    <3>2. At(q, "addCode") => Holds(q)
      BY DEF At, Holds
    <3>3. QED
      BY <1>1, <1>7, <1>9, <1>10, <3>1, <3>2 DEF OAuthInv, RequestOK, At
  <2>3. QED
    BY <2>1, <2>2
<1>13. SoleHolder'
  BY <1>7, <1>9 DEF OAuthInv, SoleHolder
<1>14. OneAgentPerCode' /\ TokensSpent'
  BY <1>1 DEF OAuthInv, OneAgentPerCode, TokensSpent
<1>15. \A d \in Devices : agents[d].st # "none" => agents[d].grant \in Grants \ {g}
  BY <1>2 DEF OAuthInv, AgentOK, TypeOK, Untouched, Agentless
<1>16. \A d \in Devices : AgentOK(d)'
  BY <1>1, <1>4, <1>6, <1>15 DEF OAuthInv, AgentOK
<1>17. ReplayKillsAgent'
  BY <1>1, <1>4, <1>6, <1>7, <1>15 DEF OAuthInv, ReplayKillsAgent, Escaped, At
<1>18. QED
  BY <1>8, <1>11, <1>12, <1>13, <1>14, <1>16, <1>17 DEF OAuthInv

-----------------------------------------------------------------------------
(* The token endpoint: authorization_code. *)

\* consumeCode: the right passes from the unused code to the exchange, if the
\* client's other parameters match; a used code's agent is revoked.
LEMMA ConsumeStep ==
  ASSUME OAuthInv, NEW r \in Reqs, Consume(r)
  PROVE  OAuthInv'
<1>0. PICK g \in opened : g = req[r].grant
  BY DEF Consume, OAuthInv, RequestOK, At
<1>1. PICK c : c = codes[g]
  OBVIOUS
<1> DEFINE found == c.stored /\ ~ c.expired
           reused == found /\ c.used
<1>2. /\ At(r, "consume")
      /\ codes' = IF found THEN [codes EXCEPT ![g].used = TRUE, ![g].reuseSeen = @ \/ reused] ELSE codes
      /\ replayed' = IF reused THEN replayed \cup {g} ELSE replayed
      /\ IF reused /\ c.device # NoDevice
           THEN req' = [req EXCEPT ![r].pc = "revoke", ![r].device = c.device]
         ELSE IF found /\ ~ reused /\ req[r].match
           THEN req' = [req EXCEPT ![r].pc = "count", ![r].user = c.user]
         ELSE Return(r)
      /\ UNCHANGED <<pending, agents, opened, arrived, handed, spent, lost>>
  BY <1>0, <1>1 DEF Consume
<1>3. g \in Grants /\ c \in Codes
  BY <1>1 DEF OAuthInv, TypeOK
<1>4. c.device \in Devices \cup {NoDevice} /\ c.user \in Users \cup {NoUser} /\ c.reuseSeen \in BOOLEAN
  BY <1>3 DEF Codes
<1>5. PICK x \in Requests :
        /\ req' = [req EXCEPT ![r] = x]
        /\ \/ x = Idle /\ ~ (reused /\ c.device # NoDevice)
           \/ reused /\ c.device # NoDevice /\ x.pc = "revoke" /\ x.device = c.device
           \/ found /\ ~ c.used /\ x.pc = "count" /\ x.grant = g
  <2>1. CASE reused /\ c.device # NoDevice
    <3>1. req' = [req EXCEPT ![r] = [req[r] EXCEPT !.pc = "revoke", !.device = c.device]]
      BY <1>2, <2>1 DEF OAuthInv, TypeOK
    <3>2. [req[r] EXCEPT !.pc = "revoke", !.device = c.device] \in Requests
      BY ONLY OAuthInv, r \in Reqs, <1>4 DEF OAuthInv, TypeOK, Requests, Steps
    <3>3. QED
      BY <2>1, <3>1, <3>2 DEF Requests
  <2>2. CASE found /\ ~ reused /\ req[r].match
    <3>1. req' = [req EXCEPT ![r] = [req[r] EXCEPT !.pc = "count", !.user = c.user]]
      BY <1>2, <2>2 DEF OAuthInv, TypeOK
    <3>2. [req[r] EXCEPT !.pc = "count", !.user = c.user] \in Requests
      BY ONLY OAuthInv, r \in Reqs, <1>4 DEF OAuthInv, TypeOK, Requests, Steps
    <3>3. QED
      BY <1>0, <2>2, <3>1, <3>2 DEF Requests
  <2>3. CASE Return(r) /\ ~ (reused /\ c.device # NoDevice)
    BY <2>3, IdleType DEF Return
  <2>4. QED
    BY <1>2, <2>1, <2>2, <2>3
<1>6. req'[r] = x /\ \A q \in Reqs \ {r} : req'[q] = req[q]
  BY <1>5 DEF OAuthInv, TypeOK
<1>7. /\ codes' \in [Grants -> Codes]
      /\ \A h \in Grants \ {g} : codes'[h] = codes[h]
      /\ codes'[g].stored = c.stored /\ codes'[g].device = c.device
      /\ codes'[g].used <=> c.used \/ found
      /\ codes'[g].reuseSeen <=> c.reuseSeen \/ reused
  <2>1. CASE found
    <3>1. codes' = [codes EXCEPT ![g] = [c EXCEPT !.used = TRUE, !.reuseSeen = c.reuseSeen \/ reused]]
      BY <1>1, <1>2, <1>3, <2>1 DEF OAuthInv, TypeOK
    <3>2. [c EXCEPT !.used = TRUE, !.reuseSeen = c.reuseSeen \/ reused] \in Codes
      BY <1>3, <1>4 DEF Codes
    <3>3. codes'[g] = [c EXCEPT !.used = TRUE, !.reuseSeen = c.reuseSeen \/ reused]
      BY <1>3, <3>1 DEF OAuthInv, TypeOK
    <3>4. QED
      BY <1>3, <2>1, <3>1, <3>2, <3>3 DEF OAuthInv, TypeOK, Codes
  <2>2. CASE ~ found
    BY <1>1, <1>2, <1>3, <2>2 DEF OAuthInv, TypeOK, Codes
  <2>3. QED
    BY <2>1, <2>2
<1> HIDE DEF found, reused
<1>8. (found <=> c.stored /\ ~ c.expired) /\ (reused <=> found /\ c.used)
  BY DEF found, reused
<1>9. TypeOK'
  BY <1>2, <1>3, <1>5, <1>7 DEF OAuthInv, TypeOK, Requests
<1>10. \A h \in Grants : Agentless(h)' <=> Agentless(h)
  BY <1>2 DEF Agentless
<1>11. \A h \in Grants : Untouched(h) => Untouched(h)'
  BY <1>1, <1>2, <1>7, <1>8, <1>10 DEF Untouched
<1>12. \A q \in Reqs \ {r} : Holds(q)' <=> Holds(q)
  BY <1>6 DEF Holds
<1>13. Holds(r)' => c.stored /\ ~ c.used /\ x.grant = g /\ x.pc = "count"
  BY <1>5, <1>6, <1>8 DEF Holds, Idle
<1>14. c.stored /\ ~ c.used => Agentless(g) /\ \A q \in Reqs : Holds(q) => req[q].grant # g
  BY <1>1, <1>3 DEF OAuthInv, GrantOK
<1>15. \A h \in Grants : GrantOK(h)'
  <2>1. \A h \in Grants : Entries(h)' = Entries(h)
    BY <1>2 DEF Entries
  <2>2. ASSUME NEW h \in Grants \ {g}
        PROVE  GrantOK(h)'
    BY <1>2, <1>6, <1>7, <1>10, <1>11, <1>12, <1>13, <2>1 DEF OAuthInv, GrantOK
  <2>3. GrantOK(g)'
    <3>1. g \in opened' /\ (Entries(g)' # {} => Untouched(g)' /\ \A q \in Reqs : Holds(q)' => req'[q].grant # g)
      BY <1>1, <1>2, <1>3, <1>6, <1>11, <1>12, <1>13, <2>1 DEF OAuthInv, GrantOK, Untouched
    <3>2. codes'[g].stored /\ ~ codes'[g].used =>
            Agentless(g)' /\ \A q \in Reqs : Holds(q)' => req'[q].grant # g
      <4>1. codes'[g].stored /\ ~ codes'[g].used => c.stored /\ ~ c.used /\ ~ found
        BY <1>7, <1>8
      <4>2. ~ found => ~ Holds(r)'
        BY <1>5, <1>6, <1>8 DEF Holds, Idle
      <4>3. QED
        BY <1>3, <1>6, <1>10, <1>12, <1>14, <4>1, <4>2
    <3>3. codes'[g].stored /\ g \in replayed' => codes'[g].reuseSeen
      BY <1>1, <1>2, <1>3, <1>7, <1>8 DEF OAuthInv, GrantOK
    <3>4. codes'[g].device # NoDevice => agents'[codes'[g].device].grant = g
      BY <1>1, <1>2, <1>3, <1>7 DEF OAuthInv, GrantOK
    <3>5. QED
      BY <3>1, <3>2, <3>3, <3>4 DEF GrantOK
  <2>4. QED
    BY <2>2, <2>3
<1>16. c.device # NoDevice => c.device \in Devices /\ agents[c.device].grant = g /\ agents[c.device].st # "none"
  <2>1. c.device # NoDevice => c.device \in Devices /\ agents[c.device].grant = g
    BY <1>1, <1>3, <1>4 DEF OAuthInv, GrantOK
  <2>2. \A d \in Devices : agents[d].st = "none" => agents[d].grant = NoDevice
    BY DEF OAuthInv, AgentOK, NoAgent
  <2>3. g # NoDevice
    BY <1>3, SetsAssumption
  <2>4. QED
    BY <2>1, <2>2, <2>3
<1>17. \A q \in Reqs : RequestOK(q)'
  <2>1. RequestOK(r)'
    <3>1. CASE x = Idle
      BY <1>6, <3>1, EndedRequest
    <3>2. CASE x.pc = "revoke" /\ x.device = c.device /\ c.device # NoDevice
      BY <1>2, <1>6, <1>16, <3>2 DEF RequestOK, Holds, At
    <3>3. CASE x.pc = "count" /\ x.grant = g /\ c.stored /\ ~ c.used
      BY <1>2, <1>3, <1>6, <1>10, <1>14, <3>3 DEF RequestOK, Holds, At
    <3>4. QED
      BY <1>5, <1>8, <3>1, <3>2, <3>3
  <2>2. ASSUME NEW q \in Reqs \ {r}
        PROVE  RequestOK(q)'
    <3>1. Holds(q) => req[q].grant \in Grants
      BY DEF OAuthInv, RequestOK, TypeOK
    <3>2. At(q, "addCode") => Holds(q)
      BY DEF At, Holds
    <3>3. QED
      BY <1>2, <1>6, <1>10, <1>11, <1>12, <3>1, <3>2 DEF OAuthInv, RequestOK, At
  <2>3. QED
    BY <2>1, <2>2
<1>18. SoleHolder'
  BY <1>6, <1>12, <1>13, <1>14 DEF OAuthInv, SoleHolder
<1>19. OneAgentPerCode' /\ TokensSpent'
  BY <1>2 DEF OAuthInv, OneAgentPerCode, TokensSpent
<1>20. \A d \in Devices : agents[d].st # "none" => agents[d].grant \in Grants
  BY DEF OAuthInv, AgentOK, TypeOK
<1>21. \A d \in Devices : AgentOK(d)'
  BY <1>1, <1>2, <1>7, <1>20 DEF OAuthInv, AgentOK
<1>22. ReplayKillsAgent'
  <2> SUFFICES ASSUME NEW d \in Devices, Escaped(d)', codes'[agents'[d].grant].stored
               PROVE  FALSE
    BY DEF ReplayKillsAgent
  <2>1. /\ d \in handed \ lost /\ agents[d].st = "live" /\ agents[d].grant \in replayed'
        /\ \A q \in Reqs : ~ (req'[q].pc = "revoke" /\ req'[q].device = d)
        /\ agents[d].grant \in Grants /\ codes[agents[d].grant].stored
    BY <1>1, <1>2, <1>7, <1>20 DEF Escaped, At
  <2>2. \A q \in Reqs \ {r} : ~ (req[q].pc = "revoke" /\ req[q].device = d)
    BY <1>6, <2>1
  <2>3. agents[d].grant \notin replayed
    BY <1>2, <2>1, <2>2 DEF OAuthInv, ReplayKillsAgent, Escaped, At
  <2>4. reused /\ agents[d].grant = g
    BY <1>2, <2>1, <2>3
  <2>5. c.device = d
    BY <1>1, <2>1, <2>4 DEF OAuthInv, AgentOK
  <2>6. c.device # NoDevice
    BY <2>5, SetsAssumption
  <2>7. x.pc = "revoke" /\ x.device = d
    BY <1>5, <1>8, <2>4, <2>5, <2>6
  <2>8. QED
    BY <1>6, <2>1, <2>7
<1>23. QED
  BY <1>9, <1>15, <1>17, <1>18, <1>19, <1>21, <1>22 DEF OAuthInv

\* createAgent: the right becomes the agent.
LEMMA CreateAgentStep ==
  ASSUME OAuthInv, NEW r \in Reqs, CreateAgent(r)
  PROVE  OAuthInv'
<1>0. PICK g \in opened : g = req[r].grant
  BY DEF CreateAgent, OAuthInv, RequestOK, At, Holds
<1>1. PICK d \in Devices :
        /\ agents[d].st = "none"
        /\ agents' = [agents EXCEPT ![d] =
                        [NoAgent EXCEPT !.st = "live", !.user = req[r].user, !.grant = g, !.row = TRUE]]
        /\ req' = [req EXCEPT ![r].pc = "setDevice", ![r].device = d]
  BY <1>0 DEF CreateAgent
<1>2. At(r, "create") /\ UNCHANGED <<pending, codes, opened, arrived, replayed, handed, spent, lost>>
  BY DEF CreateAgent, store, history
<1>3. g \in Grants /\ Holds(r) /\ Agentless(g)
  BY <1>0, <1>2 DEF At, Holds, OAuthInv, RequestOK, TypeOK
<1>4. PICK a \in Agents : agents' = [agents EXCEPT ![d] = a] /\ a.st = "live" /\ a.grant = g /\ a.gen = 0
  <2>1. [NoAgent EXCEPT !.st = "live", !.user = req[r].user, !.grant = g, !.row = TRUE] \in Agents
    BY <1>3 DEF NoAgent, Agents, OAuthInv, TypeOK
  <2>2. QED
    BY <1>1, <2>1 DEF NoAgent
<1>5. agents'[d] = a /\ \A e \in Devices \ {d} : agents'[e] = agents[e]
  BY <1>4 DEF OAuthInv, TypeOK
<1>6. PICK x \in Requests : req' = [req EXCEPT ![r] = x] /\ x.pc = "setDevice" /\ x.device = d /\ x.grant = g
  <2>1. req' = [req EXCEPT ![r] = [req[r] EXCEPT !.pc = "setDevice", !.device = d]]
    BY <1>1 DEF OAuthInv, TypeOK
  <2>2. [req[r] EXCEPT !.pc = "setDevice", !.device = d] \in Requests
    BY DEF OAuthInv, TypeOK, Requests, Steps
  <2>3. QED
    BY <1>0, <2>1, <2>2 DEF Requests
<1>7. req'[r] = x /\ \A q \in Reqs \ {r} : req'[q] = req[q]
  BY <1>6 DEF OAuthInv, TypeOK
<1>8. TypeOK'
  BY <1>2, <1>4, <1>6 DEF OAuthInv, TypeOK, Requests
<1>9. agents[d].grant = NoDevice /\ d \notin handed /\ agents[d].gen = 0
  BY <1>1 DEF OAuthInv, AgentOK, NoAgent
<1>10. /\ \A h \in Grants \ {g} : Agentless(h)' <=> Agentless(h)
       /\ \A h \in Grants \ {g} : Untouched(h)' <=> Untouched(h)
  BY <1>2, <1>4, <1>5, <1>9, SetsAssumption DEF Agentless, Untouched
<1>11. ~ Holds(r)' /\ \A q \in Reqs \ {r} : (Holds(q)' <=> Holds(q)) /\ (Holds(q) => req[q].grant # g)
  BY <1>0, <1>3, <1>6, <1>7 DEF Holds, OAuthInv, SoleHolder
<1>12. \A h \in Grants : codes[h].device # NoDevice => codes[h].device \in Devices \ {d}
  <2>1. \A h \in Grants : codes[h].device \in Devices \cup {NoDevice}
    BY DEF OAuthInv, TypeOK, Codes
  <2>2. QED
    BY <1>9, <2>1, SetsAssumption DEF OAuthInv, GrantOK
<1>13. \A h \in Grants : GrantOK(h)'
  <2>1. \A h \in Grants : Entries(h)' = Entries(h)
    BY <1>2 DEF Entries
  <2>2. ASSUME NEW h \in Grants \ {g}
        PROVE  GrantOK(h)'
    BY <1>2, <1>5, <1>7, <1>10, <1>11, <1>12, <2>1 DEF OAuthInv, GrantOK
  <2>3. GrantOK(g)'
    <3>1. Entries(g) = {} /\ ~ (codes[g].stored /\ ~ codes[g].used)
      BY <1>0, <1>3 DEF OAuthInv, GrantOK
    <3>2. QED
      BY <1>2, <1>3, <1>5, <1>12, <2>1, <3>1 DEF OAuthInv, GrantOK
  <2>4. QED
    BY <2>2, <2>3
<1>14. \A q \in Reqs : RequestOK(q)'
  <2>1. RequestOK(r)'
    BY <1>2, <1>4, <1>5, <1>6, <1>7 DEF RequestOK, Holds, At
  <2>2. ASSUME NEW q \in Reqs \ {r}
        PROVE  RequestOK(q)'
    <3>1. Holds(q) => req[q].grant \in Grants \ {g}
      BY <1>11 DEF OAuthInv, RequestOK, TypeOK
    <3>2. At(q, "addCode") => Holds(q)
      BY DEF At, Holds
    <3>3. req[q].pc \in {"setDevice", "revoke", "rotate", "previous"} => req[q].device \in Devices \ {d}
      BY <1>1 DEF OAuthInv, RequestOK
    <3>4. QED
      BY <1>2, <1>5, <1>7, <1>10, <1>11, <3>1, <3>2, <3>3 DEF OAuthInv, RequestOK, At
  <2>3. QED
    BY <2>1, <2>2
<1>15. SoleHolder'
  BY <1>7, <1>11 DEF OAuthInv, SoleHolder
<1>16. \A e \in Devices : AgentOK(e)'
  BY <1>2, <1>4, <1>5, <1>9 DEF OAuthInv, AgentOK
<1>17. OneAgentPerCode'
  BY <1>3, <1>4, <1>5 DEF OAuthInv, OneAgentPerCode, Agentless
<1>18. TokensSpent'
  BY <1>2, <1>4, <1>5, <1>9 DEF OAuthInv, TokensSpent
<1>19. ReplayKillsAgent'
  BY <1>2, <1>5, <1>6, <1>7, <1>9, <1>2 DEF OAuthInv, ReplayKillsAgent, Escaped, At
<1>20. QED
  BY <1>8, <1>13, <1>14, <1>15, <1>16, <1>17, <1>18, <1>19 DEF OAuthInv

\* unmarkCode: the right goes back to the code, if it is still there and was
\* not replayed, and is lost otherwise.
LEMMA UnmarkCodeStep ==
  ASSUME OAuthInv, NEW r \in Reqs, UnmarkCode(r)
  PROVE  OAuthInv'
<1>0. PICK g \in opened : g = req[r].grant
  BY DEF UnmarkCode, OAuthInv, RequestOK, At, Holds
<1>1. /\ At(r, "unmark") /\ req' = [req EXCEPT ![r] = Idle]
      /\ codes' = IF codes[g].stored /\ ~ codes[g].reuseSeen THEN [codes EXCEPT ![g].used = FALSE] ELSE codes
      /\ UNCHANGED <<pending, agents, opened, arrived, replayed, handed, spent, lost>>
  BY <1>0 DEF UnmarkCode, Return, history
<1>2. g \in Grants /\ Holds(r) /\ Agentless(g)
  BY <1>0, <1>1 DEF At, Holds, OAuthInv, RequestOK, TypeOK
<1>3. /\ codes' \in [Grants -> Codes]
      /\ \A h \in Grants \ {g} : codes'[h] = codes[h]
      /\ codes'[g].stored = codes[g].stored /\ codes'[g].device = codes[g].device
      /\ codes'[g].reuseSeen = codes[g].reuseSeen
  <2>1. CASE codes[g].stored /\ ~ codes[g].reuseSeen
    <3>1. codes' = [codes EXCEPT ![g] = [codes[g] EXCEPT !.used = FALSE]]
      BY <1>1, <2>1 DEF OAuthInv, TypeOK
    <3>2. codes[g] \in Codes /\ [codes[g] EXCEPT !.used = FALSE] \in Codes
      BY ONLY OAuthInv, <1>2 DEF OAuthInv, TypeOK, Codes
    <3>3. codes'[g] = [codes[g] EXCEPT !.used = FALSE]
      BY <1>2, <3>1 DEF OAuthInv, TypeOK
    <3>4. QED
      BY <1>2, <3>1, <3>2, <3>3 DEF OAuthInv, TypeOK, Codes
  <2>2. CASE ~ (codes[g].stored /\ ~ codes[g].reuseSeen)
    BY <1>1, <1>2, <2>2 DEF OAuthInv, TypeOK
  <2>3. QED
    BY <2>1, <2>2
<1>4. req'[r] = Idle /\ ~ Holds(r)' /\ \A q \in Reqs \ {r} : req'[q] = req[q]
  BY <1>1 DEF OAuthInv, TypeOK, Holds, Idle
<1>5. TypeOK'
  BY <1>1, <1>3, IdleType DEF OAuthInv, TypeOK, Requests
<1>6. \A q \in Reqs \ {r} : (Holds(q)' <=> Holds(q)) /\ (Holds(q) => req[q].grant # g)
  BY <1>0, <1>2, <1>4 DEF Holds, OAuthInv, SoleHolder
<1>7. \A h \in Grants : (Agentless(h)' <=> Agentless(h)) /\ (Untouched(h)' <=> Untouched(h))
  BY <1>1, <1>2, <1>3 DEF Agentless, Untouched
<1>8. \A h \in Grants : GrantOK(h)'
  <2>1. \A h \in Grants : Entries(h)' = Entries(h)
    BY <1>1 DEF Entries
  <2>2. ASSUME NEW h \in Grants \ {g}
        PROVE  GrantOK(h)'
    BY <1>1, <1>3, <1>4, <1>6, <1>7, <2>1 DEF OAuthInv, GrantOK
  <2>3. GrantOK(g)'
    <3>1. Entries(g) = {} /\ \A q \in Reqs : Holds(q)' => req'[q].grant # g
      BY <1>0, <1>2, <1>4, <1>6 DEF OAuthInv, GrantOK
    <3>2. QED
      BY <1>1, <1>2, <1>3, <1>7, <2>1, <3>1 DEF OAuthInv, GrantOK
  <2>4. QED
    BY <2>2, <2>3
<1>9. \A q \in Reqs : RequestOK(q)'
  <2>1. RequestOK(r)'
    BY <1>4, EndedRequest
  <2>2. ASSUME NEW q \in Reqs \ {r}
        PROVE  RequestOK(q)'
    <3>1. (Holds(q) => req[q].grant \in Grants) /\ (At(q, "addCode") => Holds(q))
      BY DEF OAuthInv, RequestOK, TypeOK, At, Holds
    <3>2. QED
      BY <1>1, <1>4, <1>6, <1>7, <3>1 DEF OAuthInv, RequestOK, At
  <2>3. QED
    BY <2>1, <2>2
<1>10. SoleHolder'
  BY <1>4, <1>6 DEF OAuthInv, SoleHolder
<1>11. OneAgentPerCode' /\ TokensSpent'
  BY <1>1 DEF OAuthInv, OneAgentPerCode, TokensSpent
<1>12. \A d \in Devices : agents[d].st # "none" => agents[d].grant \in Grants
  BY DEF OAuthInv, AgentOK, TypeOK
<1>13. \A d \in Devices : AgentOK(d)'
  BY <1>1, <1>3, <1>12 DEF OAuthInv, AgentOK
<1>14. ReplayKillsAgent'
  BY <1>1, <1>3, <1>4, <1>12 DEF OAuthInv, ReplayKillsAgent, Escaped, At
<1>15. QED
  BY <1>5, <1>8, <1>9, <1>10, <1>11, <1>13, <1>14 DEF OAuthInv

\* setCodeDevice: the code learns its agent, and tells of an earlier replay.
LEMMA SetCodeDeviceStep ==
  ASSUME OAuthInv, NEW r \in Reqs, SetCodeDevice(r)
  PROVE  OAuthInv'
<1>0. PICK g \in opened, d \in Devices : g = req[r].grant /\ d = req[r].device
  BY DEF SetCodeDevice, OAuthInv, RequestOK, At
<1> DEFINE seen == codes[g].stored /\ codes[g].reuseSeen
<1>1. /\ At(r, "setDevice")
      /\ codes' = IF codes[g].stored THEN [codes EXCEPT ![g].device = d] ELSE codes
      /\ handed' = IF seen THEN handed ELSE handed \cup {d}
      /\ Proceed(r, seen, "revoke")
      /\ UNCHANGED <<pending, agents, opened, arrived, replayed, spent, lost>>
  BY <1>0 DEF SetCodeDevice
<1>2. g \in Grants /\ agents[d].grant = g /\ agents[d].st # "none"
  BY <1>0, <1>1 DEF At, OAuthInv, RequestOK, TypeOK
<1>3. PICK x \in Requests :
        /\ req' = [req EXCEPT ![r] = x]
        /\ \/ x = Idle /\ ~ seen
           \/ seen /\ x.pc = "revoke" /\ x.device = d
  <2>1. CASE seen
    <3>1. req' = [req EXCEPT ![r] = [req[r] EXCEPT !.pc = "revoke"]]
      BY <1>1, <2>1 DEF Proceed, Goto, OAuthInv, TypeOK
    <3>2. [req[r] EXCEPT !.pc = "revoke"] \in Requests
      BY ONLY OAuthInv, r \in Reqs DEF OAuthInv, TypeOK, Requests, Steps
    <3>3. QED
      BY <1>0, <2>1, <3>1, <3>2 DEF Requests
  <2>2. CASE ~ seen
    BY <1>1, <2>2, IdleType DEF Proceed, Return
  <2>3. QED
    BY <2>1, <2>2
<1>4. /\ codes' \in [Grants -> Codes]
      /\ \A h \in Grants \ {g} : codes'[h] = codes[h]
      /\ codes'[g].stored = codes[g].stored /\ codes'[g].used = codes[g].used
      /\ codes'[g].reuseSeen = codes[g].reuseSeen
      /\ codes'[g].device \in {d, codes[g].device}
      /\ codes[g].stored => codes'[g].device = d
  <2>1. CASE codes[g].stored
    <3>1. codes' = [codes EXCEPT ![g] = [codes[g] EXCEPT !.device = d]]
      BY <1>1, <2>1 DEF OAuthInv, TypeOK
    <3>2. codes[g] \in Codes /\ [codes[g] EXCEPT !.device = d] \in Codes
      <4>1. codes[g] \in Codes
        BY <1>2 DEF OAuthInv, TypeOK
      <4>2. QED
        BY ONLY <4>1, d \in Devices DEF Codes
    <3>3. codes'[g] = [codes[g] EXCEPT !.device = d]
      BY <1>2, <3>1 DEF OAuthInv, TypeOK
    <3>4. QED
      BY <1>2, <3>1, <3>2, <3>3 DEF OAuthInv, TypeOK, Codes
  <2>2. CASE ~ codes[g].stored
    BY <1>1, <1>2, <2>2 DEF OAuthInv, TypeOK
  <2>3. QED
    BY <2>1, <2>2
<1>5. handed \subseteq handed' /\ handed' \subseteq handed \cup {d} /\ (seen => handed' = handed)
  BY <1>1
<1>6. seen <=> codes[g].stored /\ codes[g].reuseSeen
  OBVIOUS
<1> HIDE DEF seen
<1>7. req'[r] = x /\ ~ Holds(r)' /\ \A q \in Reqs \ {r} : req'[q] = req[q]
  BY <1>3 DEF OAuthInv, TypeOK, Holds, Idle
<1>8. TypeOK'
  <2>1. handed' \subseteq Devices
    BY <1>5 DEF OAuthInv, TypeOK
  <2>2. QED
    BY <1>1, <1>3, <1>4, <2>1 DEF OAuthInv, TypeOK, Requests
<1>9. \A q \in Reqs \ {r} : Holds(q)' <=> Holds(q)
  BY <1>7 DEF Holds
<1>10. \A h \in Grants : (Agentless(h)' <=> Agentless(h)) /\ (Untouched(h)' <=> Untouched(h))
  BY <1>1, <1>2, <1>4 DEF Agentless, Untouched
<1>11. \A h \in Grants : GrantOK(h)'
  <2>1. \A h \in Grants : Entries(h)' = Entries(h)
    BY <1>1 DEF Entries
  <2>2. ASSUME NEW h \in Grants \ {g}
        PROVE  GrantOK(h)'
    BY <1>1, <1>4, <1>7, <1>9, <1>10, <2>1 DEF OAuthInv, GrantOK
  <2>3. GrantOK(g)'
    BY <1>1, <1>2, <1>4, <1>7, <1>9, <1>10, <2>1 DEF OAuthInv, GrantOK
  <2>4. QED
    BY <2>2, <2>3
<1>12. \A q \in Reqs : RequestOK(q)'
  <2>1. RequestOK(r)'
    <3>1. CASE x = Idle
      BY <1>7, <3>1, EndedRequest
    <3>2. CASE x.pc = "revoke" /\ x.device = d
      BY <1>1, <1>2, <1>7, <3>2 DEF RequestOK, Holds, At
    <3>3. QED
      BY <1>3, <3>1, <3>2
  <2>2. ASSUME NEW q \in Reqs \ {r}
        PROVE  RequestOK(q)'
    <3>1. (Holds(q) => req[q].grant \in Grants) /\ (At(q, "addCode") => Holds(q))
      BY DEF OAuthInv, RequestOK, TypeOK, At, Holds
    <3>2. QED
      BY <1>1, <1>7, <1>9, <1>10, <3>1 DEF OAuthInv, RequestOK, At
  <2>3. QED
    BY <2>1, <2>2
<1>13. SoleHolder'
  BY <1>7, <1>9 DEF OAuthInv, SoleHolder
<1>14. OneAgentPerCode' /\ TokensSpent'
  BY <1>1 DEF OAuthInv, OneAgentPerCode, TokensSpent
<1>15. \A e \in Devices : agents[e].st # "none" => agents[e].grant \in Grants
  BY DEF OAuthInv, AgentOK, TypeOK
<1>16. \A e \in Devices : agents[e].grant = g => e = d
  BY <1>2 DEF OAuthInv, OneAgentPerCode
<1>17. \A e \in Devices : AgentOK(e)'
  <2> SUFFICES ASSUME NEW e \in Devices
               PROVE  AgentOK(e)'
    OBVIOUS
  <2>1. agents'[e].st = "none" => agents'[e] = NoAgent /\ e \notin handed'
    BY <1>1, <1>2, <1>5 DEF OAuthInv, AgentOK
  <2>2. agents'[e].st # "none" => agents'[e].grant \in opened'
    BY <1>1 DEF OAuthInv, AgentOK
  <2>3. ASSUME e \in handed', codes'[agents'[e].grant].stored
        PROVE  codes'[agents'[e].grant].device = e
    <3>1. CASE agents[e].grant = g
      BY <1>1, <1>4, <1>16, <2>3, <3>1
    <3>2. CASE agents[e].grant # g
      <4>1. e # d /\ e \in handed /\ agents[e].st # "none" /\ agents[e].grant \in Grants \ {g}
        BY <1>2, <1>5, <1>15, <2>3, <3>2 DEF OAuthInv, AgentOK
      <4>2. QED
        BY <1>1, <1>4, <2>3, <4>1 DEF OAuthInv, AgentOK
    <3>3. QED
      BY <3>1, <3>2
  <2>4. QED
    BY <2>1, <2>2, <2>3 DEF AgentOK
<1>18. ReplayKillsAgent'
  <2> SUFFICES ASSUME NEW e \in Devices, Escaped(e)', codes'[agents'[e].grant].stored
               PROVE  FALSE
    BY DEF ReplayKillsAgent
  <2>1. /\ e \in handed' \ lost /\ agents[e].st = "live" /\ agents[e].grant \in replayed
        /\ \A q \in Reqs : ~ (req'[q].pc = "revoke" /\ req'[q].device = e)
        /\ agents[e].grant \in Grants /\ codes[agents[e].grant].stored
    BY <1>1, <1>4, <1>15 DEF Escaped, At
  <2>2. \A q \in Reqs : ~ (req[q].pc = "revoke" /\ req[q].device = e)
    BY <1>1, <1>7, <2>1 DEF At
  <2>3. e \notin handed
    BY <2>1, <2>2 DEF OAuthInv, ReplayKillsAgent, Escaped, At
  <2>4. e = d /\ ~ seen
    BY <1>1, <1>5, <2>1, <2>3
  <2>5. QED
    BY <1>2, <1>6, <2>1, <2>4 DEF OAuthInv, GrantOK
<1>19. QED
  BY <1>8, <1>11, <1>12, <1>13, <1>14, <1>17, <1>18 DEF OAuthInv

-----------------------------------------------------------------------------
(* Refresh, revocation, errors and time. *)

\* A step on one agent's row that leaves its grant and lets its token number
\* only grow; its request, if any, ends, and a live agent stays as it was.
LEMMA AgentMove ==
  ASSUME OAuthInv, NEW d \in Devices, NEW a \in Agents, agents' = [agents EXCEPT ![d] = a],
         agents[d].st # "none", a.st # "none", a.grant = agents[d].grant, a.gen >= agents[d].gen,
         a.st = "live" => agents[d].st = "live",
         req' = req \/ \E r \in Reqs : /\ req' = [req EXCEPT ![r] = Idle]
                                       /\ At(r, "revoke") => req[r].device = d /\ a.st # "live",
         UNCHANGED <<pending, codes, opened, arrived, replayed, handed, lost>>,
         spent' \in [Devices \X (0..MaxGeneration) -> Nat], TokensSpent'
  PROVE  OAuthInv'
<1>1. agents'[d] = a /\ \A e \in Devices \ {d} : agents'[e] = agents[e]
  BY DEF OAuthInv, TypeOK
<1>2. \A e \in Devices : /\ agents'[e].grant = agents[e].grant
                         /\ agents'[e].st = "none" <=> agents[e].st = "none"
                         /\ agents'[e].st = "live" => agents[e].st = "live"
                         /\ agents'[e].st = "none" => agents'[e] = agents[e]
  BY <1>1
<1>3. \A q \in Reqs : req'[q] \in {req[q], Idle}
  BY DEF OAuthInv, TypeOK
<1>4. TypeOK'
  <2>1. req' \in [Reqs -> Requests] /\ agents' \in [Devices -> Agents]
    BY IdleType DEF OAuthInv, TypeOK, Requests
  <2>2. QED
    BY <2>1 DEF OAuthInv, TypeOK, Requests
<1>5. \A g \in Grants : (Agentless(g)' <=> Agentless(g)) /\ (Untouched(g)' <=> Untouched(g))
  BY <1>2 DEF Agentless, Untouched
<1>6. \A q \in Reqs : Holds(q)' => Holds(q) /\ req'[q].grant = req[q].grant
  BY <1>3 DEF Holds, Idle
<1>7. \A g \in Grants : GrantOK(g)'
  <2> SUFFICES ASSUME NEW g \in Grants
               PROVE  GrantOK(g)'
    OBVIOUS
  <2>1. Entries(g)' = Entries(g)
    BY DEF Entries
  <2>2. codes[g].device \in Devices \cup {NoDevice}
    BY DEF OAuthInv, TypeOK, Codes
  <2>3. QED
    BY <1>2, <1>5, <1>6, <2>1, <2>2 DEF OAuthInv, GrantOK
<1>8. \A q \in Reqs : RequestOK(q)'
  <2> SUFFICES ASSUME NEW q \in Reqs
               PROVE  RequestOK(q)'
    OBVIOUS
  <2>1. CASE req'[q] = Idle
    BY <2>1, EndedRequest
  <2>2. CASE req'[q] = req[q]
    <3>1. (Holds(q) => req[q].grant \in Grants) /\ (At(q, "addCode") => Holds(q)) /\ (Holds(q)' <=> Holds(q))
      BY <2>2 DEF OAuthInv, RequestOK, TypeOK, At, Holds
    <3>2. QED
      BY <1>2, <1>5, <2>2, <3>1 DEF OAuthInv, RequestOK, At
  <2>3. QED
    BY <1>3, <2>1, <2>2
<1>9. SoleHolder'
  BY <1>6 DEF OAuthInv, SoleHolder
<1>10. OneAgentPerCode'
  BY <1>2 DEF OAuthInv, OneAgentPerCode
<1>11. \A e \in Devices : AgentOK(e)'
  BY <1>2 DEF OAuthInv, AgentOK
<1>12. ReplayKillsAgent'
  <2> SUFFICES ASSUME NEW e \in Devices, Escaped(e)', codes'[agents'[e].grant].stored
               PROVE  FALSE
    BY DEF ReplayKillsAgent
  <2>1. /\ e \in handed \ lost /\ agents'[e].st = "live" /\ agents[e].grant \in replayed
        /\ \A q \in Reqs : ~ (req'[q].pc = "revoke" /\ req'[q].device = e)
        /\ codes[agents[e].grant].stored
    BY <1>2 DEF Escaped, At
  <2>2. \A q \in Reqs : ~ (req[q].pc = "revoke" /\ req[q].device = e)
    <3>1. CASE req' = req
      BY <2>1, <3>1
    <3>2. CASE \E r \in Reqs : /\ req' = [req EXCEPT ![r] = Idle]
                               /\ At(r, "revoke") => req[r].device = d /\ a.st # "live"
      BY <1>1, <2>1, <3>2 DEF At, OAuthInv, TypeOK
    <3>3. QED
      BY <3>1, <3>2
  <2>3. QED
    BY <1>2, <2>1, <2>2 DEF OAuthInv, ReplayKillsAgent, Escaped, At
<1>13. QED
  BY <1>4, <1>7, <1>8, <1>9, <1>10, <1>11, <1>12 DEF OAuthInv

\* rotateRefreshToken: the current token is exchanged and becomes the previous.
LEMMA RotateStep ==
  ASSUME OAuthInv, NEW r \in Reqs, Rotate(r)
  PROVE  OAuthInv'
<1>0. PICK d \in Devices : d = req[r].device /\ agents[d].st # "none"
  BY DEF Rotate, OAuthInv, RequestOK, At
<1>1. PICK k \in Nat : k = req[r].gen
  BY DEF OAuthInv, TypeOK
<1>2. /\ At(r, "rotate")
      /\ Current(d, k) => agents[d].gen < MaxGeneration
      /\ IF Current(d, k)
           THEN /\ agents' = [agents EXCEPT ![d].gen = @ + 1, ![d].expired = FALSE]
                /\ spent' = [spent EXCEPT ![<<d, k>>] = @ + 1]
                /\ Return(r)
           ELSE Goto(r, "previous") /\ UNCHANGED <<agents, spent>>
      /\ UNCHANGED <<pending, codes, opened, arrived, replayed, handed, lost>>
  BY <1>0, <1>1 DEF Rotate, store
<1>3. CASE Current(d, k)
  <2> DEFINE a == [agents[d] EXCEPT !.gen = @ + 1, !.expired = FALSE]
  <2>1. agents[d] \in Agents /\ agents[d].gen = k /\ k < MaxGeneration /\ agents[d].st = "live"
    BY <1>2, <1>3 DEF Current, OAuthInv, TypeOK
  <2>2. a \in Agents /\ a.st = "live" /\ a.grant = agents[d].grant /\ a.gen = k + 1
    <3>1. PICK y \in Agents : y = agents[d]
      BY <2>1
    <3>2. a = [y EXCEPT !.gen = y.gen + 1, !.expired = FALSE]
      BY <3>1
    <3>3. y.gen \in Nat /\ y.gen + 1 \in Nat
      BY DEF Agents
    <3>4. [y EXCEPT !.gen = y.gen + 1, !.expired = FALSE] \in Agents
      BY ONLY y \in Agents, <3>3 DEF Agents
    <3>5. a.gen = y.gen + 1 /\ a.st = y.st /\ a.grant = y.grant
      BY <3>2 DEF Agents
    <3>6. QED
      BY <2>1, <3>1, <3>2, <3>4, <3>5
  <2>3. agents' = [agents EXCEPT ![d] = a]
    BY <1>2, <1>3 DEF OAuthInv, TypeOK
  <2> HIDE DEF a
  <2>4. <<d, k>> \in Devices \X (0..MaxGeneration)
    BY <2>1, SetsAssumption
  <2>5. spent' = [spent EXCEPT ![<<d, k>>] = spent[<<d, k>>] + 1]
    BY <1>2, <1>3
  <2>6. spent' \in [Devices \X (0..MaxGeneration) -> Nat]
    BY <2>4, <2>5 DEF OAuthInv, TypeOK
  <2>7. TokensSpent'
    <3>1. spent[<<d, k>>] = 0
      BY <2>1, <2>4 DEF OAuthInv, TokensSpent, TypeOK
    <3>2. ASSUME NEW e \in Devices, NEW j \in 0..MaxGeneration
          PROVE  spent'[<<e, j>>] <= 1 /\ (spent'[<<e, j>>] > 0 => j < agents'[e].gen)
      <4>1. CASE e = d /\ j = k
        <5>1. spent'[<<d, k>>] = 1 /\ agents'[d].gen = k + 1
          BY <2>2, <2>3, <2>4, <2>5, <3>1 DEF OAuthInv, TypeOK
        <5>2. QED
          BY <4>1, <5>1
      <4>2. CASE ~ (e = d /\ j = k)
        <5>1. spent'[<<e, j>>] = spent[<<e, j>>]
          BY <2>5, <4>2 DEF OAuthInv, TypeOK
        <5>2. agents[e].gen \in Nat /\ agents'[e].gen \in Nat /\ agents'[e].gen >= agents[e].gen
          BY <2>1, <2>2, <2>3 DEF OAuthInv, TypeOK, Agents
        <5>3. QED
          BY <5>1, <5>2 DEF OAuthInv, TokensSpent
      <4>3. QED
        BY <4>1, <4>2
    <3>3. QED
      BY <3>2 DEF TokensSpent
  <2>8. req' = [req EXCEPT ![r] = Idle] /\ ~ At(r, "revoke")
    BY <1>2, <1>3 DEF Return, At
  <2>9. \E q \in Reqs : /\ req' = [req EXCEPT ![q] = Idle]
                        /\ At(q, "revoke") => req[q].device = d /\ a.st # "live"
    BY <2>8
  <2>10. a.gen >= agents[d].gen
    BY <2>1, <2>2
  <2>11. QED
    BY <1>0, <1>2, <2>1, <2>2, <2>3, <2>6, <2>7, <2>9, <2>10, AgentMove
<1>4. CASE ~ Current(d, k)
  <2>1. Goto(r, "previous") /\ UNCHANGED <<store, agents, opened, history>> /\ arrived' \in 0..MaxRequests
    BY <1>2, <1>4 DEF store, history, OAuthInv, TypeOK
  <2>2. req'[r] = [req[r] EXCEPT !.pc = "previous"]
    BY <2>1 DEF Goto, OAuthInv, TypeOK
  <2>3. req'[r].pc = "previous" /\ req'[r].device = d
    BY <1>0, <2>2 DEF OAuthInv, TypeOK
  <2>4. RequestOK(r)' /\ ~ At(r, "revoke")
    BY <1>0, <1>2, <2>1, <2>3 DEF RequestOK, Holds, At
  <2>5. "previous" \in Steps
    BY DEF Steps
  <2>6. QED
    BY <2>1, <2>4, <2>5, RequestGoesOn
<1>5. QED
  BY <1>3, <1>4

\* deviceForPrevHash only decides whether to revoke.
LEMMA PreviousStep ==
  ASSUME OAuthInv, NEW r \in Reqs, Previous(r)
  PROVE  OAuthInv'
<1>1. /\ At(r, "previous") /\ (Goto(r, "revoke") \/ Return(r))
      /\ UNCHANGED <<store, agents, opened, arrived, history>>
  BY DEF Previous, Proceed
<1>2. arrived' \in 0..MaxRequests /\ ~ At(r, "revoke") /\ "revoke" \in Steps
  BY <1>1 DEF OAuthInv, TypeOK, At, Steps
<1>3. CASE Return(r)
  BY <1>1, <1>2, <1>3, RequestEnd DEF history
<1>4. CASE Goto(r, "revoke")
  <2>1. req'[r] = [req[r] EXCEPT !.pc = "revoke"]
    BY <1>4 DEF Goto, OAuthInv, TypeOK
  <2>2. req'[r].pc = "revoke" /\ req'[r].device = req[r].device
    BY <2>1 DEF OAuthInv, TypeOK
  <2>3. RequestOK(r)'
    BY <1>1, <2>2 DEF OAuthInv, RequestOK, Holds, At
  <2>4. QED
    BY <1>1, <1>2, <1>4, <2>3, RequestGoesOn
<1>5. QED
  BY <1>1, <1>3, <1>4

\* A revoked agent keeps its grant and its token number.
LEMMA RevokedRow ==
  ASSUME OAuthInv, NEW d \in Devices
  PROVE  \E a \in Agents : /\ Revoked(d) = [agents EXCEPT ![d] = a] /\ a.st = "revoked"
                           /\ a.grant = agents[d].grant /\ a.gen = agents[d].gen /\ a.gen \in Nat
<1>1. PICK y \in Agents : y = agents[d]
  BY DEF OAuthInv, TypeOK
<1>2. [y EXCEPT !.st = "revoked", !.row = FALSE] \in Agents
  BY ONLY y \in Agents DEF Agents
<1>3. Revoked(d) = [agents EXCEPT ![d] = [y EXCEPT !.st = "revoked", !.row = FALSE]]
  BY <1>1 DEF Revoked, OAuthInv, TypeOK
<1>4. QED
  BY <1>1, <1>2, <1>3 DEF Agents

\* RevokeDevice, at the end of a request or from the account's device list.
LEMMA RevokeSteps ==
  ASSUME OAuthInv, NEW d \in Devices, agents[d].st # "none", agents' = Revoked(d),
         req' = req \/ \E r \in Reqs : req' = [req EXCEPT ![r] = Idle] /\ req[r].device = d,
         UNCHANGED <<pending, codes, opened, arrived, replayed, handed, spent, lost>>
  PROVE  OAuthInv'
<1>1. PICK a \in Agents : /\ agents' = [agents EXCEPT ![d] = a] /\ a.st = "revoked"
                          /\ a.grant = agents[d].grant /\ a.gen = agents[d].gen /\ a.gen \in Nat
  BY RevokedRow
<1>2. \A e \in Devices : agents'[e].gen = agents[e].gen
  BY <1>1 DEF OAuthInv, TypeOK
<1>3. TokensSpent' /\ spent' \in [Devices \X (0..MaxGeneration) -> Nat]
  BY <1>2 DEF OAuthInv, TypeOK, TokensSpent
<1>4. req' = req \/ \E r \in Reqs : /\ req' = [req EXCEPT ![r] = Idle]
                                    /\ At(r, "revoke") => req[r].device = d /\ a.st # "live"
  BY <1>1
<1>5. a.st # "none" /\ a.st # "live" /\ a.gen >= agents[d].gen
  BY <1>1
<1>6. QED
  BY <1>1, <1>3, <1>4, <1>5, AgentMove

\* A failed statement: the request ends, or keeps its right to give it back.
LEMMA DatabaseErrorStep ==
  ASSUME OAuthInv, NEW r \in Reqs, DatabaseError(r)
  PROVE  OAuthInv'
<1>1. /\ Proceed(r, At(r, "count") \/ At(r, "create"), "unmark")
      /\ lost' = IF At(r, "revoke") THEN lost \cup {req[r].device} ELSE lost
      /\ UNCHANGED <<store, agents, opened, arrived, replayed, handed, spent>>
  BY DEF DatabaseError
<1>2. arrived' \in 0..MaxRequests /\ "unmark" \in Steps
  BY <1>1 DEF OAuthInv, TypeOK, Steps
<1>3. CASE Return(r)
  BY <1>1, <1>2, <1>3, RequestEnd
<1>4. CASE Goto(r, "unmark") /\ (At(r, "count") \/ At(r, "create"))
  <2>1. ~ At(r, "revoke") /\ Holds(r) /\ UNCHANGED history
    BY <1>1, <1>4 DEF At, Holds, history
  <2>2. req'[r] = [req[r] EXCEPT !.pc = "unmark"]
    BY <1>4 DEF Goto, OAuthInv, TypeOK
  <2>3. req'[r].pc = "unmark" /\ req'[r].grant = req[r].grant
    BY <2>2 DEF OAuthInv, TypeOK
  <2>4. RequestOK(r)'
    BY <1>1, <2>1, <2>3 DEF OAuthInv, RequestOK, Holds, At, Agentless
  <2>5. QED
    BY <1>1, <1>2, <1>4, <2>1, <2>4, RequestGoesOn
<1>5. QED
  BY <1>1, <1>3, <1>4 DEF Proceed

\* A restart drops every right that has not become an agent, and forgets every
\* code, so that no replay is recognised afterwards.
LEMMA RestartStep ==
  ASSUME OAuthInv, Restart
  PROVE  OAuthInv'
<1>1. /\ pending' = {} /\ codes' = [g \in Grants |-> NoCode]
      /\ lost' = lost \cup {req[r].device : r \in {r \in Reqs : At(r, "revoke")}}
      /\ req' = [r \in Reqs |-> Idle]
      /\ UNCHANGED <<agents, opened, arrived, replayed, handed, spent>>
  BY DEF Restart
<1>2. NoCode \in Codes /\ ~ NoCode.stored /\ NoCode.device = NoDevice
  BY DEF NoCode, Codes
<1>3. lost' \subseteq Devices
  BY <1>1 DEF OAuthInv, TypeOK, RequestOK, At
<1>4. TypeOK'
  BY <1>1, <1>2, <1>3, IdleType DEF OAuthInv, TypeOK, Requests
<1>5. \A r \in Reqs : req'[r] = Idle /\ RequestOK(r)' /\ ~ Holds(r)'
  BY <1>1, EndedRequest
<1>6. \A g \in Grants : GrantOK(g)'
  <2> SUFFICES ASSUME NEW g \in Grants
               PROVE  GrantOK(g)'
    OBVIOUS
  <2>1. Entries(g)' = {} /\ codes'[g] = NoCode
    BY <1>1 DEF Entries
  <2>2. g \notin opened => Untouched(g)'
    BY <1>1, <1>2, <2>1 DEF OAuthInv, GrantOK, Untouched, Agentless
  <2>3. QED
    BY <1>1, <1>2, <1>5, <2>1, <2>2 DEF GrantOK
<1>7. SoleHolder'
  BY <1>5 DEF SoleHolder
<1>8. \A d \in Devices : agents[d].st # "none" => agents[d].grant \in Grants
  BY DEF OAuthInv, AgentOK, TypeOK
<1>9. \A d \in Devices : AgentOK(d)'
  BY <1>1, <1>2, <1>8 DEF OAuthInv, AgentOK
<1>10. OneAgentPerCode' /\ TokensSpent'
  BY <1>1 DEF OAuthInv, OneAgentPerCode, TokensSpent
<1>11. ReplayKillsAgent'
  BY <1>1, <1>2, <1>8 DEF ReplayKillsAgent, Escaped
<1>12. QED
  BY <1>4, <1>5, <1>6, <1>7, <1>9, <1>10, <1>11 DEF OAuthInv

\* Expiry of a code: it is remembered, but no exchange finds it any more.
LEMMA ExpireCodeStep ==
  ASSUME OAuthInv, NEW g \in Grants, codes' = [codes EXCEPT ![g].expired = TRUE],
         UNCHANGED <<pending, agents, opened, req, arrived, replayed, handed, spent, lost>>
  PROVE  OAuthInv'
<1>1. codes[g] \in Codes
  BY DEF OAuthInv, TypeOK
<1>2. [codes[g] EXCEPT !.expired = TRUE] \in Codes
  BY ONLY <1>1 DEF Codes
<1>3. codes' = [codes EXCEPT ![g] = [codes[g] EXCEPT !.expired = TRUE]]
  BY DEF OAuthInv, TypeOK
<1>4. codes' \in [Grants -> Codes]
  BY <1>2, <1>3 DEF OAuthInv, TypeOK
<1>5. \A h \in Grants : /\ codes'[h].stored = codes[h].stored /\ codes'[h].used = codes[h].used
                        /\ codes'[h].device = codes[h].device /\ codes'[h].reuseSeen = codes[h].reuseSeen
  BY <1>1, <1>3 DEF OAuthInv, TypeOK, Codes
<1>6. TypeOK'
  BY <1>4 DEF OAuthInv, TypeOK
<1>7. \A h \in Grants : (Agentless(h)' <=> Agentless(h)) /\ (Untouched(h)' <=> Untouched(h)) /\ Entries(h)' = Entries(h)
  BY <1>5 DEF Agentless, Untouched, Entries
<1>8. \A r \in Reqs : Holds(r)' <=> Holds(r)
  BY DEF Holds
<1>9. \A h \in Grants : GrantOK(h)'
  BY <1>5, <1>7, <1>8 DEF OAuthInv, GrantOK
<1>10. \A r \in Reqs : RequestOK(r)'
  <2>1. \A r \in Reqs : (Holds(r) => req[r].grant \in Grants) /\ (At(r, "addCode") => Holds(r))
    BY DEF OAuthInv, RequestOK, TypeOK, At, Holds
  <2>2. QED
    BY <1>7, <1>8, <2>1 DEF OAuthInv, RequestOK, At
<1>11. SoleHolder' /\ OneAgentPerCode' /\ TokensSpent'
  BY <1>8 DEF OAuthInv, SoleHolder, OneAgentPerCode, TokensSpent
<1>12. \A d \in Devices : agents[d].st # "none" => agents[d].grant \in Grants
  BY DEF OAuthInv, AgentOK, TypeOK
<1>13. \A d \in Devices : AgentOK(d)'
  BY <1>5, <1>12 DEF OAuthInv, AgentOK
<1>14. ReplayKillsAgent'
  BY <1>5, <1>12 DEF OAuthInv, ReplayKillsAgent, Escaped, At
<1>15. QED
  BY <1>6, <1>9, <1>10, <1>11, <1>13, <1>14 DEF OAuthInv

\* Expiry of a pending request, of a code and of a refresh token.
LEMMA ExpireStep ==
  ASSUME OAuthInv, Expire
  PROVE  OAuthInv'
<1>1. CASE /\ \E p \in pending : pending' = Without(p.grant)
           /\ UNCHANGED <<codes, agents, opened, req, arrived, history>>
  <2>1. PICK p \in pending : pending' = Without(p.grant)
    BY <1>1
  <2>2. p.grant \in Grants
    BY DEF OAuthInv, TypeOK
  <2>3. QED
    BY <1>1, <2>1, <2>2, PendingSteps DEF history
<1>2. CASE /\ \E g \in Grants : codes[g].stored /\ ~ codes[g].expired
                                /\ codes' = [codes EXCEPT ![g].expired = TRUE]
           /\ UNCHANGED <<pending, agents, opened, req, arrived, history>>
  BY <1>2, ExpireCodeStep DEF history
<1>3. CASE /\ \E d \in Devices : agents[d].row /\ ~ agents[d].expired
                                 /\ agents' = [agents EXCEPT ![d].expired = TRUE]
           /\ UNCHANGED <<store, opened, req, arrived, history>>
  <2>1. PICK d \in Devices : agents[d].row /\ agents' = [agents EXCEPT ![d].expired = TRUE]
    BY <1>3
  <2>2. PICK y \in Agents : y = agents[d]
    BY DEF OAuthInv, TypeOK
  <2>3. PICK a \in Agents : a = [y EXCEPT !.expired = TRUE]
    BY ONLY y \in Agents DEF Agents
  <2>4. a.st = y.st /\ a.grant = y.grant /\ a.gen = y.gen /\ y.gen \in Nat
    BY <2>3 DEF Agents
  <2>5. agents' = [agents EXCEPT ![d] = a]
    BY <2>1, <2>2, <2>3 DEF OAuthInv, TypeOK
  <2>6. agents[d].st # "none"
    BY <2>1 DEF OAuthInv, AgentOK, NoAgent
  <2>7. \A e \in Devices : agents'[e].gen = agents[e].gen
    BY <2>2, <2>4, <2>5 DEF OAuthInv, TypeOK
  <2>8. TokensSpent' /\ spent' \in [Devices \X (0..MaxGeneration) -> Nat]
    BY <1>3, <2>7 DEF OAuthInv, TypeOK, TokensSpent, history
  <2>9. a.gen >= agents[d].gen
    BY <2>2, <2>4
  <2>10. a.st # "none" /\ a.grant = agents[d].grant /\ (a.st = "live" => agents[d].st = "live")
    BY <2>2, <2>4, <2>6
  <2>11. req' = req /\ UNCHANGED <<pending, codes, opened, arrived, replayed, handed, lost>>
    BY <1>3 DEF store, history
  <2>12. QED
    BY <2>5, <2>6, <2>8, <2>9, <2>10, <2>11, AgentMove
<1>4. QED
  BY <1>1, <1>2, <1>3 DEF Expire

-----------------------------------------------------------------------------
(* The theorems. *)

\* Nothing is pending, stored or held in the initial state.
LEMMA InitOK == Init => OAuthInv
<1> SUFFICES ASSUME Init
             PROVE  OAuthInv
  OBVIOUS
<1>1. NoCode \in Codes /\ ~ NoCode.stored /\ NoCode.device = NoDevice
  BY DEF NoCode, Codes
<1>2. NoAgent \in Agents /\ NoAgent.st = "none" /\ NoAgent.grant = NoDevice
  BY DEF NoAgent, Agents
<1>3. TypeOK
  BY <1>1, <1>2, IdleType, SetsAssumption DEF Init, TypeOK, Requests
<1>4. \A g \in Grants : GrantOK(g)
  BY <1>1, <1>2, SetsAssumption DEF Init, GrantOK, Entries, Untouched, Agentless, Holds, Idle
<1>5. (\A r \in Reqs : RequestOK(r)) /\ SoleHolder
  BY DEF Init, RequestOK, SoleHolder, Holds, At, Idle
<1>6. (\A d \in Devices : AgentOK(d)) /\ OneAgentPerCode /\ ReplayKillsAgent
  BY <1>2 DEF Init, AgentOK, OneAgentPerCode, ReplayKillsAgent, Escaped
<1>7. TokensSpent
  BY DEF Init, TokensSpent
<1>8. QED
  BY <1>3, <1>4, <1>5, <1>6, <1>7 DEF OAuthInv

\* Every step keeps the invariant.
LEMMA NextOK ==
  ASSUME OAuthInv, [Next]_vars
  PROVE  OAuthInv'
<1>1. ASSUME NEW r \in Reqs, RequestStep(r)
      PROVE  OAuthInv'
  <2>1. CASE RevokeDevice(r)
    <3>1. PICK d \in Devices : d = req[r].device /\ agents[d].st # "none"
      BY <2>1 DEF RevokeDevice, At, OAuthInv, RequestOK
    <3>2. QED
      BY <2>1, <3>1, RevokeSteps DEF RevokeDevice, Return, store, history
  <2>2. QED
    BY <1>1, <2>1, ArriveSteps, ApproveGetStep, CountAgentsStep, ApproveTakeStep, AddCodeStep,
       ConsumeStep, CreateAgentStep, UnmarkCodeStep, SetCodeDeviceStep, RotateStep,
       PreviousStep, DatabaseErrorStep DEF RequestStep
<1>2. ASSUME NEW g \in Grants, NEW u \in Users, GetRequest(g, u) \/ Deny(g, u)
      PROVE  OAuthInv'
  <2>1. /\ pending' = Without(g) \/ \E v \in Users : pending' = Bind(g, v)
        /\ UNCHANGED <<codes, agents, opened, req, arrived, replayed, handed, spent, lost>>
    BY <1>2 DEF GetRequest, Deny, history
  <2>2. QED
    BY <2>1, PendingSteps
<1>3. ASSUME NEW d \in Devices, RevokeByOwner(d)
      PROVE  OAuthInv'
  BY <1>3, RevokeSteps DEF RevokeByOwner, store, history
<1>4. CASE UNCHANGED vars
  <2>1. TypeOK' /\ UNCHANGED <<codes, agents, opened, req, replayed, handed, spent, lost>>
    BY <1>4 DEF vars, store, history, OAuthInv, TypeOK
  <2>2. \A g \in Grants : Entries(g)' # {} => Entries(g) # {}
    BY <1>4 DEF vars, store, Entries
  <2>3. QED
    BY <2>1, <2>2, PendingMove
<1>5. QED
  BY <1>1, <1>2, <1>3, <1>4, AuthorizeStep, ExpireStep, RestartStep DEF Next

\* The authorization server's store and tables agree, through approvals,
\* exchanges, refreshes, failures, expiry and restarts.
THEOREM OAuthConsistent == Spec => []OAuthInv
BY InitOK, NextOK, PTL DEF Spec

\* A code makes at most one agent device (consumeCode, unmarkCode).
THEOREM CodeMakesOneAgent == Spec => []OneAgentPerCode
<1>1. OAuthInv => OneAgentPerCode
  BY DEF OAuthInv
<1>2. QED
  BY <1>1, OAuthConsistent, PTL

\* A replay of a code that is still remembered costs the agent made from it,
\* before, during or after the exchange (consumeCode, setCodeDevice).
THEOREM ReplayRevokes == Spec => []ReplayKillsAgent
<1>1. OAuthInv => ReplayKillsAgent
  BY DEF OAuthInv
<1>2. QED
  BY <1>1, OAuthConsistent, PTL

\* No refresh token is exchanged twice (rotateRefreshToken's one UPDATE).
THEOREM RefreshRotatesOnce == Spec => []RefreshTokenWorksOnce
<1>1. OAuthInv => RefreshTokenWorksOnce
  <2> SUFFICES ASSUME OAuthInv, NEW t \in DOMAIN spent
               PROVE  spent[t] <= 1
    BY DEF RefreshTokenWorksOnce
  <2>1. t \in Devices \X (0..MaxGeneration)
    BY DEF OAuthInv, TypeOK
  <2>2. PICK d \in Devices, k \in 0..MaxGeneration : t = <<d, k>>
    BY <2>1
  <2>3. QED
    BY <2>2 DEF OAuthInv, TokensSpent
<1>2. QED
  BY <1>1, OAuthConsistent, PTL
=============================================================================
