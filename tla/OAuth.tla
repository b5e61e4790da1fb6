-------------------------------- MODULE OAuth --------------------------------
(***************************************************************************)
(* The OAuth authorization server for agents: authorization requests and    *)
(* codes live in memory under one mutex, agent devices and refresh tokens   *)
(* in the database.  Approval, code exchange and refresh work through       *)
(* several of these steps; requests interleave between them.                *)
(*                                                                          *)
(* A grant is one authorization request and the code it may become; their   *)
(* random ids, the code and the PKCE pair are one value.  The metadata      *)
(* document, scopes and redirect URIs are left out: a request that fails    *)
(* their checks changes nothing, except an exchange, which burns the code.  *)
(***************************************************************************)
EXTENDS Naturals, FiniteSets

CONSTANTS
  Grants,           \* authorization requests
  ClientOf,         \* the client and source address of each
  Users, NoUser,    \* accounts; an unbound request
  Devices, NoDevice,  \* agent device keys (random, never reused)
  Reqs,             \* concurrently served requests
  MaxLiveAgents,    \* maxLiveAgentsPerAccount
  MaxPending,       \* maxPending
  MaxPerClient,     \* maxPendingPerClientIP
  MaxGeneration,    \* bound: rotations of a refresh token
  MaxRequests       \* bound: requests that ever arrive

ASSUME SetsAssumption ==
  /\ IsFiniteSet(Grants) /\ IsFiniteSet(Devices) /\ IsFiniteSet(Reqs)
  /\ NoUser \notin Users /\ NoDevice \notin Devices \cup Grants
  /\ \A b \in {MaxLiveAgents, MaxPending, MaxPerClient, MaxGeneration, MaxRequests} : b \in Nat

\* stored: in the map.  expired: past its 60 seconds, and not yet swept.
Codes ==
  [stored: BOOLEAN, expired: BOOLEAN, user: Users \cup {NoUser}, device: Devices \cup {NoDevice},
   used: BOOLEAN, reuseSeen: BOOLEAN]
NoCode ==
  [stored |-> FALSE, expired |-> FALSE, user |-> NoUser, device |-> NoDevice,
   used |-> FALSE, reuseSeen |-> FALSE]

\* row: the agent_refresh_tokens row, its current token being number gen and
\* its previous one gen - 1.  expired: past expires_at.
Agents ==
  [st: {"none", "live", "revoked"}, user: Users \cup {NoUser}, grant: Grants \cup {NoDevice},
   row: BOOLEAN, gen: Nat, expired: BOOLEAN]
NoAgent ==
  [st |-> "none", user |-> NoUser, grant |-> NoDevice, row |-> FALSE, gen |-> 0, expired |-> FALSE]

Steps ==
  {"idle", "get", "canAdd", "take", "addCode",
   "consume", "count", "create", "unmark", "setDevice", "rotate", "previous", "revoke"}
Ops == {"none", "approve", "exchange", "refresh"}
Idle ==
  [pc |-> "idle", op |-> "none", grant |-> NoDevice, user |-> NoUser, match |-> FALSE,
   device |-> NoDevice, gen |-> 0]

VARIABLES
  pending,   \* store.pending: grants, the account each is bound to, and their order by age
  codes,     \* store.codes
  agents,    \* user_devices of kind agent, with agent_refresh_tokens
  opened,    \* grants that have been drawn
  req,       \* per request: step and local variables
  arrived,   \* requests that have arrived
  replayed,  \* history: grants whose code was presented again after its first use
  handed,    \* history: devices whose tokens were returned to a client
  spent,     \* history: how often token gen of a device was exchanged for a new one
  lost       \* history: devices whose revocation failed or died with the process

store == <<pending, codes>>
history == <<replayed, handed, spent, lost>>
vars == <<store, agents, opened, req, arrived, history>>

Init ==
  /\ pending = {}
  /\ codes = [g \in Grants |-> NoCode]
  /\ agents = [d \in Devices |-> NoAgent]
  /\ opened = {}
  /\ req = [r \in Reqs |-> Idle]
  /\ arrived = 0
  /\ replayed = {}
  /\ handed = {}
  /\ spent = [t \in Devices \X (0..MaxGeneration) |-> 0]
  /\ lost = {}

At(r, step) == req[r].pc = step
Goto(r, step) == req' = [req EXCEPT ![r].pc = step]
Return(r) == req' = [req EXCEPT ![r] = Idle]
Proceed(r, ok, step) == IF ok THEN Goto(r, step) ELSE Return(r)

-----------------------------------------------------------------------------
(* The store.  Each operator is one critical section of store.mu; expired   *)
(* requests are never seen again and leave at their expiry.                 *)

Entries(g) == {p \in pending : p.grant = g}
Without(g) == pending \ Entries(g)

\* sweep: the codes that remain.
Swept == [g \in Grants |-> IF codes[g].expired THEN NoCode ELSE codes[g]]

\* lookupPending finds the request and it is unbound or bound to u.
MayDecide(g, u) == \E p \in Entries(g) : p.user \in {NoUser, u}
\* lookupPending binds the request to the first account that reads it.
Bind(g, u) == Without(g) \cup {[p EXCEPT !.user = u] : p \in Entries(g)}

\* addPending: a client with MaxPerClient requests loses the oldest that no
\* account has bound, and is refused without one.  A refusal still sweeps.
AddPending(g) ==
  LET mine == {p \in pending : ClientOf[p.grant] = ClientOf[g]}
      free == {p \in mine : p.user = NoUser}
      oldest == CHOOSE p \in free : \A q \in free : p.at <= q.at
      kept == IF Cardinality(mine) < MaxPerClient THEN pending ELSE Without(oldest.grant)
      admitted == /\ Cardinality(mine) < MaxPerClient \/ free # {}
                  /\ Cardinality(kept) < MaxPending
  IN /\ codes' = Swept
     /\ IF admitted
          THEN /\ pending' = kept \cup {[grant |-> g, user |-> NoUser, at |-> Cardinality(opened)]}
               /\ opened' = opened \cup {g}
          ELSE UNCHANGED <<pending, opened>>

-----------------------------------------------------------------------------
(* Authorization and consent. *)

Authorize(g) ==
  /\ g \notin opened
  /\ AddPending(g)
  /\ UNCHANGED <<agents, req, arrived, history>>

GetRequest(g, u) ==
  /\ MayDecide(g, u)
  /\ pending' = Bind(g, u)
  /\ UNCHANGED <<codes, agents, opened, req, arrived, history>>

Deny(g, u) ==
  /\ MayDecide(g, u)
  /\ pending' = Without(g)
  /\ UNCHANGED <<codes, agents, opened, req, arrived, replayed, handed, spent, lost>>

ArriveApprove(r) ==
  /\ At(r, "idle")
  /\ arrived < MaxRequests
  /\ arrived' = arrived + 1
  /\ \E g \in opened, u \in Users :
       req' = [req EXCEPT ![r] = [Idle EXCEPT !.pc = "get", !.op = "approve", !.grant = g, !.user = u]]
  /\ UNCHANGED <<store, agents, opened, history>>

\* getPending
ApproveGet(r) ==
  LET g == req[r].grant
      u == req[r].user
  IN /\ At(r, "get")
     /\ pending' = IF MayDecide(g, u) THEN Bind(g, u) ELSE pending
     /\ Proceed(r, MayDecide(g, u), "canAdd")
     /\ UNCHANGED <<codes, agents, opened, arrived, history>>

LiveAgents(u) ==
  {d \in Devices : agents[d].st = "live" /\ agents[d].user = u /\ agents[d].row /\ ~ agents[d].expired}

\* CanAddAgent, and the count IssueTokens makes again.
CountAgents(r) ==
  /\ At(r, "canAdd") \/ At(r, "count")
  /\ Proceed(r, Cardinality(LiveAgents(req[r].user)) < MaxLiveAgents,
             IF At(r, "canAdd") THEN "take" ELSE "create")
  /\ UNCHANGED <<store, agents, opened, arrived, history>>

\* takePending: whoever takes the request decides it.
ApproveTake(r) ==
  LET g == req[r].grant
      ok == MayDecide(g, req[r].user)
  IN /\ At(r, "take")
     /\ pending' = IF ok THEN Without(g) ELSE pending
     /\ Proceed(r, ok, "addCode")
     /\ UNCHANGED <<codes, agents, opened, arrived, replayed, handed, spent, lost>>

AddCode(r) ==
  /\ At(r, "addCode")
  /\ codes' = [Swept EXCEPT ![req[r].grant] =
                 [NoCode EXCEPT !.stored = TRUE, !.user = req[r].user]]
  /\ Return(r)
  /\ UNCHANGED <<pending, agents, opened, arrived, history>>

-----------------------------------------------------------------------------
(* The token endpoint: authorization_code. *)

\* match: client, redirect URI, verifier and resource are the right ones.
ArriveExchange(r) ==
  /\ At(r, "idle")
  /\ arrived < MaxRequests
  /\ arrived' = arrived + 1
  /\ \E g \in opened, match \in BOOLEAN :
       req' = [req EXCEPT ![r] =
                 [Idle EXCEPT !.pc = "consume", !.op = "exchange", !.grant = g, !.match = match]]
  /\ UNCHANGED <<store, agents, opened, history>>

\* A mutant: the code is marked only once its device is known.
ConsumeUnmarked(r) ==
  LET g == req[r].grant
      c == codes[g]
      found == c.stored /\ ~ c.expired
      reused == found /\ c.device # NoDevice
  IN /\ At(r, "consume")
     /\ codes' = IF reused THEN [codes EXCEPT ![g].reuseSeen = TRUE] ELSE codes
     /\ replayed' = IF reused THEN replayed \cup {g} ELSE replayed
     /\ IF reused THEN req' = [req EXCEPT ![r].pc = "revoke", ![r].device = c.device]
        ELSE IF found /\ req[r].match
          THEN req' = [req EXCEPT ![r].pc = "count", ![r].user = c.user]
          ELSE Return(r)
     /\ UNCHANGED <<pending, agents, opened, arrived, handed, spent, lost>>

\* consumeCode, and the checks after it.
Consume(r) ==
  LET g == req[r].grant
      c == codes[g]
      found == c.stored /\ ~ c.expired
      reused == found /\ c.used
  IN /\ At(r, "consume")
     /\ codes' = IF found THEN [codes EXCEPT ![g].used = TRUE, ![g].reuseSeen = @ \/ reused]
                 ELSE codes
     /\ replayed' = IF reused THEN replayed \cup {g} ELSE replayed
     /\ IF reused /\ c.device # NoDevice
          THEN req' = [req EXCEPT ![r].pc = "revoke", ![r].device = c.device]
        ELSE IF found /\ ~ reused /\ req[r].match
          THEN req' = [req EXCEPT ![r].pc = "count", ![r].user = c.user]
        ELSE Return(r)
     /\ UNCHANGED <<pending, agents, opened, arrived, handed, spent, lost>>

\* createAgent: the device and its refresh token in one transaction.
CreateAgent(r) ==
  /\ At(r, "create")
  /\ \E d \in Devices :
       /\ agents[d].st = "none"
       /\ agents' = [agents EXCEPT ![d] =
                       [NoAgent EXCEPT !.st = "live", !.user = req[r].user,
                                       !.grant = req[r].grant, !.row = TRUE]]
       /\ req' = [req EXCEPT ![r].pc = "setDevice", ![r].device = d]
  /\ UNCHANGED <<store, opened, arrived, history>>

\* IssueTokens failed: the code may be tried again, unless it was replayed.
UnmarkCode(r) ==
  LET g == req[r].grant IN
  /\ At(r, "unmark")
  /\ codes' = IF codes[g].stored /\ ~ codes[g].reuseSeen
                THEN [codes EXCEPT ![g].used = FALSE] ELSE codes
  /\ Return(r)
  /\ UNCHANGED <<pending, agents, opened, arrived, history>>

\* A mutant: replays during the issuing of tokens go unnoticed.
SetCodeDeviceBlind(r) ==
  LET g == req[r].grant IN
  /\ At(r, "setDevice")
  /\ codes' = IF codes[g].stored THEN [codes EXCEPT ![g].device = req[r].device] ELSE codes
  /\ handed' = handed \cup {req[r].device}
  /\ Return(r)
  /\ UNCHANGED <<pending, agents, opened, arrived, replayed, spent, lost>>

\* setCodeDevice.  A code that was swept meanwhile has forgotten its replays.
SetCodeDevice(r) ==
  LET g == req[r].grant
      seen == codes[g].stored /\ codes[g].reuseSeen
  IN /\ At(r, "setDevice")
     /\ codes' = IF codes[g].stored THEN [codes EXCEPT ![g].device = req[r].device] ELSE codes
     /\ handed' = IF seen THEN handed ELSE handed \cup {req[r].device}
     /\ Proceed(r, seen, "revoke")
     /\ UNCHANGED <<pending, agents, opened, arrived, replayed, spent, lost>>

-----------------------------------------------------------------------------
(* The token endpoint: refresh_token.  Revocation. *)

\* A client presents a refresh token it was once given.
ArriveRefresh(r) ==
  /\ At(r, "idle")
  /\ arrived < MaxRequests
  /\ arrived' = arrived + 1
  /\ \E d \in handed : \E k \in 0..agents[d].gen :
       req' = [req EXCEPT ![r] =
                 [Idle EXCEPT !.pc = "rotate", !.op = "refresh", !.device = d, !.gen = k]]
  /\ UNCHANGED <<store, agents, opened, history>>

\* A mutant: the previous token is accepted as well.
CurrentOrPrevious(d, k) ==
  agents[d].row /\ agents[d].gen \in {k, k + 1} /\ ~ agents[d].expired /\ agents[d].st = "live"
Current(d, k) ==
  agents[d].row /\ agents[d].gen = k /\ ~ agents[d].expired /\ agents[d].st = "live"

\* rotateRefreshToken: one conditional UPDATE.
Rotate(r) ==
  LET d == req[r].device
      k == req[r].gen
  IN /\ At(r, "rotate")
     /\ Current(d, k) => agents[d].gen < MaxGeneration
     /\ IF Current(d, k)
          THEN /\ agents' = [agents EXCEPT ![d].gen = @ + 1, ![d].expired = FALSE]
               /\ spent' = [spent EXCEPT ![<<d, k>>] = @ + 1]
               /\ Return(r)
          ELSE Goto(r, "previous") /\ UNCHANGED <<agents, spent>>
     /\ UNCHANGED <<store, opened, arrived, replayed, handed, lost>>

\* deviceForPrevHash: the token before the current one reveals a reuse.
Previous(r) ==
  LET d == req[r].device IN
  /\ At(r, "previous")
  /\ Proceed(r, agents[d].row /\ agents[d].gen = req[r].gen + 1, "revoke")
  /\ UNCHANGED <<store, agents, opened, arrived, history>>

\* RevokeDevice: the device, its push subscriptions and its refresh token.
Revoked(d) == [agents EXCEPT ![d].st = "revoked", ![d].row = FALSE]

RevokeDevice(r) ==
  /\ At(r, "revoke")
  /\ agents' = Revoked(req[r].device)
  /\ Return(r)
  /\ UNCHANGED <<store, opened, arrived, history>>

\* The account removes an agent from its device list.
RevokeByOwner(d) ==
  /\ agents[d].st = "live"
  /\ agents' = Revoked(d)
  /\ UNCHANGED <<store, opened, req, arrived, history>>

-----------------------------------------------------------------------------
(* Errors and time. *)

\* A statement fails; it has no effect.  IssueTokens then unmarks the code; a
\* failed revocation is logged or reported, and not repeated.
DatabaseError(r) ==
  /\ req[r].pc \in {"canAdd", "count", "create", "rotate", "previous", "revoke"}
  /\ Proceed(r, At(r, "count") \/ At(r, "create"), "unmark")
  /\ lost' = IF At(r, "revoke") THEN lost \cup {req[r].device} ELSE lost
  /\ UNCHANGED <<store, agents, opened, arrived, replayed, handed, spent>>

\* The process restarts: the store is in memory.
Restart ==
  /\ pending' = {}
  /\ codes' = [g \in Grants |-> NoCode]
  /\ lost' = lost \cup {req[r].device : r \in {r \in Reqs : At(r, "revoke")}}
  /\ req' = [r \in Reqs |-> Idle]
  /\ UNCHANGED <<agents, opened, arrived, replayed, handed, spent>>

\* A pending request, a code or a refresh token reaches its expiry.
Expire ==
  \/ /\ \E p \in pending : pending' = Without(p.grant)
     /\ UNCHANGED <<codes, agents, opened, req, arrived, history>>
  \/ /\ \E g \in Grants : codes[g].stored /\ ~ codes[g].expired
                          /\ codes' = [codes EXCEPT ![g].expired = TRUE]
     /\ UNCHANGED <<pending, agents, opened, req, arrived, history>>
  \/ /\ \E d \in Devices : agents[d].row /\ ~ agents[d].expired
                           /\ agents' = [agents EXCEPT ![d].expired = TRUE]
     /\ UNCHANGED <<store, opened, req, arrived, history>>

RequestStep(r) ==
  \/ ArriveApprove(r) \/ ApproveGet(r) \/ CountAgents(r) \/ ApproveTake(r) \/ AddCode(r)
  \/ ArriveExchange(r) \/ Consume(r) \/ CreateAgent(r) \/ UnmarkCode(r) \/ SetCodeDevice(r)
  \/ ArriveRefresh(r) \/ Rotate(r) \/ Previous(r) \/ RevokeDevice(r)
  \/ DatabaseError(r)

Next ==
  \/ \E r \in Reqs : RequestStep(r)
  \/ \E g \in Grants : Authorize(g) \/ \E u \in Users : GetRequest(g, u) \/ Deny(g, u)
  \/ \E d \in Devices : RevokeByOwner(d)
  \/ Expire
  \/ Restart

Spec == Init /\ [][Next]_vars

-----------------------------------------------------------------------------
(* Properties. *)

\* Every variable keeps its type: the store, the tables, the requests' locals.
TypeOK ==
  /\ pending \subseteq [grant: Grants, user: Users \cup {NoUser}, at: Nat]
  /\ codes \in [Grants -> Codes]
  /\ agents \in [Devices -> Agents]
  /\ opened \subseteq Grants
  /\ req \in [Reqs -> [pc: Steps, op: Ops, grant: Grants \cup {NoDevice}, user: Users \cup {NoUser},
                       match: BOOLEAN, device: Devices \cup {NoDevice}, gen: Nat]]
  /\ arrived \in 0..MaxRequests
  /\ replayed \subseteq Grants
  /\ handed \subseteq Devices /\ lost \subseteq Devices
  /\ spent \in [Devices \X (0..MaxGeneration) -> Nat]

\* A code makes at most one agent, through retries after a failed issue,
\* replays and expiry ("Codes ... work once", docs/oauth.md).
OneAgentPerCode ==
  \A d, e \in Devices : agents[d].st # "none" /\ agents[d].grant = agents[e].grant => d = e

\* The code of d was replayed, and d still works: no revocation of it is
\* under way and none failed.
Escaped(d) ==
  /\ d \in handed \ lost
  /\ agents[d].st = "live"
  /\ agents[d].grant \in replayed
  /\ ~ \E r \in Reqs : At(r, "revoke") /\ req[r].device = d

\* While the code is remembered, a replay costs the tokens that came from it,
\* whether it lands before, during or after the first exchange.
ReplayKillsAgent == \A d \in Devices : Escaped(d) => ~ codes[agents[d].grant].stored

\* A refresh token is exchanged for a new one at most once (rotateRefreshToken).
RefreshTokenWorksOnce == \A t \in DOMAIN spent : spent[t] <= 1
=============================================================================
