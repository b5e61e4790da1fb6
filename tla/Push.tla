-------------------------------- MODULE Push --------------------------------
(***************************************************************************)
(* Notifications of one application: the fan-out of an event to the         *)
(* subscriptions of its recipients, the daily digest of what was only       *)
(* counted, and the subscriptions themselves.                                *)
(*                                                                          *)
(* A fan-out and a digest scheduler read the subscriptions once and work    *)
(* through that snapshot while accounts change their mode, clients change   *)
(* and remove subscriptions, and browsers replace their endpoints.  A push  *)
(* service answers an endpoint the browser has left with 404 or 410; a      *)
(* request carries the endpoint its client had when it sent it.  What       *)
(* a notification says, its urgency and the health columns, which nothing   *)
(* reads, are left out.  Time passes in hours of a short Day; a digest is   *)
(* due at digestHour, in one time zone.                                     *)
(***************************************************************************)
EXTENDS Integers

CONSTANTS
  Users, Nobody,
  Subs, NoSub, Gone,     \* subscription ids, and what the table has for one
  UserOf, Transport,     \* functions of Subs
  Events,                \* what commits: [kind, by, to]
  Schedulers,            \* digest schedulers of processes that overlap
  Patches,               \* PATCH requests that may be under way
  Day, digestHour,
  MaxHour, MaxChanges, MaxCrashes   \* bounds

Modes == {"all", "chat", "daily"}
Kinds == {"chat", "item", "member", "role", "reminder"}

Hours == 0 .. MaxHour
Due == Users \X Hours
Deliveries == Events \X Subs
\* A row of push_subscriptions, and what a fan-out or a digest has of one.
SubscriptionRows == [endpoint: Nat, muted: BOOLEAN]
Snapshots == [s: Subs, mode: Modes, seen: Nat, muted: BOOLEAN, endpoint: Nat]

Configured ==
  /\ UserOf \in [Subs -> Users] /\ Transport \in [Subs -> {"webpush", "ws"}]
  /\ Events \subseteq [id: Nat, kind: Kinds, by: Users \cup {Nobody}, to: Users \cup {Nobody}]
  /\ {Day, digestHour, MaxHour, MaxChanges, MaxCrashes} \subseteq Nat /\ digestHour < Day
  /\ Nobody \notin Users
  /\ {NoSub, Gone} \cap SubscriptionRows = {} /\ NoSub \notin Snapshots

ASSUME PushAssumption == Configured

VARIABLES
  hour,
  members,            \* of the application
  mode, sentAt, seenAt,   \* users: notify_mode, digest_sent_at, notifications_seen_at
  subs,               \* push_subscriptions
  pending,            \* push_digest_pending: the events counted, and last_at
  browser,            \* the endpoint at which the device of a subscription listens,
                      \* counted from 0: it has left every lower one
  fan, digest, patch,
  told,               \* how often an event was handed to a transport for a subscription
  claims,             \* how often an account's digest of a due time was claimed
  changes,            \* requests of clients
  crashes

accounts == <<members, mode, sentAt, seenAt>>
history == <<told, claims, crashes>>
pushVars == <<hour, accounts, subs, pending, browser, fan, digest, patch, changes, history>>

NoneCounted == [events |-> {}, last |-> 0]
NewFan == [pc |-> "new", to |-> {}, todo |-> {}, at |-> NoSub]
IdleDigest == [pc |-> "idle", users |-> {}, clock |-> 0, user |-> Nobody, todo |-> {}, rows |-> {}, at |-> NoSub]
IdlePatch == [pc |-> "idle", s |-> NoSub, endpoint |-> 0, muted |-> FALSE]

PushInit ==
  /\ hour = 0 /\ changes = 0 /\ crashes = 0
  /\ members = Users
  /\ mode = [u \in Users |-> "all"]
  /\ sentAt = [u \in Users |-> 0] /\ seenAt = [u \in Users |-> 0]
  /\ subs = [s \in Subs |-> NoSub]
  /\ pending = [s \in Subs |-> NoneCounted]
  /\ browser = [s \in Subs |-> 0]
  /\ fan = [e \in Events |-> NewFan]
  /\ digest = [d \in Schedulers |-> IdleDigest]
  /\ patch = [c \in Patches |-> IdlePatch]
  /\ told = [k \in Deliveries |-> 0] /\ claims = [k \in Due |-> 0]

-----------------------------------------------------------------------------
(* Subscriptions. *)

Stored(s) == subs[s] \notin {NoSub, Gone}
Listening(s) == Stored(s) /\ subs[s].endpoint = browser[s]

\* Bound: a request of a client or a change of its browser.
Requested == changes < MaxChanges /\ changes' = changes + 1

\* The row goes, and what was counted for it: ON DELETE CASCADE.
Remove(s) ==
  /\ subs' = [subs EXCEPT ![s] = Gone]
  /\ pending' = [pending EXCEPT ![s] = NoneCounted]

\* A ws registration of a device that has one only sets what is muted.
CreateSubscription(s, muted) ==
  /\ Requested
  /\ subs[s] = NoSub \/ (Transport[s] = "ws" /\ Stored(s))
  /\ \E sent \in 0 .. browser[s] :
       subs' = [subs EXCEPT ![s] = [endpoint |-> sent, muted |-> muted]]
  /\ UNCHANGED <<hour, accounts, pending, browser, fan, digest, patch, history>>

\* PATCH reads the row, lays what the request has over it, and writes it whole.
\* Its body may have an endpoint: any the client had, for it may be late or
\* repeated.
ReadForUpdate(c) ==
  /\ Requested
  /\ patch[c].pc = "idle"
  /\ \E s \in Subs, muted, moved \in BOOLEAN : \E sent \in 0 .. browser[s] :
       /\ Stored(s)
       /\ IF moved THEN Transport[s] = "webpush" ELSE sent = subs[s].endpoint
       /\ patch' = [patch EXCEPT ![c] = [pc |-> "write", s |-> s, muted |-> muted, endpoint |-> sent]]
  /\ UNCHANGED <<hour, accounts, subs, pending, browser, fan, digest, history>>

UpdateSubscription(c) ==
  LET p == patch[c]
  IN  /\ p.pc = "write"
      /\ subs' = IF Stored(p.s) THEN [subs EXCEPT ![p.s] = [endpoint |-> p.endpoint, muted |-> p.muted]] ELSE subs
      /\ patch' = [patch EXCEPT ![c] = IdlePatch]
      /\ UNCHANGED <<changes, hour, accounts, pending, browser, fan, digest, history>>

DeleteSubscription(s) ==
  /\ Requested
  /\ Stored(s) /\ Remove(s)
  /\ UNCHANGED <<hour, accounts, browser, fan, digest, patch, history>>

\* The browser replaces its endpoint; the former one is answered with 410.
Rotate(s) ==
  /\ Requested
  /\ Transport[s] = "webpush" /\ subs[s] # Gone
  /\ browser' = [browser EXCEPT ![s] = @ + 1]
  /\ UNCHANGED <<hour, accounts, subs, pending, fan, digest, patch, history>>

-----------------------------------------------------------------------------
(* Accounts. *)

Owned(u) == {s \in Subs : UserOf[s] = u}

UpdateNotifyMode(u, m) ==
  /\ Requested
  /\ mode' = [mode EXCEPT ![u] = m]
  /\ sentAt' = [sentAt EXCEPT ![u] = IF m = "daily" /\ mode[u] # "daily" THEN hour ELSE @]
  /\ pending' = IF m = "daily" /\ mode[u] = "daily" THEN pending
                ELSE [s \in Subs |-> IF s \in Owned(u) THEN NoneCounted ELSE pending[s]]
  /\ UNCHANGED <<hour, members, seenAt, subs, browser, fan, digest, patch, history>>

\* The client says when the account looked; an earlier time changes nothing.
UpdateNotificationsSeenAt(u, at) ==
  /\ Requested
  /\ at > seenAt[u] /\ seenAt' = [seenAt EXCEPT ![u] = at]
  /\ UNCHANGED <<hour, members, mode, sentAt, subs, pending, browser, fan, digest, patch, history>>

Leave(u) ==
  /\ Requested
  /\ u \in members /\ members' = members \ {u}
  /\ UNCHANGED <<hour, mode, sentAt, seenAt, subs, pending, browser, fan, digest, patch, history>>

-----------------------------------------------------------------------------
(* The fan-out of an event. *)

sendsIn(kind, m) == m # "chat" \/ kind \in {"chat", "reminder", "role"}
digestsIn(kind, m) == m = "daily" /\ kind \notin {"reminder", "role"}

\* A changed role is told to its member, a reminder to those it names (or to
\* everybody when it names nobody), the rest to the members but the author.
Recipients(e) ==
  IF e.kind = "role" THEN {u \in members : u = e.to /\ u # e.by}
  ELSE IF e.kind = "reminder" /\ e.to # Nobody THEN {e.to}
  ELSE members \ {e.by}

broadcastEvent(e) ==
  /\ fan[e].pc = "new"
  /\ fan' = [fan EXCEPT ![e] = [NewFan EXCEPT !.pc = IF Recipients(e) = {} THEN "done" ELSE "read", !.to = Recipients(e)]]
  /\ UNCHANGED <<changes, hour, accounts, subs, pending, browser, digest, patch, history>>

GetSubscriptionsForUsers(us) ==
  {[s |-> s, mode |-> mode[UserOf[s]], seen |-> seenAt[UserOf[s]],
    muted |-> subs[s].muted, endpoint |-> subs[s].endpoint] :
     s \in {s \in Subs : Stored(s) /\ UserOf[s] \in us}}

Emptied(f) == IF f.todo = {} THEN [f EXCEPT !.pc = "done", !.at = NoSub] ELSE [f EXCEPT !.pc = "each", !.at = NoSub]

fanout(e) ==
  /\ fan[e].pc = "read"
  /\ fan' = [fan EXCEPT ![e] = Emptied([fan[e] EXCEPT !.todo = GetSubscriptionsForUsers(fan[e].to)])]
  /\ UNCHANGED <<changes, hour, accounts, subs, pending, browser, digest, patch, history>>

\* The count starts again when the account had looked since the last event, as
\* far as the fan-out knows.
\* A row for a subscription that is gone cannot be inserted.
CountDigest(e, x) ==
  pending' = IF ~Stored(x.s) THEN pending
             ELSE [pending EXCEPT ![x.s] =
                    [events |-> IF @.last <= x.seen THEN {e} ELSE @.events \cup {e}, last |-> hour]]

\* The transport of s is handed the events es.
Hands(es, s) == told' = [k \in Deliveries |-> told[k] + IF k[1] \in es /\ k[2] = s THEN 1 ELSE 0]

\* Mutant: every answer but success removes the subscription.
MayBeGoneOnError(x) == Transport[x.s] = "webpush"

\* Whether the answer to a send may be that the endpoint is gone.
MayBeGone(x) == Transport[x.s] = "webpush" /\ x.endpoint # browser[x.s]

\* Mutant: what is counted for the digest is sent as well.
eachSubscriptionTwice(e, x) ==
  /\ fan[e].pc = "each" /\ x \in fan[e].todo
  /\ fan' = [fan EXCEPT ![e] = Emptied([fan[e] EXCEPT !.todo = @ \ {x}])]
  /\ IF digestsIn(e.kind, x.mode) THEN CountDigest(e, x) ELSE UNCHANGED pending
  /\ Hands({e}, x.s)
  /\ UNCHANGED <<changes, hour, accounts, subs, browser, digest, patch, claims, crashes>>

eachSubscription(e, x) ==
  LET rest == [fan[e] EXCEPT !.todo = @ \ {x}]
  IN  /\ fan[e].pc = "each" /\ x \in fan[e].todo
      /\ \/ /\ x.muted \/ (~digestsIn(e.kind, x.mode) /\ ~sendsIn(e.kind, x.mode))
            /\ fan' = [fan EXCEPT ![e] = Emptied(rest)]
            /\ UNCHANGED <<pending, told>>
         \/ /\ ~x.muted /\ digestsIn(e.kind, x.mode)
            /\ CountDigest(e, x)
            /\ fan' = [fan EXCEPT ![e] = Emptied(rest)]
            /\ UNCHANGED told
         \/ /\ ~x.muted /\ ~digestsIn(e.kind, x.mode) /\ sendsIn(e.kind, x.mode)
            /\ Hands({e}, x.s)
            /\ \/ fan' = [fan EXCEPT ![e] = Emptied(rest)]
               \/ MayBeGone(x) /\ fan' = [fan EXCEPT ![e] = [rest EXCEPT !.pc = "gone", !.at = x]]
            /\ UNCHANGED pending
      /\ UNCHANGED <<changes, hour, accounts, subs, browser, digest, patch, claims, crashes>>

\* deliver: 404 or 410 removes the subscription by its id.
deliver(e) ==
  /\ fan[e].pc = "gone"
  /\ Remove(fan[e].at.s)
  /\ fan' = [fan EXCEPT ![e] = Emptied(fan[e])]
  /\ UNCHANGED <<changes, hour, accounts, browser, digest, patch, history>>

-----------------------------------------------------------------------------
(* The digest scheduler. *)

\* The digest hour of t's day, or of the day before; none is before time 0.
lastDigestAt(t) ==
  LET midnight == t - (t % Day)
  IN  IF midnight + digestHour <= t THEN midnight + digestHour
      ELSE IF midnight < Day THEN 0 ELSE midnight - Day + digestHour

GetDailyUsers(d) ==
  /\ digest[d].pc = "idle"
  /\ \E u \in Users : mode[u] = "daily"
  /\ digest' = [digest EXCEPT ![d] =
       [IdleDigest EXCEPT !.pc = "users", !.clock = hour,
          !.users = {[user |-> u, sent |-> sentAt[u]] : u \in {u \in Users : mode[u] = "daily"}}]]
  /\ UNCHANGED <<changes, hour, accounts, subs, pending, browser, fan, patch, history>>

\* On to the next account, or the end of the tick.
NextUser(g) ==
  IF g.users = {} THEN IdleDigest
  ELSE [IdleDigest EXCEPT !.pc = "users", !.clock = g.clock, !.users = g.users]

digestFor(d, x) ==
  LET g == [digest[d] EXCEPT !.users = @ \ {x}]
  IN  /\ digest[d].pc = "users" /\ x \in digest[d].users
      /\ digest' = [digest EXCEPT ![d] =
           IF lastDigestAt(g.clock) <= x.sent THEN NextUser(g)
           ELSE [g EXCEPT !.pc = "claim", !.user = x.user, !.todo = GetSubscriptionsForUsers({x.user})]]
      /\ UNCHANGED <<changes, hour, accounts, subs, pending, browser, fan, patch, history>>

\* Mutant: the claim trusts the digest_sent_at that was listed.
UnclaimedAsListed(u, due) == mode[u] = "daily"

\* The claim is for this due time: nobody has claimed since.
Unclaimed(u, due) == mode[u] = "daily" /\ sentAt[u] < due

\* What the claim returns: rows of a member with something the account has not seen.
Told(u) == {s \in Owned(u) : pending[s].events # {} /\ pending[s].last > seenAt[u] /\ u \in members}

\* The rows the claim leaves behind.
Cleared(u) == [s \in Subs |-> IF s \in Owned(u) THEN NoneCounted ELSE pending[s]]

Sent(g) == IF g.todo = {} THEN NextUser(g) ELSE [g EXCEPT !.pc = "each", !.at = NoSub]

ClaimDigest(d) ==
  LET g == digest[d]
      u == g.user
      due == lastDigestAt(g.clock)
  IN  /\ g.pc = "claim"
      /\ IF Unclaimed(u, due)
         THEN /\ sentAt' = [sentAt EXCEPT ![u] = g.clock]
              /\ pending' = Cleared(u)
              /\ claims' = [claims EXCEPT ![<<u, due>>] = @ + 1]
              /\ digest' = [digest EXCEPT ![d] =
                   Sent([g EXCEPT !.rows = {[s |-> s, events |-> pending[s].events] : s \in Told(u)},
                                  !.todo = {x \in g.todo : x.s \in Told(u) /\ ~x.muted}])]
         ELSE /\ digest' = [digest EXCEPT ![d] = NextUser(g)]
              /\ UNCHANGED <<sentAt, pending, claims>>
      /\ UNCHANGED <<changes, hour, members, mode, seenAt, subs, browser, fan, patch, told, crashes>>

sendDigest(d, x) ==
  LET g == [digest[d] EXCEPT !.todo = @ \ {x}]
  IN  /\ digest[d].pc = "each" /\ x \in digest[d].todo
      /\ Hands(UNION {r.events : r \in {r \in g.rows : r.s = x.s}}, x.s)
      /\ \/ digest' = [digest EXCEPT ![d] = Sent(g)]
         \/ MayBeGone(x) /\ digest' = [digest EXCEPT ![d] = [g EXCEPT !.pc = "gone", !.at = x]]
      /\ UNCHANGED <<changes, hour, accounts, subs, pending, browser, fan, patch, claims, crashes>>

deliverDigest(d) ==
  /\ digest[d].pc = "gone"
  /\ Remove(digest[d].at.s)
  /\ digest' = [digest EXCEPT ![d] = Sent(digest[d])]
  /\ UNCHANGED <<changes, hour, accounts, browser, fan, patch, history>>

-----------------------------------------------------------------------------

\* A process ends: its scheduler, or a fan-out, stops where it is.
Crash ==
  /\ crashes < MaxCrashes /\ crashes' = crashes + 1
  /\ \/ /\ \E d \in Schedulers : digest[d].pc # "idle" /\ digest' = [digest EXCEPT ![d] = IdleDigest]
        /\ UNCHANGED fan
     \/ /\ \E e \in Events : fan[e].pc \notin {"new", "done"} /\ fan' = [fan EXCEPT ![e] = [NewFan EXCEPT !.pc = "done"]]
        /\ UNCHANGED digest
  /\ UNCHANGED <<changes, hour, accounts, subs, pending, browser, patch, told, claims>>

HourPasses ==
  /\ hour < MaxHour /\ hour' = hour + 1
  /\ UNCHANGED <<changes, accounts, subs, pending, browser, fan, digest, patch, history>>

FanOut(e) == broadcastEvent(e) \/ fanout(e) \/ (\E x \in fan[e].todo : eachSubscription(e, x)) \/ deliver(e)
Digest(d) ==
  \/ GetDailyUsers(d) \/ (\E x \in digest[d].users : digestFor(d, x)) \/ ClaimDigest(d)
  \/ (\E x \in digest[d].todo : sendDigest(d, x)) \/ deliverDigest(d)
Client ==
  \/ \E s \in Subs : (\E muted \in BOOLEAN : CreateSubscription(s, muted)) \/ DeleteSubscription(s) \/ Rotate(s)
  \/ \E c \in Patches : ReadForUpdate(c) \/ UpdateSubscription(c)
  \/ \E u \in Users : (\E m \in Modes : UpdateNotifyMode(u, m)) 
       \/ (\E at \in 0 .. hour : UpdateNotificationsSeenAt(u, at)) \/ Leave(u)

PushNext ==
  \/ \E e \in Events : FanOut(e)
  \/ \E d \in Schedulers : Digest(d)
  \/ Client \/ Crash \/ HourPasses

PushSpec == PushInit /\ [][PushNext]_pushVars

-----------------------------------------------------------------------------
(* Properties. *)

Fans ==
  [pc: {"new", "read", "each", "gone", "done"}, to: SUBSET Users, todo: SUBSET Snapshots,
   at: Snapshots \cup {NoSub}]
Digests ==
  [pc: {"idle", "users", "claim", "each", "gone"}, users: SUBSET [user: Users, sent: Hours], clock: Hours,
   user: Users \cup {Nobody}, todo: SUBSET Snapshots, rows: SUBSET [s: Subs, events: SUBSET Events],
   at: Snapshots \cup {NoSub}]
Patchings == [pc: {"idle", "write"}, s: Subs \cup {NoSub}, endpoint: Nat, muted: BOOLEAN]

\* Every table row and position of a fan-out, a scheduler or a request is one
\* the code can produce.
PushTypeOK ==
  /\ hour \in Hours /\ changes \in 0 .. MaxChanges /\ crashes \in 0 .. MaxCrashes
  /\ members \subseteq Users
  /\ mode \in [Users -> Modes] /\ sentAt \in [Users -> Hours] /\ seenAt \in [Users -> Hours]
  /\ subs \in [Subs -> SubscriptionRows \cup {NoSub, Gone}]
  /\ pending \in [Subs -> [events: SUBSET Events, last: Hours]]
  /\ browser \in [Subs -> Nat]
  /\ fan \in [Events -> Fans] /\ digest \in [Schedulers -> Digests] /\ patch \in [Patches -> Patchings]
  /\ told \in [Deliveries -> Nat] /\ claims \in [Due -> Nat]

\* An event reaches a subscription at most once, as a push of its own or in a
\* digest: through changes of mode in mid fan-out, overlapping schedulers and
\* crashes between ClaimDigest and the sends.
NotifiedOnce == \A k \in Deliveries : told[k] <= 1

\* An account is sent one digest per due time, although the schedulers decide
\* on digest_sent_at as they listed it and other events are counted meanwhile.
OneDigestPerDue == \A k \in Due : claims[k] <= 1

\* The endpoint at which a browser listens leaves the table, other than by the
\* client's DELETE, only for one the browser had left before: by a delivery
\* whose snapshot had that older one, or by a PATCH that has it in its body or
\* had read it.
LiveEndpointKept ==
  [][\A s \in Subs : Listening(s) /\ browser' = browser /\ ~Listening(s)' =>
       \/ changes' # changes
       \/ \E e \in Events : fan[e].at # NoSub /\ fan[e].at.s = s /\ fan[e].at.endpoint < subs[s].endpoint
       \/ \E d \in Schedulers : digest[d].at # NoSub /\ digest[d].at.s = s /\ digest[d].at.endpoint < subs[s].endpoint
       \/ \E c \in Patches : patch[c].pc = "write" /\ patch[c].s = s /\ patch[c].endpoint < subs[s].endpoint]_pushVars
=============================================================================
