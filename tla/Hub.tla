-------------------------------- MODULE Hub --------------------------------
(***************************************************************************)
(* The websocket hub.  Every socket has a reader goroutine (ReadPump) and a *)
(* writer goroutine (WritePump) joined by a bounded channel, client.send;   *)
(* one goroutine (Hub.Run) receives registrations, disconnects and          *)
(* broadcasts and owns the closing of that channel.  Event handlers queue   *)
(* broadcasts after their transaction committed, and device revocations     *)
(* and identity bindings ask the hub to close sockets.                      *)
(*                                                                          *)
(* A send on a closed Go channel ends the process and a send on a full one  *)
(* blocks.  Receiving a registration and acting on it are separate steps,   *)
(* because the reader that handed it over runs on; what the hub does with   *)
(* the other messages commutes with everyone else until it touches a        *)
(* channel or a connection, and is one step.  What a message says beyond    *)
(* the event it carries is left out.                                        *)
(***************************************************************************)
EXTENDS Naturals, Sequences, FiniteSets

CONSTANTS
  Clients,              \* sockets; a reconnect is another one
  Accounts, Devices, AnyDevice,  \* AnyDevice: the empty device of Disconnect
  AccountOf, DeviceOf,  \* whose socket it is
  Apps, NoApp,
  Handlers,             \* concurrently served requests that produce events
  SendBuffer,           \* sendBufferSize
  Queue,                \* capacity of broadcast and of userBroadcast
  MaxCalls              \* bound: events, pushes, revocations and bindings together

ASSUME HubAssumption ==
  /\ AccountOf \in [Clients -> Accounts] /\ DeviceOf \in [Clients -> Devices]
  /\ NoApp \notin Apps /\ AnyDevice \notin Devices
  /\ SendBuffer \in Nat \ {0} /\ Queue \in Nat \ {0} /\ MaxCalls \in Nat

\* A message in client.send: an event of an application, with its sequence
\* number, or anything else (connected, pong, error, push, an account's own event).
Messages == [app: Apps \cup {NoApp}, seq: Nat]
Plain == [app |-> NoApp, seq |-> 0]

Broadcasts == [msg: Messages, recipients: SUBSET Accounts]
UserBroadcasts == [msg: Messages, account: Accounts]
Disconnects == [account: Accounts, device: Devices \cup {AnyDevice}]

\* A registration or its end that Hub.Run has received and not yet handled.
Jobs == [op: {"none"}] \cup [op: {"register", "unregister"}, client: Clients]
NoJob == [op |-> "none"]

\* A request that broadcasts: the event it committed, the account whose
\* removal it is, the recipients read, and the accounts of the user fan-out.
HandlerStates ==
  [pc: {"idle", "members", "queue", "fanRead", "fan"}, msg: Messages,
   removed: SUBSET Accounts, fanout: BOOLEAN, to: SUBSET Accounts]
IdleHandler ==
  [pc |-> "idle", msg |-> Plain, removed |-> {}, fanout |-> FALSE, to |-> {}]

VARIABLES
  clients,     \* h.clients; h.byUser holds the same sockets by account
  byApp,       \* h.byApp, the subscribers of each application
  subs,        \* client.subscriptions
  send,        \* client.send
  closed,      \* sockets whose client.send is closed
  conn,        \* sockets whose connection is open
  reader,      \* what each socket's handler and ReadPump do next ...
  frame,       \* ... and the application of the frame being handled
  writer,      \* WritePump
  job,         \* Hub.Run
  broadcast, userBroadcast,
  disconnect,  \* callers of Disconnect waiting for the hub
  revoked,     \* revoked devices
  members,     \* members rows
  last, left,  \* last event of each application; the event that removed each account
  handler,
  calls        \* calls so far, for the bound

sockets == <<subs, send, closed, conn, reader, frame, writer>>
queues == <<broadcast, userBroadcast, disconnect>>
rows == <<revoked, members, last, left>>
vars == <<clients, byApp, sockets, job, queues, rows, handler, calls>>

Readers == {"new", "register", "hello", "read", "check", "subscribe", "reply", "unregister", "done"}
TypeOK ==
  /\ clients \subseteq Clients
  /\ byApp \in [Apps -> SUBSET Clients]
  /\ subs \in [Clients -> SUBSET Apps]
  /\ send \in [Clients -> Seq(Messages)]
  /\ \A c \in Clients : Len(send[c]) <= SendBuffer
  /\ closed \subseteq Clients /\ conn \subseteq Clients
  /\ reader \in [Clients -> Readers]
  /\ frame \in [Clients -> Apps \cup {NoApp}]
  /\ writer \in [Clients -> {"new", "run", "done"}]
  /\ job \in Jobs
  /\ broadcast \in Seq(Broadcasts) /\ Len(broadcast) <= Queue
  /\ userBroadcast \in Seq(UserBroadcasts) /\ Len(userBroadcast) <= Queue
  /\ disconnect \subseteq Disconnects
  /\ revoked \subseteq Devices
  /\ members \in [Apps -> SUBSET Accounts]
  /\ last \in [Apps -> 0..MaxCalls]
  /\ left \in [Apps -> [Accounts -> 0..MaxCalls]]
  /\ handler \in [Handlers -> HandlerStates]
  /\ calls \in 0..MaxCalls

Init ==
  /\ clients = {} /\ byApp = [a \in Apps |-> {}]
  /\ subs = [c \in Clients |-> {}] /\ send = [c \in Clients |-> <<>>]
  /\ closed = {} /\ conn = {}
  /\ reader = [c \in Clients |-> "new"] /\ frame = [c \in Clients |-> NoApp]
  /\ writer = [c \in Clients |-> "new"]
  /\ job = NoJob
  /\ broadcast = <<>> /\ userBroadcast = <<>> /\ disconnect = {}
  /\ revoked = {} /\ members = [a \in Apps |-> Accounts]
  /\ last = [a \in Apps |-> 0] /\ left = [a \in Apps |-> [k \in Accounts |-> 0]]
  /\ handler = [h \in Handlers |-> IdleHandler]
  /\ calls = 0

-----------------------------------------------------------------------------
(* The handler of a socket and its ReadPump. *)

At(c, pc) == reader[c] = pc
Goto(c, pc) == reader' = [reader EXCEPT ![c] = pc]

\* ValidateJWT accepts the token of a device that is not revoked, and the
\* connection is upgraded.
Connect(c) ==
  /\ At(c, "new")
  /\ DeviceOf[c] \notin revoked
  /\ conn' = conn \cup {c}
  /\ Goto(c, "register")
  /\ UNCHANGED <<clients, byApp, subs, send, closed, frame, writer, job, queues, rows, handler, calls>>

\* Register and Unregister hand the client to an idle hub and go on; after
\* Unregister the handler's deferred Close closes the connection.
Register(c) ==
  /\ At(c, "register") /\ job = NoJob
  /\ job' = [op |-> "register", client |-> c]
  /\ Goto(c, "hello")
  /\ UNCHANGED <<clients, byApp, subs, send, closed, conn, frame, writer, queues, rows, handler, calls>>

Unregister(c) ==
  /\ At(c, "unregister") /\ job = NoJob
  /\ job' = [op |-> "unregister", client |-> c]
  /\ conn' = conn \ {c}
  /\ Goto(c, "done")
  /\ UNCHANGED <<clients, byApp, subs, send, closed, frame, writer, queues, rows, handler, calls>>

\* A blocking send to the socket's own channel.
Push(c, m) ==
  /\ Len(send[c]) < SendBuffer
  /\ send' = [send EXCEPT ![c] = Append(@, m)]

\* The connected message, and the start of the two pumps.
Hello(c) ==
  /\ At(c, "hello")
  /\ Push(c, Plain)
  /\ writer' = [writer EXCEPT ![c] = "run"]
  /\ Goto(c, "read")
  /\ UNCHANGED <<clients, byApp, subs, closed, conn, frame, job, queues, rows, handler, calls>>

\* A frame arrives.  A ping is answered, a subscription asks for the
\* membership first, an unsubscription is done at once.
Ping(c) ==
  /\ At(c, "read") /\ c \in conn
  /\ Goto(c, "reply")
  /\ UNCHANGED <<clients, byApp, subs, send, closed, conn, frame, writer, job, queues, rows, handler, calls>>

AskSubscribe(c, app) ==
  /\ At(c, "read") /\ c \in conn
  /\ frame' = [frame EXCEPT ![c] = app]
  /\ Goto(c, "check")
  /\ UNCHANGED <<clients, byApp, subs, send, closed, conn, writer, job, queues, rows, handler, calls>>

Unsubscribe(c, app) ==
  /\ At(c, "read") /\ c \in conn
  /\ subs' = [subs EXCEPT ![c] = @ \ {app}]
  /\ byApp' = [byApp EXCEPT ![app] = @ \ {c}]
  /\ UNCHANGED <<clients, send, closed, conn, reader, frame, writer, job, queues, rows, handler, calls>>

\* IsMember answers FALSE or fails, and an error is sent ...
Refuse(c) ==
  /\ At(c, "check")
  /\ Goto(c, "reply")
  /\ frame' = [frame EXCEPT ![c] = NoApp]
  /\ UNCHANGED <<clients, byApp, subs, send, closed, conn, writer, job, queues, rows, handler, calls>>

\* ... or TRUE.  The subscription is entered after the answer, whatever
\* happens to the membership in between; the recipients of each broadcast
\* are what keeps a former member out.
IsMember(c) ==
  /\ At(c, "check")
  /\ AccountOf[c] \in members[frame[c]]
  /\ Goto(c, "subscribe")
  /\ UNCHANGED <<clients, byApp, subs, send, closed, conn, frame, writer, job, queues, rows, handler, calls>>

Subscribe(c) ==
  /\ At(c, "subscribe")
  /\ subs' = [subs EXCEPT ![c] = @ \cup {frame[c]}]
  /\ byApp' = [byApp EXCEPT ![frame[c]] = @ \cup {c}]
  /\ frame' = [frame EXCEPT ![c] = NoApp]
  /\ Goto(c, "read")
  /\ UNCHANGED <<clients, send, closed, conn, writer, job, queues, rows, handler, calls>>

Reply(c) ==
  /\ At(c, "reply")
  /\ Push(c, Plain)
  /\ Goto(c, "read")
  /\ UNCHANGED <<clients, byApp, subs, closed, conn, frame, writer, job, queues, rows, handler, calls>>

\* Mutant: ReadPump returns without its deferred Unregister.
ReadFailsSilently(c) ==
  /\ At(c, "read")
  /\ Goto(c, "done")
  /\ UNCHANGED <<clients, byApp, subs, send, closed, conn, frame, writer, job, queues, rows, handler, calls>>

\* ReadJSON fails: the connection is closed, or no pong came for a minute.
ReadFails(c) ==
  /\ At(c, "read")
  /\ Goto(c, "unregister")
  /\ UNCHANGED <<clients, byApp, subs, send, closed, conn, frame, writer, job, queues, rows, handler, calls>>

\* The other side goes away.
PeerCloses(c) ==
  /\ c \in conn
  /\ conn' = conn \ {c}
  /\ UNCHANGED <<clients, byApp, subs, send, closed, reader, frame, writer, job, queues, rows, handler, calls>>

-----------------------------------------------------------------------------
(* WritePump. *)

\* It writes the next message ...
Write(c) ==
  /\ writer[c] = "run" /\ send[c] # <<>> /\ c \in conn
  /\ send' = [send EXCEPT ![c] = Tail(@)]
  /\ UNCHANGED <<clients, byApp, subs, closed, conn, reader, frame, writer, job, queues, rows, handler, calls>>

\* ... and returns when a write or a ping fails or times out, with the
\* message it had taken, or when the channel is closed and drained.
WriterReturns(c) ==
  /\ writer[c] = "run"
  /\ writer' = [writer EXCEPT ![c] = "done"]
  /\ conn' = conn \ {c}
  /\ \/ UNCHANGED send
     \/ send[c] # <<>> /\ send' = [send EXCEPT ![c] = Tail(@)]
  /\ UNCHANGED <<clients, byApp, subs, closed, reader, frame, job, queues, rows, handler, calls>>

-----------------------------------------------------------------------------
(* Hub.Run. *)

RegisterClient ==
  /\ job.op = "register"
  /\ clients' = clients \cup {job.client}
  /\ job' = NoJob
  /\ UNCHANGED <<byApp, sockets, queues, rows, handler, calls>>

\* The client leaves h.clients and h.byUser, its channel is closed and it
\* leaves the subscribers of the applications client.subscriptions names.
UnregisterClient ==
  /\ job.op = "unregister"
  /\ job' = NoJob
  /\ IF job.client \in clients
     THEN /\ clients' = clients \ {job.client}
          /\ closed' = closed \cup {job.client}
          /\ byApp' = [a \in Apps |->
                         IF a \in subs[job.client] THEN byApp[a] \ {job.client} ELSE byApp[a]]
     ELSE UNCHANGED <<clients, closed, byApp>>
  /\ UNCHANGED <<subs, send, conn, reader, frame, writer, queues, rows, handler, calls>>

\* h.byUser: the registered sockets of an account.
ByUser(k) == {c \in clients : AccountOf[c] = k}

\* Mutant: a disconnect also closes the channel and drops the client.
DisconnectClosesSend ==
  /\ job = NoJob
  /\ \E d \in disconnect :
       LET gone == {c \in ByUser(d.account) : d.device \in {AnyDevice, DeviceOf[c]}} IN
       /\ disconnect' = disconnect \ {d}
       /\ conn' = conn \ gone
       /\ closed' = closed \cup gone
       /\ clients' = clients \ gone
  /\ UNCHANGED <<byApp, subs, send, reader, frame, writer, job, broadcast, userBroadcast, rows, handler, calls>>

\* Mutant: the empty device is taken for a device.
DisconnectOneDevice ==
  /\ job = NoJob
  /\ \E d \in disconnect :
       /\ disconnect' = disconnect \ {d}
       /\ conn' = conn \ {c \in ByUser(d.account) : d.device = DeviceOf[c]}
  /\ UNCHANGED <<clients, byApp, subs, send, closed, reader, frame, writer, job, broadcast, userBroadcast, rows, handler, calls>>

\* The connections are closed, not the channels: ReadPump may still send.
DisconnectClients ==
  /\ job = NoJob
  /\ \E d \in disconnect :
       /\ disconnect' = disconnect \ {d}
       /\ conn' = conn \ {c \in ByUser(d.account) : d.device \in {AnyDevice, DeviceOf[c]}}
  /\ UNCHANGED <<clients, byApp, subs, send, closed, reader, frame, writer, job, broadcast, userBroadcast, rows, handler, calls>>

\* A send that never blocks: a full channel loses the message.
Offer(to, m) ==
  [c \in Clients |-> IF c \in to /\ Len(send[c]) < SendBuffer THEN Append(send[c], m) ELSE send[c]]

\* Mutant: every subscriber is sent the event.
AudienceSubscribed(b) == byApp[b.msg.app]

\* The subscribers of the message's application whose account is a recipient.
Audience(b) == {c \in byApp[b.msg.app] : AccountOf[c] \in b.recipients}

BroadcastToApp ==
  /\ job = NoJob /\ broadcast # <<>>
  /\ broadcast' = Tail(broadcast)
  /\ send' = Offer(Audience(Head(broadcast)), Head(broadcast).msg)
  /\ UNCHANGED <<clients, byApp, subs, closed, conn, reader, frame, writer, job, userBroadcast, disconnect, rows, handler, calls>>

\* Mutant: the hub waits for room in every socket's buffer.
BroadcastToUserBlocking ==
  /\ job = NoJob /\ userBroadcast # <<>>
  /\ \A c \in ByUser(Head(userBroadcast).account) : Len(send[c]) < SendBuffer
  /\ userBroadcast' = Tail(userBroadcast)
  /\ send' = Offer(ByUser(Head(userBroadcast).account), Head(userBroadcast).msg)
  /\ UNCHANGED <<clients, byApp, subs, closed, conn, reader, frame, writer, job, broadcast, disconnect, rows, handler, calls>>

BroadcastToUser ==
  /\ job = NoJob /\ userBroadcast # <<>>
  /\ userBroadcast' = Tail(userBroadcast)
  /\ send' = Offer(ByUser(Head(userBroadcast).account), Head(userBroadcast).msg)
  /\ UNCHANGED <<clients, byApp, subs, closed, conn, reader, frame, writer, job, broadcast, disconnect, rows, handler, calls>>

-----------------------------------------------------------------------------
(* The callers: event handlers, the push service, revocations and bindings. *)

Call == calls < MaxCalls /\ calls' = calls + 1

\* The push service offers a payload to a device's sockets, beside the hub's
\* goroutine and under the lock that also guards the closing of channels.
SendPush(k, d) ==
  /\ Call
  /\ send' = Offer({c \in ByUser(k) : DeviceOf[c] = d}, Plain)
  /\ UNCHANGED <<clients, byApp, subs, closed, conn, reader, frame, writer, job, queues, rows, handler>>

\* An event commits and gets the next sequence number: of an edit, of the
\* removal or the joining of a member, or one that fans out to every member's
\* own channel (application_deleted and application_moved).
Commit(h, app, kind, k) ==
  /\ Call /\ handler[h].pc = "idle"
  /\ kind = "removed" => k \in members[app]
  /\ kind = "added" => k \notin members[app]
  /\ last' = [last EXCEPT ![app] = @ + 1]
  /\ members' = [members EXCEPT ![app] =
       IF kind = "removed" THEN @ \ {k} ELSE IF kind = "added" THEN @ \cup {k} ELSE @]
  /\ left' = [left EXCEPT ![app][k] = IF kind = "removed" THEN last[app] + 1 ELSE @]
  /\ handler' = [handler EXCEPT ![h] =
       [pc |-> "members", msg |-> [app |-> app, seq |-> last[app] + 1],
        removed |-> IF kind = "removed" THEN {k} ELSE {}, fanout |-> kind = "deleted", to |-> {}]]
  /\ UNCHANGED <<clients, byApp, sockets, job, queues, revoked>>

\* An account's own event goes to its sockets only.
CommitOwn(h, k) ==
  /\ Call /\ handler[h].pc = "idle"
  /\ handler' = [handler EXCEPT ![h] = [IdleHandler EXCEPT !.pc = "fan", !.to = {k}]]
  /\ UNCHANGED <<clients, byApp, sockets, job, queues, rows>>

Proceed(h, pc, to) ==
  handler' = [handler EXCEPT ![h] =
    IF pc = "idle" THEN IdleHandler ELSE [@ EXCEPT !.pc = pc, !.to = to]]
AfterBroadcast(h) == IF handler[h].fanout THEN "fanRead" ELSE "idle"

\* BroadcastToApplication reads the recipients, the removed account among
\* them; without an answer it drops the broadcast.
ReadRecipients(h) ==
  /\ handler[h].pc = "members"
  /\ \/ Proceed(h, "queue", members[handler[h].msg.app] \cup handler[h].removed)
     \/ Proceed(h, AfterBroadcast(h), {})
  /\ UNCHANGED <<clients, byApp, sockets, job, queues, rows, calls>>

\* It waits for room in the channel.
QueueBroadcast(h) ==
  /\ handler[h].pc = "queue" /\ Len(broadcast) < Queue
  /\ broadcast' = Append(broadcast, [msg |-> handler[h].msg, recipients |-> handler[h].to])
  /\ Proceed(h, AfterBroadcast(h), {})
  /\ UNCHANGED <<clients, byApp, sockets, job, userBroadcast, disconnect, rows, calls>>

\* broadcastEvent reads the members again for the fan-out; on an error there
\* is none.
ReadFanout(h) ==
  /\ handler[h].pc = "fanRead"
  /\ \/ Proceed(h, "fan", members[handler[h].msg.app])
     \/ Proceed(h, "idle", {})
  /\ UNCHANGED <<clients, byApp, sockets, job, queues, rows, calls>>

\* One member after the other, waiting for room.
FanOut(h) ==
  /\ handler[h].pc = "fan"
  /\ \/ /\ handler[h].to = {} /\ Proceed(h, "idle", {})
        /\ UNCHANGED userBroadcast
     \/ \E k \in handler[h].to :
          /\ Len(userBroadcast) < Queue
          /\ userBroadcast' = Append(userBroadcast, [msg |-> handler[h].msg, account |-> k])
          /\ Proceed(h, "fan", handler[h].to \ {k})
  /\ UNCHANGED <<clients, byApp, sockets, job, broadcast, disconnect, rows, calls>>

\* A device is revoked, and its sockets are to be closed.
RevokeDevice(k, d) ==
  /\ Call
  /\ \E c \in Clients : AccountOf[c] = k /\ DeviceOf[c] = d
  /\ d \notin revoked
  /\ revoked' = revoked \cup {d}
  /\ disconnect' = disconnect \cup {[account |-> k, device |-> d]}
  /\ UNCHANGED <<clients, byApp, sockets, job, broadcast, userBroadcast, members, last, left, handler>>

\* A newer identity binding closes all sockets of the account.
AcceptBinding(k) ==
  /\ Call
  /\ disconnect' = disconnect \cup {[account |-> k, device |-> AnyDevice]}
  /\ UNCHANGED <<clients, byApp, sockets, job, broadcast, userBroadcast, rows, handler>>

-----------------------------------------------------------------------------
Reader(c) ==
  \/ Connect(c) \/ Register(c) \/ Hello(c) \/ Refuse(c) \/ IsMember(c) \/ Subscribe(c) \/ Reply(c)
  \/ ReadFails(c) \/ Unregister(c)
  \/ Ping(c) \/ \E app \in Apps : AskSubscribe(c, app) \/ Unsubscribe(c, app)

Run == RegisterClient \/ UnregisterClient \/ DisconnectClients \/ BroadcastToApp \/ BroadcastToUser

Handler(h) ==
  \/ \E app \in Apps, k \in Accounts, kind \in {"edit", "removed", "added", "deleted"} :
       Commit(h, app, kind, k)
  \/ \E k \in Accounts : CommitOwn(h, k)
  \/ ReadRecipients(h) \/ QueueBroadcast(h) \/ ReadFanout(h) \/ FanOut(h)

Next ==
  \/ \E c \in Clients : Reader(c) \/ Write(c) \/ WriterReturns(c) \/ PeerCloses(c)
  \/ Run
  \/ \E h \in Handlers : Handler(h)
  \/ \E k \in Accounts, d \in Devices : SendPush(k, d) \/ RevokeDevice(k, d)
  \/ \E k \in Accounts : AcceptBinding(k)

Spec == Init /\ [][Next]_vars

\* What a goroutine does without waiting for its peer or its client.
ReaderGoesOn(c) ==
  \/ Register(c) \/ Hello(c) \/ Refuse(c) \/ IsMember(c) \/ Subscribe(c) \/ Reply(c)
  \/ Unregister(c) \/ (c \notin conn /\ ReadFails(c))
WriterGoesOn(c) ==
  \/ send[c] # <<>> /\ (Write(c) \/ WriterReturns(c))
  \/ (c \notin conn \/ c \in closed) /\ WriterReturns(c)

\* Every goroutine goes on while it can.  The hub's select takes a ready case
\* at random and a Go channel serves its waiting senders in order, so whoever
\* waits on one is served once it keeps being ready.  A write returns within
\* its deadline.  A frame, an event, a revocation or the end of a peer may
\* never come.
FairSpec ==
  /\ Spec
  /\ \A c \in Clients : SF_vars(ReaderGoesOn(c)) /\ WF_vars(WriterGoesOn(c))
  /\ WF_vars(RegisterClient \/ UnregisterClient)
  /\ SF_vars(DisconnectClients) /\ SF_vars(BroadcastToApp) /\ SF_vars(BroadcastToUser)
  /\ \A h \in Handlers :
       SF_vars(ReadRecipients(h) \/ QueueBroadcast(h) \/ ReadFanout(h) \/ FanOut(h))

-----------------------------------------------------------------------------
(* Properties. *)

\* Nothing can be sent to a closed client.send, which would end the process:
\* when unregisterClient closes it, ReadPump has returned and neither the
\* hub's maps nor a subscription lead to the client any more.
SendsToOpen ==
  \A c \in closed :
    /\ reader[c] = "done" /\ c \notin clients
    /\ \A a \in Apps : c \notin byApp[a]
    /\ job.op = "register" => job.client # c

\* No socket of an account that left an application is sent an event that
\* committed after the leaving, although its subscription outlives the
\* membership (BroadcastToApplication).
LeaversHearNothingLater ==
  \A c \in Clients : \A i \in DOMAIN send[c] :
    LET m == send[c][i] IN
    m.app # NoApp =>
      \/ AccountOf[c] \in members[m.app]
      \/ m.seq <= left[m.app][AccountOf[c]]

\* A request that broadcasts is not held up for ever: the hub never waits for
\* a socket (the default branches of broadcastToApp and broadcastToUser).
BroadcastsEnd == \A h \in Handlers : handler[h].pc # "idle" ~> handler[h].pc = "idle"

\* A goroutine that waits to send while nobody drains its channel any more.
Stuck(c) ==
  /\ reader[c] \in {"hello", "reply"} /\ writer[c] # "run"
  /\ Len(send[c]) = SendBuffer

\* A socket whose connection is gone leaves the hub, except when its reader
\* waits to answer a frame while the buffer is full and the writer has given up.
SocketsEnd ==
  \A c \in Clients :
    (reader[c] # "new" /\ c \notin conn) ~> (reader[c] = "done" /\ c \notin clients) \/ Stuck(c)

\* A disconnect requested while a socket is registered closes its connection
\* (Disconnect, also with the empty device).
DisconnectReaches ==
  \A c \in Clients :
    (c \in clients /\ \E d \in disconnect :
       d.account = AccountOf[c] /\ d.device \in {AnyDevice, DeviceOf[c]}) ~> c \notin conn
=============================================================================
