----------------------------- MODULE HubProofs -----------------------------
(***************************************************************************)
(* The hub never lets anyone send on a closed channel, and no socket hears  *)
(* of an event its account may not, for any number of sockets, applications, *)
(* requests and any buffer sizes.                                           *)
(***************************************************************************)
EXTENDS Hub, TLAPS

\* The types the argument needs; a subscription is of a real application.
Types ==
  /\ clients \subseteq Clients /\ closed \subseteq Clients
  /\ byApp \in [Apps -> SUBSET Clients]
  /\ subs \in [Clients -> SUBSET Apps]
  /\ reader \in [Clients -> Readers]
  /\ frame \in [Clients -> Apps \cup {NoApp}]
  /\ job \in Jobs
  /\ \A c \in Clients : reader[c] \in {"check", "subscribe"} => frame[c] \in Apps

\* While the hub handles a registration the reader has not returned, since the
\* hub must be idle to take the reader's Unregister; while it handles an end
\* the reader has; and a client is a subscriber only of
\* what its own subscriptions name, which is what unregisterClient removes.
JobOrder ==
  /\ \A c \in Clients : job = [op |-> "register", client |-> c] => reader[c] # "done" /\ c \notin closed
  /\ \A c \in Clients : job = [op |-> "unregister", client |-> c] => reader[c] = "done"
SubscriptionsKnown == \A a \in Apps : \A c \in byApp[a] : a \in subs[c]
ClosedGone ==
  \A c \in closed : reader[c] = "done" /\ c \notin clients /\ \A a \in Apps : c \notin byApp[a]

ClosingInv == Types /\ JobOrder /\ SubscriptionsKnown /\ ClosedGone

\* What ClosingInv speaks of; a step that leaves it alone preserves it.
closing == <<clients, closed, byApp, subs, reader, frame, job>>

-----------------------------------------------------------------------------
\* Writers, broadcasts, pushes, disconnects, requests and peers change neither
\* the hub's maps, nor a channel's end, nor what a reader does.
LEMMA Untouched ==
  ASSUME ClosingInv, UNCHANGED closing
  PROVE  ClosingInv'
BY DEF ClosingInv, Types, JobOrder, SubscriptionsKnown, ClosedGone, closing

\* A reader that is not at its end goes on to anything but its end.
LEMMA ReaderMoves ==
  ASSUME ClosingInv, NEW c \in Clients, NEW pc \in Readers \ {"done", "check", "subscribe"},
         reader[c] # "done", Goto(c, pc),
         UNCHANGED <<clients, closed, byApp, subs, job>>,
         frame' = frame \/ frame' = [frame EXCEPT ![c] = NoApp]
  PROVE  ClosingInv'
BY DEF ClosingInv, Types, JobOrder, SubscriptionsKnown, ClosedGone, Goto

\* Register hands the hub a client whose channel is open.
LEMMA RegisterStep ==
  ASSUME ClosingInv, NEW c \in Clients, Register(c)
  PROVE  ClosingInv'
<1>1. reader[c] = "register" /\ job' = [op |-> "register", client |-> c]
      /\ reader' = [reader EXCEPT ![c] = "hello"]
      /\ UNCHANGED <<clients, closed, byApp, subs, frame>>
  BY DEF Register, At, Goto
<1>2. Types'
  BY <1>1 DEF ClosingInv, Types, Readers, Jobs
<1>3. JobOrder'
  BY <1>1 DEF ClosingInv, Types, JobOrder, ClosedGone, Jobs
<1>4. SubscriptionsKnown' /\ ClosedGone'
  BY <1>1 DEF ClosingInv, Types, SubscriptionsKnown, ClosedGone
<1> QED
  BY <1>2, <1>3, <1>4 DEF ClosingInv

\* Unregister is the reader's last step.
LEMMA UnregisterStep ==
  ASSUME ClosingInv, NEW c \in Clients, Unregister(c)
  PROVE  ClosingInv'
<1>1. reader[c] = "unregister" /\ job' = [op |-> "unregister", client |-> c]
      /\ reader' = [reader EXCEPT ![c] = "done"]
      /\ UNCHANGED <<clients, closed, byApp, subs, frame>>
  BY DEF Unregister, At, Goto
<1>2. Types'
  BY <1>1 DEF ClosingInv, Types, Readers, Jobs
<1>3. JobOrder'
  BY <1>1 DEF ClosingInv, Types, JobOrder, Jobs
<1>4. SubscriptionsKnown' /\ ClosedGone'
  BY <1>1 DEF ClosingInv, Types, SubscriptionsKnown, ClosedGone
<1> QED
  BY <1>2, <1>3, <1>4 DEF ClosingInv

\* A subscription only asks; an unsubscription takes the client out of both maps.
LEMMA FrameSteps ==
  ASSUME ClosingInv, NEW c \in Clients, NEW app \in Apps, AskSubscribe(c, app) \/ Unsubscribe(c, app)
  PROVE  ClosingInv'
<1>1. CASE AskSubscribe(c, app)
  <2>1. reader[c] = "read" /\ reader' = [reader EXCEPT ![c] = "check"]
        /\ frame' = [frame EXCEPT ![c] = app] /\ UNCHANGED <<clients, closed, byApp, subs, job>>
    BY <1>1 DEF AskSubscribe, At, Goto
  <2> QED
    BY <2>1 DEF ClosingInv, Types, JobOrder, SubscriptionsKnown, ClosedGone, Readers
<1>2. CASE Unsubscribe(c, app)
  <2>1. subs' = [subs EXCEPT ![c] = @ \ {app}] /\ byApp' = [byApp EXCEPT ![app] = @ \ {c}]
        /\ UNCHANGED <<clients, closed, reader, frame, job>>
    BY <1>2 DEF Unsubscribe
  <2>2. Types'
    BY <2>1 DEF ClosingInv, Types
  <2>3. SubscriptionsKnown'
    BY <2>1 DEF ClosingInv, Types, SubscriptionsKnown
  <2>4. JobOrder' /\ ClosedGone'
    BY <2>1 DEF ClosingInv, Types, JobOrder, ClosedGone
  <2> QED
    BY <2>2, <2>3, <2>4 DEF ClosingInv
<1> QED
  BY <1>1, <1>2

\* A client that subscribes is entered on both sides and has an open channel.
LEMMA SubscribeSteps ==
  ASSUME ClosingInv, NEW c \in Clients, IsMember(c) \/ Subscribe(c)
  PROVE  ClosingInv'
<1>1. CASE IsMember(c)
  <2>1. reader[c] = "check" /\ reader' = [reader EXCEPT ![c] = "subscribe"]
        /\ UNCHANGED <<clients, closed, byApp, subs, frame, job>>
    BY <1>1 DEF IsMember, At, Goto
  <2> QED
    BY <2>1 DEF ClosingInv, Types, JobOrder, SubscriptionsKnown, ClosedGone, Readers
<1>2. CASE Subscribe(c)
  <2>1. reader[c] = "subscribe" /\ reader' = [reader EXCEPT ![c] = "read"]
        /\ subs' = [subs EXCEPT ![c] = @ \cup {frame[c]}]
        /\ byApp' = [byApp EXCEPT ![frame[c]] = @ \cup {c}]
        /\ frame' = [frame EXCEPT ![c] = NoApp]
        /\ UNCHANGED <<clients, closed, job>>
    BY <1>2 DEF Subscribe, At, Goto
  <2>2. frame[c] \in Apps /\ c \notin closed
    BY <2>1 DEF ClosingInv, Types, ClosedGone
  <2>3. Types'
    BY <2>1, <2>2 DEF ClosingInv, Types, Readers
  <2>4. JobOrder'
    BY <2>1 DEF ClosingInv, Types, JobOrder
  <2>5. SubscriptionsKnown'
    BY <2>1, <2>2 DEF ClosingInv, Types, SubscriptionsKnown
  <2>6. ClosedGone'
    BY <2>1, <2>2 DEF ClosingInv, Types, ClosedGone
  <2> QED
    BY <2>3, <2>4, <2>5, <2>6 DEF ClosingInv
<1> QED
  BY <1>1, <1>2

\* registerClient and unregisterClient keep the order in which channels close.
LEMMA HubSteps ==
  ASSUME ClosingInv, RegisterClient \/ UnregisterClient
  PROVE  ClosingInv'
<1>1. CASE RegisterClient
  <2>1. PICK c \in Clients : job = [op |-> "register", client |-> c]
    BY <1>1 DEF RegisterClient, ClosingInv, Types, Jobs
  <2>2. c \notin closed /\ clients' = clients \cup {c} /\ job' = NoJob
        /\ UNCHANGED <<closed, byApp, subs, reader, frame>>
    BY <1>1, <2>1 DEF RegisterClient, ClosingInv, JobOrder, sockets
  <2>3. Types' /\ JobOrder'
    BY <2>2 DEF ClosingInv, Types, JobOrder, Jobs, NoJob
  <2>4. SubscriptionsKnown' /\ ClosedGone'
    BY <2>2 DEF ClosingInv, SubscriptionsKnown, ClosedGone
  <2> QED
    BY <2>3, <2>4 DEF ClosingInv
<1>2. CASE UnregisterClient
  <2>1. PICK c \in Clients : job = [op |-> "unregister", client |-> c]
    BY <1>2 DEF UnregisterClient, ClosingInv, Types, Jobs
  <2>2. reader[c] = "done" /\ job' = NoJob /\ UNCHANGED <<subs, reader, frame>>
    BY <1>2, <2>1 DEF UnregisterClient, ClosingInv, JobOrder
  <2>3. CASE c \notin clients
    <3>1. UNCHANGED <<clients, closed, byApp>>
      BY <1>2, <2>1, <2>3 DEF UnregisterClient
    <3> QED
      BY <2>2, <3>1 DEF ClosingInv, Types, JobOrder, SubscriptionsKnown, ClosedGone, Jobs, NoJob
  <2>4. CASE c \in clients
    <3>1. clients' = clients \ {c} /\ closed' = closed \cup {c}
          /\ byApp' = [a \in Apps |-> IF a \in subs[c] THEN byApp[a] \ {c} ELSE byApp[a]]
      BY <1>2, <2>1, <2>4 DEF UnregisterClient
    <3>2. \A a \in Apps : byApp'[a] \subseteq byApp[a] /\ c \notin byApp'[a]
      BY <3>1 DEF ClosingInv, Types, SubscriptionsKnown
    <3>3. Types'
      BY <2>2, <3>1 DEF ClosingInv, Types, Jobs, NoJob
    <3>4. JobOrder'
      BY <2>2 DEF JobOrder, NoJob
    <3>5. SubscriptionsKnown' /\ ClosedGone'
      BY <2>2, <3>1, <3>2 DEF ClosingInv, SubscriptionsKnown, ClosedGone
    <3> QED
      BY <3>3, <3>4, <3>5 DEF ClosingInv
  <2> QED
    BY <2>3, <2>4
<1> QED
  BY <1>1, <1>2

-----------------------------------------------------------------------------
\* ClosingInv holds in every state.
THEOREM ClosingOrdered == Spec => []ClosingInv
<1>1. Init => ClosingInv
  BY DEF Init, ClosingInv, Types, JobOrder, SubscriptionsKnown, ClosedGone, Readers, Jobs, NoJob
<1>2. ClosingInv /\ [Next]_vars => ClosingInv'
  <2> SUFFICES ASSUME ClosingInv, [Next]_vars PROVE ClosingInv'
    OBVIOUS
  <2>1. ASSUME NEW c \in Clients, Connect(c) \/ Hello(c) \/ Refuse(c) \/ Reply(c) \/ ReadFails(c) \/ Ping(c)
        PROVE  ClosingInv'
    <3>1. PICK pc \in {"register", "read", "reply", "unregister"} :
            /\ reader[c] # "done" /\ Goto(c, pc)
            /\ UNCHANGED <<clients, closed, byApp, subs, job>>
            /\ frame' = frame \/ frame' = [frame EXCEPT ![c] = NoApp]
      BY <2>1 DEF Connect, Hello, Refuse, Reply, ReadFails, Ping, At
    <3>2. pc \in Readers \ {"done", "check", "subscribe"}
      BY DEF Readers
    <3> QED
      BY <3>1, <3>2, ReaderMoves
  <2>2. ASSUME NEW c \in Clients, Register(c) \/ Unregister(c) PROVE ClosingInv'
    BY <2>2, RegisterStep, UnregisterStep
  <2>3. ASSUME NEW c \in Clients, IsMember(c) \/ Subscribe(c) PROVE ClosingInv'
    BY <2>3, SubscribeSteps
  <2>4. ASSUME NEW c \in Clients, Write(c) \/ WriterReturns(c) \/ PeerCloses(c) PROVE ClosingInv'
    BY <2>4, Untouched DEF Write, WriterReturns, PeerCloses, closing
  <2>5. CASE DisconnectClients \/ BroadcastToApp \/ BroadcastToUser
    BY <2>5, Untouched DEF DisconnectClients, BroadcastToApp, BroadcastToUser, closing
  <2>6. ASSUME NEW h \in Handlers, Handler(h) PROVE ClosingInv'
    BY <2>6, Untouched DEF Handler, Commit, CommitOwn, ReadRecipients, QueueBroadcast, ReadFanout,
                           FanOut, sockets, closing
  <2>7. ASSUME NEW k \in Accounts, NEW d \in Devices, SendPush(k, d) \/ RevokeDevice(k, d)
        PROVE  ClosingInv'
    BY <2>7, Untouched DEF SendPush, RevokeDevice, sockets, closing
  <2>8. ASSUME NEW k \in Accounts, AcceptBinding(k) PROVE ClosingInv'
    BY <2>8, Untouched DEF AcceptBinding, sockets, closing
  <2>9. CASE UNCHANGED vars
    BY <2>9, Untouched DEF vars, sockets, closing
  <2> QED
    BY <2>1, <2>2, <2>3, <2>4, <2>5, <2>6, <2>7, <2>8, <2>9, FrameSteps, HubSteps
       DEF Next, Reader, Run
<1> QED
  BY <1>1, <1>2, PTL DEF Spec

\* No goroutine can send on a closed client.send, however many sockets,
\* requests and revocations there are.
THEOREM NoSendOnClosed == Spec => []SendsToOpen
<1>1. ClosingInv => SendsToOpen
  <2> SUFFICES ASSUME ClosingInv, NEW c \in closed
               PROVE  /\ reader[c] = "done" /\ c \notin clients
                      /\ \A a \in Apps : c \notin byApp[a]
                      /\ job.op = "register" => job.client # c
    BY DEF SendsToOpen
  <2>1. reader[c] = "done" /\ c \notin clients /\ \A a \in Apps : c \notin byApp[a]
    BY DEF ClosingInv, ClosedGone
  <2>2. ASSUME job.op = "register", job.client = c PROVE FALSE
    <3>1. c \in Clients /\ job = [op |-> "register", client |-> c]
      BY <2>2 DEF ClosingInv, Types, Jobs
    <3> QED
      BY <3>1 DEF ClosingInv, JobOrder
  <2> QED
    BY <2>1, <2>2
<1> QED
  BY <1>1, ClosingOrdered, PTL

-----------------------------------------------------------------------------
(* Who may hear of an event. *)

\* The types of the channels, the rows and the requests.
HearTypes ==
  /\ send \in [Clients -> Seq(Messages)]
  /\ broadcast \in Seq(Broadcasts) /\ userBroadcast \in Seq(UserBroadcasts)
  /\ members \in [Apps -> SUBSET Accounts]
  /\ last \in [Apps -> Nat] /\ left \in [Apps -> [Accounts -> Nat]]
  /\ handler \in [Handlers -> HandlerStates]

\* A message's event has committed; an account may hear of it as a member, or if
\* the account left later.
Past(m) == m.app # NoApp => m.seq <= last[m.app]
Entitled(k, m) == m.app # NoApp => k \in members[m.app] \/ m.seq <= left[m.app][k]
May(k, m) == Past(m) /\ Entitled(k, m)

\* Every message on its way to an account is one it may hear: in a socket's
\* channel, in the hub's queues and in the hands of a request.
LeavingCommitted == \A a \in Apps, k \in Accounts : left[a][k] <= last[a]
SendsEntitled == \A c \in Clients : \A i \in DOMAIN send[c] : May(AccountOf[c], send[c][i])
BroadcastsEntitled ==
  \A i \in DOMAIN broadcast : \A k \in broadcast[i].recipients : May(k, broadcast[i].msg)
UsersEntitled ==
  \A i \in DOMAIN userBroadcast : May(userBroadcast[i].account, userBroadcast[i].msg)
HandlersEntitled ==
  \A h \in Handlers : /\ Past(handler[h].msg)
                      /\ handler[h].pc \in {"members", "queue", "fanRead"} => handler[h].msg.app \in Apps
                      /\ \A k \in handler[h].removed \cup handler[h].to : May(k, handler[h].msg)

HearInv ==
  /\ HearTypes /\ LeavingCommitted
  /\ SendsEntitled /\ BroadcastsEntitled /\ UsersEntitled /\ HandlersEntitled

\* What the members and their leaving are.
membership == <<members, last, left>>

-----------------------------------------------------------------------------
\* The elements of a channel after a send, and after a receive.
LEMMA AppendElements ==
  ASSUME NEW S, NEW s \in Seq(S), NEW m \in S
  PROVE  /\ Append(s, m) \in Seq(S)
         /\ \A i \in DOMAIN Append(s, m) :
              Append(s, m)[i] = m \/ (i \in DOMAIN s /\ Append(s, m)[i] = s[i])
OBVIOUS

\* ... and the elements that remain.
LEMMA TailElements ==
  ASSUME NEW S, NEW s \in Seq(S), s # <<>>
  PROVE  /\ Tail(s) \in Seq(S) /\ Head(s) \in S /\ 1 \in DOMAIN s /\ Head(s) = s[1]
         /\ \A i \in DOMAIN Tail(s) : i + 1 \in DOMAIN s /\ Tail(s)[i] = s[i + 1]
OBVIOUS

\* A step that leaves the channels, the requests and the members alone.
LEMMA NothingSent ==
  ASSUME HearInv, UNCHANGED <<send, broadcast, userBroadcast, handler, membership>>
  PROVE  HearInv'
BY DEF HearInv, HearTypes, LeavingCommitted, SendsEntitled, BroadcastsEntitled, UsersEntitled,
       HandlersEntitled, May, Past, Entitled, membership

\* Messages are put into sockets' channels, or taken from them.
LEMMA SocketStep ==
  ASSUME HearInv, UNCHANGED <<broadcast, userBroadcast, handler, membership>>,
         send' \in [Clients -> Seq(Messages)],
         \A c \in Clients : \A i \in DOMAIN send'[c] : May(AccountOf[c], send'[c][i])
  PROVE  HearInv'
BY DEF HearInv, HearTypes, LeavingCommitted, SendsEntitled, BroadcastsEntitled, UsersEntitled,
       HandlersEntitled, May, Past, Entitled, membership

\* A message offered to sockets whose accounts may hear it.
LEMMA OfferedEntitled ==
  ASSUME HearInv, NEW to, NEW m \in Messages, send' = Offer(to, m),
         \A c \in Clients : c \in to => May(AccountOf[c], m)
  PROVE  /\ send' \in [Clients -> Seq(Messages)]
         /\ \A c \in Clients : \A i \in DOMAIN send'[c] : May(AccountOf[c], send'[c][i])
<1>1. \A c \in Clients : send[c] \in Seq(Messages) /\ Append(send[c], m) \in Seq(Messages)
  BY AppendElements DEF HearInv, HearTypes
<1>2. send' \in [Clients -> Seq(Messages)]
  BY <1>1 DEF Offer
<1>3. ASSUME NEW c \in Clients, NEW i \in DOMAIN send'[c]
      PROVE  May(AccountOf[c], send'[c][i])
  <2>1. send'[c] = send[c] \/ (c \in to /\ send'[c] = Append(send[c], m))
    BY DEF Offer
  <2>2. CASE send'[c] = send[c]
    BY <1>3, <2>2 DEF HearInv, SendsEntitled
  <2>3. CASE c \in to /\ send'[c] = Append(send[c], m)
    <3>1. send'[c][i] = m \/ (i \in DOMAIN send[c] /\ send'[c][i] = send[c][i])
      BY <1>1, <1>3, <2>3, AppendElements
    <3>2. QED
      BY <2>3, <3>1 DEF HearInv, SendsEntitled
  <2>4. QED
    BY <2>1, <2>2, <2>3
<1>4. QED
  BY <1>2, <1>3

\* The socket's own answers say nothing of any application, and the writer only
\* takes messages out.
LEMMA SocketSteps ==
  ASSUME HearInv, NEW c \in Clients, Hello(c) \/ Reply(c) \/ Write(c) \/ WriterReturns(c)
  PROVE  HearInv'
<1>1. UNCHANGED <<broadcast, userBroadcast, handler, membership>>
  BY DEF Hello, Reply, Write, WriterReturns, queues, rows, membership
<1>2. send[c] \in Seq(Messages) /\ Plain \in Messages /\ send \in [Clients -> Seq(Messages)]
      /\ Plain.app = NoApp
  BY DEF HearInv, HearTypes, Messages, Plain
<1>3. PICK s \in Seq(Messages) :
        /\ send' = [send EXCEPT ![c] = s]
        /\ \A i \in DOMAIN s : s[i] = Plain \/ \E j \in DOMAIN send[c] : s[i] = send[c][j]
  <2>1. CASE send' = [send EXCEPT ![c] = Append(@, Plain)]
    <3>1. send' = [send EXCEPT ![c] = Append(send[c], Plain)] /\ Append(send[c], Plain) \in Seq(Messages)
      BY <1>2, <2>1, AppendElements
    <3>2. \A i \in DOMAIN Append(send[c], Plain) :
            \/ Append(send[c], Plain)[i] = Plain
            \/ \E j \in DOMAIN send[c] : Append(send[c], Plain)[i] = send[c][j]
      BY <1>2, AppendElements
    <3>3. QED
      BY <3>1, <3>2
  <2>2. CASE send[c] # <<>> /\ send' = [send EXCEPT ![c] = Tail(@)]
    <3>1. send' = [send EXCEPT ![c] = Tail(send[c])] /\ Tail(send[c]) \in Seq(Messages)
      BY <1>2, <2>2, TailElements
    <3>2. \A i \in DOMAIN Tail(send[c]) : \E j \in DOMAIN send[c] : Tail(send[c])[i] = send[c][j]
      BY <1>2, <2>2, TailElements
    <3>3. QED
      BY <3>1, <3>2
  <2>3. CASE send' = send
    <3>1. send' = [send EXCEPT ![c] = send[c]]
      BY <1>2, <2>3
    <3>2. QED
      BY <1>2, <3>1
  <2>4. QED
    BY <2>1, <2>2, <2>3 DEF Hello, Reply, Write, WriterReturns, Push
<1>4. May(AccountOf[c], Plain)
  BY <1>2 DEF May, Past, Entitled
<1>5. send' \in [Clients -> Seq(Messages)]
      /\ \A d \in Clients : \A i \in DOMAIN send'[d] : May(AccountOf[d], send'[d][i])
  BY <1>2, <1>3, <1>4 DEF HearInv, SendsEntitled
<1>6. QED
  BY <1>1, <1>5, SocketStep

\* broadcastToApp: the subscribers who are recipients.
LEMMA BroadcastToAppStep ==
  ASSUME HearInv, BroadcastToApp
  PROVE  HearInv'
<1>1. /\ broadcast # <<>> /\ broadcast' = Tail(broadcast)
      /\ send' = Offer(Audience(Head(broadcast)), Head(broadcast).msg)
      /\ UNCHANGED <<userBroadcast, handler, membership>>
  BY DEF BroadcastToApp, rows, membership
<1>2. PICK b \in Broadcasts : b = Head(broadcast) /\ \A k \in b.recipients : May(k, b.msg)
  BY <1>1, TailElements DEF HearInv, HearTypes, BroadcastsEntitled
<1>3. /\ broadcast' \in Seq(Broadcasts)
      /\ \A i \in DOMAIN broadcast' : i + 1 \in DOMAIN broadcast /\ broadcast'[i] = broadcast[i + 1]
  BY <1>1, TailElements DEF HearInv, HearTypes
<1>4. /\ b.msg \in Messages /\ send' = Offer(Audience(b), b.msg)
      /\ \A c \in Clients : c \in Audience(b) => May(AccountOf[c], b.msg)
  BY <1>1, <1>2 DEF Broadcasts, Audience
<1>5. send' \in [Clients -> Seq(Messages)]
      /\ \A c \in Clients : \A i \in DOMAIN send'[c] : May(AccountOf[c], send'[c][i])
  BY <1>4, OfferedEntitled
<1>6. BroadcastsEntitled'
  BY <1>1, <1>3 DEF HearInv, BroadcastsEntitled, May, Past, Entitled, membership
<1>7. QED
  BY <1>1, <1>3, <1>5, <1>6
  DEF HearInv, HearTypes, LeavingCommitted, SendsEntitled, UsersEntitled, HandlersEntitled, May, Past,
      Entitled, membership

\* broadcastToUser: the sockets of the account.
LEMMA BroadcastToUserStep ==
  ASSUME HearInv, BroadcastToUser
  PROVE  HearInv'
<1>1. /\ userBroadcast # <<>> /\ userBroadcast' = Tail(userBroadcast)
      /\ send' = Offer(ByUser(Head(userBroadcast).account), Head(userBroadcast).msg)
      /\ UNCHANGED <<broadcast, handler, membership>>
  BY DEF BroadcastToUser, rows, membership
<1>2. PICK u \in UserBroadcasts : u = Head(userBroadcast) /\ May(u.account, u.msg)
  BY <1>1, TailElements DEF HearInv, HearTypes, UsersEntitled
<1>3. /\ userBroadcast' \in Seq(UserBroadcasts)
      /\ \A i \in DOMAIN userBroadcast' :
           i + 1 \in DOMAIN userBroadcast /\ userBroadcast'[i] = userBroadcast[i + 1]
  BY <1>1, TailElements DEF HearInv, HearTypes
<1>4. /\ u.msg \in Messages /\ send' = Offer(ByUser(u.account), u.msg)
      /\ \A c \in Clients : c \in ByUser(u.account) => May(AccountOf[c], u.msg)
  BY <1>1, <1>2 DEF UserBroadcasts, ByUser
<1>5. send' \in [Clients -> Seq(Messages)]
      /\ \A c \in Clients : \A i \in DOMAIN send'[c] : May(AccountOf[c], send'[c][i])
  BY <1>4, OfferedEntitled
<1>6. UsersEntitled'
  BY <1>1, <1>3 DEF HearInv, UsersEntitled, May, Past, Entitled, membership
<1>7. QED
  BY <1>1, <1>3, <1>5, <1>6
  DEF HearInv, HearTypes, LeavingCommitted, SendsEntitled, BroadcastsEntitled, HandlersEntitled, May, Past,
      Entitled, membership

\* A push says nothing of an application's events.
LEMMA SendPushStep ==
  ASSUME HearInv, NEW k \in Accounts, NEW d \in Devices, SendPush(k, d)
  PROVE  HearInv'
<1>1. /\ send' = Offer({c \in ByUser(k) : DeviceOf[c] = d}, Plain)
      /\ UNCHANGED <<broadcast, userBroadcast, handler, membership>>
  BY DEF SendPush, queues, rows, membership
<1>2. Plain \in Messages /\ \A c \in Clients : May(AccountOf[c], Plain)
  BY DEF Plain, Messages, May, Past, Entitled
<1>3. send' \in [Clients -> Seq(Messages)]
      /\ \A c \in Clients : \A i \in DOMAIN send'[c] : May(AccountOf[c], send'[c][i])
  BY <1>1, <1>2, OfferedEntitled
<1>4. QED
  BY <1>1, <1>3, SocketStep

-----------------------------------------------------------------------------
\* What a commit does to the members: it gives the application its next event,
\* and whoever leaves by it may still hear of every event up to this one.
LEMMA CommitMembership ==
  ASSUME HearInv, NEW h \in Handlers, NEW app \in Apps, NEW k \in Accounts,
         NEW kind \in {"edit", "removed", "added", "deleted"}, Commit(h, app, kind, k)
  PROVE  /\ members' \in [Apps -> SUBSET Accounts] /\ last' \in [Apps -> Nat]
         /\ left' \in [Apps -> [Accounts -> Nat]]
         /\ LeavingCommitted'
         /\ \A a \in Apps : last[a] <= last'[a]
         /\ \A a \in Apps, j \in Accounts :
              /\ left[a][j] <= left'[a][j]
              /\ j \in members[a] => j \in members'[a] \/ left'[a][j] = last'[a]
         /\ kind = "removed" => left'[app][k] = last[app] + 1
         /\ last'[app] = last[app] + 1
<1>1. /\ last' = [last EXCEPT ![app] = @ + 1]
      /\ members' = [members EXCEPT ![app] =
           IF kind = "removed" THEN @ \ {k} ELSE IF kind = "added" THEN @ \cup {k} ELSE @]
      /\ left' = [left EXCEPT ![app][k] = IF kind = "removed" THEN last[app] + 1 ELSE @]
  BY DEF Commit
<1>2. /\ members \in [Apps -> SUBSET Accounts] /\ last \in [Apps -> Nat]
      /\ left \in [Apps -> [Accounts -> Nat]]
      /\ \A a \in Apps, j \in Accounts : left[a][j] <= last[a]
  BY DEF HearInv, HearTypes, LeavingCommitted
<1>3. PICK n \in Nat : n = last[app]
  BY <1>2
<1>4. /\ last' \in [Apps -> Nat] /\ last'[app] = n + 1
      /\ \A a \in Apps : a # app => last'[a] = last[a]
  BY <1>1, <1>2, <1>3
<1>5. /\ left' \in [Apps -> [Accounts -> Nat]]
      /\ \A a \in Apps, j \in Accounts :
           left'[a][j] = IF a = app /\ j = k /\ kind = "removed" THEN n + 1 ELSE left[a][j]
  BY <1>1, <1>2, <1>3
<1>6. members' \in [Apps -> SUBSET Accounts]
      /\ \A a \in Apps, j \in Accounts :
           j \in members[a] => j \in members'[a] \/ (a = app /\ j = k /\ kind = "removed")
  BY <1>1, <1>2
<1>7. \A a \in Apps : last[a] <= last'[a]
  BY <1>2, <1>3, <1>4
<1>8. \A a \in Apps, j \in Accounts : left[a][j] <= left'[a][j] /\ left'[a][j] <= last'[a]
  <2> SUFFICES ASSUME NEW a \in Apps, NEW j \in Accounts
               PROVE  left[a][j] <= left'[a][j] /\ left'[a][j] <= last'[a]
    OBVIOUS
  <2>1. left[a][j] \in Nat /\ left[a][j] <= last[a] /\ last[a] \in Nat
    BY <1>2
  <2>2. QED
    BY <2>1, <1>3, <1>4, <1>5
<1>9. QED
  BY <1>3, <1>4, <1>5, <1>6, <1>7, <1>8 DEF LeavingCommitted

\* Whoever may hear of a message may still hear of it after a commit: a member
\* who leaves does so with an event later than every one committed so far.
LEMMA MayKept ==
  ASSUME HearInv, NEW h \in Handlers, NEW app \in Apps, NEW k \in Accounts,
         NEW kind \in {"edit", "removed", "added", "deleted"}, Commit(h, app, kind, k)
  PROVE  /\ \A m \in Messages : Past(m) => Past(m)'
         /\ \A j \in Accounts, m \in Messages : May(j, m) => May(j, m)'
<1>1. /\ last \in [Apps -> Nat] /\ left \in [Apps -> [Accounts -> Nat]]
      /\ last' \in [Apps -> Nat] /\ left' \in [Apps -> [Accounts -> Nat]]
      /\ \A a \in Apps : last[a] <= last'[a]
      /\ \A a \in Apps, j \in Accounts :
           /\ left[a][j] <= left'[a][j]
           /\ j \in members[a] => j \in members'[a] \/ left'[a][j] = last'[a]
  BY CommitMembership DEF HearInv, HearTypes
<1>2. ASSUME NEW m \in Messages, Past(m) PROVE Past(m)'
  <2>1. m.app # NoApp => m.app \in Apps /\ m.seq \in Nat
    BY DEF Messages
  <2>2. QED
    BY <1>1, <1>2, <2>1 DEF Past
<1>3. ASSUME NEW j \in Accounts, NEW m \in Messages, May(j, m) PROVE May(j, m)'
  <2>1. Past(m) /\ Past(m)'
    BY <1>2, <1>3 DEF May
  <2>2. ASSUME m.app # NoApp PROVE j \in members'[m.app] \/ m.seq <= left'[m.app][j]
    <3>1. m.app \in Apps /\ m.seq \in Nat
      BY <2>2 DEF Messages
    <3>2. PICK a \in Apps, n \in Nat : a = m.app /\ n = m.seq
      BY <3>1
    <3>3. /\ left[a][j] \in Nat /\ left'[a][j] \in Nat /\ last[a] \in Nat /\ last'[a] \in Nat
          /\ n <= last[a]
          /\ j \in members[a] \/ n <= left[a][j]
      BY <1>1, <1>3, <2>1, <2>2, <3>2 DEF May, Past, Entitled
    <3>4. QED
      BY <1>1, <3>2, <3>3
  <2>3. Entitled(j, m)'
    BY <2>2 DEF Entitled
  <2>4. QED
    BY <2>1, <2>3 DEF May
<1>4. QED
  BY <1>2, <1>3

\* A commit lets nobody hear of anything new but the account it removes.
LEMMA CommitStep ==
  ASSUME HearInv, NEW h \in Handlers, NEW app \in Apps, NEW k \in Accounts,
         NEW kind \in {"edit", "removed", "added", "deleted"}, Commit(h, app, kind, k)
  PROVE  HearInv'
<1>1. UNCHANGED <<send, broadcast, userBroadcast>>
  BY DEF Commit, sockets, queues
<1>2. PICK x \in HandlerStates :
        /\ handler' = [handler EXCEPT ![h] = x]
        /\ x.pc = "members" /\ x.msg = [app |-> app, seq |-> last[app] + 1]
        /\ x.removed \in {{}, {k}} /\ (x.removed = {k} => kind = "removed") /\ x.to = {}
  <2>1. last[app] + 1 \in Nat
    BY DEF HearInv, HearTypes
  <2>2. [pc |-> "members", msg |-> [app |-> app, seq |-> last[app] + 1],
         removed |-> IF kind = "removed" THEN {k} ELSE {}, fanout |-> kind = "deleted", to |-> {}]
        \in HandlerStates
    BY <2>1 DEF HandlerStates, Messages
  <2>3. QED
    BY <2>2 DEF Commit
<1>3. HearTypes' /\ LeavingCommitted'
  BY <1>1, <1>2, CommitMembership DEF HearInv, HearTypes
<1>4. SendsEntitled'
  BY <1>1, MayKept, HubAssumption DEF HearInv, HearTypes, SendsEntitled
<1>5. BroadcastsEntitled'
  <2>1. ASSUME NEW i \in DOMAIN broadcast, NEW b, b = broadcast[i], NEW j \in b.recipients
        PROVE  May(j, b.msg)'
    <3>1. b \in Broadcasts /\ May(j, b.msg)
      BY <2>1 DEF HearInv, HearTypes, BroadcastsEntitled
    <3>2. QED
      BY <2>1, <3>1, MayKept DEF Broadcasts
  <2>2. QED
    BY <1>1, <2>1 DEF BroadcastsEntitled, May, Past, Entitled
<1>6. UsersEntitled'
  <2>1. ASSUME NEW i \in DOMAIN userBroadcast, NEW u, u = userBroadcast[i] PROVE May(u.account, u.msg)'
    <3>1. u \in UserBroadcasts /\ May(u.account, u.msg)
      BY <2>1 DEF HearInv, HearTypes, UsersEntitled
    <3>2. QED
      BY <3>1, MayKept DEF UserBroadcasts
  <2>2. QED
    BY <1>1, <2>1 DEF UsersEntitled, May, Past, Entitled
<1>7. ASSUME NEW g \in Handlers, NEW y, y = handler'[g]
      PROVE  /\ Past(y.msg)'
             /\ y.pc \in {"members", "queue", "fanRead"} => y.msg.app \in Apps
             /\ \A j \in y.removed \cup y.to : May(j, y.msg)'
  <2>1. CASE g = h
    <3>1. y = x
      BY <1>2, <1>7, <2>1 DEF HearInv, HearTypes
    <3>2. PICK m \in Messages, n \in Nat : m = x.msg /\ m.app = app /\ m.seq = n /\ n = last[app] + 1
      BY <1>2 DEF HandlerStates, Messages
    <3>3. last'[app] = n /\ (kind = "removed" => left'[app][k] = n)
      BY <3>2, CommitMembership
    <3>4. Past(m)' /\ (x.removed = {k} => May(k, m)')
      BY <1>2, <3>2, <3>3 DEF Past, Entitled, May
    <3>5. QED
      BY <1>2, <3>1, <3>2, <3>4
  <2>2. CASE g # h
    <3>1. y = handler[g] /\ y \in HandlerStates
      BY <1>2, <1>7, <2>2 DEF HearInv, HearTypes
    <3>2. /\ Past(y.msg) /\ y.msg \in Messages /\ y.removed \cup y.to \subseteq Accounts
          /\ y.pc \in {"members", "queue", "fanRead"} => y.msg.app \in Apps
          /\ \A j \in y.removed \cup y.to : May(j, y.msg)
      BY <3>1 DEF HearInv, HandlersEntitled, HandlerStates
    <3>3. Past(y.msg)' /\ \A j \in y.removed \cup y.to : May(j, y.msg)'
      BY <3>2, MayKept
    <3>4. QED
      BY <3>2, <3>3
  <2>3. QED
    BY <2>1, <2>2
<1>8. HandlersEntitled'
  BY <1>7 DEF HandlersEntitled, May, Past, Entitled
<1>9. QED
  BY <1>3, <1>4, <1>5, <1>6, <1>8 DEF HearInv

-----------------------------------------------------------------------------
(* What a request does with the event it committed. *)

\* A request goes on, its event unchanged, towards accounts that may hear of it.
LEMMA RequestGoesOn ==
  ASSUME HearInv, NEW h \in Handlers, NEW x \in HandlerStates, handler' = [handler EXCEPT ![h] = x],
         Past(x.msg), x.pc \in {"members", "queue", "fanRead"} => x.msg.app \in Apps,
         \A k \in x.removed \cup x.to : May(k, x.msg),
         UNCHANGED <<send, broadcast, membership>>, userBroadcast' \in Seq(UserBroadcasts),
         UsersEntitled'
  PROVE  HearInv'
<1>1. HandlersEntitled'
  BY DEF HearInv, HearTypes, HandlersEntitled, May, Past, Entitled, membership
<1>2. QED
  BY <1>1
  DEF HearInv, HearTypes, LeavingCommitted, SendsEntitled, BroadcastsEntitled, May, Past, Entitled, membership

\* The state Proceed leaves a request in.
LEMMA Proceeds ==
  ASSUME HearInv, NEW h \in Handlers, NEW pc \in {"idle", "queue", "fanRead", "fan"},
         NEW to \in SUBSET Accounts, Proceed(h, pc, to),
         \A k \in to : May(k, handler[h].msg),
         pc \in {"queue", "fanRead"} => handler[h].msg.app \in Apps
  PROVE  \E x \in HandlerStates :
           /\ handler' = [handler EXCEPT ![h] = x]
           /\ Past(x.msg)
           /\ x.pc \in {"members", "queue", "fanRead"} => x.msg.app \in Apps
           /\ \A k \in x.removed \cup x.to : May(k, x.msg)
<1>1. PICK y \in HandlerStates :
        /\ y = handler[h] /\ Past(y.msg) /\ \A k \in y.removed : May(k, y.msg)
        /\ pc \in {"queue", "fanRead"} => y.msg.app \in Apps
        /\ \A k \in to : May(k, y.msg)
  BY DEF HearInv, HearTypes, HandlersEntitled
<1>2. CASE pc = "idle"
  <2>1. /\ IdleHandler \in HandlerStates /\ IdleHandler.pc = "idle" /\ IdleHandler.msg = Plain
        /\ IdleHandler.removed = {} /\ IdleHandler.to = {} /\ Past(Plain)
    BY DEF IdleHandler, HandlerStates, Plain, Messages, Past
  <2>2. handler' = [handler EXCEPT ![h] = IdleHandler]
    BY <1>2 DEF Proceed
  <2>3. QED
    BY <2>1, <2>2
<1>3. CASE pc # "idle"
  <2>1. PICK x : x = [y EXCEPT !.pc = pc, !.to = to]
    OBVIOUS
  <2>2. x \in HandlerStates /\ x.pc = pc /\ x.to = to /\ x.msg = y.msg /\ x.removed = y.removed
    BY <1>1, <1>3, <2>1 DEF HandlerStates
  <2>3. handler' = [handler EXCEPT ![h] = x]
    BY <1>1, <1>3, <2>1 DEF Proceed
  <2>4. QED
    BY <1>1, <1>3, <2>2, <2>3
<1>4. QED
  BY <1>2, <1>3

\* BroadcastToApplication and broadcastEvent read the members: each of them may
\* hear of an event that has committed.
LEMMA ReadSteps ==
  ASSUME HearInv, NEW h \in Handlers, ReadRecipients(h) \/ ReadFanout(h)
  PROVE  HearInv'
<1>1. UNCHANGED <<send, broadcast, userBroadcast, membership>>
  BY DEF ReadRecipients, ReadFanout, sockets, queues, rows, membership
<1>2. PICK y \in HandlerStates :
        /\ y = handler[h] /\ Past(y.msg) /\ \A k \in y.removed : May(k, y.msg)
        /\ y.msg.app \in Apps
  BY DEF HearInv, HearTypes, HandlersEntitled, ReadRecipients, ReadFanout
<1>3. \A k \in members[y.msg.app] : May(k, y.msg)
  BY <1>2 DEF May, Entitled
<1>4. members[y.msg.app] \subseteq Accounts /\ y.removed \subseteq Accounts
  BY <1>2 DEF HearInv, HearTypes, HandlerStates
<1>5. PICK pc \in {"idle", "queue", "fanRead", "fan"}, to \in SUBSET Accounts :
        Proceed(h, pc, to) /\ \A k \in to : May(k, y.msg)
  <2>1. \/ Proceed(h, "queue", members[y.msg.app] \cup y.removed)
        \/ Proceed(h, "fanRead", {}) \/ Proceed(h, "idle", {})
        \/ Proceed(h, "fan", members[y.msg.app])
    BY <1>2 DEF ReadRecipients, ReadFanout, AfterBroadcast
  <2>2. CASE Proceed(h, "queue", members[y.msg.app] \cup y.removed)
    <3>1. \A k \in members[y.msg.app] \cup y.removed : May(k, y.msg)
      BY <1>2, <1>3
    <3>2. QED
      BY <1>4, <2>2, <3>1
  <2>3. CASE Proceed(h, "fan", members[y.msg.app])
    BY <1>3, <1>4, <2>3
  <2>4. CASE Proceed(h, "fanRead", {}) \/ Proceed(h, "idle", {})
    BY <2>4
  <2>5. QED
    BY <2>1, <2>2, <2>3, <2>4
<1>6. PICK x \in HandlerStates :
        /\ handler' = [handler EXCEPT ![h] = x]
        /\ Past(x.msg)
        /\ x.pc \in {"members", "queue", "fanRead"} => x.msg.app \in Apps
        /\ \A k \in x.removed \cup x.to : May(k, x.msg)
  BY <1>2, <1>5, Proceeds
<1>7. userBroadcast' \in Seq(UserBroadcasts) /\ UsersEntitled'
  BY <1>1 DEF HearInv, HearTypes, UsersEntitled, May, Past, Entitled, membership
<1>8. QED
  BY <1>1, <1>6, <1>7, RequestGoesOn

\* The broadcast is queued with the recipients read.
LEMMA QueueStep ==
  ASSUME HearInv, NEW h \in Handlers, QueueBroadcast(h)
  PROVE  HearInv'
<1>1. UNCHANGED <<send, userBroadcast, membership>>
  BY DEF QueueBroadcast, sockets, rows, membership
<1>2. PICK y \in HandlerStates :
        /\ y = handler[h] /\ Past(y.msg) /\ y.msg.app \in Apps /\ \A k \in y.to : May(k, y.msg)
  BY DEF HearInv, HearTypes, HandlersEntitled, QueueBroadcast
<1>3. PICK b \in Broadcasts :
        /\ broadcast' = Append(broadcast, b) /\ \A k \in b.recipients : May(k, b.msg)
  BY <1>2 DEF QueueBroadcast, Broadcasts, HandlerStates
<1>4. /\ broadcast' \in Seq(Broadcasts)
      /\ \A i \in DOMAIN broadcast' :
           broadcast'[i] = b \/ (i \in DOMAIN broadcast /\ broadcast'[i] = broadcast[i])
  BY <1>3, AppendElements DEF HearInv, HearTypes
<1>5. BroadcastsEntitled'
  BY <1>1, <1>3, <1>4 DEF HearInv, BroadcastsEntitled, May, Past, Entitled, membership
<1>6. PICK pc \in {"idle", "queue", "fanRead", "fan"} : pc = AfterBroadcast(h)
  BY DEF AfterBroadcast
<1>7. Proceed(h, pc, {})
  BY <1>6 DEF QueueBroadcast
<1>8. PICK x \in HandlerStates :
        /\ handler' = [handler EXCEPT ![h] = x]
        /\ Past(x.msg)
        /\ x.pc \in {"members", "queue", "fanRead"} => x.msg.app \in Apps
        /\ \A k \in x.removed \cup x.to : May(k, x.msg)
  BY <1>2, <1>7, Proceeds
<1>9. HandlersEntitled'
  BY <1>1, <1>8 DEF HearInv, HearTypes, HandlersEntitled, May, Past, Entitled, membership
<1>10. QED
  BY <1>1, <1>4, <1>5, <1>8, <1>9
  DEF HearInv, HearTypes, LeavingCommitted, SendsEntitled, UsersEntitled, May, Past, Entitled, membership

\* The fan-out queues the event for one member after the other.
LEMMA FanOutStep ==
  ASSUME HearInv, NEW h \in Handlers, FanOut(h)
  PROVE  HearInv'
<1>1. UNCHANGED <<send, broadcast, membership>>
  BY DEF FanOut, sockets, rows, membership
<1>2. PICK y \in HandlerStates :
        /\ y = handler[h] /\ Past(y.msg) /\ y.to \subseteq Accounts /\ \A k \in y.to : May(k, y.msg)
  BY DEF HearInv, HearTypes, HandlersEntitled, FanOut, HandlerStates
<1>3. CASE y.to = {} /\ Proceed(h, "idle", {}) /\ UNCHANGED userBroadcast
  <2>1. userBroadcast' \in Seq(UserBroadcasts) /\ UsersEntitled'
    BY <1>1, <1>3 DEF HearInv, HearTypes, UsersEntitled, May, Past, Entitled, membership
  <2>2. PICK x \in HandlerStates :
          /\ handler' = [handler EXCEPT ![h] = x]
          /\ Past(x.msg)
          /\ x.pc \in {"members", "queue", "fanRead"} => x.msg.app \in Apps
          /\ \A k \in x.removed \cup x.to : May(k, x.msg)
    BY <1>3, Proceeds
  <2>3. QED
    BY <1>1, <2>1, <2>2, RequestGoesOn
<1>4. ASSUME NEW k \in y.to, Proceed(h, "fan", y.to \ {k}),
             userBroadcast' = Append(userBroadcast, [msg |-> y.msg, account |-> k])
      PROVE  HearInv'
  <2>1. PICK u \in UserBroadcasts : u = [msg |-> y.msg, account |-> k] /\ May(u.account, u.msg)
    BY <1>2, <1>4 DEF UserBroadcasts, HandlerStates
  <2>2. /\ userBroadcast' \in Seq(UserBroadcasts)
        /\ \A i \in DOMAIN userBroadcast' :
             userBroadcast'[i] = u \/ (i \in DOMAIN userBroadcast /\ userBroadcast'[i] = userBroadcast[i])
    BY <1>4, <2>1, AppendElements DEF HearInv, HearTypes
  <2>3. UsersEntitled'
    BY <1>1, <2>1, <2>2 DEF HearInv, UsersEntitled, May, Past, Entitled, membership
  <2>4. PICK to \in SUBSET Accounts : to = y.to \ {k}
    BY <1>2
  <2>5. PICK x \in HandlerStates :
          /\ handler' = [handler EXCEPT ![h] = x]
          /\ Past(x.msg)
          /\ x.pc \in {"members", "queue", "fanRead"} => x.msg.app \in Apps
          /\ \A j \in x.removed \cup x.to : May(j, x.msg)
    BY <1>2, <1>4, <2>4, Proceeds
  <2>6. QED
    BY <1>1, <2>2, <2>3, <2>5, RequestGoesOn
<1>5. QED
  BY <1>2, <1>3, <1>4 DEF FanOut

\* An account's own event goes to the account.
LEMMA CommitOwnStep ==
  ASSUME HearInv, NEW h \in Handlers, NEW k \in Accounts, CommitOwn(h, k)
  PROVE  HearInv'
<1>1. UNCHANGED <<send, broadcast, userBroadcast, membership>>
  BY DEF CommitOwn, sockets, queues, rows, membership
<1>2. PICK x : x = [IdleHandler EXCEPT !.pc = "fan", !.to = {k}]
  OBVIOUS
<1>3. /\ x \in HandlerStates /\ x.pc = "fan" /\ x.msg = Plain /\ x.removed = {} /\ x.to = {k}
      /\ handler' = [handler EXCEPT ![h] = x]
  BY <1>2 DEF CommitOwn, IdleHandler, HandlerStates, Plain, Messages
<1>4. Past(Plain) /\ \A j : May(j, Plain)
  BY DEF Past, May, Entitled, Plain
<1>5. userBroadcast' \in Seq(UserBroadcasts) /\ UsersEntitled'
  BY <1>1 DEF HearInv, HearTypes, UsersEntitled, May, Past, Entitled, membership
<1>6. QED
  BY <1>1, <1>3, <1>4, <1>5, RequestGoesOn

-----------------------------------------------------------------------------
\* Whatever is on its way to an account is something it may hear of.
THEOREM HearingEntitled == Spec => []HearInv
<1>1. Init => HearInv
  BY DEF Init, HearInv, HearTypes, LeavingCommitted, SendsEntitled, BroadcastsEntitled, UsersEntitled,
         HandlersEntitled, IdleHandler, HandlerStates, Plain, Messages, Past, May, Entitled
<1>2. HearInv /\ [Next]_vars => HearInv'
  <2> SUFFICES ASSUME HearInv, [Next]_vars PROVE HearInv'
    OBVIOUS
  <2>1. ASSUME NEW c \in Clients,
               Connect(c) \/ Register(c) \/ Refuse(c) \/ IsMember(c) \/ Subscribe(c) \/ ReadFails(c)
                 \/ Unregister(c) \/ Ping(c) \/ PeerCloses(c)
        PROVE  HearInv'
    BY <2>1, NothingSent DEF Connect, Register, Refuse, IsMember, Subscribe, ReadFails, Unregister, Ping,
       PeerCloses, queues, rows, membership
  <2>2. ASSUME NEW c \in Clients, NEW app \in Apps, AskSubscribe(c, app) \/ Unsubscribe(c, app)
        PROVE  HearInv'
    BY <2>2, NothingSent DEF AskSubscribe, Unsubscribe, queues, rows, membership
  <2>3. ASSUME NEW c \in Clients, Hello(c) \/ Reply(c) \/ Write(c) \/ WriterReturns(c) PROVE HearInv'
    BY <2>3, SocketSteps
  <2>4. CASE RegisterClient \/ UnregisterClient \/ DisconnectClients
    BY <2>4, NothingSent DEF RegisterClient, UnregisterClient, DisconnectClients, sockets, queues, rows,
       membership
  <2>5. CASE BroadcastToApp \/ BroadcastToUser
    BY <2>5, BroadcastToAppStep, BroadcastToUserStep
  <2>6. ASSUME NEW h \in Handlers, Handler(h) PROVE HearInv'
    BY <2>6, CommitStep, CommitOwnStep, ReadSteps, QueueStep, FanOutStep DEF Handler
  <2>7. ASSUME NEW k \in Accounts, NEW d \in Devices, SendPush(k, d) PROVE HearInv'
    BY <2>7, SendPushStep
  <2>8. ASSUME NEW k \in Accounts, NEW d \in Devices, RevokeDevice(k, d) PROVE HearInv'
    BY <2>8, NothingSent DEF RevokeDevice, sockets, rows, membership
  <2>9. ASSUME NEW k \in Accounts, AcceptBinding(k) PROVE HearInv'
    BY <2>9, NothingSent DEF AcceptBinding, sockets, rows, membership
  <2>10. CASE UNCHANGED vars
    BY <2>10, NothingSent DEF vars, sockets, queues, rows, membership
  <2> QED
    BY <2>1, <2>2, <2>3, <2>4, <2>5, <2>6, <2>7, <2>8, <2>9, <2>10 DEF Next, Reader, Run
<1> QED
  BY <1>1, <1>2, PTL DEF Spec

\* No socket is ever sent an event that committed after its account left the
\* application, although its subscription outlives the membership
\* (BroadcastToApplication).
THEOREM LeaversHearNothing == Spec => []LeaversHearNothingLater
<1>1. HearInv => LeaversHearNothingLater
  BY DEF HearInv, SendsEntitled, May, Entitled, LeaversHearNothingLater
<1> QED
  BY <1>1, HearingEntitled, PTL
=============================================================================
