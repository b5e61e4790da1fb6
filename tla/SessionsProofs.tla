--------------------------- MODULE SessionsProofs ---------------------------
(***************************************************************************)
(* Machine-checked proofs about Sessions: who a session speaks for, which   *)
(* sessions a binding ends, the escrow, revocation and delegations, for any *)
(* number of accounts, devices, spaces and concurrent requests.             *)
(*                                                                          *)
(* A handler uses in a later statement what it read in an earlier one.  The *)
(* invariant says what of it is still true then, unless the account was      *)
(* deleted meanwhile: within one life of an account its device rows do not   *)
(* change hands, and the time of its stored binding never goes back.         *)
(***************************************************************************)
EXTENDS Sessions, TLAPS

-----------------------------------------------------------------------------
(* The inductive invariant. *)

\* Once its statement has set it, a request has the account it acts for.
ActingSteps ==
  {"rosterAccount", "rosterEscrow", "accept", "reread", "bindDevice", "ensure", "recheck",
   "revive", "mint", "mark", "lookup", "enroll", "authDevice", "target", "revokeTx", "put",
   "putEscrow", "acceptPut", "setPassword", "clearEscrow", "erase"}
Serving(r) ==
  /\ pc[r] # "idle" => msg[r] \in Messages
  /\ pc[r] \in ActingSteps => acct[r] \in Accounts /\ born[r] <= life[acct[r]]

\* The account was not deleted since the request found it.
Current(r) == born[r] = life[acct[r]]

\* Each part of a login serves its own kind of request.
OfKind(r) ==
  /\ pc[r] \in {"verify", "mint"} => msg[r].op \in {"roster", "binding"}
  /\ pc[r] \in {"rosterDevice", "rosterAccount", "rosterEscrow"} => msg[r].op = "roster"
  /\ pc[r] \in {"bindAccount", "accept", "reread", "bindDevice", "ensure", "recheck", "revive"} =>
       msg[r].op = "binding"
  /\ pc[r] \in {"signer", "mark"} => msg[r].jti # NoJTI

\* The device row a request found is still that account's.
OwnsDevice(r) ==
  Current(r) /\ pc[r] \in {"rosterAccount", "rosterEscrow", "revive", "mint"} =>
    device[msg[r].dev].acct = acct[r]

\* A binding about to be stored names a space; one that was admitted is not
\* later than the stored one, and neither is the one the request read.
BindingSound(r) ==
  /\ pc[r] \in {"accept", "putEscrow", "acceptPut"} => msg[r].bind.sub # NoSpace
  /\ Current(r) /\ pc[r] = "accept" => Exists(acct[r])
  /\ Current(r) /\ (pc[r] \in {"reread", "bindDevice", "ensure", "recheck", "revive"}
        \/ (pc[r] = "mint" /\ msg[r].op = "binding")) => msg[r].bind.iat <= row[acct[r]].iat
  /\ Current(r) /\
     pc[r] \in {"rosterEscrow", "accept", "reread", "bindDevice", "ensure", "recheck", "revive", "mint"} =>
       seen[r].iat <= row[acct[r]].iat

\* A login by the roster alone, under a binding and by another key than the
\* account's, has seen a binding that names this space.
AtHome(r) ==
  /\ pc[r] = "rosterEscrow" /\ seen[r].iat > 0 => seen[r].sub # NoSpace
  /\ pc[r] = "mint" /\ msg[r].op = "roster" /\ msg[r].dev # acct[r] /\ seen[r].iat > 0 =>
       seen[r].sub = Own

RequestOK(r) == Serving(r) /\ OfKind(r) /\ OwnsDevice(r) /\ BindingSound(r) /\ AtHome(r)

\* The users table: the escrow is kept, and a stored binding is an account's
\* that exists and names a space.
BindingsNamed == \A a \in Accounts : row[a].iat > 0 => Exists(a) /\ row[a].sub # NoSpace

\* The device table: what it says of a revocation is what last happened.
RevocationsKept ==
  \A d \in Devices :
    /\ device[d].acct = NoAccount => revokedLast[d] = 0
    /\ device[d].revoked # 0 => device[d].revoked = revokedLast[d]

\* A token of the present life speaks for its device's account and is not of
\* the future, and one the roster alone gave under a binding was given at home.
TokensSound ==
  \A t \in tokens :
    /\ t.life <= life[t.acct]
    /\ OfThisLife(t) => device[t.dev].acct = t.acct /\ t.bv <= row[t.acct].iat
    /\ t.via = "roster" /\ t.dev # t.acct /\ t.bv > 0 => t.sub = Own

\* A used delegation is remembered for as long as it would be valid.
UsesRemembered ==
  \A j \in JTIs : marks[j] <= 1 /\ (marks[j] = 1 => j \in usedJTIs \/ Deleg[j].exp < clock)

SessionInv ==
  /\ TypeOK /\ clock > 0
  /\ EscrowKept /\ BindingsNamed
  /\ RevocationsKept /\ RevokedStaysOut
  /\ TokensSound
  /\ UsesRemembered
  /\ \A r \in Reqs : RequestOK(r)

-----------------------------------------------------------------------------
(* What concurrent requests leave each other. *)

\* A step that, unless it deletes an account, lets its binding time only grow
\* and leaves it its row and the rows of its devices.
Grows ==
  \A a \in Accounts :
    \/ life'[a] > life[a]
    \/ /\ life'[a] = life[a] /\ row[a].iat <= row'[a].iat
       /\ Exists(a) => row'[a].exists
       /\ \A d \in Devices : device[d].acct = a => device'[d].acct = a

\* A request that does nothing itself.
Rests(q) ==
  pc'[q] = pc[q] /\ msg'[q] = msg[q] /\ acct'[q] = acct[q] /\ seen'[q] = seen[q] /\ born'[q] = born[q]

\* What a resting request knows stays true.
LEMMA RestingRequest ==
  ASSUME TypeOK, TypeOK', Grows, NEW q \in Reqs, RequestOK(q), Rests(q)
  PROVE  RequestOK(q)'
<1> DEFINE a == acct[q]
<1>1. OfKind(q)' /\ AtHome(q)'
  BY DEF RequestOK, Rests, OfKind, AtHome
<1>2. pc[q] # "idle" => msg[q].dev \in Devices /\ msg[q].bind.iat \in Nat
  BY MessagesAssumption DEF RequestOK, Serving, Requests, Bindings
<1>3. pc[q] \in ActingSteps => a \in Accounts /\ born[q] <= life[a]
  BY DEF RequestOK, Serving
<1>4. a \in Accounts =>
        /\ life[a] \in Nat /\ life'[a] \in Nat
        /\ row[a].iat \in Nat /\ row'[a].iat \in Nat
  BY DEF TypeOK, Rows
<1>5. born[q] \in Nat /\ seen[q].iat \in Nat
  BY DEF TypeOK, Bindings
<1>6. Serving(q)'
  <2>1. a \in Accounts => life[a] <= life'[a]
    BY <1>4 DEF Grows
  <2>2. pc[q] \in ActingSteps => born[q] <= life'[a]
    BY <1>3, <1>4, <1>5, <2>1
  <2>3. QED
    BY <1>3, <2>2 DEF RequestOK, Rests, Serving
<1>7. ASSUME pc[q] \in ActingSteps, born[q] = life'[a]
      PROVE  /\ Current(q) /\ row[a].iat <= row'[a].iat
             /\ Exists(a) => row'[a].exists
             /\ \A d \in Devices : device[d].acct = a => device'[d].acct = a
  <2>1. ~(life'[a] > life[a])
    BY <1>3, <1>4, <1>5, <1>7
  <2>2. QED
    BY <1>3, <1>7, <2>1 DEF Grows, Current
<1>8. OwnsDevice(q)'
  BY <1>2, <1>7 DEF RequestOK, OwnsDevice, Rests, ActingSteps, Current
<1>9. BindingSound(q)'
  <2>1. CASE pc[q] \in ActingSteps /\ born[q] = life'[a]
    BY <1>2, <1>3, <1>4, <1>5, <1>7, <2>1 DEF RequestOK, BindingSound, Rests, Exists
  <2>2. CASE ~(pc[q] \in ActingSteps /\ born[q] = life'[a])
    BY <2>2 DEF RequestOK, BindingSound, Rests, ActingSteps, Current
  <2>3. QED
    BY <2>1, <2>2
<1>10. QED
  BY <1>1, <1>6, <1>8, <1>9 DEF RequestOK

\* A step of one request that writes no table and hands out no token keeps the
\* invariant if it leaves that request in order.
LEMMA ReadOnlyStep ==
  ASSUME SessionInv, NEW r \in Reqs, TypeOK', RequestOK(r)',
         \A q \in Reqs \ {r} : Rests(q),
         UNCHANGED <<clock, row, device, tokens, usedJTIs, life, marks, revokedLast, assertedLast>>
  PROVE  SessionInv'
<1>1. Grows
  BY DEF SessionInv, Grows, TypeOK, Rows, Exists
<1>2. \A q \in Reqs : RequestOK(q)'
  BY <1>1, RestingRequest DEF SessionInv
<1>3. clock' > 0 /\ EscrowKept' /\ BindingsNamed' /\ RevocationsKept' /\ UsesRemembered'
  BY DEF SessionInv, EscrowKept, BindingsNamed, Exists, RevocationsKept, UsesRemembered
<1>4. RevokedStaysOut' /\ TokensSound'
  BY DEF SessionInv, RevokedStaysOut, Live, HasRow, TokensSound, OfThisLife
<1>5. QED
  BY <1>2, <1>3, <1>4 DEF SessionInv

\* A request that has ended knows nothing.
LEMMA EndedRequest ==
  ASSUME NEW r \in Reqs, pc'[r] = "idle"
  PROVE  RequestOK(r)'
BY DEF RequestOK, Serving, ActingSteps, OfKind, OwnsDevice, BindingSound, AtHome, Current

\* A handler that goes on after a read: its own locals are all that changes,
\* and a challenge it consumed.
LEMMA ReadOnlyMove ==
  ASSUME SessionInv, NEW r \in Reqs, NEW step \in Steps, Goto(r, step),
         Unacting \/ \E a \in Accounts : ActFor(r, a),
         seen' = seen \/ \E b \in Bindings : seen' = [seen EXCEPT ![r] = b],
         challenges' \subseteq challenges,
         UNCHANGED <<clock, row, device, tokens, usedJTIs, issued, msg, arrived,
                     life, marks, revokedLast, assertedLast>>,
         RequestOK(r)'
  PROVE  SessionInv'
<1>1. TypeOK'
  <2>1. pc' \in [Reqs -> Steps]
    BY DEF SessionInv, TypeOK, Goto
  <2>2. /\ acct' \in [Reqs -> Accounts \cup {NoAccount}] /\ born' \in [Reqs -> Nat]
        /\ seen' \in [Reqs -> Bindings]
    BY DEF SessionInv, TypeOK, Unacting, ActFor
  <2>3. QED
    BY <2>1, <2>2 DEF SessionInv, TypeOK
<1>2. \A q \in Reqs \ {r} : Rests(q)
  BY DEF SessionInv, TypeOK, Goto, Rests, Unacting, ActFor
<1>3. QED
  BY <1>1, <1>2, ReadOnlyStep

\* A read-only handler that ends there.
LEMMA ReadOnlyEnd ==
  ASSUME SessionInv, NEW r \in Reqs, End(r),
         Unacting \/ \E a \in Accounts : ActFor(r, a),
         UNCHANGED seen, challenges' \subseteq challenges,
         UNCHANGED <<clock, row, device, tokens, usedJTIs, issued, msg, arrived,
                     life, marks, revokedLast, assertedLast>>
  PROVE  SessionInv'
<1>1. Goto(r, "idle") /\ "idle" \in Steps
  BY DEF End, Goto, Steps
<1>2. pc'[r] = "idle"
  BY DEF End, SessionInv, TypeOK
<1>3. QED
  BY <1>1, <1>2, EndedRequest, ReadOnlyMove

-----------------------------------------------------------------------------
(* The statements that only read. *)

\* Arrive: the new request has read nothing yet.
LEMMA ArriveStep ==
  ASSUME SessionInv, NEW r \in Reqs, Arrive(r)
  PROVE  SessionInv'
<1>1. PICK m \in Messages :
        /\ msg' = [msg EXCEPT ![r] = m] /\ Goto(r, FirstStep(m))
        /\ acct' = [acct EXCEPT ![r] = NoAccount]
        /\ seen' = [seen EXCEPT ![r] = [iat |-> 0, sub |-> NoSpace]]
        /\ born' = [born EXCEPT ![r] = 0]
        /\ arrived' = arrived + 1
        /\ UNCHANGED <<clock, row, device, tokens, challenges, usedJTIs, issued,
                       life, marks, revokedLast, assertedLast>>
  BY DEF Arrive, tables, memory
<1>2. FirstStep(m) \in {"verify", "credential", "signer", "authUser", "register"}
  BY DEF FirstStep
<1>3. [iat |-> 0, sub |-> NoSpace] \in Bindings
  BY DEF Bindings, Subs
<1>4. TypeOK'
  <2>1. pc' \in [Reqs -> Steps]
    BY <1>1, <1>2 DEF SessionInv, TypeOK, Goto, Steps, LoginSteps, EnrollSteps, AuthSteps
  <2>2. acct' \in [Reqs -> Accounts \cup {NoAccount}] /\ seen' \in [Reqs -> Bindings]
        /\ msg' \in [Reqs -> Messages \cup {NoMsg}] /\ arrived' \in Nat /\ born' \in [Reqs -> Nat]
    BY <1>1, <1>3 DEF SessionInv, TypeOK
  <2>3. QED
    BY <1>1, <2>1, <2>2 DEF SessionInv, TypeOK
<1>5. RequestOK(r)'
  <2>1. pc'[r] = FirstStep(m) /\ msg'[r] = m
    BY <1>1 DEF SessionInv, TypeOK, Goto
  <2>2. /\ FirstStep(m) = "verify" => m.op \in {"roster", "binding"}
        /\ FirstStep(m) = "signer" => m.jti # NoJTI
    BY DEF FirstStep
  <2>3. QED
    BY <1>2, <2>1, <2>2
       DEF RequestOK, Serving, ActingSteps, OfKind, OwnsDevice, BindingSound, AtHome
<1>6. \A q \in Reqs \ {r} : Rests(q)
  BY <1>1 DEF SessionInv, TypeOK, Goto, Rests
<1>7. QED
  BY <1>1, <1>4, <1>5, <1>6, ReadOnlyStep

\* ValidateJWT, account and device.
LEMMA AuthenticationSteps ==
  ASSUME SessionInv, NEW r \in Reqs, AuthUser(r) \/ AuthDevice(r)
  PROVE  SessionInv'
<1>1. pc[r] # "idle" /\ UNCHANGED <<clock, row, device, tokens, challenges, usedJTIs, issued, msg, seen,
                                    arrived, life, marks, revokedLast, assertedLast>>
  BY DEF AuthUser, AuthDevice, tables, memory, locals, history, lives
<1>2. msg[r] \in Messages /\ msg[r].acct \in Accounts
  BY <1>1, MessagesAssumption DEF SessionInv, RequestOK, Serving, Requests
<1>3. ASSUME AuthUser(r), Goto(r, "authDevice") PROVE SessionInv'
  <2>1. ActFor(r, msg[r].acct)
    BY <1>3 DEF AuthUser
  <2>2. /\ pc'[r] = "authDevice" /\ msg'[r] = msg[r] /\ acct'[r] = msg[r].acct
        /\ born'[r] = life'[msg[r].acct] /\ life'[msg[r].acct] \in Nat
    BY <1>1, <1>2, <1>3, <2>1 DEF Goto, ActFor, SessionInv, TypeOK
  <2>3. RequestOK(r)'
    BY <1>2, <2>2 DEF RequestOK, Serving, ActingSteps, OfKind, OwnsDevice, BindingSound, AtHome
  <2>4. "authDevice" \in Steps
    BY DEF Steps, AuthSteps
  <2>5. QED
    BY <1>1, <1>2, <1>3, <2>1, <2>3, <2>4, ReadOnlyMove
<1>4. ASSUME AuthUser(r), End(r) PROVE SessionInv'
  <2>1. ActFor(r, msg[r].acct)
    BY <1>4 DEF AuthUser
  <2>2. QED
    BY <1>1, <1>2, <1>4, <2>1, ReadOnlyEnd
<1>5. ASSUME AuthDevice(r), Goto(r, AuthorizedStep(msg[r])) PROVE SessionInv'
  <2>1. AuthorizedStep(msg[r]) \in {"target", "put", "setPassword", "clearEscrow", "erase"}
    BY DEF AuthorizedStep
  <2>2. Unacting /\ pc[r] = "authDevice"
    BY <1>5 DEF AuthDevice, Unacting, locals, history, lives
  <2>3. /\ pc'[r] = AuthorizedStep(msg[r]) /\ msg'[r] = msg[r] /\ acct'[r] = acct[r]
        /\ born'[r] = born[r]
    BY <1>1, <1>5, <2>2 DEF Goto, Unacting, SessionInv, TypeOK
  <2>4. acct[r] \in Accounts /\ born[r] <= life[acct[r]]
    BY <2>2 DEF SessionInv, RequestOK, Serving, ActingSteps
  <2>5. RequestOK(r)'
    BY <1>1, <1>2, <2>1, <2>3, <2>4
       DEF RequestOK, Serving, ActingSteps, OfKind, OwnsDevice, BindingSound, AtHome
  <2>6. AuthorizedStep(msg[r]) \in Steps
    BY <2>1 DEF Steps, AuthSteps
  <2>7. QED
    BY <1>1, <1>5, <2>2, <2>5, <2>6, ReadOnlyMove
<1>6. ASSUME AuthDevice(r), End(r) PROVE SessionInv'
  BY <1>1, <1>6, ReadOnlyEnd DEF AuthDevice, Unacting, locals, history, lives
<1>7. QED
  BY <1>3, <1>4, <1>5, <1>6 DEF AuthUser, AuthDevice

\* Fail: a request may end anywhere.
LEMMA FailStep ==
  ASSUME SessionInv, NEW r \in Reqs, Fail(r)
  PROVE  SessionInv'
BY ReadOnlyEnd DEF Fail, Unacting, tables, memory, locals, history, lives

\* The challenge, which is gone whatever the answer.
LEMMA VerifyStep ==
  ASSUME SessionInv, NEW r \in Reqs, Verify(r)
  PROVE  SessionInv'
<1> DEFINE step == IF msg[r].op = "roster" THEN "rosterDevice" ELSE "bindAccount"
<1>1. /\ pc[r] = "verify" /\ challenges' \subseteq challenges
      /\ UNCHANGED <<clock, row, device, tokens, usedJTIs, issued, msg, seen, arrived,
                     life, marks, revokedLast, assertedLast>>
      /\ Unacting
      /\ Goto(r, step) \/ End(r)
  BY DEF Verify, Consume, Unacting, tables, locals, history, lives
<1>2. CASE Goto(r, step)
  <2>1. step \in Steps
    BY DEF Steps, LoginSteps
  <2>2. msg[r] \in Messages /\ msg[r].op \in {"roster", "binding"}
    BY <1>1 DEF SessionInv, RequestOK, Serving, OfKind
  <2>3. pc'[r] = step /\ msg'[r] = msg[r]
    BY <1>1, <1>2 DEF Goto, SessionInv, TypeOK
  <2>4. RequestOK(r)'
    BY <2>2, <2>3 DEF RequestOK, Serving, ActingSteps, OfKind, OwnsDevice, BindingSound, AtHome
  <2>5. QED
    BY <1>1, <1>2, <2>1, <2>4, ReadOnlyMove
<1>3. CASE End(r)
  BY <1>1, <1>3, ReadOnlyEnd
<1>4. QED
  BY <1>1, <1>2, <1>3

\* loginRoster up to the token: the device row, the account, the escrow.
LEMMA RosterSteps ==
  ASSUME SessionInv, NEW r \in Reqs, RosterDevice(r) \/ RosterAccount(r) \/ RosterEscrow(r)
  PROVE  SessionInv'
<1>1. /\ pc[r] \in {"rosterDevice", "rosterAccount", "rosterEscrow"}
      /\ challenges' \subseteq challenges
      /\ UNCHANGED <<clock, row, device, tokens, usedJTIs, issued, msg, arrived,
                     life, marks, revokedLast, assertedLast>>
  BY DEF RosterDevice, RosterAccount, RosterEscrow, tables, memory, locals, history, lives
<1>2. msg[r] \in Messages /\ msg[r].dev \in Devices /\ msg[r].op = "roster"
  BY <1>1, MessagesAssumption DEF SessionInv, RequestOK, Serving, OfKind, Requests
<1>3. CASE RosterDevice(r)
  <2>1. CASE Live(msg[r].dev)
    <3>1. ActFor(r, device[msg[r].dev].acct) /\ Goto(r, "rosterAccount")
          /\ seen' = seen /\ device[msg[r].dev].acct \in Accounts
      BY <1>2, <1>3, <2>1 DEF RosterDevice, Live, HasRow, SessionInv, TypeOK, DeviceRows
    <3>2. /\ pc'[r] = "rosterAccount" /\ msg'[r] = msg[r] /\ acct'[r] = device[msg[r].dev].acct
          /\ born'[r] = life'[device[msg[r].dev].acct] /\ life'[device[msg[r].dev].acct] \in Nat
      BY <1>1, <3>1 DEF Goto, ActFor, SessionInv, TypeOK
    <3>3. RequestOK(r)'
      BY <1>1, <1>2, <3>1, <3>2
         DEF RequestOK, Serving, ActingSteps, OfKind, OwnsDevice, BindingSound, AtHome
    <3>4. "rosterAccount" \in Steps
      BY DEF Steps, LoginSteps
    <3>5. QED
      BY <1>1, <3>1, <3>3, <3>4, ReadOnlyMove
  <2>2. CASE ~Live(msg[r].dev)
    BY <1>1, <1>3, <2>2, ReadOnlyEnd DEF RosterDevice
  <2>3. QED
    BY <2>1, <2>2
<1>4. CASE RosterAccount(r)
  <2> DEFINE a == acct[r]
             step == IF AllowedOutright(msg[r].dev, a) THEN "mint" ELSE "rosterEscrow"
  <2>1. pc[r] = "rosterAccount" /\ Unacting
    BY <1>4 DEF RosterAccount, Unacting, history, lives
  <2>2. /\ a \in Accounts /\ born[r] <= life[a]
        /\ Current(r) => device[msg[r].dev].acct = a
    BY <2>1 DEF SessionInv, RequestOK, Serving, ActingSteps, OwnsDevice
  <2>3. CASE ~Exists(a)
    BY <1>1, <1>4, <2>1, <2>3, ReadOnlyEnd DEF RosterAccount
  <2>4. CASE Exists(a)
    <3>1. seen' = [seen EXCEPT ![r] = GetUser(a)] /\ Goto(r, step)
      BY <1>4, <2>4 DEF RosterAccount
    <3>2. GetUser(a) \in Bindings /\ GetUser(a).iat = row[a].iat /\ GetUser(a).sub = row[a].sub
      BY <2>2 DEF GetUser, SessionInv, TypeOK, Rows, Bindings
    <3>3. /\ pc'[r] = step /\ msg'[r] = msg[r] /\ acct'[r] = a /\ seen'[r] = GetUser(a)
          /\ born'[r] = born[r]
      BY <1>1, <2>1, <3>1 DEF Goto, Unacting, SessionInv, TypeOK
    <3>4. row[a].iat \in Nat /\ (row[a].iat > 0 => row[a].sub # NoSpace)
      BY <2>2 DEF SessionInv, BindingsNamed, TypeOK, Rows
    <3>5. step = "mint" /\ msg[r].dev # a => row[a].iat = 0
      BY <3>2 DEF AllowedOutright
    <3>6. step \in {"mint", "rosterEscrow"} /\ step \in Steps
      BY DEF Steps, LoginSteps
    <3>7. RequestOK(r)'
      <4> HIDE DEF step
      <4>1. Serving(r)' /\ OfKind(r)' /\ OwnsDevice(r)'
        BY <1>1, <1>2, <2>2, <3>3, <3>6 DEF Serving, ActingSteps, OfKind, OwnsDevice, Current
      <4>2. BindingSound(r)' /\ AtHome(r)'
        BY <1>1, <1>2, <3>2, <3>3, <3>4, <3>5, <3>6 DEF BindingSound, AtHome
      <4>3. QED
        BY <4>1, <4>2 DEF RequestOK
    <3>8. QED
      BY <1>1, <2>1, <3>1, <3>2, <3>6, <3>7, ReadOnlyMove
  <2>5. QED
    BY <2>3, <2>4
<1>5. CASE RosterEscrow(r)
  <2>1. pc[r] = "rosterEscrow" /\ Unacting /\ seen' = seen
    BY <1>5 DEF RosterEscrow, Unacting, locals, history, lives
  <2>2. CASE IsIdentitySpace(r)
    <3>1. Goto(r, "mint") /\ "mint" \in Steps
      BY <1>5, <2>2 DEF RosterEscrow, Steps, LoginSteps
    <3>2. /\ pc'[r] = "mint" /\ msg'[r] = msg[r] /\ acct'[r] = acct[r] /\ seen'[r] = seen[r]
          /\ born'[r] = born[r]
      BY <1>1, <2>1, <3>1 DEF Goto, Unacting, SessionInv, TypeOK
    <3>3. RequestOK(r) /\ seen[r].sub \in {NoSpace, Own}
      BY <2>2 DEF SessionInv, IsIdentitySpace
    <3>4. Serving(r)' /\ OfKind(r)' /\ OwnsDevice(r)'
      BY <1>1, <1>2, <2>1, <3>2, <3>3
         DEF RequestOK, Serving, ActingSteps, OfKind, OwnsDevice, Current
    <3>5. BindingSound(r)' /\ AtHome(r)'
      BY <1>1, <1>2, <2>1, <3>2, <3>3 DEF RequestOK, BindingSound, AtHome, Current
    <3>6. QED
      BY <1>1, <2>1, <3>1, <3>4, <3>5, ReadOnlyMove DEF RequestOK
  <2>3. CASE ~IsIdentitySpace(r)
    BY <1>1, <1>5, <2>1, <2>3, ReadOnlyEnd DEF RosterEscrow
  <2>4. QED
    BY <2>2, <2>3
<1>6. QED
  BY <1>3, <1>4, <1>5

\* Admit up to the stored binding: the assertion, and the account as it is read.
LEMMA BindAccountStep ==
  ASSUME SessionInv, NEW r \in Reqs, BindAccount(r)
  PROVE  SessionInv'
<1> DEFINE m == msg[r]
<1>1. /\ pc[r] = "bindAccount" /\ challenges' \subseteq challenges
      /\ UNCHANGED <<clock, row, device, tokens, usedJTIs, issued, msg, arrived,
                     life, marks, revokedLast, assertedLast>>
  BY DEF BindAccount, tables, memory
<1>2. m \in Messages /\ m.acct \in Accounts /\ m.op = "binding" /\ m.bind.iat \in Nat
  BY <1>1, MessagesAssumption DEF SessionInv, RequestOK, Serving, OfKind, Requests, Bindings
<1>3. CASE Exists(m.acct) /\ VerifyAdmission(m)
  <2>1. ActFor(r, m.acct) /\ seen' = [seen EXCEPT ![r] = GetUser(m.acct)]
        /\ Goto(r, "accept") /\ "accept" \in Steps
    BY <1>3 DEF BindAccount, Steps, LoginSteps
  <2>2. GetUser(m.acct) \in Bindings /\ GetUser(m.acct).iat <= row[m.acct].iat
    BY <1>2 DEF GetUser, SessionInv, TypeOK, Rows, Bindings
  <2>3. /\ pc'[r] = "accept" /\ msg'[r] = m /\ acct'[r] = m.acct /\ seen'[r] = GetUser(m.acct)
        /\ born'[r] = life'[m.acct] /\ life'[m.acct] \in Nat
    BY <1>1, <1>2, <2>1 DEF Goto, ActFor, SessionInv, TypeOK
  <2>4. m.bind.sub # NoSpace
    BY <1>3 DEF VerifyAdmission, ValidBinding
  <2>5. RequestOK(r)'
    BY <1>1, <1>2, <1>3, <2>2, <2>3, <2>4
       DEF RequestOK, Serving, ActingSteps, OfKind, OwnsDevice, BindingSound, AtHome, Exists
  <2>6. QED
    BY <1>1, <1>2, <2>1, <2>2, <2>5, ReadOnlyMove
<1>4. CASE ~(Exists(m.acct) /\ VerifyAdmission(m))
  BY <1>1, <1>4, ReadOnlyEnd DEF BindAccount
<1>5. QED
  BY <1>3, <1>4

\* Admit after it: the stored binding again, and the device row twice.
LEMMA BindingReads ==
  ASSUME SessionInv, NEW r \in Reqs, Reread(r) \/ BindDevice(r) \/ Recheck(r)
  PROVE  SessionInv'
<1>1. /\ pc[r] \in {"reread", "bindDevice", "recheck"} /\ challenges' \subseteq challenges
      /\ UNCHANGED <<clock, row, device, tokens, usedJTIs, issued, msg, seen, arrived,
                     life, marks, revokedLast, assertedLast>>
      /\ Unacting
  BY DEF Reread, BindDevice, Recheck, Unacting, tables, memory, locals, history, lives
<1>2. RequestOK(r) /\ msg[r] \in Messages /\ acct[r] \in Accounts /\ msg[r].op = "binding"
  BY <1>1 DEF SessionInv, RequestOK, Serving, ActingSteps, OfKind
<1>3. \/ End(r)
      \/ Goto(r, "bindDevice") \/ Goto(r, "ensure")
      \/ (Goto(r, "mint") \/ Goto(r, "revive")) /\ device[msg[r].dev].acct = acct[r]
  BY DEF Reread, BindDevice, Recheck, Live
<1>4. ASSUME NEW step \in {"bindDevice", "ensure", "mint", "revive"}, Goto(r, step),
             step \in {"mint", "revive"} => device[msg[r].dev].acct = acct[r]
      PROVE  SessionInv'
  <2>1. step \in Steps
    BY DEF Steps, LoginSteps
  <2>2. /\ pc'[r] = step /\ msg'[r] = msg[r] /\ acct'[r] = acct[r] /\ seen'[r] = seen[r]
        /\ born'[r] = born[r]
    BY <1>1, <1>4 DEF Goto, Unacting, SessionInv, TypeOK
  <2>3. Serving(r)' /\ OfKind(r)' /\ OwnsDevice(r)' /\ AtHome(r)'
    BY <1>1, <1>2, <1>4, <2>2 DEF RequestOK, Serving, ActingSteps, OfKind, OwnsDevice, AtHome
  <2>4. BindingSound(r)'
    BY <1>1, <1>2, <2>2 DEF RequestOK, BindingSound, Current
  <2>5. QED
    BY <1>1, <1>4, <2>1, <2>3, <2>4, ReadOnlyMove DEF RequestOK
<1>5. CASE End(r)
  BY <1>1, <1>5, ReadOnlyEnd
<1>6. QED
  BY <1>3, <1>4, <1>5

\* Enrolment up to the device row.
LEMMA EnrolmentReads ==
  ASSUME SessionInv, NEW r \in Reqs, Signer(r) \/ Credential(r) \/ Lookup(r)
  PROVE  SessionInv'
<1>1. /\ pc[r] \in {"signer", "credential", "lookup"} /\ challenges' \subseteq challenges
      /\ UNCHANGED <<clock, row, device, tokens, usedJTIs, issued, msg, seen, arrived,
                     life, marks, revokedLast, assertedLast>>
  BY DEF Signer, Credential, Lookup, tables, memory, locals, history, lives
<1>2. RequestOK(r) /\ msg[r] \in Messages /\ msg[r].acct \in Accounts /\ msg[r].jti \in JTIs \cup {NoJTI}
  BY <1>1, MessagesAssumption DEF SessionInv, RequestOK, Serving, Requests
<1>3. ASSUME NEW step \in {"mark", "lookup", "enroll"}, NEW a \in Accounts,
             Goto(r, step), (Unacting /\ a = acct[r] /\ born[r] <= life[a]) \/ ActFor(r, a),
             step = "mark" => msg[r].jti # NoJTI
      PROVE  SessionInv'
  <2>1. step \in Steps
    BY DEF Steps, EnrollSteps
  <2>2. /\ pc'[r] = step /\ msg'[r] = msg[r] /\ acct'[r] = a
        /\ born'[r] <= life'[a]
    BY <1>1, <1>3 DEF Goto, Unacting, ActFor, SessionInv, TypeOK
  <2>3. RequestOK(r)'
    BY <1>1, <1>2, <1>3, <2>2
       DEF RequestOK, Serving, ActingSteps, OfKind, OwnsDevice, BindingSound, AtHome
  <2>4. QED
    BY <1>1, <1>3, <2>1, <2>3, ReadOnlyMove
<1>4. CASE Signer(r)
  <2> DEFINE g == Deleg[msg[r].jti]
             ok == /\ IF HasRow(g.by) THEN Live(g.by) ELSE g.by \in Accounts /\ Exists(g.by)
                   /\ g.dpk \in {NoAccount, msg[r].dev}
                   /\ g.exp >= clock
  <2>1. msg[r].jti # NoJTI
    BY <1>2, <1>4 DEF Signer, RequestOK, OfKind
  <2>2. g.by \in Devices
    BY <1>2, <2>1, DelegAssumption
  <2>3. CASE ok
    <3>1. ActFor(r, DelegatingAccount(g.by)) /\ Goto(r, "mark")
      BY <1>4, <2>3 DEF Signer
    <3>2. DelegatingAccount(g.by) \in Accounts
      BY <2>2, <2>3 DEF DelegatingAccount, HasRow, SessionInv, TypeOK, DeviceRows
    <3>3. QED
      BY <1>3, <2>1, <3>1, <3>2
  <2>4. CASE ~ok
    BY <1>1, <1>4, <2>4, ReadOnlyEnd DEF Signer
  <2>5. QED
    BY <2>3, <2>4
<1>5. CASE Credential(r)
  <2>1. CASE CredentialOf(msg[r].acct)
    BY <1>2, <1>3, <1>5, <2>1 DEF Credential
  <2>2. CASE ~CredentialOf(msg[r].acct)
    BY <1>1, <1>5, <2>2, ReadOnlyEnd DEF Credential
  <2>3. QED
    BY <2>1, <2>2
<1>6. CASE Lookup(r)
  <2>1. Unacting /\ pc[r] = "lookup" /\ (Goto(r, "enroll") \/ End(r))
    BY <1>6 DEF Lookup, Unacting, locals, history, lives
  <2>2. acct[r] \in Accounts /\ born[r] <= life[acct[r]]
    BY <1>2, <2>1 DEF RequestOK, Serving, ActingSteps
  <2>3. CASE Goto(r, "enroll")
    BY <1>3, <2>1, <2>2, <2>3
  <2>4. CASE End(r)
    BY <1>1, <2>1, <2>4, ReadOnlyEnd
  <2>5. QED
    BY <2>1, <2>3, <2>4
<1>7. QED
  BY <1>4, <1>5, <1>6

\* The reads of an authenticated request before its transaction.
LEMMA AuthorizedReads ==
  ASSUME SessionInv, NEW r \in Reqs, Target(r) \/ Put(r) \/ PutEscrow(r)
  PROVE  SessionInv'
<1>1. /\ pc[r] \in {"target", "put", "putEscrow"} /\ challenges' \subseteq challenges
      /\ UNCHANGED <<clock, row, device, tokens, usedJTIs, issued, msg, seen, arrived,
                     life, marks, revokedLast, assertedLast>>
      /\ Unacting
  BY DEF Target, Put, PutEscrow, Unacting, tables, memory, locals, history, lives
<1>2. RequestOK(r) /\ msg[r] \in Messages /\ acct[r] \in Accounts /\ born[r] <= life[acct[r]]
  BY <1>1 DEF SessionInv, RequestOK, Serving, ActingSteps
<1>3. \/ End(r)
      \/ Goto(r, "revokeTx")
      \/ (Goto(r, "putEscrow") \/ Goto(r, "acceptPut")) /\ msg[r].bind.sub # NoSpace
  BY <1>2 DEF Target, Put, PutEscrow, ValidBinding, RequestOK, BindingSound
<1>4. ASSUME NEW step \in {"revokeTx", "putEscrow", "acceptPut"}, Goto(r, step),
             step # "revokeTx" => msg[r].bind.sub # NoSpace
      PROVE  SessionInv'
  <2>1. step \in Steps
    BY DEF Steps, AuthSteps
  <2>2. pc'[r] = step /\ msg'[r] = msg[r] /\ acct'[r] = acct[r] /\ born'[r] = born[r]
    BY <1>1, <1>4 DEF Goto, Unacting, SessionInv, TypeOK
  <2>3. RequestOK(r)'
    BY <1>1, <1>2, <1>4, <2>2
       DEF RequestOK, Serving, ActingSteps, OfKind, OwnsDevice, BindingSound, AtHome
  <2>4. QED
    BY <1>1, <1>4, <2>1, <2>3, ReadOnlyMove
<1>5. CASE End(r)
  BY <1>1, <1>5, ReadOnlyEnd
<1>6. QED
  BY <1>3, <1>4, <1>5

-----------------------------------------------------------------------------
(* The statements that write. *)

\* Tokens stay sound while, between deletions, binding times grow and rows keep
\* their accounts.
LEMMA TokensKept ==
  ASSUME SessionInv, TypeOK', Grows, tokens' = tokens
  PROVE  TokensSound'
<1> SUFFICES ASSUME NEW t \in tokens
             PROVE  /\ t.life <= life'[t.acct]
                    /\ t.life = life'[t.acct] => device'[t.dev].acct = t.acct /\ t.bv <= row'[t.acct].iat
                    /\ t.via = "roster" /\ t.dev # t.acct /\ t.bv > 0 => t.sub = Own
  BY DEF TokensSound, OfThisLife
<1> DEFINE a == t.acct
<1>1. t.dev \in Devices /\ a \in Accounts /\ t.bv \in Nat /\ t.life \in Nat
  BY DEF SessionInv, TypeOK, Tokens
<1>2. row[a].iat \in Nat /\ row'[a].iat \in Nat /\ life[a] \in Nat /\ life'[a] \in Nat
  BY <1>1 DEF SessionInv, TypeOK, Rows
<1>3. /\ t.life <= life[a]
      /\ t.life = life[a] => device[t.dev].acct = a /\ t.bv <= row[a].iat
      /\ t.via = "roster" /\ t.dev # a /\ t.bv > 0 => t.sub = Own
  BY DEF SessionInv, TokensSound, OfThisLife
<1>4. CASE life'[a] > life[a]
  BY <1>1, <1>2, <1>3, <1>4
<1>5. CASE ~(life'[a] > life[a])
  <2>1. /\ life'[a] = life[a] /\ row[a].iat <= row'[a].iat
        /\ device[t.dev].acct = a => device'[t.dev].acct = a
    BY <1>1, <1>5 DEF Grows
  <2>2. QED
    BY <1>1, <1>2, <1>3, <2>1
<1>6. QED
  BY <1>4, <1>5

\* A transaction on a table keeps the invariant if it keeps what the tables
\* promise and leaves its own request in order.
LEMMA WriteStep ==
  ASSUME SessionInv, NEW r \in Reqs, TypeOK', Grows, RequestOK(r)',
         \A q \in Reqs \ {r} : Rests(q),
         UNCHANGED <<clock, tokens, usedJTIs, marks>>,
         EscrowKept' /\ BindingsNamed' /\ RevocationsKept' /\ RevokedStaysOut'
  PROVE  SessionInv'
<1>1. \A q \in Reqs : RequestOK(q)'
  BY RestingRequest DEF SessionInv
<1>2. TokensSound'
  BY TokensKept
<1>3. clock' > 0 /\ UsesRemembered'
  BY DEF SessionInv, UsesRemembered
<1>4. QED
  BY <1>1, <1>2, <1>3 DEF SessionInv

\* Nothing about revocations depends on the users table.
LEMMA DevicesUntouched ==
  ASSUME SessionInv, UNCHANGED <<device, revokedLast, assertedLast>>
  PROVE  RevocationsKept' /\ RevokedStaysOut'
BY DEF SessionInv, RevocationsKept, RevokedStaysOut, Live, HasRow

\* AcceptBinding's UPDATE lets the time grow, and a binding to this space in
\* only beside the escrow.
LEMMA StoredBinding ==
  ASSUME SessionInv, NEW a \in Accounts, NEW b \in Bindings, b.sub # NoSpace, StoreBinding(a, b)
  PROVE  /\ row' \in [Accounts -> Rows]
         /\ \A x \in Accounts : row[x].iat <= row'[x].iat /\ (Exists(x) => row'[x].exists)
         /\ EscrowKept' /\ BindingsNamed'
         /\ Exists(a) /\ b.sub # Own => b.iat <= row'[a].iat
<1>1. row \in [Accounts -> Rows] /\ row[a] \in Rows /\ b.iat \in Nat /\ b.sub \in Subs
  BY DEF SessionInv, TypeOK, Bindings
<1>2. row[a].iat \in Nat /\ row[a].sub \in Subs /\ row[a].escrow \in BOOLEAN /\ row[a].verifier \in BOOLEAN
  BY <1>1 DEF Rows
<1>3. CASE Acceptable(a, b)
  <2> DEFINE new == [exists |-> TRUE, iat |-> b.iat, sub |-> b.sub, escrow |-> b.sub = Own /\ row[a].escrow,
                     verifier |-> b.sub = Own /\ row[a].verifier]
  <2>1. row' = [row EXCEPT ![a] = new]
    BY <1>3 DEF StoreBinding
  <2>2. new \in Rows
    BY <1>1, <1>2 DEF Rows
  <2>3. /\ row[a].iat <= new.iat /\ (new.sub = Own => new.escrow) /\ new.sub # NoSpace
        /\ new.iat = b.iat /\ new.exists
    BY <1>1, <1>2, <1>3 DEF Acceptable, Later
  <2>4. row' \in [Accounts -> Rows] /\ row'[a] = new /\ \A x \in Accounts \ {a} : row'[x] = row[x]
    BY <1>1, <2>1, <2>2
  <2>5. \A x \in Accounts : row[x].iat \in Nat
    BY <1>1 DEF Rows
  <2> HIDE DEF new
  <2>6. QED
    BY <1>1, <2>3, <2>4, <2>5 DEF SessionInv, EscrowKept, BindingsNamed, Exists
<1>4. CASE ~Acceptable(a, b)
  <2>1. row' = row
    BY <1>4 DEF StoreBinding
  <2>2. Exists(a) /\ b.sub # Own => b.iat <= row[a].iat
    BY <1>1, <1>2, <1>4 DEF Acceptable, Later
  <2>3. \A x \in Accounts : row[x].iat \in Nat
    BY <1>1 DEF Rows
  <2>4. QED
    BY <1>1, <2>1, <2>2, <2>3 DEF SessionInv, EscrowKept, BindingsNamed, Exists
<1>5. QED
  BY <1>3, <1>4

\* The UPDATE of a login and that of PUT /identity/binding.
LEMMA AcceptSteps ==
  ASSUME SessionInv, NEW r \in Reqs, Accept(r) \/ AcceptPut(r)
  PROVE  SessionInv'
<1> DEFINE a == acct[r]
           b == msg[r].bind
<1>1. /\ pc[r] \in {"accept", "acceptPut"} /\ StoreBinding(a, b)
      /\ UNCHANGED <<clock, device, challenges, usedJTIs, issued, tokens, msg, acct, seen, arrived,
                     life, born, marks, revokedLast, assertedLast>>
  BY DEF Accept, AcceptPut, memory, locals, history, lives
<1>2. RequestOK(r) /\ msg[r] \in Messages /\ a \in Accounts /\ b \in Bindings /\ b.sub # NoSpace
  BY <1>1, MessagesAssumption DEF SessionInv, RequestOK, Serving, ActingSteps, BindingSound, Requests
<1>3. /\ row' \in [Accounts -> Rows]
      /\ \A x \in Accounts : row[x].iat <= row'[x].iat /\ (Exists(x) => row'[x].exists)
      /\ EscrowKept' /\ BindingsNamed'
      /\ Exists(a) /\ b.sub # Own => b.iat <= row'[a].iat
  BY <1>1, <1>2, StoredBinding
<1>4. PICK step \in {"bindDevice", "reread", "idle"} :
        Goto(r, step) /\ (pc[r] = "acceptPut" => step = "idle")
  BY DEF Accept, AcceptPut, Goto, End
<1>5. TypeOK'
  <2>1. step \in Steps
    BY DEF Steps, LoginSteps
  <2>2. pc' \in [Reqs -> Steps]
    BY <1>4, <2>1 DEF Goto, SessionInv, TypeOK
  <2>3. QED
    BY <1>1, <1>3, <2>2 DEF SessionInv, TypeOK
<1>6. Grows
  BY <1>1, <1>3 DEF Grows
<1>7. /\ pc'[r] = step /\ msg'[r] = msg[r] /\ acct'[r] = a /\ seen'[r] = seen[r]
      /\ born'[r] = born[r] /\ life' = life
  BY <1>1, <1>4 DEF Goto, SessionInv, TypeOK
<1>8. RequestOK(r)'
  <2>1. CASE step = "idle"
    BY <1>7, <2>1, EndedRequest
  <2>2. CASE step # "idle"
    <3>1. pc[r] = "accept" /\ msg[r].op = "binding" /\ step \in {"bindDevice", "reread"}
      BY <1>1, <1>2, <1>4, <2>2 DEF RequestOK, OfKind
    <3>2. Current(r) => b.iat <= row'[a].iat
      BY <1>2, <1>3, <3>1, MessagesAssumption DEF RequestOK, BindingSound
    <3>3. (Current(r) => seen[r].iat <= row[a].iat) /\ row[a].iat <= row'[a].iat
      BY <1>2, <1>3, <3>1 DEF RequestOK, BindingSound
    <3>4. seen[r].iat \in Nat /\ row[a].iat \in Nat /\ row'[a].iat \in Nat
      BY <1>2, <1>3 DEF SessionInv, TypeOK, Bindings, Rows
    <3>5. Current(r) => seen[r].iat <= row'[a].iat
      BY <3>3, <3>4
    <3>6. Serving(r)' /\ OfKind(r)' /\ OwnsDevice(r)' /\ AtHome(r)'
      BY <1>2, <1>7, <3>1 DEF RequestOK, Serving, ActingSteps, OfKind, OwnsDevice, AtHome
    <3>7. BindingSound(r)'
      BY <1>7, <3>1, <3>2, <3>5 DEF BindingSound, Current
    <3>8. QED
      BY <3>6, <3>7 DEF RequestOK
  <2>3. QED
    BY <2>1, <2>2
<1>9. \A q \in Reqs \ {r} : Rests(q)
  BY <1>1, <1>4 DEF Goto, Rests, SessionInv, TypeOK
<1>10. RevocationsKept' /\ RevokedStaysOut'
  BY <1>1, DevicesUntouched
<1>11. QED
  BY <1>1, <1>3, <1>5, <1>6, <1>8, <1>9, <1>10, WriteStep

\* A password or its removal changes neither the binding nor, at home, the
\* escrow.
LEMMA CredentialSteps ==
  ASSUME SessionInv, NEW r \in Reqs, SetPassword(r) \/ ClearEscrow(r)
  PROVE  SessionInv'
<1> DEFINE a == acct[r]
<1>1. /\ pc[r] \in {"setPassword", "clearEscrow"} /\ End(r)
      /\ SetPasswordCredentials(a, msg[r].blob) \/ ClearCredentials(a)
      /\ UNCHANGED <<clock, device, challenges, usedJTIs, issued, tokens, msg, acct, seen, arrived,
                     life, born, marks, revokedLast, assertedLast>>
  BY DEF SetPassword, ClearEscrow, memory, locals, history, lives
<1>2. a \in Accounts /\ msg[r] \in Messages /\ msg[r].blob \in BOOLEAN
  BY <1>1, MessagesAssumption DEF SessionInv, RequestOK, Serving, ActingSteps, Requests
<1>3. row[a] \in Rows
  BY <1>2 DEF SessionInv, TypeOK
<1>4. \/ row' = row
      \/ \E e, v \in BOOLEAN : /\ row' = [row EXCEPT ![a] = [row[a] EXCEPT !.escrow = e, !.verifier = v]]
                               /\ row[a].sub = Own => e
  BY <1>1, <1>2 DEF SetPasswordCredentials, ClearCredentials, SessionInv, TypeOK
<1>5. /\ row' \in [Accounts -> Rows] /\ EscrowKept'
      /\ \A x \in Accounts : /\ row'[x].iat = row[x].iat /\ row'[x].sub = row[x].sub
                             /\ row'[x].exists = row[x].exists
  <2>1. CASE row' = row
    BY <2>1 DEF SessionInv, TypeOK, EscrowKept
  <2>2. ASSUME NEW e \in BOOLEAN, NEW v \in BOOLEAN, row[a].sub = Own => e,
               row' = [row EXCEPT ![a] = [row[a] EXCEPT !.escrow = e, !.verifier = v]]
        PROVE  <1>5!:
    <3> DEFINE new == [row[a] EXCEPT !.escrow = e, !.verifier = v]
    <3>1. /\ new \in Rows /\ new.iat = row[a].iat /\ new.sub = row[a].sub /\ new.escrow = e
          /\ new.exists = row[a].exists
      BY <1>3 DEF Rows
    <3> HIDE DEF new
    <3>2. row'[a] = new /\ \A x \in Accounts \ {a} : row'[x] = row[x]
      BY <1>2, <2>2 DEF new, SessionInv, TypeOK
    <3>3. row' \in [Accounts -> Rows]
      BY <1>2, <2>2, <3>1 DEF new, SessionInv, TypeOK
    <3>4. QED
      BY <1>2, <2>2, <3>1, <3>2, <3>3 DEF SessionInv, EscrowKept
  <2>3. QED
    BY <1>4, <2>1, <2>2
<1>6. Grows /\ BindingsNamed'
  BY <1>1, <1>5 DEF Grows, SessionInv, BindingsNamed, Exists, TypeOK, Rows
<1>7. pc'[r] = "idle" /\ \A q \in Reqs \ {r} : Rests(q)
  BY <1>1 DEF End, Rests, SessionInv, TypeOK
<1>8. TypeOK'
  <2>1. pc' \in [Reqs -> Steps]
    BY <1>1 DEF End, SessionInv, TypeOK, Steps
  <2>2. QED
    BY <1>1, <1>5, <2>1 DEF SessionInv, TypeOK
<1>9. RevocationsKept' /\ RevokedStaysOut'
  BY <1>1, DevicesUntouched
<1>10. QED
  BY <1>1, <1>5, <1>6, <1>7, <1>8, <1>9, EndedRequest, WriteStep

\* EnsureDevice of a login and of an enrolment: a row is made where there was
\* none, and such a device was never revoked.
LEMMA EnsureSteps ==
  ASSUME SessionInv, NEW r \in Reqs, Ensure(r) \/ Enroll(r)
  PROVE  SessionInv'
<1> DEFINE a == acct[r]
           d == msg[r].dev
<1>1. /\ pc[r] \in {"ensure", "enroll"} /\ EnsureDevice(d, a)
      /\ (pc[r] = "ensure" /\ Goto(r, "recheck")) \/ End(r)
      /\ UNCHANGED <<clock, row, challenges, usedJTIs, issued, tokens, msg, acct, seen, arrived,
                     life, born, marks, revokedLast, assertedLast>>
  BY DEF Ensure, Enroll, memory, locals, history, lives
<1>2. RequestOK(r) /\ msg[r] \in Messages /\ a \in Accounts /\ d \in Devices
  BY <1>1, MessagesAssumption DEF SessionInv, RequestOK, Serving, ActingSteps, Requests
<1>3. /\ device' \in [Devices -> DeviceRows]
      /\ \A x \in Devices : \/ device'[x] = device[x]
                            \/ ~HasRow(x) /\ device'[x] = [acct |-> a, revoked |-> 0]
  BY <1>1, <1>2 DEF EnsureDevice, SessionInv, TypeOK, DeviceRows
<1>4. Grows
  <2>1. \A x \in Devices, b \in Accounts : device[x].acct = b => device'[x].acct = b
    BY <1>3, KeysAssumption DEF HasRow
  <2>2. QED
    BY <1>1, <2>1 DEF Grows, SessionInv, TypeOK, Rows, Exists
<1>5. RevocationsKept' /\ RevokedStaysOut'
  <2> SUFFICES ASSUME NEW x \in Devices
               PROVE  /\ device'[x].acct = NoAccount => revokedLast[x] = 0
                      /\ device'[x].revoked # 0 => device'[x].revoked = revokedLast[x]
                      /\ device'[x].acct # NoAccount /\ device'[x].revoked = 0 /\ revokedLast[x] > 0 =>
                           assertedLast[x] > revokedLast[x]
    BY <1>1 DEF RevocationsKept, RevokedStaysOut, Live, HasRow
  <2>1. CASE device'[x] = device[x]
    BY <2>1 DEF SessionInv, RevocationsKept, RevokedStaysOut, Live, HasRow
  <2>2. CASE ~HasRow(x) /\ device'[x] = [acct |-> a, revoked |-> 0]
    BY <1>2, <2>2, KeysAssumption DEF SessionInv, RevocationsKept, HasRow
  <2>3. QED
    BY <1>3, <2>1, <2>2
<1>6. PICK step \in {"recheck", "idle"} : Goto(r, step) /\ (step = "recheck" => pc[r] = "ensure")
  BY <1>1 DEF Goto, End
<1>7. /\ pc'[r] = step /\ msg'[r] = msg[r] /\ acct'[r] = a /\ seen'[r] = seen[r]
      /\ born'[r] = born[r]
  BY <1>1, <1>6 DEF Goto, SessionInv, TypeOK
<1>8. RequestOK(r)'
  <2>1. CASE step = "idle"
    BY <1>7, <2>1, EndedRequest
  <2>2. CASE step = "recheck"
    <3>1. Serving(r)' /\ OfKind(r)' /\ OwnsDevice(r)' /\ AtHome(r)'
      BY <1>1, <1>2, <1>6, <1>7, <2>2
         DEF RequestOK, Serving, ActingSteps, OfKind, OwnsDevice, AtHome
    <3>2. BindingSound(r)'
      BY <1>1, <1>2, <1>6, <1>7, <2>2 DEF RequestOK, BindingSound, Current
    <3>3. QED
      BY <3>1, <3>2 DEF RequestOK
  <2>3. QED
    BY <2>1, <2>2
<1>9. TypeOK'
  <2>1. pc' \in [Reqs -> Steps]
    BY <1>6 DEF Goto, SessionInv, TypeOK, Steps, LoginSteps
  <2>2. QED
    BY <1>1, <1>3, <2>1 DEF SessionInv, TypeOK
<1>10. \A q \in Reqs \ {r} : Rests(q)
  BY <1>1, <1>6 DEF Goto, Rests, SessionInv, TypeOK
<1>11. EscrowKept' /\ BindingsNamed'
  BY <1>1 DEF SessionInv, EscrowKept, BindingsNamed, Exists
<1>12. QED
  BY <1>1, <1>4, <1>5, <1>8, <1>9, <1>10, <1>11, WriteStep

\* ReviveDevice: a revocation is undone only by a later assertion.
LEMMA ReviveStep ==
  ASSUME SessionInv, NEW r \in Reqs, Revive(r)
  PROVE  SessionInv'
<1> DEFINE a == acct[r]
           d == msg[r].dev
<1>1. /\ pc[r] = "revive"
      /\ UNCHANGED <<clock, row, challenges, usedJTIs, issued, tokens, msg, acct, seen, arrived,
                     life, born, marks, revokedLast>>
  BY DEF Revive, memory, locals, lives
<1>2. RequestOK(r) /\ msg[r] \in Messages /\ a \in Accounts /\ d \in Devices /\ msg[r].asserted \in Nat
  BY <1>1, MessagesAssumption DEF SessionInv, RequestOK, Serving, ActingSteps, Requests
<1>3. CASE ~Revivable(r)
  BY <1>1, <1>3, ReadOnlyEnd DEF Revive, Unacting
<1>4. CASE Revivable(r)
  <2>1. /\ device' = [device EXCEPT ![d].revoked = 0] /\ Goto(r, "mint")
        /\ assertedLast' = IF device[d].revoked = 0 THEN assertedLast
                           ELSE [assertedLast EXCEPT ![d] = msg[r].asserted]
    BY <1>4 DEF Revive
  <2>2. device[d].acct = a /\ device[d] \in DeviceRows /\ revokedLast[d] \in Nat
        /\ (device[d].revoked = 0 \/ device[d].revoked < msg[r].asserted)
    BY <1>2, <1>4 DEF Revivable, SessionInv, TypeOK
  <2>3. /\ device' \in [Devices -> DeviceRows]
        /\ device'[d].acct = device[d].acct /\ device'[d].revoked = 0
        /\ \A x \in Devices \ {d} : device'[x] = device[x]
    BY <1>2, <2>1, <2>2 DEF SessionInv, TypeOK, DeviceRows
  <2>4. /\ assertedLast' \in [Devices -> Nat]
        /\ device[d].revoked # 0 => assertedLast'[d] = msg[r].asserted
        /\ device[d].revoked = 0 => assertedLast'[d] = assertedLast[d]
        /\ \A x \in Devices \ {d} : assertedLast'[x] = assertedLast[x]
    BY <1>2, <2>1 DEF SessionInv, TypeOK
  <2>5. Grows
    BY <1>1, <2>3 DEF Grows, SessionInv, TypeOK, Rows, Exists
  <2>6. RevocationsKept'
    BY <1>1, <2>3 DEF SessionInv, RevocationsKept
  <2>7. RevokedStaysOut'
    <3>1. a # NoAccount
      BY <1>2, KeysAssumption
    <3>2. revokedLast[d] > 0 => assertedLast'[d] > revokedLast[d]
      BY <1>2, <2>2, <2>4, <3>1 DEF SessionInv, RevocationsKept, RevokedStaysOut, Live, HasRow
    <3>3. QED
      BY <1>1, <2>3, <2>4, <3>2 DEF SessionInv, RevokedStaysOut, Live, HasRow
  <2>8. /\ pc'[r] = "mint" /\ msg'[r] = msg[r] /\ acct'[r] = a /\ seen'[r] = seen[r]
        /\ born'[r] = born[r]
    BY <1>1, <2>1 DEF Goto, SessionInv, TypeOK
  <2>9. RequestOK(r)'
    <3>1. msg[r].op = "binding"
      BY <1>1, <1>2 DEF RequestOK, OfKind
    <3>2. Serving(r)' /\ OfKind(r)' /\ OwnsDevice(r)' /\ AtHome(r)'
      BY <1>1, <1>2, <2>2, <2>3, <2>8, <3>1
         DEF RequestOK, Serving, ActingSteps, OfKind, OwnsDevice, AtHome
    <3>3. BindingSound(r)'
      BY <1>1, <1>2, <2>8, <3>1 DEF RequestOK, BindingSound, Current
    <3>4. QED
      BY <3>2, <3>3 DEF RequestOK
  <2>10. TypeOK'
    <3>1. pc' \in [Reqs -> Steps]
      BY <2>1 DEF Goto, SessionInv, TypeOK, Steps, LoginSteps
    <3>2. QED
      BY <1>1, <2>3, <2>4, <3>1 DEF SessionInv, TypeOK
  <2>11. \A q \in Reqs \ {r} : Rests(q)
    BY <1>1, <2>1 DEF Goto, Rests, SessionInv, TypeOK
  <2>12. EscrowKept' /\ BindingsNamed'
    BY <1>1 DEF SessionInv, EscrowKept, BindingsNamed, Exists
  <2>13. QED
    BY <1>1, <2>5, <2>6, <2>7, <2>9, <2>10, <2>11, <2>12, WriteStep
<1>5. QED
  BY <1>3, <1>4

\* RevokeDevice's transaction: whoever the row belongs to by then, it is marked.
LEMMA RevokeStep ==
  ASSUME SessionInv, NEW r \in Reqs, RevokeTx(r)
  PROVE  SessionInv'
<1> DEFINE d == msg[r].target
<1>1. /\ pc[r] = "revokeTx" /\ End(r) /\ RevokeRow(d)
      /\ UNCHANGED <<clock, row, challenges, usedJTIs, issued, tokens, msg, acct, seen, arrived,
                     life, born, marks, assertedLast>>
  BY DEF RevokeTx, memory, locals, lives
<1>2. d \in Devices
  BY <1>1, MessagesAssumption DEF SessionInv, RequestOK, Serving, Requests
<1>3. CASE ~HasRow(d)
  BY <1>1, <1>3, ReadOnlyEnd DEF RevokeRow, Unacting
<1>4. CASE HasRow(d)
  <2>1. clock \in Nat /\ clock > 0 /\ device[d] \in DeviceRows
    BY <1>2 DEF SessionInv, TypeOK
  <2>2. /\ device' \in [Devices -> DeviceRows]
        /\ device'[d].acct = device[d].acct /\ device'[d].revoked = clock
        /\ \A x \in Devices \ {d} : device'[x] = device[x]
    BY <1>1, <1>2, <1>4, <2>1 DEF RevokeRow, SessionInv, TypeOK, DeviceRows
  <2>3. /\ revokedLast' \in [Devices -> Nat] /\ revokedLast'[d] = clock
        /\ \A x \in Devices \ {d} : revokedLast'[x] = revokedLast[x]
    BY <1>1, <1>2, <1>4, <2>1 DEF RevokeRow, SessionInv, TypeOK
  <2>4. Grows
    BY <1>1, <2>2 DEF Grows, SessionInv, TypeOK, Rows, Exists
  <2>5. RevocationsKept'
    BY <1>4, <2>2, <2>3 DEF SessionInv, RevocationsKept, HasRow
  <2>6. RevokedStaysOut'
    BY <1>1, <2>1, <2>2, <2>3 DEF SessionInv, RevokedStaysOut, Live, HasRow
  <2>7. pc'[r] = "idle" /\ \A q \in Reqs \ {r} : Rests(q)
    BY <1>1 DEF End, Rests, SessionInv, TypeOK
  <2>8. TypeOK'
    <3>1. pc' \in [Reqs -> Steps]
      BY <1>1 DEF End, SessionInv, TypeOK, Steps
    <3>2. QED
      BY <1>1, <2>2, <2>3, <3>1 DEF SessionInv, TypeOK
  <2>9. EscrowKept' /\ BindingsNamed'
    BY <1>1 DEF SessionInv, EscrowKept, BindingsNamed, Exists
  <2>10. QED
    BY <1>1, <2>4, <2>5, <2>6, <2>7, <2>8, <2>9, EndedRequest, WriteStep
<1>5. QED
  BY <1>3, <1>4

\* eraseAccount: the account's next life begins; other accounts keep their rows.
LEMMA EraseStep ==
  ASSUME SessionInv, NEW r \in Reqs, EraseAccount(r)
  PROVE  SessionInv'
<1> DEFINE a == acct[r]
<1>1. /\ pc[r] = "erase" /\ End(r)
      /\ row' = [row EXCEPT ![a] = NoUser]
      /\ device' = [d \in Devices |-> IF device[d].acct = a THEN NoDevice ELSE device[d]]
      /\ life' = [life EXCEPT ![a] = @ + 1]
      /\ revokedLast' = [d \in Devices |-> IF device[d].acct = a THEN 0 ELSE revokedLast[d]]
      /\ UNCHANGED <<clock, challenges, usedJTIs, issued, tokens, msg, acct, seen, arrived,
                     born, marks, assertedLast>>
  BY DEF EraseAccount, memory, locals
<1>2. a \in Accounts
  BY <1>1 DEF SessionInv, RequestOK, Serving, ActingSteps
<1>3. /\ NoUser \in Rows /\ NoUser.iat = 0 /\ NoUser.sub = NoSpace
      /\ NoDevice \in DeviceRows /\ NoDevice.acct = NoAccount /\ NoDevice.revoked = 0
  BY DEF NoUser, NoDevice, Rows, DeviceRows, Subs
<1>4. /\ row' \in [Accounts -> Rows] /\ row'[a] = NoUser
      /\ \A x \in Accounts \ {a} : row'[x] = row[x]
  BY <1>1, <1>2, <1>3 DEF SessionInv, TypeOK
<1>5. /\ life' \in [Accounts -> Nat] /\ life'[a] > life[a]
      /\ \A x \in Accounts \ {a} : life'[x] = life[x]
  BY <1>1, <1>2 DEF SessionInv, TypeOK
<1>6. /\ device' \in [Devices -> DeviceRows] /\ revokedLast' \in [Devices -> Nat]
      /\ \A d \in Devices :
           \/ device[d].acct = a /\ device'[d] = NoDevice /\ revokedLast'[d] = 0
           \/ device[d].acct # a /\ device'[d] = device[d] /\ revokedLast'[d] = revokedLast[d]
  BY <1>1, <1>3 DEF SessionInv, TypeOK
<1>7. Grows
  <2> SUFFICES ASSUME NEW x \in Accounts, x # a
               PROVE  /\ life'[x] = life[x] /\ row[x].iat <= row'[x].iat
                      /\ Exists(x) => row'[x].exists
                      /\ \A d \in Devices : device[d].acct = x => device'[d].acct = x
    BY <1>5 DEF Grows
  <2>1. row[x].iat \in Nat
    BY DEF SessionInv, TypeOK, Rows
  <2>2. QED
    BY <1>4, <1>5, <1>6, <2>1 DEF Exists
<1>8. EscrowKept' /\ BindingsNamed'
  <2>1. Own # NoSpace
    BY SpacesAssumption
  <2>2. QED
    BY <1>3, <1>4, <2>1 DEF SessionInv, EscrowKept, BindingsNamed, Exists
<1>9. RevocationsKept' /\ RevokedStaysOut'
  <2> SUFFICES ASSUME NEW d \in Devices
               PROVE  /\ device'[d].acct = NoAccount => revokedLast'[d] = 0
                      /\ device'[d].revoked # 0 => device'[d].revoked = revokedLast'[d]
                      /\ device'[d].acct # NoAccount /\ device'[d].revoked = 0 /\ revokedLast'[d] > 0 =>
                           assertedLast[d] > revokedLast'[d]
    BY <1>1 DEF RevocationsKept, RevokedStaysOut, Live, HasRow
  <2>1. CASE device[d].acct = a
    BY <1>3, <1>6, <2>1
  <2>2. CASE device[d].acct # a
    BY <1>6, <2>2 DEF SessionInv, RevocationsKept, RevokedStaysOut, Live, HasRow
  <2>3. QED
    BY <2>1, <2>2
<1>10. pc'[r] = "idle" /\ \A q \in Reqs \ {r} : Rests(q)
  BY <1>1 DEF End, Rests, SessionInv, TypeOK
<1>11. TypeOK'
  <2>1. pc' \in [Reqs -> Steps]
    BY <1>1 DEF End, SessionInv, TypeOK, Steps
  <2>2. QED
    BY <1>1, <1>4, <1>5, <1>6, <2>1 DEF SessionInv, TypeOK
<1>12. QED
  BY <1>1, <1>7, <1>8, <1>9, <1>10, <1>11, EndedRequest, WriteStep

\* RegisterUser: an account that does not exist, and a key without a row.
LEMMA RegisterStep ==
  ASSUME SessionInv, NEW r \in Reqs, Register(r)
  PROVE  SessionInv'
<1> DEFINE a == msg[r].acct
           d == msg[r].dev
<1>1. /\ pc[r] = "register" /\ End(r)
      /\ UNCHANGED <<clock, challenges, usedJTIs, issued, tokens, msg, acct, seen, arrived,
                     life, born, marks, revokedLast, assertedLast>>
  BY DEF Register, memory, locals, history, lives
<1>2. a \in Accounts /\ d \in Devices
  BY <1>1, MessagesAssumption DEF SessionInv, RequestOK, Serving, Requests
<1>3. CASE Exists(a) \/ HasRow(d)
  <2>1. UNCHANGED <<row, device>>
    BY <1>3 DEF Register, tables
  <2>2. QED
    BY <1>1, <2>1, ReadOnlyEnd DEF Unacting
<1>4. CASE ~Exists(a) /\ ~HasRow(d)
  <2>1. /\ row' = [row EXCEPT ![a] = Registered]
        /\ device' = [device EXCEPT ![d] = [acct |-> a, revoked |-> 0]]
    BY <1>4 DEF Register
  <2>2. Registered \in Rows /\ Registered.iat = 0 /\ Registered.escrow
    BY DEF Registered, Rows, Subs
  <2>3. /\ row' \in [Accounts -> Rows] /\ row'[a] = Registered
        /\ \A x \in Accounts \ {a} : row'[x] = row[x]
    BY <1>2, <2>1, <2>2 DEF SessionInv, TypeOK
  <2>4. /\ device' \in [Devices -> DeviceRows]
        /\ device'[d].acct = a /\ device'[d].revoked = 0
        /\ \A x \in Devices \ {d} : device'[x] = device[x]
    BY <1>2, <2>1 DEF SessionInv, TypeOK, DeviceRows
  <2>5. a # NoAccount /\ device[d].acct = NoAccount
    BY <1>2, <1>4, KeysAssumption DEF HasRow
  <2>6. row[a].iat = 0
    <3>1. row[a].iat \in Nat
      BY <1>2 DEF SessionInv, TypeOK, Rows
    <3>2. QED
      BY <1>2, <1>4, <3>1 DEF SessionInv, BindingsNamed
  <2>7. Grows
    <3> SUFFICES ASSUME NEW x \in Accounts
                 PROVE  /\ life'[x] = life[x] /\ row[x].iat <= row'[x].iat
                        /\ Exists(x) => row'[x].exists
                        /\ \A e \in Devices : device[e].acct = x => device'[e].acct = x
      BY DEF Grows
    <3>1. row[x].iat \in Nat /\ x # NoAccount
      BY KeysAssumption DEF SessionInv, TypeOK, Rows
    <3>2. QED
      BY <1>1, <1>4, <2>2, <2>3, <2>4, <2>5, <2>6, <3>1 DEF Exists
  <2>8. EscrowKept' /\ BindingsNamed'
    BY <2>2, <2>3 DEF SessionInv, EscrowKept, BindingsNamed, Exists
  <2>9. RevocationsKept' /\ RevokedStaysOut'
    BY <1>1, <2>4, <2>5 DEF SessionInv, RevocationsKept, RevokedStaysOut, Live, HasRow
  <2>10. pc'[r] = "idle" /\ \A q \in Reqs \ {r} : Rests(q)
    BY <1>1 DEF End, Rests, SessionInv, TypeOK
  <2>11. TypeOK'
    <3>1. pc' \in [Reqs -> Steps]
      BY <1>1 DEF End, SessionInv, TypeOK, Steps
    <3>2. QED
      BY <1>1, <2>3, <2>4, <3>1 DEF SessionInv, TypeOK
  <2>12. QED
    BY <1>1, <2>7, <2>8, <2>9, <2>10, <2>11, EndedRequest, WriteStep
<1>5. QED
  BY <1>3, <1>4

-----------------------------------------------------------------------------
(* Tokens, delegations, challenges and time. *)

\* GenerateJWT, from what the request read before.
LEMMA MintStep ==
  ASSUME SessionInv, NEW r \in Reqs, Mint(r)
  PROVE  SessionInv'
<1> DEFINE m == msg[r]
           a == acct[r]
           new == [acct |-> a, dev |-> m.dev, bv |-> Version(r), via |-> m.op,
                   sub |-> IF m.op = "binding" THEN m.bind.sub ELSE seen[r].sub, life |-> born[r]]
<1>1. /\ pc[r] = "mint" /\ End(r) /\ tokens' = tokens \cup {new}
      /\ UNCHANGED <<clock, row, device, challenges, usedJTIs, issued, msg, acct, seen, arrived,
                     life, born, marks, revokedLast, assertedLast>>
  BY DEF Mint, tables, memory, locals, history, lives
<1>2. /\ m \in Messages /\ m.dev \in Devices /\ m.bind.iat \in Nat /\ m.bind.sub \in Subs
      /\ a \in Accounts /\ m.op \in {"roster", "binding"} /\ born[r] <= life[a]
  BY <1>1, MessagesAssumption
     DEF SessionInv, RequestOK, Serving, ActingSteps, OfKind, Requests, Bindings
<1>3. seen[r].iat \in Nat /\ seen[r].sub \in Subs /\ row[a].iat \in Nat /\ born[r] \in Nat
  BY <1>2 DEF SessionInv, TypeOK, Bindings, Rows
<1>4. /\ born[r] = life[a] =>
           /\ device[m.dev].acct = a
           /\ seen[r].iat <= row[a].iat
           /\ m.op = "binding" => m.bind.iat <= row[a].iat
      /\ m.op = "roster" /\ m.dev # a /\ seen[r].iat > 0 => seen[r].sub = Own
  BY <1>1 DEF SessionInv, RequestOK, OwnsDevice, BindingSound, AtHome, Current
<1>5. /\ Version(r) \in Nat /\ (m.op = "roster" => Version(r) = seen[r].iat)
      /\ born[r] = life[a] => Version(r) <= row[a].iat
  BY <1>2, <1>3, <1>4 DEF Version
<1>6. new \in Tokens
  BY <1>2, <1>3, <1>5 DEF Tokens
<1>7. TypeOK'
  <2>1. pc' \in [Reqs -> Steps]
    BY <1>1 DEF End, SessionInv, TypeOK, Steps
  <2>2. QED
    BY <1>1, <1>6, <2>1 DEF SessionInv, TypeOK
<1>8. TokensSound'
  <2>1. \A t \in tokens : TokensSound!(t)
    BY DEF SessionInv, TokensSound
  <2>2. /\ new.life <= life[new.acct]
        /\ new.life = life[new.acct] =>
             device[new.dev].acct = new.acct /\ new.bv <= row[new.acct].iat
        /\ new.via = "roster" /\ new.dev # new.acct /\ new.bv > 0 => new.sub = Own
    BY <1>2, <1>3, <1>4, <1>5
  <2> HIDE DEF new
  <2>3. QED
    BY <1>1, <2>1, <2>2 DEF TokensSound, OfThisLife
<1>9. pc'[r] = "idle" /\ \A q \in Reqs \ {r} : Rests(q)
  BY <1>1 DEF End, Rests, SessionInv, TypeOK
<1>10. Grows
  BY <1>1 DEF Grows, SessionInv, TypeOK, Rows, Exists
<1>11. \A q \in Reqs : RequestOK(q)'
  BY <1>7, <1>9, <1>10, EndedRequest, RestingRequest DEF SessionInv
<1>12. EscrowKept' /\ BindingsNamed' /\ UsesRemembered' /\ clock' > 0
  BY <1>1 DEF SessionInv, EscrowKept, BindingsNamed, Exists, UsesRemembered
<1>13. RevocationsKept' /\ RevokedStaysOut'
  BY <1>1, DevicesUntouched
<1>14. QED
  BY <1>7, <1>8, <1>11, <1>12, <1>13 DEF SessionInv

\* markUsed: a delegation that could still be used is not swept.
LEMMA MarkStep ==
  ASSUME SessionInv, NEW r \in Reqs, Mark(r)
  PROVE  SessionInv'
<1> DEFINE j == msg[r].jti
<1>1. /\ pc[r] = "mark"
      /\ UNCHANGED <<clock, row, device, challenges, issued, tokens, msg, acct, seen, arrived,
                     life, born, revokedLast, assertedLast>>
  BY DEF Mark, tables, locals, lives
<1>2. /\ RequestOK(r) /\ msg[r] \in Messages /\ j \in JTIs
      /\ acct[r] \in Accounts /\ born[r] <= life[acct[r]]
  BY <1>1, MessagesAssumption DEF SessionInv, RequestOK, Serving, ActingSteps, OfKind, Requests
<1>3. CASE j \in usedJTIs
  BY <1>1, <1>3, ReadOnlyEnd DEF Mark, Unacting
<1>4. CASE j \notin usedJTIs
  <2>1. /\ usedJTIs' = Pruned(usedJTIs \cup {j}) /\ Goto(r, "lookup")
        /\ marks' = IF Deleg[j].exp >= clock THEN [marks EXCEPT ![j] = @ + 1] ELSE marks
    BY <1>4 DEF Mark
  <2>2. clock \in Nat /\ \A k \in JTIs : Deleg[k].exp \in Nat /\ marks[k] \in Nat
    BY DelegAssumption DEF SessionInv, TypeOK
  <2>3. UsesRemembered'
    <3> SUFFICES ASSUME NEW k \in JTIs
                 PROVE  marks'[k] <= 1 /\ (marks'[k] = 1 => k \in usedJTIs' \/ Deleg[k].exp < clock)
      BY <1>1 DEF UsesRemembered
    <3>1. CASE k = j /\ Deleg[j].exp >= clock
      <4>1. marks[j] = 0
        BY <1>2, <1>4, <2>2, <3>1 DEF SessionInv, UsesRemembered
      <4>2. marks'[j] = 1 /\ j \in usedJTIs'
        BY <1>2, <2>1, <3>1, <4>1 DEF SessionInv, TypeOK, Pruned
      <4>3. QED
        BY <3>1, <4>2
    <3>2. CASE ~(k = j /\ Deleg[j].exp >= clock)
      <4>1. marks'[k] = marks[k]
        BY <1>2, <2>1, <3>2 DEF SessionInv, TypeOK
      <4>2. k \in usedJTIs => k \in usedJTIs' \/ Deleg[k].exp < clock
        BY <2>1, <2>2 DEF Pruned
      <4>3. QED
        BY <4>1, <4>2 DEF SessionInv, UsesRemembered
    <3>3. QED
      BY <3>1, <3>2
  <2>4. /\ pc'[r] = "lookup" /\ msg'[r] = msg[r] /\ acct'[r] = acct[r]
        /\ born'[r] = born[r] /\ life' = life
    BY <1>1, <2>1 DEF Goto, SessionInv, TypeOK
  <2>5. RequestOK(r)'
    BY <1>2, <2>4 DEF RequestOK, Serving, ActingSteps, OfKind, OwnsDevice, BindingSound, AtHome
  <2>6. TypeOK'
    <3>1. pc' \in [Reqs -> Steps]
      BY <2>1 DEF Goto, SessionInv, TypeOK, Steps, EnrollSteps
    <3>2. marks' \in [JTIs -> Nat] /\ usedJTIs' \subseteq JTIs
      BY <1>2, <2>1, <2>2 DEF SessionInv, TypeOK, Pruned
    <3>3. QED
      BY <1>1, <3>1, <3>2 DEF SessionInv, TypeOK
  <2>7. Grows
    BY <1>1 DEF Grows, SessionInv, TypeOK, Rows, Exists
  <2>8. \A q \in Reqs \ {r} : Rests(q)
    BY <1>1, <2>1 DEF Goto, Rests, SessionInv, TypeOK
  <2>9. \A q \in Reqs : RequestOK(q)'
    BY <2>5, <2>6, <2>7, <2>8, RestingRequest DEF SessionInv
  <2>10. EscrowKept' /\ BindingsNamed' /\ TokensSound' /\ clock' > 0
    BY <1>1 DEF SessionInv, EscrowKept, BindingsNamed, Exists, TokensSound, OfThisLife
  <2>11. QED
    BY <1>1, <2>3, <2>6, <2>9, <2>10, DevicesUntouched DEF SessionInv
<1>5. QED
  BY <1>3, <1>4

\* Nobody's knowledge depends on the challenges or on the clock.
LEMMA WorldSteps ==
  ASSUME SessionInv, Tick \/ \E d \in Devices : GetChallenge(d)
  PROVE  SessionInv'
<1>1. /\ UNCHANGED <<row, device, usedJTIs, tokens, pc, msg, acct, seen, arrived,
                     life, born, marks, revokedLast, assertedLast>>
      /\ clock' \in Nat /\ clock' >= clock
  BY DEF Tick, GetChallenge, tables, memory, locals, history, lives, SessionInv, TypeOK
<1>2. challenges' \subseteq Challenges /\ issued' \in Nat /\ issued' <= MaxIssued
  <2>1. CASE Tick
    BY <2>1 DEF Tick, memory, SessionInv, TypeOK
  <2>2. ASSUME NEW d \in Devices, GetChallenge(d) PROVE <1>2!:
    <3>1. PICK kept \in Kept(clock) :
            challenges' = kept \cup {[id |-> issued + 1, key |-> d, exp |-> clock + ChallengeTTL]}
      BY <2>2 DEF GetChallenge
    <3>2. kept \subseteq challenges
      BY <3>1 DEF Kept
    <3>3. issued + 1 \in Ids /\ issued' = issued + 1 /\ clock + ChallengeTTL \in Nat
      BY <2>2, LimitsAssumption DEF GetChallenge, Ids, SessionInv, TypeOK
    <3>4. QED
      BY <2>2, <3>1, <3>2, <3>3, LimitsAssumption DEF Challenges, GetChallenge, SessionInv, TypeOK
  <2>3. QED
    BY <2>1, <2>2
<1>3. TypeOK'
  BY <1>1, <1>2 DEF SessionInv, TypeOK
<1>4. Grows /\ \A q \in Reqs : Rests(q)
  BY <1>1 DEF Grows, Rests, SessionInv, TypeOK, Rows, Exists
<1>5. \A q \in Reqs : RequestOK(q)'
  BY <1>3, <1>4, RestingRequest DEF SessionInv
<1>6. UsesRemembered' /\ clock' > 0
  BY <1>1, DelegAssumption DEF SessionInv, UsesRemembered, TypeOK
<1>7. EscrowKept' /\ BindingsNamed' /\ TokensSound'
  BY <1>1 DEF SessionInv, EscrowKept, BindingsNamed, Exists, TokensSound, OfThisLife
<1>8. QED
  BY <1>1, <1>3, <1>5, <1>6, <1>7, DevicesUntouched DEF SessionInv

\* A restart forgets challenges, used delegations and requests, and no row.
LEMMA RestartStep ==
  ASSUME SessionInv, Restart
  PROVE  SessionInv'
<1>1. /\ UNCHANGED <<clock, row, device, issued, tokens, msg, acct, seen, arrived,
                     life, born, revokedLast, assertedLast>>
      /\ challenges' = {} /\ usedJTIs' = {} /\ pc' = [r \in Reqs |-> "idle"]
      /\ marks' = [j \in JTIs |-> 0]
  BY DEF Restart, tables, locals, lives
<1>2. TypeOK'
  BY <1>1 DEF SessionInv, TypeOK, Steps
<1>3. \A q \in Reqs : RequestOK(q)'
  BY <1>1, EndedRequest
<1>4. UsesRemembered' /\ clock' > 0
  BY <1>1 DEF SessionInv, UsesRemembered
<1>5. EscrowKept' /\ BindingsNamed' /\ TokensSound'
  BY <1>1 DEF SessionInv, EscrowKept, BindingsNamed, Exists, TokensSound, OfThisLife
<1>6. QED
  BY <1>1, <1>2, <1>3, <1>4, <1>5, DevicesUntouched DEF SessionInv

\* The space starts with unbound accounts and the sessions of their devices.
LEMMA SessionInit == Init => SessionInv
<1> SUFFICES ASSUME Init PROVE SessionInv
  OBVIOUS
<1>1. \A d \in InitSessions : d \in Devices /\ InitDevices[d] \in Accounts
  BY InitAssumption
<1>2. tokens \subseteq Tokens
  BY <1>1 DEF Init, Tokens, Subs
<1>3. row \in [Accounts -> Rows] /\ device \in [Devices -> DeviceRows]
  BY InitAssumption DEF Init, Rows, DeviceRows, Subs
<1>4. TypeOK /\ clock > 0
  BY <1>2, <1>3, LimitsAssumption DEF Init, TypeOK, Steps, Bindings, Subs
<1>5. EscrowKept /\ BindingsNamed
  BY SpacesAssumption DEF Init, EscrowKept, BindingsNamed
<1>6. RevocationsKept /\ RevokedStaysOut
  BY DEF Init, RevocationsKept, RevokedStaysOut
<1>7. TokensSound
  BY <1>1 DEF Init, TokensSound, OfThisLife
<1>8. UsesRemembered
  BY DEF Init, UsesRemembered
<1>9. \A r \in Reqs : RequestOK(r)
  BY DEF Init, RequestOK, Serving, ActingSteps, OfKind, OwnsDevice, BindingSound, AtHome
<1>10. QED
  BY <1>4, <1>5, <1>6, <1>7, <1>8, <1>9 DEF SessionInv

\* What requests know of the tables, which within one life of an account never
\* hand a device over nor turn a binding back, holds in every state, however
\* requests, deletions, failures and restarts interleave.
THEOREM SessionsConsistent == Spec => []SessionInv
<1>1. SessionInv /\ [Next]_vars => SessionInv'
  <2> SUFFICES ASSUME SessionInv, [Next]_vars PROVE SessionInv'
    OBVIOUS
  <2>1. ASSUME NEW r \in Reqs, Login(r) PROVE SessionInv'
    BY <2>1, VerifyStep, RosterSteps, BindAccountStep, AcceptSteps, BindingReads, EnsureSteps,
       ReviveStep, MintStep DEF Login
  <2>2. ASSUME NEW r \in Reqs, Enrolment(r) PROVE SessionInv'
    BY <2>2, EnrolmentReads, MarkStep, EnsureSteps DEF Enrolment
  <2>3. ASSUME NEW r \in Reqs, Authorized(r) PROVE SessionInv'
    BY <2>3, AuthenticationSteps, AuthorizedReads, RevokeStep, AcceptSteps, CredentialSteps,
       EraseStep DEF Authorized
  <2>4. CASE UNCHANGED vars
    <3>1. UNCHANGED <<clock, row, device, usedJTIs, tokens, challenges, issued, pc, msg, acct, seen, arrived,
                      life, born, marks, revokedLast, assertedLast>>
      BY <2>4 DEF vars, tables, memory, locals, history, lives
    <3>2. TypeOK' /\ clock' > 0
      BY <3>1 DEF SessionInv, TypeOK
    <3>3. Grows /\ \A q \in Reqs : Rests(q)
      BY <3>1 DEF Grows, Rests, SessionInv, TypeOK, Rows, Exists
    <3>4. \A q \in Reqs : RequestOK(q)'
      BY <3>2, <3>3, RestingRequest DEF SessionInv
    <3>5. EscrowKept' /\ BindingsNamed' /\ TokensSound' /\ UsesRemembered'
      BY <3>1 DEF SessionInv, EscrowKept, BindingsNamed, Exists, TokensSound, OfThisLife, UsesRemembered
    <3>6. QED
      BY <3>1, <3>2, <3>4, <3>5, DevicesUntouched DEF SessionInv
  <2>5. QED
    BY <2>1, <2>2, <2>3, <2>4, WorldSteps, RestartStep, ArriveStep, RegisterStep, FailStep
       DEF Next
<1>2. QED
  BY <1>1, SessionInit, PTL DEF Spec

\* The account key blob of an account whose identity is here is never lost
\* (AcceptBinding, SetPasswordCredentials, ClearEscrow).
THEOREM EscrowStays == Spec => []EscrowKept
<1>1. SessionInv => EscrowKept
  BY DEF SessionInv
<1>2. QED
  BY <1>1, SessionsConsistent, PTL

\* A newer binding ends every session of an older one, except those of the
\* account's own key, although a login uses an account read several
\* statements earlier (Admit, RosterAllowed, ValidateJWT), and for as long as
\* the account is not deleted.
THEOREM BindingEndsSessions == Spec => []SessionsFollowBinding
<1>1. SessionInv => SessionsFollowBinding
  <2> SUFFICES ASSUME SessionInv, NEW t \in tokens, Accepted(t), OfThisLife(t), t.dev # t.acct, row[t.acct].iat > 0
               PROVE  t.bv = row[t.acct].iat /\ (t.via = "binding" \/ t.sub = Own)
    BY DEF SessionsFollowBinding
  <2>1. t.acct \in Accounts /\ t.bv \in Nat /\ t.via \in {"roster", "binding"}
    BY DEF SessionInv, TypeOK, Tokens
  <2>2. row[t.acct].iat \in Nat
    BY <2>1 DEF SessionInv, TypeOK, Rows
  <2>3. QED
    BY <2>1, <2>2 DEF SessionInv, TokensSound, Accepted
<1>2. QED
  BY <1>1, SessionsConsistent, PTL

\* A session speaks for the account that its device's row belongs to, although
\* ValidateJWT never compares the two: until the account is deleted, no deletion
\* of another, enrolment or registration gives the row away.
THEOREM DevicesKeepTheirAccount == Spec => []DeviceSpeaksForItsAccount
<1>1. SessionInv => DeviceSpeaksForItsAccount
  BY DEF SessionInv, TokensSound, DeviceSpeaksForItsAccount
<1>2. QED
  BY <1>1, SessionsConsistent, PTL

\* While its row stays, a revoked device comes back only through an assertion
\* that its identity space stamped later (ReviveDevice), whatever the clocks.
THEOREM RevocationHolds == Spec => []RevokedStaysOut
<1>1. SessionInv => RevokedStaysOut
  BY DEF SessionInv
<1>2. QED
  BY <1>1, SessionsConsistent, PTL

\* A delegation enrols at most once while it is valid (jtiStore.markUsed).
THEOREM DelegationUsedOnce == Spec => []DelegationOnce
<1>1. SessionInv => DelegationOnce
  BY DEF SessionInv, UsesRemembered, DelegationOnce
<1>2. QED
  BY <1>1, SessionsConsistent, PTL
=============================================================================
