---------------------------- MODULE AccountsProofs ----------------------------
(***************************************************************************)
(* Machine-checked proofs about Accounts, for any number of keys, names,    *)
(* applications and concurrent requests: the claimed space keeps its owner, *)
(* a live application keeps an owner, outside the races the property names, *)
(* and the salt a password was sealed with stays available.                 *)
(*                                                                          *)
(* The invariant says what an open transaction has reserved, so that its    *)
(* commit cannot clash, and what a deletion under way knows about the       *)
(* applications it has still to leave.                                      *)
(***************************************************************************)
EXTENDS Accounts, TLAPS

-----------------------------------------------------------------------------
(* The inductive invariant. *)

\* The partial unique index, and the handle of every account with a password.
NamesUnique ==
  \A j, k \in Keys : (Exists(j) /\ Exists(k) /\ users[j].verifier /\ users[k].verifier
                        /\ Lower[users[j].name] = Lower[users[k].name]) => j = k
HandlesKept == \A k \in Keys : Exists(k) /\ users[k].verifier => users[k].handle # NoName

\* Nobody who owns an application is without an account.
OwnersHaveAccounts ==
  \A a \in Apps \ late : \A k \in Keys : roles[a][k] = "owner" => Exists(k)

\* Each statement serves its own kind of request.
SigningUp == {"hasClaim", "count", "insUser", "insDevice", "insClaim", "commit", "space"}
Leaving == {"listApps", "nextApp", "erase"}
RequestOK(r) ==
  /\ pc[r] # "idle" => msg[r] \in Messages /\ WellFormed(msg[r])
  /\ pc[r] \in SigningUp => msg[r].op \in {"claim", "register"}
  /\ pc[r] = "auth" => msg[r].op \notin {"claim", "register"}
  /\ pc[r] = "rename" => msg[r].op = "rename"
  /\ pc[r] = "setPassword" => known[r] \in Names
  /\ pc[r] \in Leaving => msg[r].op = "delete"
  /\ pc[r] = "erase" => todo[r] = {}

\* What a transaction has inserted is free in the committed tables.
HeldOK(r) ==
  /\ held[r] # {} <=> pc[r] \in {"insDevice", "insClaim", "commit"}
  /\ held[r] # {} => "user" \in held[r]
  /\ "user" \in held[r] => /\ ~ Exists(msg[r].key)
                           /\ msg[r].pw => ~ NameTaken(msg[r].key, msg[r].name)
  /\ "claim" \in held[r] => claim = NoKey /\ msg[r].op = "claim"
  /\ pc[r] = "insClaim" => msg[r].op = "claim"

\* A deletion under way: it started before its key claimed the space, and of the
\* applications its account owns it deletes each, or has still to leave it and
\* another owner stays; unless another deletion shares the application, or it
\* was registered too late.
LeavingOK(r) ==
  /\ pc[r] \in Leaving /\ msg[r].key = claim => overlap
  /\ pc[r] \in {"nextApp", "erase"} =>
       \A a \in Apps \ (deleted \cup crossed \cup late) :
         roles[a][msg[r].key] = "owner" /\ a \notin sole[r] =>
           a \in todo[r] /\ \E j \in Keys \ {msg[r].key} : roles[a][j] = "owner"

\* What two requests have reserved or are leaving.
Apart(q, r) ==
  /\ "user" \in held[q] /\ "user" \in held[r] =>
       /\ msg[q].key # msg[r].key
       /\ msg[q].pw /\ msg[r].pw => Lower[msg[q].name] # Lower[msg[r].name]
  /\ ~ ("claim" \in held[q] /\ "claim" \in held[r])
  /\ pc[q] = "nextApp" /\ pc[r] = "nextApp" /\ msg[q].key # msg[r].key =>
       todo[q] \cap todo[r] \subseteq crossed

AccountsInv ==
  /\ TypeOK
  /\ NamesUnique /\ HandlesKept /\ OwnersHaveAccounts
  /\ OwnerStays /\ OwnedUnlessCrossed
  /\ \A r \in Reqs : RequestOK(r) /\ HeldOK(r) /\ LeavingOK(r)
  /\ \A q, r \in Reqs : q # r => Apart(q, r)

-----------------------------------------------------------------------------
(* What concurrent requests leave each other. *)

\* A request that does nothing itself.
Rests(q) ==
  /\ pc'[q] = pc[q] /\ msg'[q] = msg[q] /\ known'[q] = known[q] /\ held'[q] = held[q]
  /\ todo'[q] = todo[q] /\ sole'[q] = sole[q]

\* A request that has ended, its transaction rolled back or committed.
Ended(q) == pc'[q] = "idle" /\ held'[q] = {}

\* ... has nothing left to keep in order.
LEMMA EndedRequest ==
  ASSUME NEW r \in Reqs, Ended(r)
  PROVE  /\ RequestOK(r)' /\ HeldOK(r)' /\ LeavingOK(r)'
         /\ \A q \in Reqs : Apart(q, r)' /\ Apart(r, q)'
<1>1. RequestOK(r)' /\ HeldOK(r)' /\ LeavingOK(r)'
  BY DEF Ended, RequestOK, HeldOK, LeavingOK, SigningUp, Leaving
<1>2. \A q \in Reqs : Apart(q, r)' /\ Apart(r, q)'
  BY DEF Ended, Apart
<1>3. QED
  BY <1>1, <1>2

\* A step of one request that writes no table keeps the invariant if it leaves
\* that request in order.
LEMMA ReadOnlyStep ==
  ASSUME AccountsInv, TypeOK', NEW r \in Reqs, \A q \in Reqs \ {r} : Rests(q),
         UNCHANGED <<users, claim, roles, deleted, overlap, late>>, crossed \subseteq crossed',
         RequestOK(r)', HeldOK(r)', LeavingOK(r)',
         \A q \in Reqs \ {r} : Apart(q, r)' /\ Apart(r, q)'
  PROVE  AccountsInv'
<1>1. NamesUnique' /\ HandlesKept' /\ OwnersHaveAccounts' /\ OwnerStays' /\ OwnedUnlessCrossed'
  BY DEF AccountsInv, NamesUnique, HandlesKept, OwnersHaveAccounts, OwnerStays, OwnedUnlessCrossed, Exists
<1>2. ASSUME NEW q \in Reqs \ {r}
      PROVE  RequestOK(q)' /\ HeldOK(q)' /\ LeavingOK(q)'
  <2>1. RequestOK(q)'
    BY DEF AccountsInv, RequestOK, Rests
  <2>2. HeldOK(q)'
    BY DEF AccountsInv, HeldOK, Rests, Exists, NameTaken
  <2>3. LeavingOK(q)'
    BY DEF AccountsInv, LeavingOK, Rests
  <2>4. QED
    BY <2>1, <2>2, <2>3
<1>3. \A p, q \in Reqs \ {r} : p # q => Apart(p, q)'
  BY DEF AccountsInv, Apart, Rests
<1>4. QED
  BY <1>1, <1>2, <1>3 DEF AccountsInv

\* Types of a request that ends.
LEMMA EndTypes ==
  ASSUME AccountsInv, NEW r \in Reqs, End(r)
  PROVE  /\ pc' \in [Reqs -> Steps] /\ held' \in [Reqs -> SUBSET {"user", "device", "claim"}]
         /\ Ended(r)
         /\ \A q \in Reqs \ {r} : pc'[q] = pc[q] /\ held'[q] = held[q]
BY DEF End, Goto, Rollback, Ended, AccountsInv, TypeOK, Steps

\* A request that ends without having written anything (Fail, a refusal).
LEMMA RequestEnds ==
  ASSUME AccountsInv, NEW r \in Reqs, End(r), TypeOK',
         UNCHANGED <<users, claim, roles, deleted, locals, history>>
  PROVE  AccountsInv'
<1>1. Ended(r) /\ \A q \in Reqs \ {r} : Rests(q)
  BY EndTypes DEF Rests, locals
<1>2. QED
  BY <1>1, EndedRequest, ReadOnlyStep DEF history

\* A request that goes on with what it holds, outside a deletion.
LEMMA RequestGoesOn ==
  ASSUME AccountsInv, NEW r \in Reqs, NEW step \in Steps, Goto(r, step), step \notin Leaving, TypeOK',
         UNCHANGED <<users, claim, roles, deleted, held, msg, todo, sole, history>>,
         \A q \in Reqs \ {r} : known'[q] = known[q],
         RequestOK(r)', HeldOK(r)'
  PROVE  AccountsInv'
<1>1. pc'[r] = step /\ \A q \in Reqs \ {r} : Rests(q)
  BY DEF Goto, AccountsInv, TypeOK, Rests
<1>2. LeavingOK(r)'
  BY <1>1 DEF LeavingOK, Leaving
<1>3. \A q \in Reqs \ {r} : Apart(q, r)' /\ Apart(r, q)'
  BY <1>1 DEF AccountsInv, Apart, Leaving
<1>4. QED
  BY <1>1, <1>2, <1>3, ReadOnlyStep DEF history

-----------------------------------------------------------------------------
(* Arrival, sign-up. *)

\* Arrive: nothing read, nothing reserved.
LEMMA ArriveStep ==
  ASSUME AccountsInv, NEW r \in Reqs, Arrive(r)
  PROVE  AccountsInv'
<1>1. PICK m \in Messages :
        /\ WellFormed(m) /\ msg' = [msg EXCEPT ![r] = m]
        /\ Goto(r, IF m.op = "claim" THEN "hasClaim"
                   ELSE IF m.op # "register" THEN "auth"
                   ELSE IF MaxAccounts = 0 THEN "insUser" ELSE "count")
  BY DEF Arrive
<1>2. /\ pc[r] = "idle" /\ held[r] = {} /\ arrived' = arrived + 1
      /\ known' = [known EXCEPT ![r] = NoName]
      /\ todo' = [todo EXCEPT ![r] = {}] /\ sole' = [sole EXCEPT ![r] = {}]
      /\ UNCHANGED <<users, owner, claim, spaces, roles, deleted, window, held, restarts, overlap, crossed, late>>
  BY DEF Arrive, tables, history
<1>3. PICK step \in {"hasClaim", "auth", "insUser", "count"} :
        Goto(r, step) /\ (step # "auth" <=> m.op \in {"claim", "register"})
  BY <1>1
<1>4. pc'[r] = step /\ msg'[r] = m /\ held'[r] = {}
  BY <1>1, <1>2, <1>3 DEF Goto, AccountsInv, TypeOK
<1>5. \A q \in Reqs \ {r} : Rests(q)
  BY <1>1, <1>2, <1>3 DEF Goto, AccountsInv, TypeOK, Rests
<1>6. TypeOK'
  <2>1. pc' \in [Reqs -> Steps]
    BY <1>3 DEF Goto, AccountsInv, TypeOK, Steps
  <2>2. msg' \in [Reqs -> Messages \cup {NoMsg}] /\ known' \in [Reqs -> Names \cup {NoName}]
        /\ todo' \in [Reqs -> SUBSET Apps] /\ sole' \in [Reqs -> SUBSET Apps] /\ arrived' \in Nat
    BY <1>1, <1>2 DEF AccountsInv, TypeOK
  <2>3. QED
    BY <1>2, <2>1, <2>2 DEF AccountsInv, TypeOK
<1>7. RequestOK(r)' /\ HeldOK(r)' /\ LeavingOK(r)'
  BY <1>1, <1>3, <1>4 DEF RequestOK, HeldOK, LeavingOK, SigningUp, Leaving
<1>8. \A q \in Reqs \ {r} : Apart(q, r)' /\ Apart(r, q)'
  BY <1>3, <1>4 DEF Apart
<1>9. QED
  BY <1>2, <1>5, <1>6, <1>7, <1>8, ReadOnlyStep

\* HasClaim and CountUsers only decide whether to go on.
LEMMA ChecksStep ==
  ASSUME AccountsInv, NEW r \in Reqs, HasClaim(r) \/ Count(r)
  PROVE  AccountsInv'
<1>1. /\ pc[r] \in {"hasClaim", "count"}
      /\ End(r) \/ (Goto(r, "insUser") /\ UNCHANGED held)
      /\ UNCHANGED <<users, owner, claim, spaces, roles, deleted, window, msg, known, todo, sole,
                     arrived, restarts, overlap, crossed, late>>
  BY DEF HasClaim, Count, tables, locals, history
<1>2. CASE End(r)
  <2>1. TypeOK'
    BY <1>1, <1>2, EndTypes DEF AccountsInv, TypeOK
  <2>2. QED
    BY <1>1, <1>2, <2>1, RequestEnds DEF locals, history
<1>3. CASE Goto(r, "insUser") /\ UNCHANGED held
  <2>1. TypeOK' /\ pc'[r] = "insUser" /\ "insUser" \in Steps
    BY <1>1, <1>3 DEF AccountsInv, TypeOK, Goto, Steps
  <2>2. RequestOK(r)'
    BY <1>1, <2>1 DEF AccountsInv, RequestOK, SigningUp, Leaving
  <2>3. held[r] = {}
    BY <1>1 DEF AccountsInv, HeldOK
  <2>4. HeldOK(r)'
    BY <1>3, <2>1, <2>3 DEF HeldOK
  <2>5. QED
    BY <1>1, <1>3, <2>1, <2>2, <2>4, RequestGoesOn DEF Leaving, history
<1>4. QED
  BY <1>1, <1>2, <1>3

\* The three INSERTs: a row is reserved if neither a committed nor an
\* uncommitted one has its key.
LEMMA InsertSteps ==
  ASSUME AccountsInv, NEW r \in Reqs, InsertUser(r) \/ InsertDevice(r) \/ InsertClaim(r)
  PROVE  AccountsInv'
<1>1. UNCHANGED <<users, owner, claim, spaces, roles, deleted, window, msg, known, todo, sole,
                  arrived, restarts, overlap, crossed, late>>
  BY DEF InsertUser, InsertDevice, InsertClaim, tables, locals, history
<1>2. CASE End(r)
  <2>1. TypeOK'
    BY <1>1, <1>2, EndTypes DEF AccountsInv, TypeOK
  <2>2. QED
    BY <1>1, <1>2, <2>1, RequestEnds DEF locals, history
<1>3. ASSUME NEW row \in {"user", "device", "claim"}, NEW step \in {"insDevice", "insClaim", "commit"},
             held' = [held EXCEPT ![r] = @ \cup {row}], Goto(r, step),
             RequestOK(r), pc[r] \in SigningUp, HeldOK(r)',
             row = "user" => ~ KeyPending(r) /\ (msg[r].pw => ~ NamePending(r, msg[r].name)),
             row = "claim" => ~ ClaimPending(r)
      PROVE  AccountsInv'
  <2>1. held'[r] = held[r] \cup {row} /\ pc'[r] = step /\ \A q \in Reqs \ {r} : Rests(q)
    BY <1>1, <1>3 DEF AccountsInv, TypeOK, Goto, Rests
  <2>2. TypeOK'
    <3>1. pc' \in [Reqs -> Steps]
      BY <1>3 DEF Goto, AccountsInv, TypeOK, Steps
    <3>2. held' \in [Reqs -> SUBSET {"user", "device", "claim"}]
      BY <1>3 DEF AccountsInv, TypeOK
    <3>3. QED
      BY <1>1, <3>1, <3>2 DEF AccountsInv, TypeOK
  <2>3. RequestOK(r)' /\ LeavingOK(r)'
    BY <1>1, <1>3, <2>1 DEF RequestOK, LeavingOK, SigningUp, Leaving
  <2>4. ASSUME NEW q \in Reqs \ {r}
        PROVE  Apart(q, r)' /\ Apart(r, q)'
    <3>1. Apart(q, r) /\ Apart(r, q)
      BY DEF AccountsInv
    <3>2. row = "user" /\ "user" \in held[q] =>
            msg[q].key # msg[r].key /\ (msg[q].pw /\ msg[r].pw => Lower[msg[q].name] # Lower[msg[r].name])
      BY <1>3 DEF KeyPending, NamePending
    <3>3. row = "claim" => "claim" \notin held[q]
      BY <1>3 DEF ClaimPending
    <3>4. QED
      BY <1>1, <1>3, <2>1, <3>1, <3>2, <3>3 DEF Apart, Rests
  <2>5. QED
    BY <1>1, <1>3, <2>1, <2>2, <2>3, <2>4, ReadOnlyStep
<1>4. RequestOK(r) /\ HeldOK(r)
  BY DEF AccountsInv
<1>5. CASE InsertUser(r)
  <2>1. pc[r] = "insUser" /\ held[r] = {}
    BY <1>4, <1>5 DEF InsertUser, HeldOK
  <2>2. CASE ~ End(r)
    <3>1. /\ ~ Exists(msg[r].key) /\ (msg[r].pw => ~ NameTaken(msg[r].key, msg[r].name))
          /\ ~ KeyPending(r) /\ (msg[r].pw => ~ NamePending(r, msg[r].name))
          /\ held' = [held EXCEPT ![r] = @ \cup {"user"}] /\ Goto(r, "insDevice")
      BY <1>5, <2>2 DEF InsertUser
    <3>2. held'[r] = {"user"} /\ pc'[r] = "insDevice"
      BY <2>1, <3>1 DEF AccountsInv, TypeOK, Goto
    <3>3. HeldOK(r)'
      BY <1>1, <3>1, <3>2 DEF HeldOK, Exists, NameTaken
    <3>4. QED
      BY <1>3, <1>4, <2>1, <3>1, <3>3 DEF SigningUp
  <2>3. QED
    BY <1>2, <2>2
<1>6. CASE InsertDevice(r)
  <2>1. pc[r] = "insDevice"
    BY <1>6 DEF InsertDevice
  <2>2. CASE ~ End(r)
    <3>1. held' = [held EXCEPT ![r] = @ \cup {"device"}] /\ Goto(r, AfterDevice(r))
      BY <1>6, <2>2 DEF InsertDevice
    <3>2. AfterDevice(r) \in {"insClaim", "commit"} /\ (AfterDevice(r) = "insClaim" => msg[r].op = "claim")
      BY DEF AfterDevice
    <3>3. held'[r] = held[r] \cup {"device"} /\ pc'[r] = AfterDevice(r)
      BY <3>1 DEF AccountsInv, TypeOK, Goto
    <3>4. HeldOK(r)'
      BY <1>1, <1>4, <2>1, <3>2, <3>3 DEF HeldOK, Exists, NameTaken
    <3>5. QED
      BY <1>3, <1>4, <2>1, <3>1, <3>2, <3>4 DEF SigningUp
  <2>3. QED
    BY <1>2, <2>2
<1>7. CASE InsertClaim(r)
  <2>1. pc[r] = "insClaim" /\ msg[r].op = "claim"
    BY <1>4, <1>7 DEF InsertClaim, HeldOK
  <2>2. CASE ~ End(r)
    <3>1. /\ claim = NoKey /\ ~ ClaimPending(r)
          /\ held' = [held EXCEPT ![r] = @ \cup {"claim"}] /\ Goto(r, "commit")
      BY <1>7, <2>2 DEF InsertClaim
    <3>2. held'[r] = held[r] \cup {"claim"} /\ pc'[r] = "commit"
      BY <3>1 DEF AccountsInv, TypeOK, Goto
    <3>3. HeldOK(r)'
      BY <1>1, <1>4, <2>1, <3>1, <3>2 DEF HeldOK, Exists, NameTaken
    <3>4. QED
      BY <1>3, <1>4, <2>1, <3>1, <3>3 DEF SigningUp
  <2>3. QED
    BY <1>2, <2>2
<1>8. QED
  BY <1>5, <1>6, <1>7

\* The message of a request under way, and the account row it stands for.
LEMMA MessageTypes ==
  ASSUME AccountsInv, NEW r \in Reqs, pc[r] # "idle"
  PROVE  /\ msg[r] \in Messages /\ msg[r].key \in Keys /\ msg[r].dev \in Devices
         /\ msg[r].app \in Apps /\ msg[r].pw \in BOOLEAN /\ msg[r].name \in Names \cup {NoName}
         /\ pc[r] \in SigningUp \cup {"rename"} => msg[r].name \in Names
<1>1. msg[r] \in Messages /\ msg[r] \in Requests
  BY RowsAssumption DEF AccountsInv, RequestOK
<1>2. pc[r] \in SigningUp \cup {"rename"} => msg[r].name # NoName
  BY DEF AccountsInv, RequestOK, WellFormed, SigningUp
<1>3. QED
  BY <1>1, <1>2 DEF Requests

\* The row a commit stores, and that its handle is a name.
LEMMA NewUserRow ==
  ASSUME NEW m \in Requests, m.name \in Names
  PROVE  /\ NewUser(m) \in Users /\ NewUser(m) # NoRow
         /\ NewUser(m).verifier = m.pw /\ NewUser(m).name = m.name
         /\ m.op = "claim" => NewUser(m).role = "owner"
         /\ m.pw => NewUser(m).handle # NoName
<1>1. Lower[m.name] \in Handles /\ Lower[m.name] # NoName
  BY NamesAssumption DEF Handles
<1>2. m.pw \in BOOLEAN
  BY DEF Requests
<1>3. NewUser(m) \in Users
  BY <1>1, <1>2 DEF NewUser, Users
<1>4. QED
  BY <1>1, <1>3, RowsAssumption DEF NewUser

\* The commit: what was reserved becomes visible, and clashes with nothing.
LEMMA CommitStep ==
  ASSUME AccountsInv, NEW r \in Reqs, Commit(r)
  PROVE  AccountsInv'
<1>1. PICK m \in Messages : m = msg[r] /\ m \in Requests /\ m.name \in Names /\ m.key \in Keys /\ m.dev \in Devices
  <2>1. pc[r] = "commit"
    BY DEF Commit
  <2>2. QED
    BY <2>1, MessageTypes, RowsAssumption DEF SigningUp
<1>2. /\ pc[r] = "commit" /\ "user" \in held[r]
      /\ ~ Exists(m.key) /\ (m.pw => ~ NameTaken(m.key, m.name))
      /\ "claim" \in held[r] => claim = NoKey /\ m.op = "claim"
  BY <1>1 DEF Commit, AccountsInv, HeldOK
<1>3. /\ users' = [users EXCEPT ![m.key] = NewUser(m)]
      /\ owner' = IF "device" \in held[r] THEN [owner EXCEPT ![m.dev] = m.key] ELSE owner
      /\ claim' = IF "claim" \in held[r] THEN m.key ELSE claim
      /\ overlap' = IF "claim" \in held[r] THEN Deleting(m.key) ELSE overlap
      /\ held' = [held EXCEPT ![r] = {}]
      /\ Goto(r, IF m.op = "claim" THEN "space" ELSE "idle")
      /\ UNCHANGED <<spaces, roles, deleted, window, msg, known, todo, sole, arrived, restarts, crossed, late>>
  BY <1>1, <1>2 DEF Commit, locals
<1>4. /\ users'[m.key] = NewUser(m) /\ \A k \in Keys \ {m.key} : users'[k] = users[k]
      /\ held'[r] = {} /\ pc'[r] \in {"space", "idle"} /\ (pc'[r] = "space" => m.op = "claim")
  BY <1>1, <1>3 DEF AccountsInv, TypeOK, Goto
<1>5. \A q \in Reqs \ {r} : Rests(q)
  BY <1>3 DEF AccountsInv, TypeOK, Goto, Rests
<1>6. /\ NewUser(m) \in Users /\ NewUser(m) # NoRow
      /\ NewUser(m).verifier = m.pw /\ NewUser(m).name = m.name
      /\ m.op = "claim" => NewUser(m).role = "owner"
      /\ m.pw => NewUser(m).handle # NoName
  BY <1>1, NewUserRow
<1>7. TypeOK'
  <2>1. users' \in [Keys -> Users \cup {NoRow}]
    BY <1>3, <1>6 DEF AccountsInv, TypeOK
  <2>2. owner' \in [Devices -> Keys \cup {NoKey}] /\ claim' \in Keys \cup {NoKey}
    BY <1>1, <1>3 DEF AccountsInv, TypeOK
  <2>3. overlap' \in BOOLEAN
    BY <1>3 DEF AccountsInv, TypeOK, Deleting
  <2>4. held' \in [Reqs -> SUBSET {"user", "device", "claim"}] /\ pc' \in [Reqs -> Steps]
    BY <1>3 DEF AccountsInv, TypeOK, Goto, Steps
  <2>5. QED
    BY <1>3, <2>1, <2>2, <2>3, <2>4 DEF AccountsInv, TypeOK
<1>8. NamesUnique' /\ HandlesKept'
  <2>1. HandlesKept'
    BY <1>4, <1>6 DEF AccountsInv, HandlesKept, Exists
  <2>2. NamesUnique'
    BY <1>1, <1>2, <1>4, <1>6 DEF AccountsInv, NamesUnique, NameTaken, Exists
  <2>3. QED
    BY <2>1, <2>2
<1>9. OwnerStays'
  <2>1. CASE "claim" \in held[r]
    BY <1>2, <1>3, <1>4, <1>6, <2>1 DEF OwnerStays, Exists
  <2>2. CASE "claim" \notin held[r]
    BY <1>2, <1>3, <1>4, <2>2 DEF AccountsInv, OwnerStays, Exists, TypeOK
  <2>3. QED
    BY <2>1, <2>2
<1>10. OwnersHaveAccounts' /\ OwnedUnlessCrossed'
  <2>1. \A k \in Keys : Exists(k) => Exists(k)'
    BY <1>4, <1>6 DEF Exists
  <2>2. QED
    BY <1>3, <2>1 DEF AccountsInv, OwnersHaveAccounts, OwnedUnlessCrossed
<1>11. RequestOK(r)' /\ HeldOK(r)' /\ LeavingOK(r)'
  <2>1. RequestOK(r)'
    BY <1>1, <1>2, <1>3, <1>4 DEF AccountsInv, RequestOK, SigningUp, Leaving
  <2>2. HeldOK(r)' /\ LeavingOK(r)'
    BY <1>4 DEF HeldOK, LeavingOK, Leaving
  <2>3. QED
    BY <2>1, <2>2
<1>12. ASSUME NEW q \in Reqs \ {r}
       PROVE  RequestOK(q)' /\ HeldOK(q)' /\ LeavingOK(q)'
  <2>1. RequestOK(q)'
    BY <1>5 DEF AccountsInv, RequestOK, Rests
  <2>2. Apart(q, r) /\ Apart(r, q) /\ HeldOK(q)
    BY DEF AccountsInv
  <2>3. "user" \in held[q] => /\ msg[q].key # m.key /\ msg[q].key \in Keys
                              /\ msg[q].pw /\ m.pw => Lower[msg[q].name] # Lower[m.name]
    <3>1. "user" \in held[q] => pc[q] # "idle"
      BY <2>2 DEF HeldOK
    <3>2. QED
      BY <1>1, <1>2, <2>2, <3>1, MessageTypes DEF Apart
  <2>4. "user" \in held[q] /\ msg[q].pw => ~ NameTaken(msg[q].key, msg[q].name)'
    BY <1>4, <1>5, <1>6, <2>2, <2>3 DEF HeldOK, NameTaken, Exists, Rests
  <2>5. "claim" \in held[q] => claim' = NoKey
    BY <1>2, <1>3, <2>2 DEF HeldOK, Apart
  <2>6. HeldOK(q)'
    BY <1>4, <1>5, <2>2, <2>3, <2>4, <2>5 DEF HeldOK, Exists, Rests, NameTaken
  <2>7. LeavingOK(q)'
    <3>1. pc[q] \in Leaving /\ msg[q].key = claim' => overlap'
      <4>1. CASE "claim" \in held[r]
        <5>1. pc[q] \in Leaving => msg[q].op = "delete" /\ msg[q] # NoMsg
          <6>1. pc[q] \in Leaving => pc[q] # "idle"
            BY DEF Leaving
          <6>2. QED
            BY <6>1, MessageTypes, RowsAssumption DEF AccountsInv, RequestOK
        <5>2. QED
          BY <1>3, <4>1, <5>1 DEF Deleting, Leaving
      <4>2. CASE "claim" \notin held[r]
        BY <1>3, <4>2 DEF AccountsInv, LeavingOK
      <4>3. QED
        BY <4>1, <4>2
    <3>2. QED
      BY <1>3, <1>5, <3>1 DEF AccountsInv, LeavingOK, Rests
  <2>8. QED
    BY <2>1, <2>6, <2>7
<1>13. \A p, q \in Reqs : p # q => Apart(p, q)'
  BY <1>3, <1>4, <1>5 DEF AccountsInv, Apart, Rests
<1>14. QED
  BY <1>7, <1>8, <1>9, <1>10, <1>11, <1>12, <1>13 DEF AccountsInv

\* CreateSpace writes nothing the invariant looks at.
LEMMA CreateSpaceStep ==
  ASSUME AccountsInv, NEW r \in Reqs, CreateSpace(r)
  PROVE  AccountsInv'
<1>1. /\ pc[r] = "space" /\ End(r)
      /\ spaces' = IF Exists(msg[r].key) THEN spaces \cup {msg[r].key} ELSE spaces
      /\ UNCHANGED <<users, owner, claim, roles, deleted, window, locals, arrived, restarts, history>>
  BY DEF CreateSpace
<1>2. msg[r].key \in Keys
  BY <1>1, MessageTypes
<1>3. TypeOK'
  BY <1>1, <1>2, EndTypes DEF AccountsInv, TypeOK, locals, history
<1>4. QED
  BY <1>1, <1>3, RequestEnds

-----------------------------------------------------------------------------
(* Requests of an authenticated account. *)

\* Authenticate: the space owner's deletion ends here.
LEMMA AuthenticateStep ==
  ASSUME AccountsInv, NEW r \in Reqs, Authenticate(r)
  PROVE  AccountsInv'
<1>1. pc[r] = "auth" /\ UNCHANGED <<users, owner, claim, spaces, roles, deleted, window, msg, todo, sole,
                                    arrived, restarts, overlap, crossed, late>>
  BY DEF Authenticate, tables, history
<1>2. msg[r] \in Messages /\ msg[r] \in Requests /\ msg[r].key \in Keys
  BY <1>1, MessageTypes, RowsAssumption
<1>3. CASE End(r) /\ UNCHANGED known
  <2>1. TypeOK'
    BY <1>1, <1>3, EndTypes DEF AccountsInv, TypeOK
  <2>2. QED
    BY <1>1, <1>3, <2>1, RequestEnds DEF locals, history
<1>4. CASE /\ Exists(msg[r].key) /\ (msg[r].op = "delete" => MayDeleteAccount(msg[r].key))
           /\ known' = [known EXCEPT ![r] = users[msg[r].key].name]
           /\ Goto(r, AuthenticatedStep(msg[r])) /\ UNCHANGED held
  <2>1. users[msg[r].key] \in Users
    BY <1>2, <1>4 DEF Exists, AccountsInv, TypeOK
  <2>2. users[msg[r].key].name \in Names
    BY <2>1 DEF Users
  <2>3. known'[r] \in Names /\ pc'[r] = AuthenticatedStep(msg[r]) /\ \A q \in Reqs \ {r} : Rests(q)
    BY <1>1, <1>4, <2>2 DEF AccountsInv, TypeOK, Goto, Rests
  <2>4. AuthenticatedStep(msg[r]) \in {"rename", "setPassword", "clear", "listApps", "ownerCheck"}
    BY DEF AuthenticatedStep
  <2>5. TypeOK'
    <3>1. known' \in [Reqs -> Names \cup {NoName}]
      BY <1>4, <2>2 DEF AccountsInv, TypeOK
    <3>2. pc' \in [Reqs -> Steps]
      BY <1>4, <2>4 DEF AccountsInv, TypeOK, Goto, Steps
    <3>3. QED
      BY <1>1, <1>4, <3>1, <3>2 DEF AccountsInv, TypeOK
  <2>6. held'[r] = {}
    BY <1>1, <1>4 DEF AccountsInv, HeldOK
  <2>7. /\ msg[r].op \in {"rename", "password", "clear", "delete", "createApp"}
        /\ pc'[r] = "listApps" => msg[r].op = "delete"
    BY <1>1, <1>2, <2>3 DEF AccountsInv, RequestOK, Requests, AuthenticatedStep
  <2>8. RequestOK(r)' /\ HeldOK(r)'
    BY <1>1, <2>3, <2>4, <2>6, <2>7 DEF AccountsInv, RequestOK, HeldOK, SigningUp, Leaving, AuthenticatedStep
  <2>9. LeavingOK(r)'
    <3>1. pc'[r] = "listApps" /\ msg[r].key = claim => overlap
      <4>1. msg[r].key # NoKey
        BY <1>2, RowsAssumption
      <4>2. QED
        BY <1>4, <2>7, <4>1 DEF MayDeleteAccount, AccountsInv, OwnerStays
    <3>2. QED
      BY <1>1, <2>3, <2>4, <3>1 DEF LeavingOK, Leaving
  <2>10. \A q \in Reqs \ {r} : Apart(q, r)' /\ Apart(r, q)'
    BY <2>3, <2>4, <2>6 DEF Apart
  <2>11. QED
    BY <1>1, <2>3, <2>5, <2>8, <2>9, <2>10, ReadOnlyStep
<1>5. QED
  BY <1>3, <1>4 DEF Authenticate

\* A statement that changes one account's row, at the end of its request: the
\* role stays, and a row with a password has a free name and a handle.
LEMMA RowStep ==
  ASSUME AccountsInv, NEW r \in Reqs, NEW k \in Keys, NEW x \in Users, Exists(k),
         users' = [users EXCEPT ![k] = x], x.role = users[k].role,
         x.verifier => x.handle # NoName /\ ~ NameTaken(k, x.name) /\ ~ NamePending(r, x.name),
         held[r] = {}, End(r),
         UNCHANGED <<owner, claim, spaces, roles, deleted, window, locals, arrived, restarts, history>>
  PROVE  AccountsInv'
<1>1. users'[k] = x /\ x # NoRow /\ \A j \in Keys \ {k} : users'[j] = users[j]
  BY RowsAssumption DEF AccountsInv, TypeOK
<1>2. TypeOK'
  <2>1. users' \in [Keys -> Users \cup {NoRow}]
    BY DEF AccountsInv, TypeOK
  <2>2. QED
    BY <2>1, EndTypes DEF AccountsInv, TypeOK, locals, history
<1>3. NamesUnique' /\ HandlesKept'
  <2>1. HandlesKept'
    BY <1>1 DEF AccountsInv, HandlesKept, Exists
  <2>2. NamesUnique'
    BY <1>1 DEF AccountsInv, NamesUnique, NameTaken, Exists
  <2>3. QED
    BY <2>1, <2>2
<1>4. OwnerStays' /\ OwnersHaveAccounts' /\ OwnedUnlessCrossed'
  <2>1. OwnerStays'
    BY <1>1 DEF AccountsInv, OwnerStays, Exists, history, TypeOK
  <2>2. OwnersHaveAccounts' /\ OwnedUnlessCrossed'
    <3>1. \A j \in Keys : Exists(j) => Exists(j)'
      BY <1>1 DEF Exists
    <3>2. QED
      BY <3>1 DEF AccountsInv, OwnersHaveAccounts, OwnedUnlessCrossed, history
  <2>3. QED
    BY <2>1, <2>2
<1>5. Ended(r) /\ \A q \in Reqs \ {r} : Rests(q)
  BY EndTypes DEF Rests, locals
<1>6. ASSUME NEW q \in Reqs \ {r}
      PROVE  RequestOK(q)' /\ HeldOK(q)' /\ LeavingOK(q)'
  <2>1. RequestOK(q)' /\ LeavingOK(q)'
    BY <1>5 DEF AccountsInv, RequestOK, LeavingOK, Rests, history
  <2>2. HeldOK(q)
    BY DEF AccountsInv
  <2>3. "user" \in held[q] => msg[q].key \in Keys \ {k}
    <3>1. "user" \in held[q] => pc[q] # "idle"
      BY <2>2 DEF HeldOK
    <3>2. QED
      BY <2>2, <3>1, MessageTypes DEF HeldOK
  <2>4. "user" \in held[q] /\ msg[q].pw => ~ NameTaken(msg[q].key, msg[q].name)'
    BY <1>1, <1>5, <2>2, <2>3 DEF HeldOK, NameTaken, NamePending, Exists, Rests
  <2>5. HeldOK(q)'
    BY <1>1, <1>5, <2>2, <2>3, <2>4 DEF HeldOK, Exists, Rests, NameTaken
  <2>6. QED
    BY <2>1, <2>5
<1>7. \A p, q \in Reqs \ {r} : p # q => Apart(p, q)'
  BY <1>5 DEF AccountsInv, Apart, Rests, history
<1>8. QED
  BY <1>2, <1>3, <1>4, <1>5, <1>6, <1>7, EndedRequest DEF AccountsInv

\* A request whose UPDATE matched no row or failed.
LEMMA NoRowStep ==
  ASSUME AccountsInv, NEW r \in Reqs, UNCHANGED users, End(r),
         UNCHANGED <<owner, claim, spaces, roles, deleted, window, locals, arrived, restarts, history>>
  PROVE  AccountsInv'
<1>1. TypeOK'
  BY EndTypes DEF AccountsInv, TypeOK, locals, history
<1>2. QED
  BY <1>1, RequestEnds

\* The row UpdateUsername, SetPasswordCredentials and ClearEscrow leave of an
\* existing account: of its fields only these change.
LEMMA RowFields ==
  ASSUME AccountsInv, NEW k \in Keys, Exists(k), NEW name \in Names, NEW handle \in Handles
  PROVE  /\ users[k] \in Users
         /\ [users[k] EXCEPT !.name = name] \in Users
         /\ [users[k] EXCEPT !.verifier = FALSE] \in Users
         /\ [users[k] EXCEPT !.verifier = TRUE, !.handle = handle] \in Users
         /\ users[k].handle \in Handles \cup {NoName}
<1>1. PICK u \in Users : u = users[k]
  BY DEF Exists, AccountsInv, TypeOK
<1>2. /\ [u EXCEPT !.name = name] \in Users
      /\ [u EXCEPT !.verifier = FALSE] \in Users
      /\ [u EXCEPT !.verifier = TRUE, !.handle = handle] \in Users
      /\ u.handle \in Handles \cup {NoName}
  BY ONLY u \in Users, name \in Names, handle \in Handles DEF Users
<1>3. QED
  BY <1>1, <1>2

\* UpdateUsername.
LEMMA RenameStep ==
  ASSUME AccountsInv, NEW r \in Reqs, Rename(r)
  PROVE  AccountsInv'
<1>1. /\ pc[r] = "rename" /\ End(r)
      /\ UNCHANGED <<owner, claim, spaces, roles, deleted, window, locals, arrived, restarts, history>>
  BY DEF Rename
<1>2. PICK k \in Keys, name \in Names : k = msg[r].key /\ name = msg[r].name
  BY <1>1, MessageTypes
<1>3. CASE UNCHANGED users
  BY <1>1, <1>3, NoRowStep
<1>4. CASE /\ Exists(k) /\ (users[k].verifier => ~ NameTaken(k, name) /\ ~ NamePending(r, name))
           /\ users' = [users EXCEPT ![k].name = name]
  <2> DEFINE x == [users[k] EXCEPT !.name = name]
  <2>1. Lower[name] \in Handles
    BY DEF Handles
  <2>2. x \in Users /\ users[k] \in Users
    BY <1>4, <2>1, RowFields
  <2>3. x.role = users[k].role /\ x.verifier = users[k].verifier /\ x.handle = users[k].handle /\ x.name = name
    BY <2>2 DEF Users
  <2>4. users' = [users EXCEPT ![k] = x]
    BY <1>4 DEF AccountsInv, TypeOK
  <2> HIDE DEF x
  <2>5. x.verifier => x.handle # NoName /\ ~ NameTaken(k, x.name) /\ ~ NamePending(r, x.name)
    BY <1>4, <2>3 DEF AccountsInv, HandlesKept
  <2>6. held[r] = {}
    BY <1>1 DEF AccountsInv, HeldOK
  <2>7. QED
    BY <1>1, <1>4, <2>2, <2>3, <2>4, <2>5, <2>6, RowStep
<1>5. QED
  BY <1>2, <1>3, <1>4 DEF Rename

\* SetPasswordCredentials.
LEMMA SetPasswordStep ==
  ASSUME AccountsInv, NEW r \in Reqs, SetPassword(r)
  PROVE  AccountsInv'
<1>1. /\ pc[r] = "setPassword" /\ End(r)
      /\ UNCHANGED <<owner, claim, spaces, roles, deleted, window, locals, arrived, restarts, history>>
  BY DEF SetPassword
<1>2. PICK k \in Keys, name \in Names : k = msg[r].key /\ name = known[r]
  <2>1. known[r] \in Names
    BY <1>1 DEF AccountsInv, RequestOK
  <2>2. QED
    BY <1>1, <2>1, MessageTypes
<1>3. CASE UNCHANGED users
  BY <1>1, <1>3, NoRowStep
<1> DEFINE h == NewHandle(users[k], Lower[name])
<1>4. CASE /\ Exists(k) /\ ~ NameTaken(k, users[k].name) /\ ~ NamePending(r, users[k].name)
           /\ users' = [users EXCEPT ![k] = [@ EXCEPT !.verifier = TRUE, !.handle = h]]
  <2> DEFINE x == [users[k] EXCEPT !.verifier = TRUE, !.handle = h]
  <2>1. Lower[name] \in Handles /\ NoName \notin Handles
    BY NamesAssumption DEF Handles
  <2>2. h \in Handles
    <3>1. users[k].handle \in Handles \cup {NoName}
      BY <1>4, <2>1, RowFields
    <3>2. QED
      BY <2>1, <3>1 DEF NewHandle
  <2>3. x \in Users /\ users[k] \in Users
    BY <1>4, <2>2, RowFields
  <2>4. x.role = users[k].role /\ x.handle = h /\ x.name = users[k].name
    BY <2>3 DEF Users
  <2>5. users' = [users EXCEPT ![k] = x]
    BY <1>4 DEF AccountsInv, TypeOK
  <2> HIDE DEF x, h
  <2>6. x.handle # NoName /\ ~ NameTaken(k, x.name) /\ ~ NamePending(r, x.name)
    BY <1>4, <2>1, <2>2, <2>4
  <2>7. held[r] = {}
    BY <1>1 DEF AccountsInv, HeldOK
  <2>8. QED
    BY <1>1, <1>4, <2>3, <2>4, <2>5, <2>6, <2>7, RowStep
<1>5. QED
  BY <1>2, <1>3, <1>4 DEF SetPassword

\* ClearEscrow.
LEMMA ClearPasswordStep ==
  ASSUME AccountsInv, NEW r \in Reqs, ClearPassword(r)
  PROVE  AccountsInv'
<1>1. /\ pc[r] = "clear" /\ End(r)
      /\ UNCHANGED <<owner, claim, spaces, roles, deleted, window, locals, arrived, restarts, history>>
  BY DEF ClearPassword
<1>2. PICK k \in Keys : k = msg[r].key
  BY <1>1, MessageTypes
<1>3. CASE ~ Exists(k)
  BY <1>1, <1>2, <1>3, NoRowStep DEF ClearPassword
<1>4. CASE Exists(k)
  <2> DEFINE x == [users[k] EXCEPT !.verifier = FALSE]
  <2>1. users[k] \in Users
    BY <1>4 DEF Exists, AccountsInv, TypeOK
  <2>2. x \in Users
    BY ONLY <2>1 DEF Users
  <2>3. x.role = users[k].role /\ ~ x.verifier
    BY <2>1 DEF Users
  <2>4. users' = [users EXCEPT ![k] = x]
    BY <1>2, <1>4 DEF ClearPassword, AccountsInv, TypeOK
  <2> HIDE DEF x
  <2>5. held[r] = {}
    BY <1>1 DEF AccountsInv, HeldOK
  <2>6. QED
    BY <1>1, <1>4, <2>2, <2>3, <2>4, <2>5, RowStep
<1>5. QED
  BY <1>3, <1>4

-----------------------------------------------------------------------------
(* Deleting an account. *)

\* The list of applications: from here on another deletion that shares one of
\* them is on record.
LEMMA ListAppsStep ==
  ASSUME AccountsInv, NEW r \in Reqs, ListApps(r)
  PROVE  AccountsInv'
<1>1. pc[r] = "listApps"
  BY DEF ListApps
<1>2. PICK k \in Keys : k = msg[r].key
  BY <1>1, MessageTypes
<1> DEFINE mine == {a \in Apps \ deleted : roles[a][k] # "none"}
<1>3. /\ todo' = [todo EXCEPT ![r] = mine]
      /\ sole' = [sole EXCEPT ![r] = {a \in mine : SoleOwner(a, k)}]
      /\ crossed' = crossed \cup
           UNION {todo[q] \cap mine : q \in {p \in Reqs \ {r} : pc[p] = "nextApp" /\ msg[p].key # k}}
      /\ Goto(r, "nextApp")
      /\ UNCHANGED <<users, owner, claim, spaces, roles, deleted, window, held, msg, known,
                     arrived, restarts, overlap, late>>
  BY <1>2 DEF ListApps, tables
<1>4. /\ todo'[r] = mine /\ sole'[r] = {a \in mine : SoleOwner(a, k)} /\ pc'[r] = "nextApp"
      /\ \A q \in Reqs \ {r} : Rests(q)
  BY <1>3 DEF AccountsInv, TypeOK, Goto, Rests
<1>5. crossed \subseteq crossed' /\ crossed' \subseteq Apps
  <2>1. crossed \subseteq Apps /\ mine \subseteq Apps
    BY DEF AccountsInv, TypeOK
  <2>2. QED
    BY <1>3, <2>1
<1>6. \A q \in Reqs \ {r} : pc[q] = "nextApp" /\ msg[q].key # k => todo[q] \cap mine \subseteq crossed'
  BY <1>3
<1>7. TypeOK'
  <2>1. pc' \in [Reqs -> Steps] /\ todo' \in [Reqs -> SUBSET Apps] /\ sole' \in [Reqs -> SUBSET Apps]
    BY <1>3 DEF AccountsInv, TypeOK, Goto, Steps
  <2>2. QED
    BY <1>3, <1>5, <2>1 DEF AccountsInv, TypeOK
<1>8. RequestOK(r)' /\ HeldOK(r)'
  BY <1>1, <1>3, <1>4 DEF AccountsInv, RequestOK, HeldOK, SigningUp, Leaving, Exists, NameTaken
<1>9. LeavingOK(r)'
  <2>1. msg'[r].key = claim' => overlap'
    BY <1>1, <1>3 DEF AccountsInv, LeavingOK, Leaving
  <2>2. ASSUME NEW a \in Apps \ (deleted \cup crossed' \cup late)
        PROVE  roles[a][k] = "owner" /\ a \notin sole'[r] =>
                 a \in mine /\ \E j \in Keys \ {k} : roles[a][j] = "owner"
    BY <1>4 DEF SoleOwner
  <2>3. QED
    BY <1>2, <1>3, <1>4, <2>1, <2>2 DEF LeavingOK
<1>10. \A q \in Reqs \ {r} : Apart(q, r)' /\ Apart(r, q)'
  <2>1. held[r] = {}
    BY <1>1 DEF AccountsInv, HeldOK
  <2> HIDE DEF mine
  <2>2. QED
    BY <1>2, <1>3, <1>4, <1>6, <2>1 DEF Apart, Rests
<1>11. QED
  BY <1>3, <1>4, <1>5, <1>7, <1>8, <1>9, <1>10, ReadOnlyStep

\* What leaving or deleting applications must do to keep the invariant: roles
\* only go, and of an application no other deletion shares, only this account's.
LEMMA LeavingStep ==
  ASSUME AccountsInv, TypeOK', NEW r \in Reqs, NEW k \in Keys, k = msg[r].key, pc[r] \in {"nextApp", "erase"},
         \A q \in Reqs \ {r} : Rests(q),
         Ended(r) \/ (LeavingOK(r)' /\ UNCHANGED <<pc, held, msg, known>> /\ todo'[r] \subseteq todo[r]),
         NamesUnique' /\ HandlesKept' /\ OwnersHaveAccounts' /\ OwnerStays',
         \A q \in Reqs : RequestOK(q)' /\ HeldOK(q)',
         UNCHANGED <<claim, overlap, crossed, late>>, deleted \subseteq deleted',
         \A a \in Apps : \A j \in Keys : roles'[a][j] \in {"none", roles[a][j]},
         \A a \in Apps \ (deleted' \cup crossed \cup late) :
            /\ \A j \in Keys \ {k} : roles'[a][j] = roles[a][j]
            /\ roles[a][k] = "owner" /\ roles'[a][k] = "none" =>
                 /\ a \in todo[r] /\ pc[r] = "nextApp"
                 /\ \E j \in Keys \ {k} : roles[a][j] = "owner"
  PROVE  AccountsInv'
<1>1. OwnedUnlessCrossed'
  <2> SUFFICES ASSUME NEW a \in Apps \ (deleted' \cup crossed \cup late)
               PROVE  \E j \in Keys : roles'[a][j] = "owner" /\ Exists(j)'
    BY DEF OwnedUnlessCrossed
  <2>1. PICK j \in Keys : roles[a][j] = "owner"
    BY DEF AccountsInv, OwnedUnlessCrossed
  <2>2. \E i \in Keys : roles'[a][i] = "owner"
    BY <2>1
  <2>3. QED
    BY <2>2 DEF OwnersHaveAccounts
<1>2. ASSUME NEW q \in Reqs \ {r}
      PROVE  LeavingOK(q)'
  <2>1. LeavingOK(q) /\ Apart(q, r) /\ RequestOK(q)
    BY DEF AccountsInv
  <2>2. ASSUME pc[q] \in {"nextApp", "erase"}, NEW a \in Apps \ (deleted' \cup crossed \cup late),
               roles'[a][msg[q].key] = "owner", a \notin sole[q]
        PROVE  a \in todo[q] /\ \E j \in Keys \ {msg[q].key} : roles'[a][j] = "owner"
    <3>1. msg[q].key \in Keys
      BY <2>2, MessageTypes
    <3>2. roles[a][msg[q].key] = "owner"
      BY <2>2, <3>1
    <3>3. PICK j \in Keys \ {msg[q].key} : a \in todo[q] /\ roles[a][j] = "owner"
      BY <2>1, <2>2, <3>2 DEF LeavingOK
    <3>4. pc[q] = "nextApp"
      BY <2>1, <2>2, <3>3 DEF RequestOK
    <3>5. CASE j # k
      BY <3>3, <3>5
    <3>6. CASE j = k /\ roles'[a][k] = "none"
      BY <2>1, <2>2, <3>3, <3>4, <3>6 DEF Apart
    <3>7. CASE j = k /\ roles'[a][k] # "none"
      BY <3>3, <3>7
    <3>8. QED
      BY <3>5, <3>6, <3>7
  <2>3. QED
    BY <2>1, <2>2 DEF LeavingOK, Rests
<1>3. LeavingOK(r)'
  BY EndedRequest
<1>4. \A p, q \in Reqs : p # q => Apart(p, q)'
  <2>1. \A p, q \in Reqs \ {r} : p # q => Apart(p, q)'
    BY DEF AccountsInv, Apart, Rests
  <2>2. \A q \in Reqs \ {r} : Apart(q, r)' /\ Apart(r, q)'
    <3>1. CASE Ended(r)
      BY <3>1, EndedRequest
    <3>2. CASE UNCHANGED <<pc, held, msg, known>> /\ todo'[r] \subseteq todo[r]
      BY <3>2 DEF AccountsInv, Apart, Rests
    <3>3. QED
      BY <3>1, <3>2
  <2>3. QED
    BY <2>1, <2>2
<1>5. QED
  BY <1>1, <1>2, <1>3, <1>4 DEF AccountsInv

\* application_deleted or member_removed for one application.
LEMMA LeaveAppStep ==
  ASSUME AccountsInv, NEW r \in Reqs, LeaveApp(r)
  PROVE  AccountsInv'
<1>1. /\ pc[r] = "nextApp"
      /\ UNCHANGED <<users, owner, claim, spaces, window, msg, known, sole, arrived, restarts, overlap, crossed, late>>
  BY DEF LeaveApp, history
<1>2. PICK k \in Keys : k = msg[r].key
  BY <1>1, MessageTypes
<1>3. PICK a \in todo[r] :
        IF a \in deleted THEN End(r) /\ UNCHANGED <<roles, deleted, todo>>
        ELSE /\ todo' = [todo EXCEPT ![r] = @ \ {a}]
             /\ IF a \in sole[r] THEN deleted' = deleted \cup {a} /\ UNCHANGED roles
                ELSE roles' = [roles EXCEPT ![a][k] = "none"] /\ UNCHANGED deleted
             /\ UNCHANGED <<pc, held>>
  BY <1>2 DEF LeaveApp
<1>4. a \in Apps
  BY DEF AccountsInv, TypeOK
<1>5. CASE a \in deleted
  <2>1. TypeOK'
    BY <1>1, <1>3, <1>5, EndTypes DEF AccountsInv, TypeOK
  <2>2. QED
    BY <1>1, <1>3, <1>5, <2>1, RequestEnds DEF locals, history
<1>6. CASE a \notin deleted
  <2>1. todo'[r] = todo[r] \ {a} /\ UNCHANGED <<pc, held>> /\ deleted \subseteq deleted' /\ deleted' \subseteq deleted \cup {a}
    BY <1>3, <1>6 DEF AccountsInv, TypeOK
  <2>2. \A q \in Reqs \ {r} : Rests(q)
    BY <1>1, <1>3, <1>6 DEF AccountsInv, TypeOK, Rests
  <2>3. /\ \A b \in Apps \ {a} : roles'[b] = roles[b]
        /\ \A j \in Keys \ {k} : roles'[a][j] = roles[a][j]
        /\ IF a \in sole[r] THEN roles' = roles /\ a \in deleted' ELSE roles'[a][k] = "none"
    BY <1>3, <1>4, <1>6 DEF AccountsInv, TypeOK
  <2>4. TypeOK'
    <3>1. roles' \in [Apps -> [Keys -> Roles]]
      <4>1. roles' = roles \/ roles' = [roles EXCEPT ![a] = [roles[a] EXCEPT ![k] = "none"]]
        BY <1>3, <1>6 DEF AccountsInv, TypeOK
      <4>2. [roles[a] EXCEPT ![k] = "none"] \in [Keys -> Roles]
        BY <1>4 DEF AccountsInv, TypeOK, Roles
      <4>3. QED
        BY <1>4, <4>1, <4>2 DEF AccountsInv, TypeOK
    <3>2. todo' \in [Reqs -> SUBSET Apps]
      BY <1>3, <1>6 DEF AccountsInv, TypeOK
    <3>3. QED
      BY <1>1, <1>4, <2>1, <3>1, <3>2 DEF AccountsInv, TypeOK
  <2>5. NamesUnique' /\ HandlesKept' /\ OwnersHaveAccounts' /\ OwnerStays'
    <3>1. NamesUnique' /\ HandlesKept' /\ OwnerStays'
      BY <1>1 DEF AccountsInv, NamesUnique, HandlesKept, OwnerStays, Exists
    <3>2. \A b \in Apps, j \in Keys : roles'[b][j] = "owner" => roles[b][j] = "owner"
      BY <2>3
    <3>3. OwnersHaveAccounts'
      BY <1>1, <3>2 DEF AccountsInv, OwnersHaveAccounts, Exists
    <3>4. QED
      BY <3>1, <3>3
  <2>6. \A q \in Reqs : RequestOK(q)' /\ HeldOK(q)'
    <3>1. \A q \in Reqs : HeldOK(q)'
      BY <1>1, <2>1 DEF AccountsInv, HeldOK, Exists, NameTaken
    <3>2. \A q \in Reqs : RequestOK(q) /\ (pc[q] = "erase" => todo'[q] = todo[q])
      BY <1>1, <2>2 DEF AccountsInv, Rests
    <3>3. \A q \in Reqs : RequestOK(q)'
      BY <1>1, <2>1, <3>2 DEF RequestOK
    <3>4. QED
      BY <3>1, <3>3
  <2>7. LeavingOK(r)
    BY DEF AccountsInv
  <2>8. \A b \in Apps \ (deleted \cup crossed \cup late) : roles[b][k] = "owner" /\ b \notin sole[r] =>
          \E j \in Keys \ {k} : roles[b][j] = "owner"
    BY <1>1, <1>2, <2>7 DEF LeavingOK
  <2>9. LeavingOK(r)'
    <3>1. msg'[r].key = claim' => overlap'
      BY <1>1, <2>7 DEF LeavingOK, Leaving
    <3>2. ASSUME NEW b \in Apps \ (deleted' \cup crossed \cup late),
                 roles'[b][k] = "owner", b \notin sole[r]
          PROVE  b \in todo'[r] /\ \E j \in Keys \ {k} : roles'[b][j] = "owner"
      <4>1. CASE b # a
        BY <1>1, <1>2, <2>1, <2>3, <2>7, <3>2, <4>1 DEF LeavingOK
      <4>2. CASE b = a
        BY <2>3, <3>2, <4>2
      <4>3. QED
        BY <4>1, <4>2
    <3>3. QED
      BY <1>1, <1>2, <3>1, <3>2 DEF LeavingOK
  <2>10. \A b \in Apps : \A j \in Keys : roles'[b][j] \in {"none", roles[b][j]}
    BY <2>3
  <2>11. \A b \in Apps \ (deleted' \cup crossed \cup late) :
            /\ \A j \in Keys \ {k} : roles'[b][j] = roles[b][j]
            /\ roles[b][k] = "owner" /\ roles'[b][k] = "none" =>
                 b \in todo[r] /\ pc[r] = "nextApp" /\ \E j \in Keys \ {k} : roles[b][j] = "owner"
    BY <1>1, <2>1, <2>3, <2>8
  <2>12. QED
    BY <1>1, <1>2, <2>1, <2>2, <2>4, <2>5, <2>6, <2>9, <2>10, <2>11, LeavingStep
<1>7. QED
  BY <1>5, <1>6

\* The UPDATEs of eraseAccount: what they pass over is deleted already.
LEMMA MarkDeletedStep ==
  ASSUME AccountsInv, NEW r \in Reqs, MarkDeleted(r)
  PROVE  AccountsInv'
<1>1. /\ pc[r] = "nextApp" /\ todo[r] = {}
      /\ sole' = [sole EXCEPT ![r] = @ \ deleted]
      /\ Goto(r, "erase")
      /\ UNCHANGED <<users, owner, claim, spaces, roles, deleted, window, held, msg, known, todo,
                     arrived, restarts, overlap, crossed, late>>
  BY DEF MarkDeleted, tables, history
<1>2. /\ sole'[r] = sole[r] \ deleted /\ pc'[r] = "erase"
      /\ \A q \in Reqs \ {r} : Rests(q)
  BY <1>1 DEF AccountsInv, TypeOK, Goto, Rests
<1>3. TypeOK'
  <2>1. pc' \in [Reqs -> Steps] /\ sole' \in [Reqs -> SUBSET Apps]
    BY <1>1 DEF AccountsInv, TypeOK, Goto, Steps
  <2>2. QED
    BY <1>1, <2>1 DEF AccountsInv, TypeOK
<1>4. RequestOK(r) /\ HeldOK(r) /\ LeavingOK(r)
  BY DEF AccountsInv
<1>5. RequestOK(r)' /\ HeldOK(r)' /\ held[r] = {}
  BY <1>1, <1>2, <1>4 DEF RequestOK, HeldOK, SigningUp, Leaving, Exists, NameTaken
<1>6. LeavingOK(r)'
  BY <1>1, <1>2, <1>4 DEF LeavingOK, Leaving
<1>7. \A q \in Reqs \ {r} : Apart(q, r)' /\ Apart(r, q)'
  BY <1>1, <1>2, <1>5 DEF Apart
<1>8. QED
  BY <1>1, <1>2, <1>3, <1>5, <1>6, <1>7, ReadOnlyStep

\* eraseAccount: every application the account still owns is deleted, was shared
\* with another deletion, or was registered too late.
LEMMA EraseAccountStep ==
  ASSUME AccountsInv, NEW r \in Reqs, EraseAccount(r)
  PROVE  AccountsInv'
<1>1. pc[r] = "erase" /\ todo[r] = {}
  BY DEF EraseAccount, AccountsInv, RequestOK
<1>2. PICK k \in Keys : k = msg[r].key
  BY <1>1, MessageTypes
<1>3. /\ deleted' = deleted \cup sole[r]
      /\ roles' = [a \in Apps |-> [roles[a] EXCEPT ![k] = "none"]]
      /\ spaces' = spaces \ {k}
      /\ users' = [users EXCEPT ![k] = NoRow]
      /\ owner' = [d \in Devices |-> IF owner[d] = k THEN NoKey ELSE owner[d]]
      /\ End(r)
      /\ UNCHANGED <<claim, window, msg, known, todo, sole, arrived, restarts, overlap, crossed, late>>
  BY <1>2 DEF EraseAccount, locals, history
<1>4. users'[k] = NoRow /\ \A j \in Keys \ {k} : users'[j] = users[j]
  BY <1>3 DEF AccountsInv, TypeOK
<1>5. Ended(r) /\ \A q \in Reqs \ {r} : Rests(q)
  BY <1>3, EndTypes DEF Rests
<1>6. TypeOK'
  <2>1. users' \in [Keys -> Users \cup {NoRow}] /\ owner' \in [Devices -> Keys \cup {NoKey}]
    BY <1>3 DEF AccountsInv, TypeOK
  <2>2. roles' \in [Apps -> [Keys -> Roles]] /\ deleted' \subseteq Apps /\ spaces' \subseteq Keys
    BY <1>3 DEF AccountsInv, TypeOK, Roles
  <2>3. QED
    BY <1>3, <2>1, <2>2, EndTypes DEF AccountsInv, TypeOK
<1>7. NamesUnique' /\ HandlesKept'
  BY <1>4 DEF AccountsInv, NamesUnique, HandlesKept, Exists
<1>8. OwnerStays'
  <2>1. k = claim => overlap
    BY <1>1, <1>2 DEF AccountsInv, LeavingOK, Leaving
  <2>2. QED
    BY <1>3, <1>4, <2>1 DEF AccountsInv, OwnerStays, Exists, TypeOK
<1>9. \A q \in Reqs : RequestOK(q)' /\ HeldOK(q)'
  <2>1. RequestOK(r)' /\ HeldOK(r)'
    BY <1>5, EndedRequest
  <2>2. ASSUME NEW q \in Reqs \ {r}
        PROVE  RequestOK(q)' /\ HeldOK(q)'
    <3>1. RequestOK(q)' /\ HeldOK(q)
      BY <1>5 DEF AccountsInv, RequestOK, Rests
    <3>2. "user" \in held[q] => msg[q].key \in Keys
      <4>1. "user" \in held[q] => pc[q] # "idle"
        BY <3>1 DEF HeldOK
      <4>2. QED
        BY <4>1, MessageTypes
    <3>3. HeldOK(q)'
      BY <1>3, <1>4, <1>5, <3>1, <3>2 DEF HeldOK, Exists, NameTaken, Rests
    <3>4. QED
      BY <3>1, <3>3
  <2>3. QED
    BY <2>1, <2>2
<1>10. \A a \in Apps : /\ \A j \in Keys \ {k} : roles'[a][j] = roles[a][j]
                       /\ roles'[a][k] = "none"
  BY <1>3 DEF AccountsInv, TypeOK
<1>11. OwnersHaveAccounts'
  BY <1>3, <1>4, <1>10 DEF AccountsInv, OwnersHaveAccounts, Exists
<1>12. \A a \in Apps \ (deleted' \cup crossed \cup late) : roles[a][k] # "owner"
  BY <1>1, <1>2, <1>3 DEF AccountsInv, LeavingOK
<1>13. /\ \A a \in Apps : \A j \in Keys : roles'[a][j] \in {"none", roles[a][j]}
       /\ \A a \in Apps \ (deleted' \cup crossed \cup late) :
            /\ \A j \in Keys \ {k} : roles'[a][j] = roles[a][j]
            /\ roles[a][k] = "owner" /\ roles'[a][k] = "none" =>
                 a \in todo[r] /\ pc[r] = "nextApp" /\ \E j \in Keys \ {k} : roles[a][j] = "owner"
  BY <1>10, <1>12
<1>14. QED
  BY <1>1, <1>2, <1>3, <1>5, <1>6, <1>7, <1>8, <1>9, <1>11, <1>13, LeavingStep

-----------------------------------------------------------------------------
(* Registering an application. *)

\* HasOtherOwner only decides whether to go on.
LEMMA RegisterOwnerCheckStep ==
  ASSUME AccountsInv, NEW r \in Reqs, RegisterOwnerCheck(r)
  PROVE  AccountsInv'
<1>1. /\ pc[r] = "ownerCheck"
      /\ End(r) \/ (Goto(r, "registerApp") /\ UNCHANGED held)
      /\ UNCHANGED <<users, owner, claim, spaces, roles, deleted, window, msg, known, todo, sole,
                     arrived, restarts, overlap, crossed, late>>
  BY DEF RegisterOwnerCheck, tables, locals, history
<1>2. CASE End(r)
  <2>1. TypeOK'
    BY <1>1, <1>2, EndTypes DEF AccountsInv, TypeOK
  <2>2. QED
    BY <1>1, <1>2, <2>1, RequestEnds DEF locals, history
<1>3. CASE Goto(r, "registerApp") /\ UNCHANGED held
  <2>1. TypeOK' /\ pc'[r] = "registerApp" /\ "registerApp" \in Steps
    BY <1>1, <1>3 DEF AccountsInv, TypeOK, Goto, Steps
  <2>2. RequestOK(r)'
    BY <1>1, <2>1 DEF AccountsInv, RequestOK, SigningUp, Leaving
  <2>3. held[r] = {}
    BY <1>1 DEF AccountsInv, HeldOK
  <2>4. HeldOK(r)'
    BY <1>3, <2>1, <2>3 DEF HeldOK
  <2>5. QED
    BY <1>1, <1>3, <2>1, <2>2, <2>4, RequestGoesOn DEF Leaving, history
<1>4. QED
  BY <1>1, <1>2, <1>3

\* RegisterApplication: an application nobody's deletion can miss gets an owner
\* that has an account.
LEMMA RegisterApplicationStep ==
  ASSUME AccountsInv, NEW r \in Reqs, RegisterApplication(r)
  PROVE  AccountsInv'
<1>1. pc[r] = "registerApp" /\ End(r)
  BY DEF RegisterApplication
<1>2. PICK a \in Apps, k \in Keys : a = msg[r].app /\ k = msg[r].key
  BY <1>1, MessageTypes
<1>3. /\ deleted' = deleted \ {a}
      /\ roles' = [roles EXCEPT ![a][k] = "owner"]
      /\ late' = IF TooLate(a, k) THEN late \cup {a} ELSE late
      /\ UNCHANGED <<users, owner, claim, spaces, window, msg, known, todo, sole, arrived, restarts,
                     overlap, crossed>>
  BY <1>2 DEF RegisterApplication, locals
<1>4. /\ \A b \in Apps \ {a} : roles'[b] = roles[b]
      /\ \A j \in Keys \ {k} : roles'[a][j] = roles[a][j]
      /\ roles'[a][k] = "owner"
  BY <1>3 DEF AccountsInv, TypeOK
<1>5. Ended(r) /\ \A q \in Reqs \ {r} : Rests(q)
  BY <1>1, <1>3, EndTypes DEF Rests
<1>6. TypeOK'
  <2>1. [roles[a] EXCEPT ![k] = "owner"] \in [Keys -> Roles]
    BY DEF AccountsInv, TypeOK, Roles
  <2>2. roles' = [roles EXCEPT ![a] = [roles[a] EXCEPT ![k] = "owner"]]
    BY <1>3 DEF AccountsInv, TypeOK
  <2>3. roles' \in [Apps -> [Keys -> Roles]]
    BY <2>1, <2>2 DEF AccountsInv, TypeOK
  <2>4. late' \subseteq Apps /\ deleted' \subseteq Apps
    BY <1>3 DEF AccountsInv, TypeOK
  <2>5. QED
    BY <1>1, <1>3, <2>3, <2>4, EndTypes DEF AccountsInv, TypeOK
<1>7. late \subseteq late' /\ (a \notin late' => ~ TooLate(a, k))
  BY <1>3
<1>8. NamesUnique' /\ HandlesKept' /\ OwnerStays'
  BY <1>3 DEF AccountsInv, NamesUnique, HandlesKept, OwnerStays, Exists
<1>9. OwnersHaveAccounts'
  <2> SUFFICES ASSUME NEW b \in Apps \ late', NEW j \in Keys, roles'[b][j] = "owner"
               PROVE  Exists(j)
    BY <1>3 DEF OwnersHaveAccounts, Exists
  <2>1. CASE b = a /\ j = k
    BY <1>7, <2>1 DEF TooLate
  <2>2. CASE b # a \/ j # k
    BY <1>4, <1>7, <2>2 DEF AccountsInv, OwnersHaveAccounts
  <2>3. QED
    BY <2>1, <2>2
<1>10. OwnedUnlessCrossed'
  <2> SUFFICES ASSUME NEW b \in Apps \ (deleted' \cup crossed \cup late')
               PROVE  \E j \in Keys : roles'[b][j] = "owner" /\ Exists(j)
    BY <1>3 DEF OwnedUnlessCrossed, Exists
  <2>1. CASE b = a
    BY <1>4, <1>7, <2>1 DEF TooLate
  <2>2. CASE b # a
    BY <1>3, <1>4, <1>7, <2>2 DEF AccountsInv, OwnedUnlessCrossed
  <2>3. QED
    BY <2>1, <2>2
<1>11. ASSUME NEW q \in Reqs \ {r}
       PROVE  RequestOK(q)' /\ HeldOK(q)' /\ LeavingOK(q)'
  <2>1. RequestOK(q)' /\ HeldOK(q)'
    BY <1>3, <1>5 DEF AccountsInv, RequestOK, HeldOK, Rests, Exists, NameTaken
  <2>2. LeavingOK(q)
    BY DEF AccountsInv
  <2>3. ASSUME pc[q] \in {"nextApp", "erase"}, NEW b \in Apps \ (deleted' \cup crossed \cup late'),
               roles'[b][msg[q].key] = "owner", b \notin sole[q]
        PROVE  b \in todo[q] /\ \E j \in Keys \ {msg[q].key} : roles'[b][j] = "owner"
    <3>1. msg[q].key \in Keys
      BY <2>3, MessageTypes
    <3>2. CASE b = a
      <4>1. ~ TooLate(a, k)
        BY <1>7, <2>3, <3>2
      <4>2. msg[q].key # k /\ roles[a][msg[q].key] # "owner"
        BY <2>3, <3>2, <4>1 DEF TooLate
      <4>3. QED
        BY <1>4, <2>3, <3>1, <3>2, <4>2
    <3>3. CASE b # a
      <4>1. b \in Apps \ (deleted \cup crossed \cup late) /\ roles'[b] = roles[b]
        BY <1>3, <1>4, <1>7, <2>3, <3>3
      <4>2. QED
        BY <2>2, <2>3, <4>1 DEF LeavingOK
    <3>4. QED
      BY <3>2, <3>3
  <2>4. LeavingOK(q)'
    BY <1>3, <1>5, <2>2, <2>3 DEF LeavingOK, Rests
  <2>5. QED
    BY <2>1, <2>4
<1>12. \A p, q \in Reqs \ {r} : p # q => Apart(p, q)'
  BY <1>3, <1>5 DEF AccountsInv, Apart, Rests
<1>13. QED
  BY <1>5, <1>6, <1>8, <1>9, <1>10, <1>11, <1>12, EndedRequest DEF AccountsInv

-----------------------------------------------------------------------------
(* The theorems. *)

\* A crash rolls every transaction back and forgets every deletion under way.
LEMMA RestartStep ==
  ASSUME AccountsInv, Restart
  PROVE  AccountsInv'
<1>1. /\ restarts' = restarts + 1 /\ window' = TRUE
      /\ pc' = [r \in Reqs |-> "idle"] /\ held' = [r \in Reqs |-> {}]
      /\ UNCHANGED <<users, owner, claim, spaces, roles, deleted, msg, known, todo, sole, arrived, overlap, crossed, late>>
  BY DEF Restart, tables, locals, history
<1>2. TypeOK'
  BY <1>1 DEF AccountsInv, TypeOK, Steps
<1>3. NamesUnique' /\ HandlesKept' /\ OwnersHaveAccounts' /\ OwnerStays' /\ OwnedUnlessCrossed'
  BY <1>1 DEF AccountsInv, NamesUnique, HandlesKept, OwnersHaveAccounts, OwnerStays, OwnedUnlessCrossed, Exists
<1>4. \A r \in Reqs : Ended(r)
  BY <1>1 DEF Ended
<1>5. QED
  BY <1>2, <1>3, <1>4, EndedRequest DEF AccountsInv

\* The initial tables satisfy the index, and no request is under way.
LEMMA InitOK == Init => AccountsInv
<1> SUFFICES ASSUME Init
             PROVE  AccountsInv
  OBVIOUS
<1>1. TypeOK
  BY InitAssumption DEF Init, TypeOK, Steps
<1>2. NamesUnique
  BY InitAssumption DEF Init, NamesUnique, Exists
<1>3. HandlesKept
  <2> SUFFICES ASSUME NEW k \in Keys, users[k] # NoRow, users[k].verifier
               PROVE  users[k].handle # NoName
    BY DEF HandlesKept, Exists
  <2>1. users[k] \in Users
    BY <1>1 DEF TypeOK
  <2>2. users[k].name \in Names
    BY <2>1 DEF Users
  <2>3. users[k].handle = Lower[users[k].name]
    BY InitAssumption DEF Init
  <2>4. QED
    BY <2>2, <2>3, NamesAssumption
<1>4. OwnerStays /\ OwnersHaveAccounts /\ OwnedUnlessCrossed
  BY InitAssumption DEF Init, OwnerStays, OwnersHaveAccounts, OwnedUnlessCrossed, Exists
<1>5. \A r \in Reqs : RequestOK(r) /\ HeldOK(r) /\ LeavingOK(r)
  BY DEF Init, RequestOK, HeldOK, LeavingOK, SigningUp, Leaving
<1>6. \A q, r \in Reqs : Apart(q, r)
  BY DEF Init, Apart
<1>7. QED
  BY <1>1, <1>2, <1>3, <1>4, <1>5, <1>6 DEF AccountsInv

\* A step that changes nothing the invariant looks at.
LEMMA QuietStep ==
  ASSUME AccountsInv, TypeOK',
         UNCHANGED <<users, claim, roles, deleted, held, pc, locals, history>>
  PROVE  AccountsInv'
<1>1. NamesUnique' /\ HandlesKept' /\ OwnersHaveAccounts' /\ OwnerStays' /\ OwnedUnlessCrossed'
  BY DEF AccountsInv, NamesUnique, HandlesKept, OwnersHaveAccounts, OwnerStays, OwnedUnlessCrossed, Exists, history
<1>2. \A r \in Reqs : RequestOK(r)' /\ HeldOK(r)' /\ LeavingOK(r)'
  BY DEF AccountsInv, RequestOK, HeldOK, LeavingOK, Exists, NameTaken, locals, history
<1>3. \A q, r \in Reqs : q # r => Apart(q, r)'
  BY DEF AccountsInv, Apart, locals, history
<1>4. QED
  BY <1>1, <1>2, <1>3 DEF AccountsInv

\* Every step keeps the invariant.
LEMMA NextOK ==
  ASSUME AccountsInv, [Next]_vars
  PROVE  AccountsInv'
<1>1. ASSUME NEW r \in Reqs, Step(r)
      PROVE  AccountsInv'
  BY <1>1, ChecksStep, InsertSteps, CommitStep, CreateSpaceStep, AuthenticateStep, RenameStep,
     SetPasswordStep, ClearPasswordStep, ListAppsStep, LeaveAppStep, MarkDeletedStep,
     EraseAccountStep, RegisterOwnerCheckStep, RegisterApplicationStep
     DEF Step, SignUp, Manage
<1>2. ASSUME NEW r \in Reqs, Fail(r)
      PROVE  AccountsInv'
  <2>1. End(r) /\ UNCHANGED <<tables, window, locals, arrived, restarts, history>>
    BY <1>2 DEF Fail
  <2>2. TypeOK'
    BY <2>1, EndTypes DEF AccountsInv, TypeOK, tables, locals, history
  <2>3. QED
    BY <2>1, <2>2, RequestEnds DEF tables
<1>3. CASE CloseWindow \/ UNCHANGED vars
  <2>1. UNCHANGED <<tables, held, pc, locals, arrived, restarts, history>> /\ window' \in BOOLEAN
    BY <1>3 DEF CloseWindow, vars, AccountsInv, TypeOK
  <2>2. TypeOK'
    BY <2>1 DEF AccountsInv, TypeOK, tables, locals, history
  <2>3. QED
    BY <2>1, <2>2, QuietStep DEF tables
<1>4. QED
  BY <1>1, <1>2, <1>3, ArriveStep, RestartStep DEF Next

\* The accounts, the open transactions and the deletions under way agree.
THEOREM AccountsConsistent == Spec => []AccountsInv
BY InitOK, NextOK, PTL DEF Spec

\* A claimed space keeps its owner (ClaimOwner, DeleteAccount's refusal).
THEOREM ClaimedSpaceKeepsOwner == Spec => []OwnerStays
<1>1. AccountsInv => OwnerStays
  BY DEF AccountsInv
<1>2. QED
  BY <1>1, AccountsConsistent, PTL

\* A live application has an owner with an account, whatever is deleted and
\* registered at once, unless two deletions share it or it was registered too
\* late for its owner's.
THEOREM ApplicationsKeepOwner == Spec => []OwnedUnlessCrossed
<1>1. AccountsInv => OwnedUnlessCrossed
  BY DEF AccountsInv
<1>2. QED
  BY <1>1, AccountsConsistent, PTL

-----------------------------------------------------------------------------
(* The salt of a sealed password. *)

\* Under the unique index, the salt of an account with a password is its handle.
LEMMA SaltIsHandle ==
  ASSUME NEW T, NEW k \in Keys, T[k] # NoRow, T[k].verifier, T[k].handle # NoName,
         \A j \in Keys : T[j] # NoRow /\ T[j].verifier /\ Lower[T[j].name] = Lower[T[k].name] => j = k
  PROVE  GetSalt(T, T[k].name) = {T[k].handle}
<1> DEFINE holders == {j \in Keys : T[j] # NoRow /\ T[j].verifier /\ Lower[T[j].name] = Lower[T[k].name]}
<1>1. holders = {k}
  OBVIOUS
<1>2. GetSalt(T, T[k].name) = {T[j].handle : j \in holders}
  BY <1>1 DEF GetSalt
<1> HIDE DEF holders
<1>3. QED
  BY <1>1, <1>2

\* No statement changes the handle of an account that keeps its password.
LEMMA HandleFrozen ==
  ASSUME AccountsInv, [Next]_vars, NEW k \in Keys, Exists(k), users'[k] # NoRow,
         users[k].verifier, users'[k].verifier
  PROVE  users'[k].handle = users[k].handle
<1>1. users[k] \in Users /\ users[k].handle # NoName
  BY DEF AccountsInv, TypeOK, HandlesKept, Exists
<1>2. ASSUME NEW r \in Reqs, Commit(r)
      PROVE  users'[k] = users[k]
  <2>1. users' = users \/ ("user" \in held[r] /\ users' = [users EXCEPT ![msg[r].key] = NewUser(msg[r])])
    BY <1>2 DEF Commit
  <2>2. "user" \in held[r] => msg[r].key # k
    BY DEF AccountsInv, HeldOK
  <2>3. QED
    BY <2>1, <2>2 DEF AccountsInv, TypeOK
<1>3. ASSUME NEW r \in Reqs, Rename(r)
      PROVE  users'[k].handle = users[k].handle
  <2>1. users' = users \/ \E j \in Keys : users' = [users EXCEPT ![j].name = msg[r].name]
    <3>1. msg[r].key \in Keys
      BY <1>3, MessageTypes DEF Rename
    <3>2. QED
      BY <1>3, <3>1 DEF Rename
  <2>2. QED
    BY <1>1, <2>1 DEF AccountsInv, TypeOK, Users
<1>4. ASSUME NEW r \in Reqs, SetPassword(r)
      PROVE  users'[k].handle = users[k].handle
  <2>1. PICK j \in Keys : j = msg[r].key
    BY <1>4, MessageTypes DEF SetPassword
  <2>2. CASE UNCHANGED users
    BY <2>2
  <2>3. CASE users' = [users EXCEPT ![j] =
               [@ EXCEPT !.verifier = TRUE, !.handle = NewHandle(users[j], Lower[known[r]])]]
    <3>1. CASE j # k
      BY <2>3, <3>1 DEF AccountsInv, TypeOK
    <3>2. CASE j = k
      <4>1. NewHandle(users[k], Lower[known[r]]) = users[k].handle
        BY <1>1 DEF NewHandle
      <4>2. users'[k] = [users[k] EXCEPT !.verifier = TRUE, !.handle = users[k].handle]
        BY <2>3, <3>2, <4>1 DEF AccountsInv, TypeOK
      <4>3. QED
        BY <1>1, <4>2 DEF Users
    <3>3. QED
      BY <3>1, <3>2
  <2>4. QED
    BY <1>4, <2>1, <2>2, <2>3 DEF SetPassword
<1>5. ASSUME NEW r \in Reqs, ClearPassword(r)
      PROVE  users'[k].handle = users[k].handle
  <2>1. users' = users \/ \E j \in Keys : users' = [users EXCEPT ![j].verifier = FALSE]
    <3>1. msg[r].key \in Keys
      BY <1>5, MessageTypes DEF ClearPassword
    <3>2. QED
      BY <1>5, <3>1 DEF ClearPassword
  <2>2. QED
    BY <1>1, <2>1 DEF AccountsInv, TypeOK, Users
<1>6. ASSUME NEW r \in Reqs, EraseAccount(r)
      PROVE  users'[k].handle = users[k].handle
  <2>1. users' = [users EXCEPT ![msg[r].key] = NoRow]
    BY <1>6 DEF EraseAccount
  <2>2. QED
    BY <2>1 DEF AccountsInv, TypeOK
<1>7. CASE UNCHANGED users
  BY <1>7
<1>8. QED
  <2>1. ASSUME NEW r \in Reqs, Arrive(r) \/ Fail(r)
        PROVE  UNCHANGED users
    BY <2>1 DEF Arrive, Fail, tables
  <2>2. ASSUME NEW r \in Reqs, HasClaim(r) \/ Count(r) \/ InsertUser(r) \/ InsertDevice(r) \/ InsertClaim(r)
        PROVE  UNCHANGED users
    BY <2>2 DEF HasClaim, Count, InsertUser, InsertDevice, InsertClaim, tables
  <2>3. ASSUME NEW r \in Reqs, CreateSpace(r) \/ Authenticate(r) \/ ListApps(r) \/ LeaveApp(r)
        PROVE  UNCHANGED users
    BY <2>3 DEF CreateSpace, Authenticate, ListApps, LeaveApp, tables
  <2>6. ASSUME NEW r \in Reqs, MarkDeleted(r) \/ RegisterOwnerCheck(r) \/ RegisterApplication(r)
        PROVE  UNCHANGED users
    BY <2>6 DEF MarkDeleted, RegisterOwnerCheck, RegisterApplication, tables
  <2>4. CloseWindow \/ Restart \/ UNCHANGED vars => UNCHANGED users
    BY DEF CloseWindow, Restart, vars, tables
  <2>5. QED
    BY <1>2, <1>3, <1>4, <1>5, <1>6, <1>7, <2>1, <2>2, <2>3, <2>4, <2>6 DEF Next, Step, SignUp, Manage

\* While an account keeps a password, GetSalt of its current name answers the
\* same salt, whatever it and others rename, set, register or delete.
THEOREM SaltStable == Spec => SealedSaltStable
<1>1. ASSUME AccountsInv, AccountsInv', [Next]_vars, NEW k \in Keys,
             Exists(k), users'[k] # NoRow, users[k].verifier, users'[k].verifier
      PROVE  GetSalt(users', users'[k].name) = GetSalt(users, users[k].name)
  <2>1. GetSalt(users, users[k].name) = {users[k].handle}
    <3>1. users[k].handle # NoName
      BY <1>1 DEF AccountsInv, HandlesKept
    <3>2. \A j \in Keys : users[j] # NoRow /\ users[j].verifier /\ Lower[users[j].name] = Lower[users[k].name] => j = k
      BY <1>1 DEF AccountsInv, NamesUnique, Exists
    <3>3. QED
      BY <1>1, <3>1, <3>2, SaltIsHandle DEF Exists
  <2>2. GetSalt(users', users'[k].name) = {users'[k].handle}
    <3>1. users'[k].handle # NoName
      BY <1>1 DEF AccountsInv, HandlesKept, Exists
    <3>2. \A j \in Keys : users'[j] # NoRow /\ users'[j].verifier /\ Lower[users'[j].name] = Lower[users'[k].name] => j = k
      BY <1>1 DEF AccountsInv, NamesUnique, Exists
    <3>3. QED
      BY <1>1, <3>1, <3>2, SaltIsHandle
  <2>3. users'[k].handle = users[k].handle
    BY <1>1, HandleFrozen
  <2>4. QED
    BY <2>1, <2>2, <2>3
<1>2. AccountsInv /\ AccountsInv' /\ [Next]_vars =>
        [\A k \in Keys :
           (Exists(k) /\ users'[k] # NoRow /\ users[k].verifier /\ users'[k].verifier) =>
             GetSalt(users', users'[k].name) = GetSalt(users, users[k].name)]_vars
  BY <1>1
<1>3. QED
  BY <1>2, AccountsConsistent, PTL DEF Spec, SealedSaltStable
=============================================================================
