-------------------------- MODULE InvitationProofs --------------------------
(***************************************************************************)
(* An invitation never admits or promotes more often than max_uses, for any *)
(* number of invitations, accounts, devices and concurrent requests.         *)
(***************************************************************************)
EXTENDS Invitation, FiniteSetTheorems, TLAPS

USE KeysAssumption, MessagesAssumption, InitAssumption, LimitsAssumption

\* The row CreateInvitation stores: well formed, and not used yet.
LEMMA NewInviteType ==
  ASSUME NEW m \in Requests
  PROVE  /\ NewInvite(m) \in InviteRows
         /\ NewInvite(m).used = 0
<1>1. m.keys \subseteq Keys
  BY DEF Requests
<1>2. Cardinality(m.keys) \in Nat
  BY <1>1, FS_Subset, FS_CardinalityType
<1> QED
  BY <1>2, SMTT(30) DEF NewInvite, InviteRows, Requests, Roles

\* The columns of an invitation.
LEMMA RowFields ==
  ASSUME NEW x \in InviteRows
  PROVE  x.used \in Nat /\ x.max \in Nat /\ x.role \in Roles
BY DEF InviteRows

\* The fields of a request.
LEMMA RequestFields ==
  ASSUME NEW m \in Requests
  PROVE  m.inv \in Invites /\ m.key \in Keys /\ m.dev \in Devices
BY DEF Requests

\* What the UPDATEs of an invitation do to a row.
LEMMA RowUpdates ==
  ASSUME NEW x \in InviteRows
  PROVE  /\ [x EXCEPT !.used = @ + 1] \in InviteRows
         /\ x.used > 0 => [x EXCEPT !.used = @ - 1] \in InviteRows
         /\ [x EXCEPT !.expired = TRUE] \in InviteRows
         /\ [x EXCEPT !.open = FALSE] \in InviteRows
<1>1. [x EXCEPT !.used = x.used + 1] \in InviteRows
  BY DEF InviteRows
<1>2. x.used > 0 => [x EXCEPT !.used = x.used - 1] \in InviteRows
  <2>1. x.used > 0 => x.used - 1 \in Nat
    BY RowFields
  <2>2. \A n \in Nat : [x EXCEPT !.used = n] \in InviteRows
    BY DEF InviteRows
  <2> QED
    BY <2>1, <2>2
<1>3. [x EXCEPT !.expired = TRUE] \in InviteRows /\ [x EXCEPT !.open = FALSE] \in InviteRows
  BY DEF InviteRows
<1> QED
  BY <1>1, <1>2, <1>3

\* A claim leaves the table well formed.
LEMMA IncrementType ==
  ASSUME rows \in [Invites -> InviteRows], NEW i \in Invites, IncrementUseCount(i)
  PROVE  rows' \in [Invites -> InviteRows]
<1>1. rows[i] \in InviteRows
  OBVIOUS
<1>2. [rows[i] EXCEPT !.used = @ + 1] \in InviteRows
  BY <1>1, RowUpdates
<1> QED
  BY <1>2 DEF IncrementUseCount

\* The tables stay well formed.
LEMMA TablesType ==
  ASSUME TablesOK, RequestsOK, RequestsInv, NEW r \in Reqs,
         Arrive(r) \/ Authorize(r) \/ Insert(r) \/ Delete(r) \/ JoinStep(r) \/ DatabaseError(r)
  PROVE  TablesOK'
<1> USE DEF TablesOK, RequestsOK, RequestsInv, Roles, SpaceRoles, tables, history
<1>0. pc[r] # "idle" => /\ msg[r].inv \in Invites /\ msg[r].key \in Keys /\ msg[r].dev \in Devices
                        /\ rows[msg[r].inv] \in InviteRows
  BY RequestFields
<1>1. CASE Arrive(r) \/ Authorize(r) \/ Check(r) \/ Guard(r) \/ Lookup(r) \/ Signup(r)
           \/ Device(r) \/ Refetch(r) \/ Member(r) \/ Reuse(r) \/ DatabaseError(r)
  BY <1>1 DEF Arrive, Authorize, Check, Guard, Lookup, Signup, Device, Refetch, Member, Reuse, DatabaseError
<1>3. CASE Insert(r)
  BY <1>0, <1>3, NewInviteType DEF Insert
<1>4. CASE Delete(r)
  <2>1. rows' \in [Invites -> InviteRows]
    BY <1>4, RowUpdates DEF Delete, Closed
  <2> QED
    BY <2>1, <1>4 DEF Delete, Closed
<1>6. CASE Claim(r)
  <2>1. rows' \in [Invites -> InviteRows]
    BY <1>0, <1>6, IncrementType DEF Claim
  <2> QED
    BY <2>1, <1>6 DEF Claim
<1>7. CASE Create(r)
  BY <1>0, <1>7 DEF Create
<1>8. CASE Enroll(r) \/ Backfill(r)
  BY <1>0, <1>8 DEF Enroll, Backfill, EnsureDevice
<1>12. CASE ReleaseUse(r)
  <2>1. rows' \in [Invites -> InviteRows]
    BY <1>0, <1>12, RowUpdates, RowFields DEF ReleaseUse, Release
  <2> QED
    BY <2>1, <1>12 DEF ReleaseUse
<1>14. CASE ClaimUse(r)
  <2>1. rows' \in [Invites -> InviteRows]
    BY <1>0, <1>14, IncrementType DEF ClaimUse
  <2> QED
    BY <2>1, <1>14 DEF ClaimUse
<1>15. CASE Promote(r) \/ PromoteJoin(r)
  BY <1>0, <1>15 DEF Promote, Promoted, PromoteJoin
<1>16. CASE ProduceMemberAdded(r)
  BY <1>0, <1>16, RowFields DEF ProduceMemberAdded
<1>17. CASE RecordUse(r)
  BY <1>0, <1>17 DEF RecordUse
<1> QED
  BY <1>1, <1>3, <1>4, <1>6, <1>7, <1>8, <1>12, <1>14, <1>15, <1>16, <1>17 DEF JoinStep

\* The requests stay well formed, and hold a use only where RequestsInv says.
LEMMA RequestsType ==
  ASSUME TablesOK, RequestsOK, RequestsInv, NEW r \in Reqs,
         Arrive(r) \/ Authorize(r) \/ Insert(r) \/ Delete(r) \/ JoinStep(r) \/ DatabaseError(r)
  PROVE  RequestsOK' /\ RequestsInv'
<1> USE DEF RequestsOK, RequestsInv, SpaceRoles, Steps, Goto, Return, Fail, Proceed, Released
<1>0. pc[r] # "idle" => msg[r].key \in Keys
  BY RequestFields
<1>1. CASE Arrive(r)
  BY <1>1 DEF Arrive
<1>2. CASE Authorize(r) \/ Insert(r) \/ Delete(r)
  BY <1>2 DEF Authorize, Insert, Delete
<1>3. CASE Check(r) \/ Guard(r) \/ Signup(r) \/ Device(r)
  BY <1>3 DEF Check, Guard, Signup, Device
<1>4. CASE Lookup(r)
  <2>1. users[msg[r].key] \in SpaceRoles
    BY <1>0, <1>4 DEF Lookup, TablesOK
  <2> QED
    BY <2>1, <1>4, SMTT(60) DEF Lookup
<1>5. CASE Claim(r)
  <2>1. CASE Claimable(msg[r].inv)
    <3>1. /\ held' = [held EXCEPT ![r] = TRUE] /\ pc' = [pc EXCEPT ![r] = "create"]
          /\ msg' = msg /\ acct' = acct /\ arrived' = arrived /\ pc[r] = "claim"
      BY <2>1, <1>5 DEF Claim
    <3> QED
      BY <3>1
  <2>2. CASE ~ Claimable(msg[r].inv)
    <3>1. Fail(r) /\ pc[r] = "claim"
      BY <2>2, <1>5 DEF Claim
    <3> QED
      BY <3>1
  <2> QED
    BY <2>1, <2>2
<1>6. CASE Create(r)
  BY <1>6 DEF Create
<1>7. CASE Enroll(r) \/ Refetch(r)
  <2>1. users[msg[r].key] \in SpaceRoles
    BY <1>0, <1>7 DEF Enroll, Refetch, TablesOK
  <2> QED
    BY <2>1, <1>7 DEF Enroll, Refetch
<1>8. CASE Backfill(r) \/ Member(r)
  BY <1>8 DEF Backfill, Member
<1>9. CASE ReleaseUse(r)
  BY <1>9 DEF ReleaseUse
<1>10. CASE Reuse(r) \/ Promote(r) \/ RecordUse(r) \/ PromoteJoin(r)
  <2>1. CASE Reuse(r)
    BY <2>1 DEF Reuse
  <2>2. CASE Promote(r)
    BY <2>2 DEF Promote
  <2>3. CASE RecordUse(r)
    BY <2>3 DEF RecordUse
  <2>4. CASE PromoteJoin(r)
    BY <2>4 DEF PromoteJoin
  <2> QED
    BY <1>10, <2>1, <2>2, <2>3, <2>4
<1>11. CASE ClaimUse(r)
  <2>1. CASE held[r] \/ Claimable(msg[r].inv)
    <3>1. /\ held' = [held EXCEPT ![r] = FALSE]
          /\ pc' = [pc EXCEPT ![r] = IF pc[r] = "reclaim" THEN "promote" ELSE "produce"]
          /\ msg' = msg /\ acct' = acct /\ arrived' = arrived /\ pc[r] \in {"reclaim", "claimJoin"}
      BY <2>1, <1>11, Zenon DEF ClaimUse
    <3> QED
      BY <3>1
  <2>2. CASE ~ held[r] /\ ~ Claimable(msg[r].inv)
    <3>1. Return(r) /\ pc[r] \in {"reclaim", "claimJoin"}
      BY <2>2, <1>11, Zenon DEF ClaimUse
    <3> QED
      BY <2>2, <3>1
  <2> QED
    BY <2>1, <2>2
<1>12. CASE ProduceMemberAdded(r)
  BY <1>12, SMTT(60) DEF ProduceMemberAdded
<1>13. CASE DatabaseError(r)
  <2>1. CASE pc[r] \in {"releaseMember", "release"}
    <3>1. Released(r)
      BY <2>1, <1>13 DEF DatabaseError
    <3>2. /\ held' = [held EXCEPT ![r] = FALSE] /\ arrived' = arrived
          /\ \/ pc' = [pc EXCEPT ![r] = "reuse"] /\ msg' = msg /\ acct' = acct
             \/ /\ pc' = [pc EXCEPT ![r] = "idle"]
                /\ msg' = [msg EXCEPT ![r] = NoMsg]
                /\ acct' = [acct EXCEPT ![r] = "none"]
      BY <3>1
    <3> QED
      BY <2>1, <3>2
  <2>2. CASE pc[r] \notin {"releaseMember", "release"}
    <3>1. Fail(r) /\ pc[r] # "idle"
      BY <2>2, <1>13 DEF DatabaseError
    <3> QED
      BY <3>1
  <2> QED
    BY <2>1, <2>2
<1> QED
  BY <1>1, <1>2, <1>3, <1>4, <1>5, <1>6, <1>7, <1>8, <1>9, <1>10, <1>11, <1>12, <1>13 DEF JoinStep

\* The history counters stay well formed.
LEMMA HistoryType ==
  ASSUME RequestsOK, RequestsInv, HistoryOK, NEW r \in Reqs,
         Arrive(r) \/ Authorize(r) \/ Insert(r) \/ Delete(r) \/ JoinStep(r) \/ DatabaseError(r)
  PROVE  HistoryOK'
<1> USE DEF HistoryOK, history
<1>0. pc[r] # "idle" => msg[r].inv \in Invites /\ msg[r].key \in Keys
  BY RequestFields DEF RequestsInv
<1>1. CASE history' = history
  BY <1>1
<1>2. CASE Create(r)
  BY <1>0, <1>2 DEF Create
<1>3. CASE ReleaseUse(r)
  BY <1>0, <1>3 DEF ReleaseUse, Release
<1>4. CASE Promote(r)
  BY <1>0, <1>4 DEF Promote, Spend
<1>5. CASE ProduceMemberAdded(r)
  BY <1>0, <1>5 DEF ProduceMemberAdded, Spend
<1>6. CASE DatabaseError(r)
  BY <1>0, <1>6 DEF DatabaseError
<1>7. CASE Arrive(r) \/ Authorize(r) \/ Insert(r) \/ Delete(r) \/ Check(r) \/ Guard(r) \/ Lookup(r)
           \/ Signup(r) \/ Device(r) \/ Claim(r) \/ Enroll(r) \/ Refetch(r) \/ Backfill(r)
           \/ Member(r) \/ Reuse(r) \/ ClaimUse(r) \/ RecordUse(r) \/ PromoteJoin(r)
  BY <1>1, <1>7 DEF Arrive, Authorize, Insert, Delete, Check, Guard, Lookup, Signup, Device, Claim,
     Enroll, Refetch, Backfill, Member, Reuse, ClaimUse, RecordUse, PromoteJoin
<1> QED
  BY <1>2, <1>3, <1>4, <1>5, <1>6, <1>7 DEF JoinStep

-----------------------------------------------------------------------------
(* What a step does to the claims: nothing, take one, or end one. *)

\* Only request r moves.
OnlyRequest(r) ==
  \A q \in Reqs \ {r} : pc'[q] = pc[q] /\ held'[q] = held[q] /\ msg'[q] = msg[q]

\* No row's counter changes, and no row that exists changes its limit.
CountersKept ==
  \A i \in Invites :
    /\ rows'[i].used = rows[i].used
    /\ rows[i].created => rows'[i].created /\ rows'[i].max = rows[i].max
    /\ ~ rows'[i].created => ~ rows'[i].open

Quiet(r) ==
  /\ OnlyRequest(r)
  /\ Claimed(r)' <=> Claimed(r)
  /\ Claimed(r) => msg'[r] = msg[r]
  /\ CountersKept
  /\ spent' = spent /\ lost' = lost

Takes(r) ==
  /\ OnlyRequest(r)
  /\ ~ Claimed(r) /\ Claimed(r)' /\ msg'[r] = msg[r]
  /\ Claimable(msg[r].inv) /\ IncrementUseCount(msg[r].inv)
  /\ spent' = spent /\ lost' = lost

Ends(r) ==
  /\ OnlyRequest(r)
  /\ Claimed(r) /\ ~ Claimed(r)'
  /\ \/ CountersKept /\ spent' = [spent EXCEPT ![msg[r].inv] = @ + 1] /\ lost' = lost
     \/ CountersKept /\ lost' = [lost EXCEPT ![msg[r].inv] = @ + 1] /\ spent' = spent
     \/ /\ rows[msg[r].inv].used > 0 /\ spent' = spent /\ lost' = lost
        /\ rows' = [rows EXCEPT ![msg[r].inv].used = @ - 1]

\* Claims are finite, and taking or ending one changes their number by one.
LEMMA ClaimsCount ==
  ASSUME NEW i, NEW r \in Reqs
  PROVE  /\ Cardinality(Claims(i)) \in Nat
         /\ Cardinality(Claims(i) \cup {r}) =
              IF r \in Claims(i) THEN Cardinality(Claims(i)) ELSE Cardinality(Claims(i)) + 1
         /\ Cardinality(Claims(i) \ {r}) =
              IF r \in Claims(i) THEN Cardinality(Claims(i)) - 1 ELSE Cardinality(Claims(i))
<1>1. Claims(i) \subseteq Reqs
  BY DEF Claims
<1>2. IsFiniteSet(Claims(i))
  BY <1>1, FS_Subset, ReqsAssumption
<1> QED
  BY <1>2, FS_CardinalityType, FS_AddElement, FS_RemoveElement

\* A step that changes neither the claims nor the counters.
LEMMA KeepsConserves ==
  ASSUME TypeOK, TablesOK', ClaimsInv, CountersKept, spent' = spent, lost' = lost,
         \A i \in Invites : Claims(i)' = Claims(i)
  PROVE  UsesConserved' /\ UsedWithinMax'
<1>1. UsesConserved'
  BY DEF CountersKept, UsesConserved, ClaimsInv
<1>2. ASSUME NEW i \in Invites
      PROVE  /\ rows'[i].max # 0 => rows'[i].used <= rows'[i].max
             /\ ~ rows'[i].created => ~ rows'[i].open /\ rows'[i].used = 0
  <2>1. rows[i].created \/ rows[i].used = 0
    BY DEF ClaimsInv, UsedWithinMax
  <2>2. rows[i] \in InviteRows /\ rows'[i] \in InviteRows
    BY DEF TypeOK, TablesOK
  <2> QED
    BY <2>1, <2>2, RowFields DEF CountersKept, ClaimsInv, UsedWithinMax
<1> QED
  BY <1>1, <1>2 DEF UsedWithinMax

\* A step of a request that neither takes nor ends a claim.
LEMMA QuietConserves ==
  ASSUME TypeOK, TablesOK', ClaimsInv, NEW r \in Reqs, Quiet(r)
  PROVE  UsesConserved' /\ UsedWithinMax'
<1>1. \A i \in Invites : Claims(i)' = Claims(i)
  BY DEF Quiet, OnlyRequest, Claims, Claimed
<1> QED
  BY <1>1, KeepsConserves DEF Quiet

\* IncrementUseCount by a request without a claim.
LEMMA TakesConserves ==
  ASSUME TypeOK, ClaimsInv, NEW r \in Reqs, msg[r] \in Requests, Takes(r)
  PROVE  UsesConserved' /\ UsedWithinMax'
<1> DEFINE j == msg[r].inv
<1>0. j \in Invites /\ rows[j] \in InviteRows
  BY RequestFields DEF TypeOK, TablesOK
<1>1. \A i \in Invites : Claims(i)' = IF i = j THEN Claims(i) \cup {r} ELSE Claims(i)
  BY DEF Takes, OnlyRequest, Claims, Claimed
<1>2. \A i \in Invites : r \notin Claims(i)
  BY DEF Takes, Claims
<1>3. \A i \in Invites : /\ rows'[i].used = rows[i].used + (IF i = j THEN 1 ELSE 0)
                         /\ rows'[i].max = rows[i].max
                         /\ rows'[i].created = rows[i].created
                         /\ rows'[i].open = rows[i].open
  BY <1>0, RowFields DEF Takes, IncrementUseCount, TypeOK, TablesOK, InviteRows
<1>4. UsesConserved'
  <2> SUFFICES ASSUME NEW i \in Invites
               PROVE  rows'[i].used = Cardinality(Claims(i)') + spent'[i] + lost'[i]
    BY DEF UsesConserved
  <2>1. Cardinality(Claims(i)') = Cardinality(Claims(i)) + (IF i = j THEN 1 ELSE 0)
    <3>1. CASE i = j
      BY <1>1, <1>2, <3>1, ClaimsCount
    <3>2. CASE i # j
      <4>1. Claims(i)' = Claims(i) /\ Cardinality(Claims(i)) \in Nat
        BY <1>1, <3>2, ClaimsCount
      <4> QED
        BY <3>2, <4>1
    <3> QED
      BY <3>1, <3>2
  <2>2. rows[i].used = Cardinality(Claims(i)) + spent[i] + lost[i]
    BY DEF ClaimsInv, UsesConserved
  <2>3. spent'[i] = spent[i] /\ lost'[i] = lost[i] /\ spent[i] \in Nat /\ lost[i] \in Nat
    BY DEF Takes, TypeOK, HistoryOK
  <2>4. Cardinality(Claims(i)) \in Nat
    BY ClaimsCount
  <2> QED
    BY <1>3, <2>1, <2>2, <2>3, <2>4
<1>5. UsedWithinMax'
  <2> SUFFICES ASSUME NEW i \in Invites
               PROVE  /\ rows'[i].max # 0 => rows'[i].used <= rows'[i].max
                      /\ ~ rows'[i].created => ~ rows'[i].open /\ rows'[i].used = 0
    BY DEF UsedWithinMax
  <2>1. rows[i] \in InviteRows
    BY DEF TypeOK, TablesOK
  <2>2. /\ rows[i].max # 0 => rows[i].used <= rows[i].max
        /\ ~ rows[i].created => ~ rows[i].open /\ rows[i].used = 0
    BY DEF ClaimsInv, UsedWithinMax
  <2>3. i = j => rows[i].open /\ (rows[i].max = 0 \/ rows[i].used < rows[i].max)
    BY DEF Takes, Claimable, Found
  <2> QED
    BY <1>3, <2>1, <2>2, <2>3, RowFields
<1> QED
  BY <1>4, <1>5

\* A claim that is spent, lost or given back.
LEMMA EndsConserves ==
  ASSUME TypeOK, TablesOK', ClaimsInv, NEW r \in Reqs, msg[r] \in Requests, Ends(r)
  PROVE  UsesConserved' /\ UsedWithinMax'
<1> DEFINE j == msg[r].inv
<1>0. j \in Invites /\ rows[j] \in InviteRows
  BY RequestFields DEF TypeOK, TablesOK
<1>1. \A i \in Invites : Claims(i)' = Claims(i) \ {r}
  BY DEF Ends, OnlyRequest, Claims, Claimed
<1>2. \A i \in Invites : r \in Claims(i) <=> i = j
  BY DEF Ends, Claims
<1>3. ASSUME NEW i \in Invites
      PROVE  /\ rows'[i].used + (IF i = j THEN 1 ELSE 0) + spent[i] + lost[i]
                  = rows[i].used + spent'[i] + lost'[i]
             /\ rows'[i].used <= rows[i].used
             /\ rows[i].created => rows'[i].max = rows[i].max /\ rows'[i].created
             /\ ~ rows'[i].created => ~ rows'[i].open
             /\ spent'[i] \in Nat /\ lost'[i] \in Nat
  <2>1. /\ rows[i] \in InviteRows /\ rows'[i] \in InviteRows
        /\ spent[i] \in Nat /\ lost[i] \in Nat /\ spent[j] \in Nat /\ lost[j] \in Nat
    BY <1>0 DEF TypeOK, TablesOK, HistoryOK
  <2>2. CASE CountersKept /\ spent' = [spent EXCEPT ![j] = @ + 1] /\ lost' = lost
    <3>1. rows'[i].used = rows[i].used /\ lost'[i] = lost[i]
      BY <2>2 DEF CountersKept
    <3>2. spent'[i] = spent[i] + (IF i = j THEN 1 ELSE 0)
      BY <1>0, <2>1, <2>2 DEF TypeOK, HistoryOK
    <3>3. /\ rows[i].created => rows'[i].max = rows[i].max /\ rows'[i].created
          /\ ~ rows'[i].created => ~ rows'[i].open
      BY <2>2 DEF CountersKept
    <3> HIDE DEF j
    <3> QED
      BY <2>1, <3>1, <3>2, <3>3, RowFields
  <2>3. CASE CountersKept /\ lost' = [lost EXCEPT ![j] = @ + 1] /\ spent' = spent
    <3>1. rows'[i].used = rows[i].used /\ spent'[i] = spent[i]
      BY <2>3 DEF CountersKept
    <3>2. lost'[i] = lost[i] + (IF i = j THEN 1 ELSE 0)
      BY <1>0, <2>1, <2>3 DEF TypeOK, HistoryOK
    <3>3. /\ rows[i].created => rows'[i].max = rows[i].max /\ rows'[i].created
          /\ ~ rows'[i].created => ~ rows'[i].open
      BY <2>3 DEF CountersKept
    <3> HIDE DEF j
    <3> QED
      BY <2>1, <3>1, <3>2, <3>3, RowFields
  <2>4. CASE /\ rows[j].used > 0 /\ spent' = spent /\ lost' = lost
             /\ rows' = [rows EXCEPT ![j].used = @ - 1]
    <3>1. /\ rows'[i].used = rows[i].used - (IF i = j THEN 1 ELSE 0)
          /\ rows'[i].max = rows[i].max
          /\ rows'[i].created = rows[i].created
          /\ rows'[i].open = rows[i].open
      BY <1>0, <2>4, RowFields DEF TypeOK, TablesOK, InviteRows
    <3>2. ~ rows[i].created => ~ rows[i].open
      BY DEF ClaimsInv, UsedWithinMax
    <3> QED
      BY <2>1, <2>4, <3>1, <3>2, RowFields
  <2> QED
    BY <2>2, <2>3, <2>4 DEF Ends
<1>4. UsesConserved'
  <2> SUFFICES ASSUME NEW i \in Invites
               PROVE  rows'[i].used = Cardinality(Claims(i)') + spent'[i] + lost'[i]
    BY DEF UsesConserved
  <2>1. Cardinality(Claims(i)') = Cardinality(Claims(i)) - (IF i = j THEN 1 ELSE 0)
    <3>1. Claims(i)' = Claims(i) \ {r} /\ (r \in Claims(i) <=> i = j)
      BY <1>1, <1>2
    <3>2. Cardinality(Claims(i)) \in Nat
      BY ClaimsCount
    <3>3. Cardinality(Claims(i) \ {r}) =
            IF r \in Claims(i) THEN Cardinality(Claims(i)) - 1 ELSE Cardinality(Claims(i))
      BY ClaimsCount
    <3> HIDE DEF j
    <3> QED
      BY <3>1, <3>2, <3>3
  <2>2. rows[i].used = Cardinality(Claims(i)) + spent[i] + lost[i]
    BY DEF ClaimsInv, UsesConserved
  <2>3. spent[i] \in Nat /\ lost[i] \in Nat /\ rows'[i] \in InviteRows
    BY DEF TypeOK, HistoryOK, TablesOK
  <2>4. Cardinality(Claims(i)) \in Nat
    BY ClaimsCount
  <2> QED
    BY <1>3, <2>1, <2>2, <2>3, <2>4, RowFields
<1>5. UsedWithinMax'
  <2> SUFFICES ASSUME NEW i \in Invites
               PROVE  /\ rows'[i].max # 0 => rows'[i].used <= rows'[i].max
                      /\ ~ rows'[i].created => ~ rows'[i].open /\ rows'[i].used = 0
    BY DEF UsedWithinMax
  <2>1. rows[i] \in InviteRows /\ rows'[i] \in InviteRows
    BY DEF TypeOK, TablesOK
  <2>2. /\ rows[i].max # 0 => rows[i].used <= rows[i].max
        /\ ~ rows[i].created => rows[i].used = 0
    BY DEF ClaimsInv, UsedWithinMax
  <2> QED
    BY <1>3, <2>1, <2>2, RowFields
<1> QED
  BY <1>4, <1>5

\* Deleting invitations keeps their counters.
LEMMA ClosedKeeps ==
  ASSUME TypeOK, ClaimsInv, NEW S, Closed(S)
  PROVE  CountersKept
<1> SUFFICES ASSUME NEW i \in Invites
             PROVE  /\ rows'[i].used = rows[i].used
                    /\ rows[i].created => rows'[i].created /\ rows'[i].max = rows[i].max
                    /\ ~ rows'[i].created => ~ rows'[i].open
  BY DEF CountersKept
<1>1. rows[i] \in InviteRows /\ (~ rows[i].created => ~ rows[i].open)
  BY DEF TypeOK, TablesOK, ClaimsInv, UsedWithinMax
<1>2. rows'[i] = IF i \in S THEN [rows[i] EXCEPT !.open = FALSE] ELSE rows[i]
  BY DEF Closed
<1> QED
  BY <1>1, <1>2 DEF InviteRows

\* Leaving the table alone keeps the counters.
LEMMA SameRowsKeep ==
  ASSUME ClaimsInv, rows' = rows
  PROVE  CountersKept
BY DEF CountersKept, ClaimsInv, UsedWithinMax

\* Every step of a request takes a claim, ends one, or leaves them alone.
LEMMA StepOfClaims ==
  ASSUME TypeOK, ClaimsInv, NEW r \in Reqs,
         Arrive(r) \/ Authorize(r) \/ Insert(r) \/ Delete(r) \/ JoinStep(r) \/ DatabaseError(r)
  PROVE  Quiet(r) \/ (msg[r] \in Requests /\ (Takes(r) \/ Ends(r)))
<1> USE DEF TypeOK, RequestsOK, OnlyRequest, Claimed, tables, history,
        Goto, Return, Fail, Proceed, Released
<1>0. RequestsInv
  BY DEF ClaimsInv
<1>1. pc[r] # "idle" => msg[r] \in Requests
  BY <1>0 DEF RequestsInv
<1>2. CASE Arrive(r) \/ Authorize(r) \/ Check(r) \/ Guard(r) \/ Lookup(r) \/ Signup(r) \/ Device(r)
  <2>1. rows' = rows
    BY <1>2 DEF Arrive, Authorize, Check, Guard, Lookup, Signup, Device
  <2>2. CountersKept
    BY <2>1, SameRowsKeep
  <2>3. OnlyRequest(r) /\ ~ Claimed(r) /\ ~ Claimed(r)' /\ spent' = spent /\ lost' = lost
    <3>1. CASE Arrive(r)
      BY <1>0, <3>1 DEF Arrive, RequestsInv
    <3>2. CASE Authorize(r) \/ Check(r) \/ Guard(r)
      BY <1>0, <3>2 DEF Authorize, Check, Guard, RequestsInv
    <3>3. CASE Lookup(r)
      BY <1>0, <3>3 DEF Lookup, RequestsInv
    <3>4. CASE Signup(r) \/ Device(r)
      BY <1>0, <3>4 DEF Signup, Device, RequestsInv
    <3> QED
      BY <1>2, <3>1, <3>2, <3>3, <3>4
  <2> QED
    BY <2>2, <2>3 DEF Quiet
<1>3. CASE Insert(r)
  <2>1. ~ Claimed(r) /\ ~ Claimed(r)'
    BY <1>0, <1>3 DEF Insert, RequestsInv
  <2>2. ASSUME NEW i \in Invites
        PROVE  /\ rows'[i].used = rows[i].used
               /\ rows[i].created => rows'[i].created /\ rows'[i].max = rows[i].max
               /\ ~ rows'[i].created => ~ rows'[i].open
    <3>1. ~ rows[i].created => ~ rows[i].open /\ rows[i].used = 0
      BY DEF ClaimsInv, UsedWithinMax
    <3>2. \/ rows'[i] = rows[i]
          \/ ~ rows[i].created /\ rows'[i] = NewInvite(msg[r])
      BY <1>3 DEF Insert, TablesOK
    <3>3. NewInvite(msg[r]).used = 0 /\ NewInvite(msg[r]).created
      BY <1>1, <1>3, NewInviteType DEF Insert, NewInvite
    <3> QED
      BY <3>1, <3>2, <3>3
  <2>3. CountersKept
    BY <2>2 DEF CountersKept
  <2> QED
    BY <2>1, <2>3, <1>3 DEF Insert, Quiet
<1>4. CASE Delete(r)
  <2>1. CountersKept
    BY <1>4, ClosedKeeps DEF Delete
  <2>2. ~ Claimed(r) /\ ~ Claimed(r)'
    BY <1>0, <1>4 DEF Delete, RequestsInv
  <2> QED
    BY <2>1, <2>2, <1>4 DEF Delete, Quiet
<1>5. CASE Claim(r)
  <2>1. CASE Claimable(msg[r].inv)
    BY <1>0, <1>1, <1>5, <2>1 DEF Claim, Takes, RequestsInv
  <2>2. CASE ~ Claimable(msg[r].inv)
    <3>1. rows' = rows /\ Fail(r) /\ pc[r] = "claim" /\ spent' = spent /\ lost' = lost
      BY <1>5, <2>2 DEF Claim
    <3>2. ~ Claimed(r) /\ ~ Claimed(r)' /\ OnlyRequest(r)
      BY <1>0, <3>1 DEF RequestsInv
    <3> QED
      BY <3>1, <3>2, SameRowsKeep DEF Quiet
  <2> QED
    BY <2>1, <2>2
<1>6. CASE Create(r) \/ Enroll(r) \/ Refetch(r) \/ Backfill(r) \/ Member(r) \/ Reuse(r)
  <2>1. rows' = rows /\ spent' = spent /\ lost' = lost
    BY <1>6 DEF Create, Enroll, Refetch, Backfill, Member, Reuse
  <2>2. OnlyRequest(r) /\ (Claimed(r)' <=> Claimed(r)) /\ (Claimed(r) => msg'[r] = msg[r])
    <3>1. CASE Create(r)
      BY <1>0, <3>1 DEF Create, RequestsInv
    <3>2. CASE Enroll(r) \/ Refetch(r)
      BY <1>0, <3>2 DEF Enroll, Refetch, RequestsInv
    <3>3. CASE Backfill(r) \/ Member(r)
      BY <1>0, <3>3 DEF Backfill, Member, RequestsInv
    <3>4. CASE Reuse(r)
      BY <1>0, <3>4 DEF Reuse, RequestsInv
    <3> QED
      BY <1>6, <3>1, <3>2, <3>3, <3>4
  <2> QED
    BY <2>1, <2>2, SameRowsKeep DEF Quiet
<1>7. CASE ReleaseUse(r)
  <2>1. Claimed(r) /\ ~ Claimed(r)' /\ OnlyRequest(r) /\ spent' = spent
    BY <1>0, <1>7 DEF ReleaseUse, RequestsInv
  <2>2. \/ /\ rows[msg[r].inv].used > 0 /\ lost' = lost
           /\ rows' = [rows EXCEPT ![msg[r].inv].used = @ - 1]
        \/ rows' = rows /\ lost' = [lost EXCEPT ![msg[r].inv] = @ + 1]
    BY <1>7 DEF ReleaseUse, Release
  <2>3. msg[r] \in Requests
    BY <1>1, <1>7 DEF ReleaseUse
  <2> QED
    BY <2>1, <2>2, <2>3, SameRowsKeep DEF Ends
<1>8. CASE ClaimUse(r)
  <2>0. msg[r] \in Requests /\ pc[r] \in {"reclaim", "claimJoin"} /\ spent' = spent /\ lost' = lost
    BY <1>1, <1>8 DEF ClaimUse
  <2>1. CASE held[r]
    <3>1. /\ rows' = rows /\ held' = [held EXCEPT ![r] = FALSE] /\ msg' = msg
          /\ pc' = [pc EXCEPT ![r] = IF pc[r] = "reclaim" THEN "promote" ELSE "produce"]
      BY <1>8, <2>1, Zenon DEF ClaimUse
    <3> QED
      BY <2>0, <2>1, <3>1, SameRowsKeep DEF Quiet
  <2>2. CASE ~ held[r] /\ Claimable(msg[r].inv)
    <3>1. /\ IncrementUseCount(msg[r].inv) /\ held' = [held EXCEPT ![r] = FALSE] /\ msg' = msg
          /\ pc' = [pc EXCEPT ![r] = IF pc[r] = "reclaim" THEN "promote" ELSE "produce"]
      BY <1>8, <2>2, Zenon DEF ClaimUse
    <3> QED
      BY <2>0, <2>2, <3>1 DEF Takes
  <2>3. CASE ~ held[r] /\ ~ Claimable(msg[r].inv)
    <3>1. rows' = rows /\ Return(r)
      BY <1>8, <2>3, Zenon DEF ClaimUse
    <3> QED
      BY <2>0, <2>3, <3>1, SameRowsKeep DEF Quiet
  <2> QED
    BY <2>1, <2>2, <2>3
<1>9. CASE Promote(r)
  <2>1. Claimed(r) /\ ~ Claimed(r)' /\ OnlyRequest(r) /\ rows' = rows /\ msg[r] \in Requests
    BY <1>0, <1>1, <1>9 DEF Promote, RequestsInv
  <2>2. spent' = [spent EXCEPT ![msg[r].inv] = @ + 1] /\ lost' = lost
    BY <1>9 DEF Promote, Spend
  <2> QED
    BY <2>1, <2>2, SameRowsKeep DEF Ends
<1>10. CASE ProduceMemberAdded(r)
  <2>1. Claimed(r) /\ ~ Claimed(r)' /\ OnlyRequest(r) /\ rows' = rows /\ msg[r] \in Requests
    BY <1>0, <1>1, <1>10 DEF ProduceMemberAdded, RequestsInv
  <2>2. \/ spent' = [spent EXCEPT ![msg[r].inv] = @ + 1] /\ lost' = lost
        \/ lost' = [lost EXCEPT ![msg[r].inv] = @ + 1] /\ spent' = spent
    BY <1>10 DEF ProduceMemberAdded, Spend
  <2> QED
    BY <2>1, <2>2, SameRowsKeep DEF Ends
<1>11. CASE RecordUse(r) \/ PromoteJoin(r)
  <2>1. rows' = rows /\ spent' = spent /\ lost' = lost
    BY <1>11 DEF RecordUse, PromoteJoin
  <2>2. ~ Claimed(r) /\ ~ Claimed(r)' /\ OnlyRequest(r)
    BY <1>0, <1>11 DEF RecordUse, PromoteJoin, RequestsInv
  <2> QED
    BY <2>1, <2>2, SameRowsKeep DEF Quiet
<1>12. CASE DatabaseError(r)
  <2>0. rows' = rows /\ spent' = spent /\ msg[r] \in Requests
    BY <1>1, <1>12 DEF DatabaseError
  <2>1. CASE pc[r] \in {"releaseMember", "release"}
    <3>1. Released(r) /\ lost' = [lost EXCEPT ![msg[r].inv] = @ + 1]
      BY <1>12, <2>1 DEF DatabaseError
    <3>2. Claimed(r) /\ ~ Claimed(r)' /\ OnlyRequest(r)
      BY <1>0, <2>1, <3>1 DEF RequestsInv
    <3> QED
      BY <2>0, <3>1, <3>2, SameRowsKeep DEF Ends
  <2>2. CASE pc[r] \in {"produce", "promote"}
    <3>1. Return(r) /\ lost' = [lost EXCEPT ![msg[r].inv] = @ + 1]
      BY <1>0, <1>12, <2>2 DEF DatabaseError, RequestsInv
    <3>2. Claimed(r) /\ ~ Claimed(r)' /\ OnlyRequest(r)
      BY <1>0, <2>2, <3>1 DEF RequestsInv
    <3> QED
      BY <2>0, <3>1, <3>2, SameRowsKeep DEF Ends
  <2>3. CASE pc[r] \notin {"releaseMember", "release", "produce", "promote"}
    <3>1. Fail(r) /\ lost' = lost
      BY <1>12, <2>3 DEF DatabaseError
    <3>2. (Claimed(r)' <=> Claimed(r)) /\ (Claimed(r) => msg'[r] = msg[r]) /\ OnlyRequest(r)
      BY <1>0, <2>3, <3>1 DEF RequestsInv
    <3> QED
      BY <2>0, <3>1, <3>2, SameRowsKeep DEF Quiet
  <2> QED
    BY <2>1, <2>2, <2>3
<1> QED
  BY <1>2, <1>3, <1>4, <1>5, <1>6, <1>7, <1>8, <1>9, <1>10, <1>11, <1>12 DEF JoinStep

-----------------------------------------------------------------------------
(* The other steps, and the theorems. *)

\* A crash turns every claim under way into a lost one.
LEMMA CrashStep ==
  ASSUME TypeOK, ClaimsInv, Crash
  PROVE  TypeOK' /\ ClaimsInv'
<1>1. rows' = rows /\ spent' = spent
  BY DEF Crash, tables
<1>2. ASSUME NEW i \in Invites PROVE Cardinality(Claims(i)) \in Nat
  <2>1. Claims(i) \subseteq Reqs
    BY DEF Claims
  <2> QED
    BY <2>1, FS_Subset, FS_CardinalityType, ReqsAssumption
<1>3. TypeOK'
  BY <1>2, SMTT(30) DEF Crash, TypeOK, TablesOK, RequestsOK, HistoryOK, tables, Steps, SpaceRoles
<1>4. RequestsInv'
  BY DEF Crash, RequestsInv
<1>5. ASSUME NEW i \in Invites PROVE Claims(i)' = {}
  BY DEF Crash, Claims, Claimed
<1>6. UsesConserved'
  <2> SUFFICES ASSUME NEW i \in Invites
               PROVE  rows'[i].used = Cardinality(Claims(i)') + spent'[i] + lost'[i]
    BY DEF UsesConserved
  <2>1. lost'[i] = lost[i] + Cardinality(Claims(i))
    BY DEF Crash
  <2>2. rows[i].used = Cardinality(Claims(i)) + spent[i] + lost[i]
    BY DEF ClaimsInv, UsesConserved
  <2>3. spent[i] \in Nat /\ lost[i] \in Nat
    BY DEF TypeOK, HistoryOK
  <2>4. Cardinality(Claims(i)') = 0
    BY <1>5, FS_EmptySet
  <2> QED
    BY <1>1, <1>2, <2>1, <2>2, <2>3, <2>4
<1>7. UsedWithinMax'
  BY <1>1 DEF ClaimsInv, UsedWithinMax
<1> QED
  BY <1>3, <1>4, <1>6, <1>7 DEF ClaimsInv

\* What the rest of the space does meanwhile.
LEMMA OtherStep ==
  ASSUME TypeOK, ClaimsInv,
         \/ \E i \in Invites : Expire(i)
         \/ \E k \in Keys : MemberLeaves(k)
         \/ \E d \in Devices : RevokeDevice(d)
         \/ AppChanges
         \/ UNCHANGED vars
  PROVE  TypeOK' /\ ClaimsInv'
<1>1. reqVars' = reqVars /\ history' = history
  BY DEF Expire, MemberLeaves, RevokeDevice, AppChanges, vars
<1>2. RequestsOK' /\ HistoryOK' /\ RequestsInv'
  BY <1>1 DEF reqVars, history, TypeOK, RequestsOK, HistoryOK, ClaimsInv, RequestsInv
<1>3. TablesOK' /\ CountersKept
  <2> USE DEF TypeOK, TablesOK
  <2>1. ASSUME NEW i \in Invites, Expire(i) PROVE TablesOK' /\ CountersKept
    <3>1. [rows[i] EXCEPT !.expired = TRUE] \in InviteRows
      BY RowUpdates
    <3>2. TablesOK'
      BY <2>1, <3>1 DEF Expire
    <3>3. \A j \in Invites : /\ rows'[j].used = rows[j].used
                             /\ rows'[j].max = rows[j].max
                             /\ rows'[j].created = rows[j].created
                             /\ rows'[j].open = rows[j].open
      BY <2>1 DEF Expire, InviteRows
    <3> QED
      BY <3>2, <3>3 DEF CountersKept, ClaimsInv, UsedWithinMax
  <2>2. CASE (\E k \in Keys : MemberLeaves(k)) \/ (\E d \in Devices : RevokeDevice(d)) \/ UNCHANGED vars
    <3>1. rows' = rows
      BY <2>2 DEF MemberLeaves, RevokeDevice, vars, tables
    <3>2. TablesOK'
      BY <2>2 DEF MemberLeaves, RevokeDevice, vars, tables, Roles
    <3> QED
      BY <3>1, <3>2, SameRowsKeep
  <2>3. CASE AppChanges
    <3>1. (rows' = rows /\ uses' = uses) \/ Closed(Invites)
      BY <2>3 DEF AppChanges
    <3>2. rows' \in [Invites -> InviteRows] /\ uses' \subseteq Invites \X Keys
      <4>1. CASE rows' = rows /\ uses' = uses
        BY <4>1
      <4>2. CASE Closed(Invites)
        <5>1. \A i \in Invites : [rows[i] EXCEPT !.open = FALSE] \in InviteRows
          BY RowUpdates
        <5>2. rows' \in [Invites -> InviteRows]
          BY <4>2, <5>1 DEF Closed
        <5>3. uses' \subseteq uses
          BY <4>2 DEF Closed
        <5> QED
          BY <5>2, <5>3
      <4> QED
        BY <3>1, <4>1, <4>2
    <3>3. TablesOK'
      BY <2>3, <3>2 DEF AppChanges, AppStates
    <3> QED
      BY <3>1, <3>3, SameRowsKeep, ClosedKeeps
  <2> QED
    BY <2>1, <2>2, <2>3
<1>4. \A i \in Invites : Claims(i)' = Claims(i)
  BY <1>1 DEF Claims, Claimed, reqVars
<1>5. UsesConserved' /\ UsedWithinMax'
  BY <1>1, <1>3, <1>4, KeepsConserves DEF history
<1> QED
  BY <1>2, <1>3, <1>5 DEF TypeOK, ClaimsInv

\* Type correctness of the invitation service, and the claim accounting, hold
\* in every reachable state.
THEOREM ClaimsAccounted == Spec => [](TypeOK /\ ClaimsInv)
<1>1. Init => TypeOK /\ ClaimsInv
  <2> SUFFICES ASSUME Init PROVE TypeOK /\ ClaimsInv
    OBVIOUS
  <2>1. NoInvite \in InviteRows /\ NoInvite.used = 0 /\ NoInvite.max = 0 /\ ~ NoInvite.open
    BY DEF NoInvite, InviteRows, Roles
  <2>2. TypeOK
    <3>1. TablesOK
      BY <2>1, SMTT(30) DEF Init, TablesOK, AppStates
    <3>2. RequestsOK /\ HistoryOK
      BY DEF Init, RequestsOK, HistoryOK, Steps, SpaceRoles
    <3> QED
      BY <3>1, <3>2 DEF TypeOK
  <2>3. RequestsInv
    BY DEF Init, RequestsInv
  <2>4. \A i \in Invites : Claims(i) = {}
    BY DEF Init, Claims, Claimed
  <2>5. UsesConserved
    <3> SUFFICES ASSUME NEW i \in Invites
                 PROVE  rows[i].used = Cardinality(Claims(i)) + spent[i] + lost[i]
      BY DEF UsesConserved
    <3>1. Cardinality(Claims(i)) = 0
      BY <2>4, FS_EmptySet
    <3>2. rows[i].used = 0 /\ spent[i] = 0 /\ lost[i] = 0
      BY <2>1 DEF Init
    <3> QED
      BY <3>1, <3>2
  <2>6. UsedWithinMax
    BY <2>1 DEF Init, UsedWithinMax
  <2> QED
    BY <2>2, <2>3, <2>5, <2>6 DEF ClaimsInv
<1>2. TypeOK /\ ClaimsInv /\ [Next]_vars => (TypeOK /\ ClaimsInv)'
  <2> SUFFICES ASSUME TypeOK, ClaimsInv, [Next]_vars PROVE TypeOK' /\ ClaimsInv'
    OBVIOUS
  <2>1. ASSUME NEW r \in Reqs,
               Arrive(r) \/ Authorize(r) \/ Insert(r) \/ Delete(r) \/ JoinStep(r) \/ DatabaseError(r)
        PROVE  TypeOK' /\ ClaimsInv'
    <3>1. TypeOK' /\ RequestsInv'
      BY <2>1, TablesType, RequestsType, HistoryType DEF TypeOK, ClaimsInv
    <3>2. UsesConserved' /\ UsedWithinMax'
      BY <2>1, <3>1, StepOfClaims, QuietConserves, TakesConserves, EndsConserves DEF TypeOK
    <3> QED
      BY <3>1, <3>2 DEF ClaimsInv
  <2> QED
    BY <2>1, CrashStep, OtherStep DEF Next
<1> QED
  BY <1>1, <1>2, PTL DEF Spec

\* Whatever a join runs into, every use counted in used_count is held by a
\* request under way, spent on a membership or an account, or lost to a crash or
\* a failed ReleaseUse: none is given back twice and none disappears.
THEOREM UsesAccounted == Spec => []UsesConserved
  BY ClaimsAccounted, PTL DEF ClaimsInv

\* However joins, database errors, crashes, revocations and moves interleave,
\* an invitation with max_uses admits and promotes at most max_uses times.
THEOREM NoOveruse == Spec => []AdmissionsWithinMax
<1>1. TypeOK /\ ClaimsInv => AdmissionsWithinMax
  <2> SUFFICES ASSUME TypeOK, ClaimsInv, NEW i \in Invites, rows[i].max # 0
               PROVE  Cardinality(Claims(i)) + spent[i] <= rows[i].max
    BY DEF AdmissionsWithinMax
  <2>1. Claims(i) \subseteq Reqs
    BY DEF Claims
  <2>2. Cardinality(Claims(i)) \in Nat
    BY <2>1, FS_Subset, FS_CardinalityType, ReqsAssumption
  <2>3. rows[i] \in InviteRows /\ spent[i] \in Nat /\ lost[i] \in Nat
    BY DEF TypeOK, TablesOK, HistoryOK
  <2>4. /\ rows[i].used = Cardinality(Claims(i)) + spent[i] + lost[i]
        /\ rows[i].used <= rows[i].max
    BY DEF ClaimsInv, UsesConserved, UsedWithinMax
  <2> QED
    BY <2>2, <2>3, <2>4, RowFields
<1> QED
  BY <1>1, ClaimsAccounted, PTL

-----------------------------------------------------------------------------
(* Who has the use of the space.                                            *)

\* What an invitation says of the use of the space never changes once it is
\* created, and a new one says so only if the owner makes it.
SpaceUseKept ==
  \A i \in Invites :
    /\ rows[i].spaceUse => rows'[i].spaceUse
    /\ rows'[i].spaceUse => rows'[i].created /\ rows'[i].by = SpaceOwner

\* An account that becomes a user has an invitation of the owner's spent on it.
UsersPaid ==
  \A k \in Keys :
    /\ users'[k] = "owner" => users[k] = "owner"
    /\ users'[k] = "user" /\ users[k] # "user" =>
         \E i \in Invites : rows[i].spaceUse /\ <<i, k>> \in paid'

\* A request that keeps to its way keeps what PaidInv says.
LEMMA PaidStep ==
  ASSUME TypeOK, TypeOK', ClaimsInv, PaidInv, SpaceUseKept, UsersPaid, paid \subseteq paid', NEW S \in SUBSET Reqs,
         \A q \in Reqs \ S : pc'[q] = pc[q] /\ msg'[q] = msg[q],
         \A r \in S : OnTheWay(r)'
  PROVE  PaidInv'
<1>1. SpaceUseByOwner'
  BY DEF PaidInv, SpaceUseByOwner, SpaceUseKept, UsersPaid
<1>2. ASSUME NEW q \in Reqs \ S PROVE OnTheWay(q)'
  <2>1. pc'[q] = pc[q] /\ msg'[q] = msg[q] /\ OnTheWay(q)
    BY DEF PaidInv
  <2>2. pc[q] # "idle" => msg[q].inv \in Invites
    BY RequestFields DEF ClaimsInv, RequestsInv
  <2> QED
    BY <2>1, <2>2 DEF OnTheWay, SpaceUseKept
<1>3. SpaceUsePaidFor'
  <2> SUFFICES ASSUME NEW k \in Keys, users'[k] = "user", InitUsers[k] # "user"
               PROVE  \E i \in Invites : <<i, k>> \in paid' /\ rows'[i].spaceUse /\ rows'[i].by = SpaceOwner
    BY DEF SpaceUsePaidFor
  <2>1. PICK i \in Invites : rows[i].spaceUse /\ <<i, k>> \in paid'
    BY DEF PaidInv, SpaceUsePaidFor, UsersPaid
  <2> QED
    BY <2>1 DEF SpaceUseKept
<1> QED
  BY <1>1, <1>2, <1>3 DEF PaidInv

\* Counting uses, expiring and deleting leave what an invitation says alone.
LEMMA RowsSaySame ==
  ASSUME TypeOK, PaidInv,
         \A i \in Invites : /\ rows'[i].spaceUse = rows[i].spaceUse /\ rows'[i].by = rows[i].by
                            /\ rows'[i].created = rows[i].created
  PROVE  SpaceUseKept
BY DEF PaidInv, SpaceUseByOwner, SpaceUseKept

\* The columns an UPDATE of used_count, expired or open does not touch.
LEMMA UntouchedColumns ==
  ASSUME NEW x \in InviteRows, NEW n \in Nat
  PROVE  /\ [x EXCEPT !.used = n].spaceUse = x.spaceUse /\ [x EXCEPT !.used = n].by = x.by
         /\ [x EXCEPT !.used = n].created = x.created
         /\ [x EXCEPT !.expired = TRUE].spaceUse = x.spaceUse /\ [x EXCEPT !.expired = TRUE].by = x.by
         /\ [x EXCEPT !.expired = TRUE].created = x.created
         /\ [x EXCEPT !.open = FALSE].spaceUse = x.spaceUse /\ [x EXCEPT !.open = FALSE].by = x.by
         /\ [x EXCEPT !.open = FALSE].created = x.created
BY DEF InviteRows

\* Claiming and releasing a use, and deleting an invitation.
LEMMA UpdatesSaySame ==
  ASSUME TypeOK, PaidInv,
         \/ UNCHANGED rows
         \/ \E i \in Invites : IncrementUseCount(i) \/ Release(i) \/ Closed({i})
                               \/ rows' = [rows EXCEPT ![i].expired = TRUE]
         \/ Closed(Invites)
  PROVE  SpaceUseKept
<1>1. rows \in [Invites -> InviteRows]
  BY DEF TypeOK, TablesOK
<1>2. CASE UNCHANGED rows
  BY <1>2, RowsSaySame
<1>3. ASSUME NEW i \in Invites, NEW n \in Nat, rows' = [rows EXCEPT ![i] = [rows[i] EXCEPT !.used = n]]
      PROVE  SpaceUseKept
  BY <1>1, <1>3, UntouchedColumns, RowsSaySame
<1>4. ASSUME NEW i \in Invites, IncrementUseCount(i) PROVE SpaceUseKept
  <2>1. rows[i].used + 1 \in Nat /\ rows' = [rows EXCEPT ![i] = [rows[i] EXCEPT !.used = rows[i].used + 1]]
    BY <1>1, <1>4, RowFields DEF IncrementUseCount
  <2> QED
    BY <1>3, <2>1
<1>5. ASSUME NEW i \in Invites, Release(i) PROVE SpaceUseKept
  <2>1. CASE UNCHANGED rows
    BY <1>2, <2>1
  <2>2. CASE rows[i].used > 0 /\ rows' = [rows EXCEPT ![i] = [rows[i] EXCEPT !.used = rows[i].used - 1]]
    <3>1. rows[i].used - 1 \in Nat
      BY <1>1, <2>2, RowFields
    <3> QED
      BY <1>3, <2>2, <3>1
  <2> QED
    BY <1>5, <2>1, <2>2 DEF Release
<1>6. ASSUME NEW S, Closed(S) PROVE SpaceUseKept
  BY <1>1, <1>6, UntouchedColumns, RowsSaySame DEF Closed
<1>7. ASSUME NEW i \in Invites, rows' = [rows EXCEPT ![i] = [rows[i] EXCEPT !.expired = TRUE]]
      PROVE  SpaceUseKept
  BY <1>1, <1>7, UntouchedColumns, RowsSaySame
<1> QED
  BY <1>2, <1>4, <1>5, <1>6, <1>7

\* Every step of a request.
LEMMA RequestPays ==
  ASSUME TypeOK, TypeOK', ClaimsInv, PaidInv, NEW r \in Reqs,
         Arrive(r) \/ Authorize(r) \/ Insert(r) \/ Delete(r) \/ JoinStep(r) \/ DatabaseError(r)
  PROVE  PaidInv'
<1> DEFINE Alone == \A q \in Reqs \ {r} : pc'[q] = pc[q] /\ msg'[q] = msg[q]
<1>0. /\ OnTheWay(r) /\ SpaceUseByOwner
      /\ pc[r] # "idle" => /\ msg[r].inv \in Invites /\ msg[r].key \in Keys
                           /\ rows[msg[r].inv] \in InviteRows
      /\ pc \in [Reqs -> Steps] /\ msg \in [Reqs -> Requests \cup {NoMsg}]
      /\ users \in [Keys -> SpaceRoles]
  BY RequestFields DEF PaidInv, ClaimsInv, RequestsInv, TypeOK, TablesOK, RequestsOK
<1>q. ASSUME SpaceUseKept, UsersPaid, paid \subseteq paid', Alone, OnTheWay(r)' PROVE PaidInv'
  <2>1. /\ {r} \in SUBSET Reqs /\ \A q \in Reqs \ {r} : pc'[q] = pc[q] /\ msg'[q] = msg[q]
        /\ \A s \in {r} : OnTheWay(s)'
    BY <1>q
  <2> QED
    BY <1>q, <2>1, PaidStep
<1>u. ASSUME UNCHANGED <<rows, users, paid>>, Alone, OnTheWay(r)' PROVE PaidInv'
  <2>1. SpaceUseKept /\ UsersPaid
    BY <1>u, UpdatesSaySame DEF UsersPaid
  <2> QED
    BY <1>q, <1>u, <2>1
<1>1. CASE Arrive(r) \/ Check(r) \/ Guard(r) \/ Lookup(r) \/ Signup(r) \/ Device(r) \/ Enroll(r)
           \/ Refetch(r) \/ Backfill(r) \/ Member(r) \/ DatabaseError(r)
  <2>1. UNCHANGED <<rows, users, paid>>
    BY <1>1 DEF Arrive, Check, Guard, Lookup, Signup, Device, Enroll, Refetch, Backfill, Member,
                DatabaseError, tables, history
  <2>2. Alone /\ pc'[r] \notin {"insert", "reclaim", "promote", "record", "promoteJoin"}
    BY <1>0, <1>1 DEF Arrive, Check, Guard, Lookup, Signup, Device, Enroll, Refetch, Backfill, Member,
                DatabaseError, Goto, Return, Fail, Released, Proceed
  <2> QED
    BY <1>u, <2>1, <2>2 DEF OnTheWay
<1>2. CASE Authorize(r)
  <2>1. UNCHANGED <<rows, users, paid>> /\ Alone
    BY <1>0, <1>2 DEF Authorize, Goto, Return, Fail, Proceed, tables, history
  <2>2. /\ pc'[r] \notin {"reclaim", "promote", "record", "promoteJoin"}
        /\ pc'[r] = "insert" => msg'[r] = msg[r] /\ (msg[r].spaceUse => users[msg[r].key] = "owner")
    BY <1>0, <1>2 DEF Authorize, Goto, Return, Fail, Proceed
  <2> QED
    BY <1>0, <1>2, <1>u, <2>1, <2>2 DEF OnTheWay, SpaceUseByOwner, Authorize
<1>3. CASE Insert(r)
  <2>1. /\ pc[r] = "insert" /\ UNCHANGED <<users, paid>> /\ Alone /\ pc'[r] = "idle"
        /\ rows' = IF rows[msg[r].inv].created THEN rows ELSE [rows EXCEPT ![msg[r].inv] = NewInvite(msg[r])]
    BY <1>0, <1>3 DEF Insert, Return, history
  <2>2. NewInvite(msg[r]).spaceUse =>
          NewInvite(msg[r]).created /\ NewInvite(msg[r]).by = SpaceOwner
    BY <1>0, <2>1 DEF NewInvite, OnTheWay
  <2>3. SpaceUseKept
    BY <1>0, <2>1, <2>2 DEF SpaceUseKept, SpaceUseByOwner, TypeOK, TablesOK
  <2> QED
    BY <1>q, <2>1, <2>3 DEF UsersPaid, OnTheWay
<1>4. CASE Delete(r)
  <2>1. pc[r] = "delete" /\ Closed({msg[r].inv}) /\ UNCHANGED <<users, paid>> /\ Alone /\ pc'[r] = "idle"
    BY <1>0, <1>4 DEF Delete, Return, history
  <2>2. SpaceUseKept
    BY <1>0, <2>1, UpdatesSaySame
  <2> QED
    BY <1>q, <2>1, <2>2 DEF UsersPaid, OnTheWay
<1>5. CASE Claim(r) \/ ClaimUse(r) \/ ReleaseUse(r)
  <2>1. /\ pc[r] # "idle" /\ UNCHANGED <<users, paid>> /\ Alone
        /\ UNCHANGED rows \/ IncrementUseCount(msg[r].inv) \/ Release(msg[r].inv)
    BY <1>0, <1>5 DEF Claim, ClaimUse, ReleaseUse, Return, Fail, Goto, Released, history
  <2>2. SpaceUseKept
    BY <1>0, <2>1, UpdatesSaySame
  <2>3. /\ pc'[r] \notin {"insert", "reclaim", "record", "promoteJoin"}
        /\ pc'[r] = "promote" => pc[r] = "reclaim" /\ msg'[r] = msg[r]
    BY <1>0, <1>5 DEF Claim, ClaimUse, ReleaseUse, Return, Fail, Goto, Released
  <2>4. OnTheWay(r)'
    BY <1>0, <2>1, <2>2, <2>3 DEF OnTheWay, SpaceUseKept
  <2> QED
    BY <1>q, <2>1, <2>2, <2>4 DEF UsersPaid
<1>6. CASE Create(r)
  <2>1. /\ pc[r] = "create" /\ UNCHANGED <<rows, paid>> /\ Alone
        /\ users' = users \/ users' = [users EXCEPT ![msg[r].key] = "guest"]
        /\ pc'[r] \notin {"insert", "reclaim", "promote", "record", "promoteJoin"}
    BY <1>0, <1>6 DEF Create, Return, Fail, Goto, Proceed
  <2>2. UsersPaid
    BY <1>0, <2>1 DEF UsersPaid
  <2> QED
    BY <1>q, <2>1, <2>2, UpdatesSaySame DEF OnTheWay
<1>7. CASE Reuse(r)
  <2>1. UNCHANGED <<rows, users, paid>> /\ Alone
    BY <1>0, <1>7 DEF Reuse, Goto, Return, tables, history
  <2>2. /\ pc'[r] \notin {"insert", "promote", "record", "promoteJoin"}
        /\ pc'[r] = "reclaim" => msg'[r] = msg[r] /\ rows[msg[r].inv].spaceUse
    BY <1>0, <1>7 DEF Reuse, CanPromote, Goto, Return
  <2> QED
    BY <1>u, <2>1, <2>2 DEF OnTheWay
<1>8. CASE Promote(r)
  <2>1. /\ pc[r] = "promote" /\ UNCHANGED rows /\ Alone /\ pc'[r] = "recordMember"
        /\ users' = [users EXCEPT ![msg[r].key] = IF @ = "none" THEN @ ELSE "user"]
        /\ paid' = paid \cup {<<msg[r].inv, msg[r].key>>}
    BY <1>0, <1>8 DEF Promote, Promoted, Spend, Goto
  <2>2. UsersPaid
    BY <1>0, <2>1 DEF UsersPaid, OnTheWay
  <2> QED
    BY <1>q, <2>1, <2>2, UpdatesSaySame DEF OnTheWay
<1>9. CASE ProduceMemberAdded(r)
  <2>1. /\ pc[r] = "produce" /\ UNCHANGED <<rows, users>> /\ Alone
        /\ \/ pc'[r] = "idle" /\ paid' = paid
           \/ /\ pc'[r] = "record" /\ msg'[r] = msg[r]
              /\ paid' = paid \cup {<<msg[r].inv, msg[r].key>>}
    BY <1>0, <1>9 DEF ProduceMemberAdded, Spend, Goto, Return
  <2> QED
    BY <1>q, <2>1, UpdatesSaySame DEF OnTheWay, UsersPaid
<1>10. CASE RecordUse(r)
  <2>1. UNCHANGED <<rows, users, paid>> /\ Alone
    BY <1>0, <1>10 DEF RecordUse, Goto, Return, history
  <2>2. /\ pc'[r] \notin {"insert", "reclaim", "promote", "record"}
        /\ pc'[r] = "promoteJoin" => pc[r] = "record" /\ msg'[r] = msg[r]
    BY <1>0, <1>10 DEF RecordUse, Goto, Return
  <2> QED
    BY <1>0, <1>u, <2>1, <2>2 DEF OnTheWay
<1>11. CASE PromoteJoin(r)
  <2>1. /\ pc[r] = "promoteJoin" /\ UNCHANGED <<rows, paid>> /\ Alone /\ pc'[r] = "idle"
        /\ \/ users' = users
           \/ /\ rows[msg[r].inv].spaceUse
              /\ users' = [users EXCEPT ![msg[r].key] = IF @ = "none" THEN @ ELSE "user"]
    BY <1>0, <1>11 DEF PromoteJoin, CanPromote, Promoted, Return, history
  <2>2. UsersPaid
    BY <1>0, <2>1 DEF UsersPaid, OnTheWay
  <2> QED
    BY <1>q, <2>1, <2>2, UpdatesSaySame DEF OnTheWay
<1> QED
  BY <1>1, <1>2, <1>3, <1>4, <1>5, <1>6, <1>7, <1>8, <1>9, <1>10, <1>11 DEF JoinStep

\* However joins, promotions, failures and crashes interleave, an account has the
\* use of the space only if it had it, or a use of an invitation that the space
\* owner made with that flag was spent on it.
THEOREM SpaceUsePaid == Spec => []SpaceUsePaidFor
<1>1. Init => PaidInv
  BY OneOwnerAssumption DEF Init, PaidInv, SpaceUseByOwner, OnTheWay, SpaceUsePaidFor, NoInvite
<1>2. TypeOK /\ TypeOK' /\ ClaimsInv /\ PaidInv /\ [Next]_vars => PaidInv'
  <2> SUFFICES ASSUME TypeOK, TypeOK', ClaimsInv, PaidInv, [Next]_vars PROVE PaidInv'
    OBVIOUS
  <2>1. ASSUME NEW r \in Reqs,
               Arrive(r) \/ Authorize(r) \/ Insert(r) \/ Delete(r) \/ JoinStep(r) \/ DatabaseError(r)
        PROVE  PaidInv'
    BY <2>1, RequestPays
  <2>2. CASE Crash
    <3>1. UNCHANGED <<rows, users, paid>> /\ \A r \in Reqs : pc'[r] = "idle"
      BY <2>2 DEF Crash, tables
    <3>2. SpaceUseKept /\ UsersPaid /\ paid \subseteq paid'
      BY <3>1, UpdatesSaySame DEF UsersPaid
    <3>3. \A r \in Reqs : OnTheWay(r)'
      BY <3>1 DEF OnTheWay
    <3>4. Reqs \in SUBSET Reqs /\ \A q \in Reqs \ Reqs : pc'[q] = pc[q] /\ msg'[q] = msg[q]
      OBVIOUS
    <3> QED
      BY <3>2, <3>3, <3>4, PaidStep
  <2>3. CASE \/ \E i \in Invites : Expire(i)
             \/ \E k \in Keys : MemberLeaves(k)
             \/ \E d \in Devices : RevokeDevice(d)
             \/ AppChanges
             \/ UNCHANGED vars
    <3>1. /\ UNCHANGED <<users, paid, pc, msg>>
          /\ \/ UNCHANGED rows \/ Closed(Invites)
             \/ \E i \in Invites : rows' = [rows EXCEPT ![i].expired = TRUE]
      BY <2>3 DEF Expire, MemberLeaves, RevokeDevice, AppChanges, vars, tables, reqVars, history
    <3>2. SpaceUseKept /\ UsersPaid
      BY <3>1, UpdatesSaySame DEF UsersPaid
    <3>3. /\ {} \in SUBSET Reqs /\ \A q \in Reqs \ {} : pc'[q] = pc[q] /\ msg'[q] = msg[q]
          /\ \A q \in {} : OnTheWay(q)'
      BY <3>1
    <3> QED
      BY <3>1, <3>2, <3>3, PaidStep
  <2> QED
    BY <2>1, <2>2, <2>3 DEF Next
<1>3. PaidInv => SpaceUsePaidFor
  BY DEF PaidInv
<1> QED
  BY <1>1, <1>2, <1>3, ClaimsAccounted, PTL DEF Spec
=============================================================================
