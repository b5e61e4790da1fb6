---------------------------- MODULE StorageProofs ----------------------------
(***************************************************************************)
(* Machine-checked proofs about Storage, for any number of files, accounts, *)
(* concurrent requests, parts and months: a ready file serves its whole     *)
(* content unless it is, or was, being sent again; it has its blob unless   *)
(* it was being deleted or sent again; and concurrent uploads overshoot the *)
(* quota by fewer files than requests.                                      *)
(*                                                                          *)
(* The invariant follows the one request that is sending a file: what it    *)
(* has stored is still at its path, the row it is about to make ready is    *)
(* the row it read, and no purge under way holds the path it writes to.     *)
(***************************************************************************)
EXTENDS Storage, FiniteSetTheorems, TLAPS

-----------------------------------------------------------------------------
(* The inductive invariant. *)

\* The steps of a request that sends a file, from its arrival to the statement
\* that creates the row or makes it ready.
Assembling ==
  {"list", "combine", "storeCombined", "copyCombined", "dropParts", "dropChunks", "ready"}
Dated == {"store", "copy", "create", "undo", "existing", "discard"} \cup Assembling
Sending == {"guard", "quota", "authorize", "completeRead"} \cup Dated
Sends(r) == req[r].pc \in Sending /\ Writes(req[r].m.op)

\* Each step serves its own kind of request; what a deletion removes is doomed;
\* a completion has counted and, given a checksum, compared its parts.
RequestOK(r) ==
  /\ req[r].pc # "idle" => req[r].m \in Messages /\ req[r].id \in Ids
  /\ req[r].pc \in Sending => req[r].id = req[r].m.id
  /\ req[r].pc \in {"guard", "quota", "create"} => req[r].m.op \in {"init", "upload", "avatar"}
  /\ req[r].pc \in {"store", "copy", "undo", "existing", "discard"} => req[r].m.op \in {"upload", "avatar"}
  /\ req[r].pc \in Assembling \cup {"completeRead"} => req[r].m.op = "complete"
  /\ req[r].pc \in Assembling /\ Declared(req[r].id) => req[r].sum
  /\ req[r].pc \in Assembling \ {"list"} => req[r].n > 0
  /\ req[r].pc \in Assembling \ {"list", "combine"} /\ req[r].sum => req[r].n = Parts
  /\ req[r].pc \in Dated => req[r].month <= now
  /\ req[r].pc = "deleteBlob" => req[r].id \in doomed
  /\ req[r].pc = "dropPersonal" => \A p \in req[r].todo : p[1] \in doomed

\* Content written to the path of a file is there until a deletion takes it.
Kept(id, month, n) ==
  blobs[<<id, month>>] = Content(n) \/ (id \in doomed /\ blobs[<<id, month>>] = NoBlob)

\* A file one request has just truncated, or one that was removed since.
Opened(r) == [n |-> 0, by |-> {r}, cut |-> FALSE]
Filling(id, month, r) ==
  blobs[<<id, month>>] = Opened(r) \/ (id \in doomed /\ blobs[<<id, month>>] = NoBlob)

\* The only request that sends the file of an id.
SendOK(r) ==
  Sends(r) /\ req[r].id \notin repeated =>
    /\ rows[req[r].id].st # "ready"
    /\ req[r].pc \in {"copy", "copyCombined"} => Filling(req[r].id, req[r].month, r)
    /\ req[r].pc = "create" /\ req[r].m.op # "init" => Kept(req[r].id, req[r].month, Parts)
    /\ req[r].pc \in {"dropParts", "dropChunks", "ready"} => Kept(req[r].id, req[r].month, req[r].n)
    /\ req[r].pc \in Assembling /\ Exists(req[r].id) =>
         rows[req[r].id].month = req[r].month /\ (rows[req[r].id].sum <=> req[r].sum)
    /\ purge.pc = "blobs" /\ req[r].pc \in Dated =>
         \A k \in Months : <<req[r].id, k>> \in purge.todo => k < req[r].month

\* Two requests that send one file: it is marked as sent again.
Apart(q, r) == Sends(q) /\ Sends(r) /\ req[q].id = req[r].id => req[r].id \in repeated

\* A row was created, and last seen referenced, in the past.
RowOK(id) == Exists(id) => rows[id].month <= rows[id].seen /\ rows[id].seen <= now

\* An id that is never announced without a checksum: content is only ever
\* incomplete while a request writes it or after a write was broken off.
WholeOrOpen(b) == b = NoBlob \/ b.n = Parts \/ b.by # {} \/ b.cut
DeclaredOK(id) ==
  Declared(id) => /\ Exists(id) => rows[id].sum
                  /\ \A k \in Months : WholeOrOpen(blobs[<<id, k>>])

\* What a ready row serves, and that no purge under way will remove it.
FileOK(id) ==
  id \notin repeated =>
    /\ rows[id].st = "ready" =>
         \/ \E n \in 1..Parts : blobs[Path(id)] = Content(n) /\ (rows[id].sum => n = Parts)
         \/ id \in doomed /\ blobs[Path(id)] = NoBlob
    /\ purge.pc = "blobs" =>
         \A k \in Months : <<id, k>> \in purge.todo => k < now /\ (Exists(id) => k < rows[id].month)

\* The files of a purged application are doomed.
PurgeOK == purge.pc = "cleanBlobs" => \A p \in purge.todo : p[1] \in doomed

StorageInv ==
  /\ TypeOK
  /\ \A r \in Reqs : RequestOK(r) /\ SendOK(r)
  /\ \A q, r \in Reqs : q # r => Apart(q, r)
  /\ \A id \in Ids : RowOK(id) /\ DeclaredOK(id) /\ FileOK(id)
  /\ PurgeOK

\* A request that has a file open is copying into it.
WritersInv ==
  \A id \in Ids, k \in Months : \A q \in blobs[<<id, k>>].by :
    req[q].pc \in {"copy", "copyCombined"} /\ req[q].id = id /\ req[q].month = k

\* The uploads between checkQuota and their row, and the quota with them.
Passing(u) == {r \in Reqs : req[r].pc \in {"store", "copy", "create"} /\ req[r].m.user = u}
QuotaInv ==
  Quota > 0 => \A u \in Users \ Exempt : Used(u) + Cardinality(Passing(u)) < Quota + Cardinality(Reqs)

-----------------------------------------------------------------------------
(* Frames: what a step leaves of the invariant when it writes no content. *)

Rests(q) == req'[q] = req[q]

\* Rows go or stay; a blob goes only if its file is doomed or the purge of
\* unreferenced files holds its path; that purge takes on nothing new.
Shrinks ==
  /\ \A id \in Ids :
       \/ rows'[id].st = "none"
       \/ /\ rows'[id].st = rows[id].st /\ rows'[id].month = rows[id].month
          /\ rows'[id].sum = rows[id].sum /\ rows'[id].seen \in {rows[id].seen, now}
  /\ \A id \in Ids, k \in Months :
       \/ blobs'[<<id, k>>] = blobs[<<id, k>>]
       \/ /\ blobs'[<<id, k>>] = NoBlob
          /\ id \in doomed \/ (purge.pc = "blobs" /\ <<id, k>> \in purge.todo)
  /\ doomed \subseteq doomed' /\ repeated \subseteq repeated' /\ now <= now'
  /\ purge'.pc = "blobs" => purge.pc = "blobs" /\ purge'.todo \subseteq purge.todo

\* What a file holds.
LEMMA BlobFacts ==
  /\ \A n \in 0..Parts : /\ Content(n) \in Blobs /\ Content(n).n = n /\ Content(n).by = {}
                          /\ ~ Content(n).cut
  /\ NoBlob = Content(0) /\ NoBlob \in Blobs /\ NoBlob.by = {}
  /\ \A n \in 1..Parts : Content(n) # NoBlob
<1>1. \A n \in 0..Parts : /\ Content(n) \in Blobs /\ Content(n).n = n /\ Content(n).by = {}
                          /\ ~ Content(n).cut
  BY DEF Content, Blobs
<1>2. 0 \in 0..Parts /\ \A n \in 1..Parts : n \in 0..Parts /\ n # 0
  BY FilesAssumption
<1>3. NoBlob = Content(0)
  BY DEF NoBlob
<1>4. QED
  BY <1>1, <1>2, <1>3

\* The types the proofs use of the tables and of time.
LEMMA TableTypes ==
  ASSUME StorageInv
  PROVE  /\ \A id \in Ids : rows[id] \in Rows /\ rows[id].month \in Months /\ rows[id].seen \in Months
                             /\ rows[id].sum \in BOOLEAN
         /\ \A id \in Ids, k \in Months : blobs[<<id, k>>] \in Blobs
         /\ now \in Months /\ Months \subseteq Nat /\ 0 \in Months /\ Parts \in Nat \ {0}
         /\ \A r \in Reqs : req[r] \in Locals /\ req[r].month \in Months /\ req[r].n \in 0..Parts
                             /\ req[r].sum \in BOOLEAN
BY FilesAssumption DEF StorageInv, TypeOK, Rows, Months, Locals

\* A step that shrinks keeps what is said of every file.
LEMMA ShrinkFiles ==
  ASSUME StorageInv, TypeOK', Shrinks, NEW id \in Ids
  PROVE  RowOK(id)' /\ DeclaredOK(id)' /\ FileOK(id)'
<1>1. RowOK(id) /\ DeclaredOK(id) /\ FileOK(id)
  BY DEF StorageInv
<1>2. /\ rows[id].month \in Nat /\ rows[id].seen \in Nat /\ now \in Nat /\ now' \in Nat
      /\ rows[id].month \in Months /\ \A k \in Months : k \in Nat
  BY TableTypes DEF TypeOK, Months
<1>3. RowOK(id)'
  BY <1>1, <1>2 DEF Shrinks, RowOK, Exists
<1>4. DeclaredOK(id)'
  BY <1>1 DEF Shrinks, DeclaredOK, WholeOrOpen, Declared, Exists
<1>5. FileOK(id)'
  <2>1. SUFFICES ASSUME id \notin repeated'
                 PROVE  FileOK(id)'
    BY DEF FileOK
  <2>2. id \notin repeated
    BY <2>1 DEF Shrinks
  <2>3. ASSUME rows'[id].st = "ready"
        PROVE  \/ \E n \in 1..Parts : blobs'[<<id, rows'[id].month>>] = Content(n)
                                       /\ (rows'[id].sum => n = Parts)
               \/ id \in doomed' /\ blobs'[<<id, rows'[id].month>>] = NoBlob
    <3>1. /\ rows[id].st = "ready" /\ rows'[id].month = rows[id].month
          /\ rows'[id].sum = rows[id].sum
      BY <2>3 DEF Shrinks
    <3>2. ~ (purge.pc = "blobs" /\ <<id, rows[id].month>> \in purge.todo)
      BY <1>1, <1>2, <2>2, <3>1 DEF FileOK, Exists
    <3>3. QED
      BY <1>1, <1>2, <2>2, <3>1, <3>2 DEF FileOK, Path, Shrinks
  <2>4. ASSUME purge'.pc = "blobs", NEW k \in Months, <<id, k>> \in purge'.todo
        PROVE  k < now' /\ (rows'[id].st # "none" => k < rows'[id].month)
    <3>1. purge.pc = "blobs" /\ <<id, k>> \in purge.todo
      BY <2>4 DEF Shrinks
    <3>2. k < now /\ (Exists(id) => k < rows[id].month)
      BY <1>1, <2>2, <3>1 DEF FileOK
    <3>3. QED
      BY <1>2, <3>2 DEF Shrinks, Exists
  <2>5. QED
    BY <2>1, <2>3, <2>4 DEF FileOK, Path, Exists
<1>6. QED
  BY <1>3, <1>4, <1>5

\* A step that shrinks keeps what is said of a request that rests.
LEMMA ShrinkRequest ==
  ASSUME StorageInv, TypeOK', Shrinks, NEW q \in Reqs, Rests(q)
  PROVE  RequestOK(q)' /\ SendOK(q)'
<1>1. RequestOK(q) /\ SendOK(q) /\ req[q].month \in Nat /\ now \in Nat /\ now' \in Nat
      /\ req[q].month \in Months
  BY TableTypes DEF StorageInv, TypeOK, Months
<1>2. RequestOK(q)'
  BY <1>1 DEF RequestOK, Rests, Shrinks, Declared
<1>3. SendOK(q)'
  <2>1. SUFFICES ASSUME Sends(q), req[q].id \notin repeated'
                 PROVE  SendOK(q)'
    BY DEF SendOK, Sends, Rests
  <2>2. req[q].id \in Ids /\ req[q].id \notin repeated
    BY <1>1, <2>1 DEF RequestOK, Sends, Sending, Dated, Assembling, Shrinks
  <2>3. rows'[req[q].id].st # "ready"
    BY <1>1, <2>1, <2>2 DEF SendOK, Shrinks
  <2>4. ASSUME req[q].pc \in Dated
        PROVE  /\ \A n : Kept(req[q].id, req[q].month, n) => Kept(req[q].id, req[q].month, n)'
               /\ Filling(req[q].id, req[q].month, q) => Filling(req[q].id, req[q].month, q)'
    <3>1. ~ (purge.pc = "blobs" /\ <<req[q].id, req[q].month>> \in purge.todo)
      BY <1>1, <2>1, <2>2, <2>4 DEF SendOK
    <3>2. blobs'[<<req[q].id, req[q].month>>] = blobs[<<req[q].id, req[q].month>>]
          \/ (blobs'[<<req[q].id, req[q].month>>] = NoBlob /\ req[q].id \in doomed)
      BY <1>1, <2>2, <3>1 DEF Shrinks
    <3>3. QED
      BY <3>2 DEF Kept, Filling, Shrinks, Rests
  <2>5. /\ req[q].pc \in {"copy", "copyCombined"} => Filling(req[q].id, req[q].month, q)'
        /\ req[q].pc = "create" /\ req[q].m.op # "init" => Kept(req[q].id, req[q].month, Parts)'
        /\ req[q].pc \in {"dropParts", "dropChunks", "ready"} => Kept(req[q].id, req[q].month, req[q].n)'
    BY <1>1, <2>1, <2>2, <2>4 DEF SendOK, Dated, Assembling, Rests
  <2>6. req[q].pc \in Assembling /\ Exists(req[q].id)' =>
          rows'[req[q].id].month = req[q].month /\ (rows'[req[q].id].sum <=> req[q].sum)
    BY <1>1, <2>1, <2>2 DEF SendOK, Shrinks, Exists, Rests
  <2>7. purge'.pc = "blobs" /\ req[q].pc \in Dated =>
          \A k \in Months : <<req[q].id, k>> \in purge'.todo => k < req[q].month
    BY <1>1, <2>1, <2>2 DEF SendOK, Shrinks
  <2>8. QED
    BY <2>3, <2>5, <2>6, <2>7 DEF SendOK, Rests, Kept, Filling, Exists
<1>4. QED
  BY <1>2, <1>3

\* One request takes a step that shrinks, and starts sending nothing.
LEMMA QuietStep ==
  ASSUME StorageInv, TypeOK', Shrinks, NEW r \in Reqs, \A q \in Reqs \ {r} : Rests(q),
         purge' = purge, RequestOK(r)', SendOK(r)',
         Sends(r)' => Sends(r) /\ req'[r].id = req[r].id
  PROVE  StorageInv'
<1>1. \A q \in Reqs : RequestOK(q)' /\ SendOK(q)'
  BY ShrinkRequest
<1>2. \A p, q \in Reqs : p # q => Apart(p, q)'
  BY DEF StorageInv, Apart, Sends, Rests, Shrinks
<1>3. PurgeOK'
  BY DEF StorageInv, PurgeOK, Shrinks
<1>4. QED
  BY <1>1, <1>2, <1>3, ShrinkFiles DEF StorageInv

\* A request that sends nothing any more.
LEMMA NotSending ==
  ASSUME NEW r \in Reqs, req'[r].pc \notin Sending
  PROVE  SendOK(r)' /\ ~ Sends(r)'
BY DEF SendOK, Sends

\* A step that touches no file shrinks.
LEMMA NothingWritten ==
  ASSUME StorageInv, UNCHANGED <<rows, blobs, now, purge, repeated>>, doomed \subseteq doomed'
  PROVE  Shrinks
<1>1. now \in Nat
  BY TableTypes
<1>2. QED
  BY <1>1 DEF Shrinks

-----------------------------------------------------------------------------
(* Requests that go on or return. *)

\* An idle request.
LEMMA IdleType == IdleReq \in Locals /\ IdleReq.pc = "idle"
BY FilesAssumption DEF IdleReq, Locals, Steps, Months

\* Goto sets the step of one request and nothing else.
LEMMA GotoRequest ==
  ASSUME StorageInv, NEW r \in Reqs, NEW step \in Steps, Goto(r, step)
  PROVE  /\ req' \in [Reqs -> Locals] /\ \A q \in Reqs \ {r} : Rests(q)
         /\ req'[r].pc = step /\ req'[r].m = req[r].m /\ req'[r].id = req[r].id
         /\ req'[r].month = req[r].month /\ req'[r].sum = req[r].sum /\ req'[r].n = req[r].n
         /\ req'[r].todo = req[r].todo
<1>1. PICK x \in Locals : x = req[r]
  BY DEF StorageInv, TypeOK
<1>2. [x EXCEPT !.pc = step] \in Locals
  BY ONLY x \in Locals, step \in Steps DEF Locals
<1>3. req' = [req EXCEPT ![r] = [x EXCEPT !.pc = step]]
  BY <1>1 DEF Goto
<1>4. req'[r] = [x EXCEPT !.pc = step] /\ req' \in [Reqs -> Locals] /\ \A q \in Reqs \ {r} : Rests(q)
  BY <1>2, <1>3 DEF StorageInv, TypeOK, Rests
<1>5. QED
  BY <1>1, <1>4 DEF Locals

\* Return makes one request idle.
LEMMA ReturnRequest ==
  ASSUME StorageInv, NEW r \in Reqs, Return(r)
  PROVE  /\ req' \in [Reqs -> Locals] /\ \A q \in Reqs \ {r} : Rests(q)
         /\ RequestOK(r)' /\ SendOK(r)' /\ ~ Sends(r)'
<1>1. req' \in [Reqs -> Locals] /\ req'[r] = IdleReq /\ \A q \in Reqs \ {r} : Rests(q)
  BY IdleType DEF StorageInv, TypeOK, Return, Rests
<1>2. RequestOK(r)'
  BY <1>1, IdleType DEF RequestOK, Sending, Dated, Assembling
<1>3. QED
  BY <1>1, <1>2, IdleType, NotSending DEF Sending, Dated, Assembling

\* A request returns in a step that shrinks.
LEMMA ReturnStep ==
  ASSUME StorageInv, TypeOK', Shrinks, NEW r \in Reqs, Return(r), purge' = purge
  PROVE  StorageInv'
BY ReturnRequest, QuietStep

\* A request leaves the steps that send a file, in a step that shrinks.
LEMMA LeaveStep ==
  ASSUME StorageInv, TypeOK', Shrinks, NEW r \in Reqs, purge' = purge,
         \A q \in Reqs \ {r} : Rests(q), RequestOK(r)', req'[r].pc \notin Sending
  PROVE  StorageInv'
BY NotSending, QuietStep

\* The types of a step that only changes requests.
LEMMA TypesKept ==
  ASSUME StorageInv, req' \in [Reqs -> Locals], UNCHANGED <<files, world, purge, arrived, history>>
  PROVE  TypeOK'
BY DEF StorageInv, TypeOK, files, world, history

\* A request that goes on sending, or leaves off, without writing anything.
LEMMA GoOn ==
  ASSUME StorageInv, NEW r \in Reqs, NEW step \in Steps, Goto(r, step),
         UNCHANGED <<rows, blobs, now, purge, doomed, repeated>>, TypeOK',
         RequestOK(r)', SendOK(r)', Sends(r)' => Sends(r)
  PROVE  StorageInv'
BY GotoRequest, NothingWritten, QuietStep

\* A request that returns without having written anything.
LEMMA ReturnQuietly ==
  ASSUME StorageInv, NEW r \in Reqs, Return(r),
         UNCHANGED <<rows, blobs, now, purge, doomed, repeated>>, TypeOK'
  PROVE  StorageInv'
BY NothingWritten, ReturnStep

\* What a request under way is about.
LEMMA MessageTypes ==
  ASSUME StorageInv, NEW r \in Reqs, req[r].pc # "idle"
  PROVE  /\ req[r].m \in Messages /\ req[r].m \in Requests /\ req[r].id \in Ids
         /\ req[r].m.id \in Ids /\ req[r].m.user \in Users /\ req[r].m.index \in Indexes
         /\ req[r].m.inApp \in BOOLEAN /\ req[r].m.sum \in BOOLEAN
<1>1. req[r].m \in Messages /\ req[r].id \in Ids
  BY DEF StorageInv, RequestOK
<1>2. req[r].m \in Requests
  BY <1>1, MessagesAssumption
<1>3. QED
  BY <1>1, <1>2 DEF Requests

\* The one request that sends a file writes its row or its content: every other
\* file, and every other request, is untouched.
LEMMA OwnStep ==
  ASSUME StorageInv, TypeOK', NEW r \in Reqs, Sends(r), NEW i \in Ids, i = req[r].id,
         \A q \in Reqs \ {r} : Rests(q), UNCHANGED <<now, purge, doomed, repeated>>,
         \A id \in Ids \ {i} : /\ rows'[id] = rows[id]
                               /\ \A k \in Months : blobs'[<<id, k>>] = blobs[<<id, k>>],
         RowOK(i)', DeclaredOK(i)', FileOK(i)',
         RequestOK(r)', SendOK(r)', Sends(r)' => req'[r].id = i
  PROVE  StorageInv'
<1>1. ASSUME NEW id \in Ids \ {i}
      PROVE  RowOK(id)' /\ DeclaredOK(id)' /\ FileOK(id)'
  <2>1. RowOK(id) /\ DeclaredOK(id) /\ FileOK(id) /\ rows[id].month \in Months
    BY TableTypes DEF StorageInv
  <2>2. QED
    BY <2>1 DEF RowOK, DeclaredOK, WholeOrOpen, Declared, FileOK, Exists, Path
<1>2. ASSUME NEW q \in Reqs \ {r}
      PROVE  RequestOK(q)' /\ SendOK(q)'
  <2>1. RequestOK(q) /\ SendOK(q) /\ Apart(r, q) /\ req[q].month \in Months
    BY TableTypes DEF StorageInv
  <2>2. RequestOK(q)'
    BY <2>1 DEF RequestOK, Rests, Declared
  <2>3. ASSUME Sends(q), req[q].id \notin repeated
        PROVE  SendOK(q)'
    <3>1. req[q].id \in Ids \ {i}
      BY <2>1, <2>3 DEF Apart, RequestOK, Sends, Sending, Dated, Assembling
    <3>2. PICK j \in Ids \ {i} : j = req[q].id
      BY <3>1
    <3>3. rows'[j] = rows[j] /\ blobs'[<<j, req[q].month>>] = blobs[<<j, req[q].month>>]
      BY <2>1, <3>2
    <3>4. QED
      BY <2>1, <2>3, <3>2, <3>3 DEF SendOK, Rests, Kept, Filling, Exists
  <2>4. QED
    BY <2>2, <2>3 DEF SendOK, Sends, Rests
<1>3. \A p, q \in Reqs : p # q => Apart(p, q)'
  BY DEF StorageInv, Apart, Sends, Rests
<1>4. QED
  BY <1>1, <1>2, <1>3 DEF StorageInv, PurgeOK

-----------------------------------------------------------------------------
(* Upload and UploadUserAvatar. *)

\* Arrive: a file that is ready or being sent is marked as sent again.
LEMMA ArriveStep ==
  ASSUME StorageInv, NEW r \in Reqs, Arrive(r)
  PROVE  StorageInv'
<1>1. PICK m \in Messages :
        /\ req' = [req EXCEPT ![r] =
                     [IdleReq EXCEPT !.pc = Entry(m), !.m = m, !.id = m.id, !.inApp = m.inApp,
                                     !.prev = IF m.op = "avatar" THEN avatar[m.user] ELSE NoId]]
        /\ repeated' = IF Writes(m.op) /\ BeingWritten(m.id) THEN repeated \cup {m.id} ELSE repeated
  BY DEF Arrive
<1>2. /\ req[r].pc = "idle" /\ arrived < MaxRequests /\ arrived' = arrived + 1
      /\ UNCHANGED <<rows, chunks, blobs, parts, refs, avatar, app, expired, now, changes, purge, doomed>>
  BY DEF Arrive, At, files, world
<1>3. m \in Requests /\ m.id \in Ids /\ m.user \in Users /\ m.inApp \in BOOLEAN
  BY MessagesAssumption DEF Requests
<1>4. /\ Entry(m) \in {"guard", "quota", "clearAvatar", "authorize"}
      /\ Entry(m) = "guard" => m.op \in {"init", "upload"}
      /\ Entry(m) = "quota" => m.op \in {"upload", "avatar"}
  BY DEF Entry
<1>5. PICK x : x = [IdleReq EXCEPT !.pc = Entry(m), !.m = m, !.id = m.id, !.inApp = m.inApp,
                                   !.prev = IF m.op = "avatar" THEN avatar[m.user] ELSE NoId]
  OBVIOUS
<1>6. x \in Locals /\ x.pc = Entry(m) /\ x.m = m /\ x.id = m.id
  <2>1. avatar[m.user] \in Ids \cup {NoId}
    BY <1>3 DEF StorageInv, TypeOK
  <2>2. PICK i \in Locals : i = IdleReq
    BY IdleType
  <2>3. PICK step \in Steps, prev \in Ids \cup {NoId}, inApp \in BOOLEAN, id \in Ids :
          step = Entry(m) /\ prev = (IF m.op = "avatar" THEN avatar[m.user] ELSE NoId)
          /\ inApp = m.inApp /\ id = m.id
    BY <1>3, <1>4, <2>1 DEF Steps
  <2>4. x = [i EXCEPT !.pc = step, !.m = m, !.id = id, !.inApp = inApp, !.prev = prev]
    BY <1>5, <2>2, <2>3
  <2>5. /\ [i EXCEPT !.pc = step, !.m = m, !.id = id, !.inApp = inApp, !.prev = prev] \in Locals
        /\ [i EXCEPT !.pc = step, !.m = m, !.id = id, !.inApp = inApp, !.prev = prev].pc = step
        /\ [i EXCEPT !.pc = step, !.m = m, !.id = id, !.inApp = inApp, !.prev = prev].m = m
        /\ [i EXCEPT !.pc = step, !.m = m, !.id = id, !.inApp = inApp, !.prev = prev].id = id
    BY ONLY i \in Locals, step \in Steps, m \in Messages, id \in Ids, inApp \in BOOLEAN,
            prev \in Ids \cup {NoId} DEF Locals
  <2>6. QED
    BY <2>3, <2>4, <2>5
<1>7. req'[r] = x /\ req' \in [Reqs -> Locals] /\ \A q \in Reqs \ {r} : Rests(q)
  BY <1>1, <1>5, <1>6 DEF StorageInv, TypeOK, Rests
<1>8. repeated \subseteq repeated' /\ repeated' \subseteq Ids
  BY <1>1, <1>3 DEF StorageInv, TypeOK
<1>9. TypeOK'
  <2>1. arrived' \in 0..MaxRequests
    BY <1>2, FilesAssumption DEF StorageInv, TypeOK
  <2>2. QED
    BY <1>2, <1>7, <1>8, <2>1 DEF StorageInv, TypeOK
<1>10. Shrinks
  <2>1. now \in Nat
    BY TableTypes
  <2>2. QED
    BY <1>2, <1>8, <2>1 DEF Shrinks
<1>11. RequestOK(r)'
  BY <1>3, <1>4, <1>6, <1>7 DEF RequestOK, Sending, Dated, Assembling
<1>12. SendOK(r)'
  <2>1. Sends(r)' /\ m.id \notin repeated' => rows[m.id].st # "ready"
    BY <1>1, <1>6, <1>7 DEF Sends, BeingWritten
  <2>2. QED
    BY <1>2, <1>4, <1>6, <1>7, <2>1 DEF SendOK, Dated, Assembling
<1>13. ASSUME NEW q \in Reqs \ {r}
       PROVE  Apart(q, r)' /\ Apart(r, q)'
  <2>1. Sends(q) /\ req[q].id = m.id => BeingWritten(m.id)
    BY DEF BeingWritten, Sends, At, Sending, Dated, Assembling
  <2>2. QED
    BY <1>1, <1>6, <1>7, <2>1 DEF Apart, Sends, Rests
<1>14. \A p, q \in Reqs : p # q => Apart(p, q)'
  BY <1>7, <1>8, <1>13 DEF StorageInv, Apart, Sends, Rests
<1>15. \A q \in Reqs : RequestOK(q)' /\ SendOK(q)'
  BY <1>7, <1>9, <1>10, <1>11, <1>12, ShrinkRequest
<1>16. QED
  BY <1>2, <1>9, <1>10, <1>14, <1>15, ShrinkFiles DEF StorageInv, PurgeOK

\* checkAuthorization only decides whether to go on.
LEMMA GuardStep ==
  ASSUME StorageInv, NEW r \in Reqs, Guard(r)
  PROVE  StorageInv'
<1>1. req[r].pc = "guard" /\ UNCHANGED <<files, world, purge, arrived, history>>
      /\ (Goto(r, "quota") \/ Return(r))
  BY DEF Guard, At, Proceed
<1>2. CASE Return(r)
  BY <1>1, <1>2, ReturnRequest, TypesKept, ReturnQuietly DEF files, world, history
<1>3. CASE Goto(r, "quota")
  <2>1. RequestOK(r) /\ SendOK(r) /\ "quota" \in Steps
    BY DEF StorageInv, Steps
  <2>2. req'[r].pc = "quota" /\ req'[r].m = req[r].m /\ req'[r].id = req[r].id /\ TypeOK'
    BY <1>1, <1>3, <2>1, GotoRequest, TypesKept
  <2>3. RequestOK(r)' /\ SendOK(r)' /\ (Sends(r)' => Sends(r))
    BY <1>1, <2>1, <2>2 DEF RequestOK, SendOK, Sends, Sending, Dated, Assembling, files, world, history
  <2>4. QED
    BY <1>1, <1>3, <2>1, <2>2, <2>3, GoOn DEF files, world, history
<1>4. QED
  BY <1>1, <1>2, <1>3

\* checkQuota, and the path of this month, which no purge under way holds.
LEMMA CheckedUploadStep ==
  ASSUME StorageInv, NEW r \in Reqs, CheckedUpload(r)
  PROVE  StorageInv'
<1>1. req[r].pc = "quota" /\ UNCHANGED <<files, world, purge, arrived, history>>
  BY DEF CheckedUpload, At
<1>2. CASE Return(r)
  BY <1>1, <1>2, ReturnRequest, TypesKept, ReturnQuietly DEF files, world, history
<1>3. CASE ~ Return(r)
  <2>1. RequestOK(r) /\ SendOK(r) /\ req[r].id \in Ids /\ req[r] \in Locals /\ now \in Months
    BY <1>1, MessageTypes, TableTypes DEF StorageInv
  <2>2. PICK step \in {"create", "store"} :
          /\ step = "create" <=> req[r].m.op = "init"
          /\ req' = [req EXCEPT ![r].pc = step, ![r].month = now]
    BY <1>3 DEF CheckedUpload
  <2>3. PICK x \in Locals : x = req[r]
    BY <2>1
  <2>4. [x EXCEPT !.pc = step, !.month = now] \in Locals
    <3>1. PICK t \in Months : t = now
      BY <2>1
    <3>2. [x EXCEPT !.pc = step, !.month = t] \in Locals
      BY ONLY x \in Locals, step \in {"create", "store"}, t \in Months DEF Locals, Steps
    <3>3. QED
      BY <3>1, <3>2
  <2>5. req' = [req EXCEPT ![r] = [x EXCEPT !.pc = step, !.month = now]]
    BY <2>2, <2>3
  <2>6. req'[r] = [x EXCEPT !.pc = step, !.month = now] /\ req' \in [Reqs -> Locals]
        /\ \A q \in Reqs \ {r} : Rests(q)
    BY <2>4, <2>5 DEF StorageInv, TypeOK, Rests
  <2>7. req'[r].pc = step /\ req'[r].month = now /\ req'[r].m = req[r].m /\ req'[r].id = req[r].id
    BY <2>3, <2>6 DEF Locals
  <2>8. RequestOK(r)'
    <3>1. now <= now'
      BY <1>1, TableTypes DEF world
    <3>2. QED
      BY <1>1, <2>1, <2>2, <2>7, <3>1 DEF RequestOK, Sending, Dated, Assembling
  <2>9. SendOK(r)'
    <3>1. FileOK(req[r].id)
      BY <2>1 DEF StorageInv
    <3>2. /\ req'[r].pc \in {"create", "store"} /\ (req'[r].pc = "create" => req'[r].m.op = "init")
          /\ Sends(r)' => Sends(r)
      BY <1>1, <2>2, <2>7 DEF Sends, Sending, Dated, Assembling
    <3>3. purge' = purge /\ rows' = rows /\ repeated' = repeated
      BY <1>1 DEF files, history
    <3>4. Sends(r) /\ req[r].id \notin repeated =>
            /\ rows[req[r].id].st # "ready"
            /\ purge.pc = "blobs" => \A k \in Months : <<req[r].id, k>> \in purge.todo => k < now
      BY <2>1, <3>1 DEF SendOK, FileOK
    <3>5. QED
      BY <2>7, <3>2, <3>3, <3>4 DEF SendOK, Assembling
  <2>10. QED
    BY <1>1, <2>6, <2>7, <2>8, <2>9, TypesKept, NothingWritten, QuietStep
    DEF Sends, Sending, Dated, Assembling, files, world, history
<1>4. QED
  BY <1>2, <1>3

\* The request that sends a file writes at its path: its row, which is not ready
\* while it is being sent, stays as it was.
LEMMA OwnBlob ==
  ASSUME StorageInv, NEW r \in Reqs, Sends(r), NEW b \in Blobs,
         blobs' = [blobs EXCEPT ![<<req[r].id, req[r].month>>] = b] \/ UNCHANGED blobs,
         Declared(req[r].id) => WholeOrOpen(b),
         req' \in [Reqs -> Locals], \A q \in Reqs \ {r} : Rests(q), parts' \subseteq Ids \X Months \X Indexes,
         UNCHANGED <<rows, chunks, world, purge, arrived, history>>,
         RequestOK(r)', SendOK(r)', Sends(r)' => req'[r].id = req[r].id
  PROVE  StorageInv'
<1>1. PICK i \in Ids, t \in Months : i = req[r].id /\ t = req[r].month
  BY MessageTypes, TableTypes DEF Sends, Sending, Dated, Assembling
<1>2. blobs \in [Ids \X Months -> Blobs] /\ SendOK(r) /\ RowOK(i) /\ DeclaredOK(i) /\ FileOK(i)
  BY DEF StorageInv, TypeOK
<1>3. blobs' = [blobs EXCEPT ![<<i, t>>] = b] \/ blobs' = blobs
  BY <1>1
<1>4. /\ blobs' \in [Ids \X Months -> Blobs]
      /\ \A id \in Ids \ {i}, k \in Months : blobs'[<<id, k>>] = blobs[<<id, k>>]
      /\ \A k \in Months : blobs'[<<i, k>>] \in {b, blobs[<<i, k>>]}
  BY <1>2, <1>3
<1>5. UNCHANGED <<rows, chunks, refs, avatar, app, expired, now, changes, purge, arrived, doomed, repeated>>
  BY DEF world, history
<1>6. TypeOK'
  BY <1>4, <1>5 DEF StorageInv, TypeOK
<1>7. RowOK(i)'
  BY <1>2, <1>5 DEF RowOK, Exists
<1>8. DeclaredOK(i)'
  <2>1. Declared(i) => \A k \in Months : WholeOrOpen(blobs'[<<i, k>>])
    BY <1>1, <1>2, <1>4 DEF DeclaredOK
  <2>2. QED
    BY <1>2, <1>5, <2>1 DEF DeclaredOK, WholeOrOpen, Declared, Exists
<1>9. FileOK(i)'
  <2>1. i \notin repeated => rows[i].st # "ready"
    BY <1>1, <1>2 DEF SendOK
  <2>2. QED
    BY <1>2, <1>5, <2>1 DEF FileOK, Exists
<1>10. QED
  BY <1>1, <1>4, <1>5, <1>6, <1>7, <1>8, <1>9, OwnStep

\* os.Create: the file at the path of the request is empty, and it alone, if it
\* is the only request that sends the file, has it open.
LEMMA StoreStep ==
  ASSUME StorageInv, WritersInv, NEW r \in Reqs, Store(r)
  PROVE  StorageInv'
<1>1. PICK step \in {"copy", "copyCombined"} :
        /\ req[r].pc \in {"store", "storeCombined"}
        /\ step = "copy" <=> req[r].pc = "store"
        /\ Goto(r, step)
  BY DEF Store, At
<1>2. UNCHANGED <<rows, chunks, parts, world, purge, arrived, history>>
  BY DEF Store
<1>3. /\ RequestOK(r) /\ SendOK(r) /\ step \in Steps
      /\ req[r].id \in Ids /\ req[r].month \in Months
  BY <1>1, MessageTypes, TableTypes DEF StorageInv, Steps
<1>4. /\ req' \in [Reqs -> Locals] /\ \A q \in Reqs \ {r} : Rests(q)
      /\ req'[r].pc = step /\ req'[r].m = req[r].m /\ req'[r].id = req[r].id
      /\ req'[r].month = req[r].month /\ req'[r].sum = req[r].sum /\ req'[r].n = req[r].n
  BY <1>1, <1>3, GotoRequest
<1>5. Sends(r)
  BY <1>1, <1>3 DEF Sends, RequestOK, Writes, Sending, Dated, Assembling
<1>6. PICK i \in Ids, t \in Months : i = req[r].id /\ t = req[r].month
  BY <1>3
<1>7. PICK b : b = [n |-> 0, by |-> blobs[<<i, t>>].by \cup {r}, cut |-> FALSE]
  OBVIOUS
<1>8. b \in Blobs /\ b.by # {} /\ blobs' = [blobs EXCEPT ![<<i, t>>] = b]
  <2>1. blobs[<<i, t>>].by \subseteq Reqs
    BY TableTypes DEF Blobs
  <2>2. b \in Blobs /\ b.by # {}
    BY <1>7, <2>1, FilesAssumption DEF Blobs
  <2>3. QED
    BY <1>6, <1>7, <2>2 DEF Store
<1>9. RequestOK(r)'
  BY <1>1, <1>2, <1>3, <1>4 DEF RequestOK, Declared, Sending, Dated, Assembling, world, history
<1>10. SendOK(r)'
  <2>1. i \notin repeated => blobs[<<i, t>>].by \subseteq {r}
    <3>1. ASSUME NEW q \in blobs[<<i, t>>].by, q # r
          PROVE  i \in repeated
      <4>1. req[q].pc \in {"copy", "copyCombined"} /\ req[q].id = i
        BY <3>1 DEF WritersInv
      <4>2. q \in Reqs
        BY <3>1, TableTypes DEF Blobs
      <4>3. RequestOK(q) /\ Apart(q, r)
        BY <3>1, <4>2 DEF StorageInv
      <4>4. Sends(q)
        BY <4>1, <4>3 DEF Sends, RequestOK, Writes, Sending, Dated, Assembling
      <4>5. QED
        BY <1>5, <1>6, <4>1, <4>3, <4>4 DEF Apart
    <3>2. QED
      BY <3>1
  <2>2. i \notin repeated => b = Opened(r)
    BY <1>7, <2>1 DEF Opened
  <2>3. blobs'[<<i, t>>] = b
    BY <1>8 DEF StorageInv, TypeOK
  <2>4. i \notin repeated => Filling(i, t, r)'
    BY <2>2, <2>3 DEF Filling, Opened
  <2>5. UNCHANGED <<rows, purge, repeated>>
    BY <1>2 DEF history
  <2>6. i \notin repeated => Filling(req[r].id, req[r].month, r)'
    BY <1>4, <1>6, <2>4 DEF Filling, Opened
  <2>7. QED
    BY <1>1, <1>3, <1>4, <1>5, <1>6, <2>5, <2>6 DEF SendOK, Filling, Exists, Dated, Assembling
<1>11. parts' \subseteq Ids \X Months \X Indexes
  BY <1>2 DEF StorageInv, TypeOK
<1>12. QED
  BY <1>2, <1>4, <1>5, <1>6, <1>8, <1>9, <1>10, <1>11, OwnBlob DEF WholeOrOpen

\* io.Copy: the whole content, or the combined parts, are at the path of the row
\* about to be created or made ready.
LEMMA CopyStep ==
  ASSUME StorageInv, NEW r \in Reqs, Copy(r)
  PROVE  StorageInv'
<1>1. PICK step \in {"create", "dropParts"} :
        /\ req[r].pc \in {"copy", "copyCombined"}
        /\ step = "create" <=> req[r].pc = "copy"
        /\ Goto(r, step)
  BY DEF Copy, At
<1>2. UNCHANGED <<rows, chunks, parts, world, purge, arrived, history>>
  BY DEF Copy
<1>3. /\ RequestOK(r) /\ SendOK(r) /\ step \in Steps
      /\ req[r].id \in Ids /\ req[r].month \in Months /\ req[r].n \in 0..Parts
  BY <1>1, MessageTypes, TableTypes DEF StorageInv, Steps
<1>4. /\ req' \in [Reqs -> Locals] /\ \A q \in Reqs \ {r} : Rests(q)
      /\ req'[r].pc = step /\ req'[r].m = req[r].m /\ req'[r].id = req[r].id
      /\ req'[r].month = req[r].month /\ req'[r].sum = req[r].sum /\ req'[r].n = req[r].n
  BY <1>1, <1>3, GotoRequest
<1>5. Sends(r)
  BY <1>1, <1>3 DEF Sends, RequestOK, Writes, Sending, Dated, Assembling
<1>6. PICK i \in Ids, t \in Months : i = req[r].id /\ t = req[r].month
  BY <1>3
<1>7. PICK size \in 1..Parts :
        /\ req[r].pc = "copy" => size = Parts
        /\ req[r].pc = "copyCombined" => size = req[r].n
        /\ Declared(i) => size = Parts
        /\ size = IF At(r, "copy") THEN Parts ELSE req[r].n
  BY <1>1, <1>3, <1>6, FilesAssumption DEF RequestOK, Assembling, At
<1>8. PICK old \in Blobs : old = blobs[<<i, t>>]
  BY <1>6, TableTypes
<1>9. PICK b : b = [n |-> IF old.n < size THEN size ELSE old.n, by |-> old.by \ {r}, cut |-> old.cut]
  OBVIOUS
<1>10. b \in Blobs /\ (size = Parts => b.n = Parts)
  <2>1. old.n \in 0..Parts /\ size \in 0..Parts /\ old.by \subseteq Reqs /\ old.cut \in BOOLEAN
        /\ Parts \in Nat
    BY <1>7, <1>8, FilesAssumption DEF Blobs
  <2>2. QED
    BY <1>9, <2>1 DEF Blobs
<1>11. (r \in old.by /\ blobs' = [blobs EXCEPT ![<<i, t>>] = b]) \/ (r \notin old.by /\ UNCHANGED blobs)
  BY <1>6, <1>7, <1>8, <1>9 DEF Copy
<1>12. RequestOK(r)'
  BY <1>1, <1>2, <1>3, <1>4 DEF RequestOK, Declared, Sending, Dated, Assembling, world, history
<1>13. SendOK(r)'
  <2>1. i \notin repeated => Filling(i, t, r)
    BY <1>1, <1>3, <1>5, <1>6 DEF SendOK
  <2>2. CASE r \in old.by
    <3>1. i \notin repeated => old = Opened(r)
      BY <1>8, <2>1, <2>2, BlobFacts DEF Filling
    <3>2. i \notin repeated => b = Content(size)
      <4>1. 0 < size
        BY FilesAssumption
      <4>2. i \notin repeated => old.n = 0 /\ old.by \ {r} = {} /\ old.cut = FALSE
        BY <3>1 DEF Opened
      <4>3. i \notin repeated => b = [n |-> size, by |-> {}, cut |-> FALSE]
        BY <1>9, <4>1, <4>2
      <4>4. QED
        BY <4>3 DEF Content
    <3>3. blobs'[<<i, t>>] = b
      BY <1>11, <2>2 DEF StorageInv, TypeOK
    <3>4. QED
      BY <1>1, <1>2, <1>3, <1>4, <1>5, <1>6, <1>7, <3>2, <3>3
      DEF SendOK, Kept, Exists, Dated, Assembling, history
  <2>3. CASE r \notin old.by
    <3>1. i \notin repeated => i \in doomed /\ blobs'[<<i, t>>] = NoBlob
      BY <1>8, <1>11, <2>1, <2>3 DEF Filling, Opened
    <3>2. QED
      BY <1>1, <1>2, <1>3, <1>4, <1>5, <1>6, <3>1 DEF SendOK, Kept, Exists, Dated, Assembling, history
  <2>4. QED
    BY <2>2, <2>3
<1>14. parts' \subseteq Ids \X Months \X Indexes
  BY <1>2 DEF StorageInv, TypeOK
<1>15. QED
  BY <1>2, <1>4, <1>5, <1>6, <1>7, <1>10, <1>11, <1>12, <1>13, <1>14, OwnBlob DEF WholeOrOpen

\* repo.Create: a row that Upload creates is ready and its content is stored;
\* one that InitChunkedUpload creates is pending.
LEMMA CreateStep ==
  ASSUME StorageInv, NEW r \in Reqs, Create(r)
  PROVE  StorageInv'
<1>1. /\ req[r].pc = "create"
      /\ UNCHANGED <<chunks, blobs, parts, refs, avatar, app, expired, now, changes, purge, arrived,
                     doomed, repeated>>
  BY DEF Create, At, world, history
<1>2. RequestOK(r) /\ SendOK(r)
  BY DEF StorageInv
<1>3. PICK m \in Messages, i \in Ids, t \in Months :
        /\ m = req[r].m /\ i = m.id /\ i = req[r].id /\ t = req[r].month
        /\ m.op \in {"init", "upload", "avatar"} /\ m.user \in Users
        /\ m.inApp \in BOOLEAN /\ m.sum \in BOOLEAN
  BY <1>1, <1>2, MessageTypes, TableTypes DEF RequestOK, Sending, Dated
<1>4. Sends(r)
  BY <1>1, <1>3 DEF Sends, Writes, Sending, Dated
<1>5. CASE Exists(i)
  <2>1. rows' = rows /\ Proceed(r, m.op # "init", "undo")
    BY <1>3, <1>5 DEF Create
  <2>2. UNCHANGED <<files, world, purge, arrived, history>>
    BY <1>1, <2>1 DEF files, world, history
  <2>3. CASE Return(r)
    BY <2>2, <2>3, ReturnRequest, TypesKept, ReturnQuietly DEF files, world, history
  <2>4. CASE m.op # "init" /\ Goto(r, "undo")
    <3>1. "undo" \in Steps
      BY DEF Steps
    <3>2. /\ req'[r].pc = "undo" /\ req'[r].m = req[r].m /\ req'[r].id = req[r].id
          /\ req'[r].month = req[r].month /\ TypeOK'
      BY <2>2, <2>4, <3>1, GotoRequest, TypesKept
    <3>3. RequestOK(r)' /\ SendOK(r)'
      BY <1>1, <1>2, <1>3, <1>4, <2>1, <2>4, <3>2 DEF RequestOK, SendOK, Sending, Dated, Assembling
    <3>4. QED
      BY <1>1, <1>4, <2>1, <2>4, <3>1, <3>2, <3>3, GoOn
  <2>5. QED
    BY <2>1, <2>3, <2>4 DEF Proceed
<1>6. CASE ~ Exists(i)
  <2>1. PICK sum \in BOOLEAN : sum <=> (m.op = "init" => m.sum)
    OBVIOUS
  <2>2. /\ rows' = [rows EXCEPT ![i] =
                      [st |-> IF m.op = "init" THEN "pending" ELSE "ready", user |-> m.user,
                       inApp |-> m.inApp, month |-> t, sum |-> sum, stale |-> FALSE, seen |-> t]]
        /\ Proceed(r, m.op # "init" /\ Uploaded(m) # "idle", Uploaded(m))
    BY <1>3, <1>6, <2>1 DEF Create
  <2>3. rows'[i] = [st |-> IF m.op = "init" THEN "pending" ELSE "ready", user |-> m.user,
                    inApp |-> m.inApp, month |-> t, sum |-> sum, stale |-> FALSE, seen |-> t]
        /\ \A id \in Ids \ {i} : rows'[id] = rows[id]
    BY <2>2 DEF StorageInv, TypeOK
  <2>4. rows' \in [Ids -> Rows]
    BY <1>3, <2>2 DEF StorageInv, TypeOK, Rows
  <2>5. /\ req' \in [Reqs -> Locals] /\ \A q \in Reqs \ {r} : Rests(q)
        /\ RequestOK(r)' /\ SendOK(r)' /\ ~ Sends(r)'
    <3>1. CASE Return(r)
      BY <3>1, ReturnRequest
    <3>2. ASSUME NEW step \in {"setAvatar", "announce"}, Goto(r, step)
          PROVE  <2>5
      <4>1. step \in Steps /\ step \notin Sending
        BY DEF Steps, Sending, Dated, Assembling
      <4>2. /\ req' \in [Reqs -> Locals] /\ \A q \in Reqs \ {r} : Rests(q)
            /\ req'[r].pc = step /\ req'[r].m = req[r].m /\ req'[r].id = req[r].id
        BY <3>2, <4>1, GotoRequest
      <4>3. RequestOK(r)'
        BY <1>1, <1>2, <4>2 DEF RequestOK, Sending, Dated, Assembling
      <4>4. QED
        BY <4>1, <4>2, <4>3, NotSending
    <3>3. QED
      BY <2>2, <3>1, <3>2 DEF Proceed, Uploaded
  <2>6. TypeOK'
    BY <1>1, <2>4, <2>5 DEF StorageInv, TypeOK
  <2>7. RowOK(i)'
    <3>1. t <= now /\ t \in Nat
      BY <1>1, <1>2, <1>3, TableTypes DEF RequestOK, Dated
    <3>2. QED
      BY <1>1, <2>3, <3>1 DEF RowOK
  <2>8. DeclaredOK(i)'
    <3>1. DeclaredOK(i)
      BY DEF StorageInv
    <3>2. Declared(i) => sum
      BY <1>3, <2>1 DEF Declared
    <3>3. rows'[i].sum = sum /\ blobs' = blobs
      BY <1>1, <2>3
    <3>4. QED
      BY <3>1, <3>2, <3>3 DEF DeclaredOK, WholeOrOpen, Declared
  <2>9. FileOK(i)'
    <3>1. FileOK(i) /\ Parts \in 1..Parts
      BY FilesAssumption DEF StorageInv
    <3>2. i \notin repeated /\ m.op # "init" => Kept(i, t, Parts)
      BY <1>1, <1>2, <1>3, <1>4 DEF SendOK
    <3>3. i \notin repeated /\ purge.pc = "blobs" => \A k \in Months : <<i, k>> \in purge.todo => k < t
      BY <1>1, <1>2, <1>3, <1>4 DEF SendOK, Dated
    <3>4. QED
      BY <1>1, <2>3, <3>1, <3>2, <3>3 DEF FileOK, Kept, Path, Exists
  <2>10. QED
    BY <1>1, <1>3, <1>4, <2>3, <2>5, <2>6, <2>7, <2>8, <2>9, OwnStep
<1>7. QED
  BY <1>5, <1>6

\* The compensations of a failed Create remove the request's own content.
LEMMA CompensationSteps ==
  ASSUME StorageInv, NEW r \in Reqs, Undo(r) \/ Discard(r)
  PROVE  StorageInv'
<1>1. /\ req[r].pc \in {"undo", "discard"} /\ TryRemove(req[r].id, req[r].month)
      /\ (req[r].pc = "undo" /\ Goto(r, "existing")) \/ Return(r)
      /\ UNCHANGED <<rows, chunks, parts, world, purge, arrived, history>>
  BY DEF Undo, Discard, At
<1>2. RequestOK(r) /\ SendOK(r) /\ NoBlob \in Blobs /\ "existing" \in Steps
  BY BlobFacts DEF StorageInv, Steps
<1>3. Sends(r)
  BY <1>1, <1>2 DEF Sends, RequestOK, Writes, Sending, Dated
<1>4. /\ req' \in [Reqs -> Locals] /\ \A q \in Reqs \ {r} : Rests(q)
      /\ RequestOK(r)' /\ SendOK(r)' /\ (Sends(r)' => req'[r].id = req[r].id)
  <2>1. CASE Return(r)
    BY <2>1, ReturnRequest
  <2>2. CASE req[r].pc = "undo" /\ Goto(r, "existing")
    <3>1. /\ req' \in [Reqs -> Locals] /\ \A q \in Reqs \ {r} : Rests(q)
          /\ req'[r].pc = "existing" /\ req'[r].m = req[r].m /\ req'[r].id = req[r].id
          /\ req'[r].month = req[r].month
      BY <1>2, <2>2, GotoRequest
    <3>2. RequestOK(r)' /\ SendOK(r)'
      BY <1>1, <1>2, <1>3, <2>2, <3>1
      DEF RequestOK, SendOK, Sending, Dated, Assembling, world, history
    <3>3. QED
      BY <3>1, <3>2
  <2>3. QED
    BY <1>1, <2>1, <2>2
<1>5. parts' \subseteq Ids \X Months \X Indexes
  BY <1>1 DEF StorageInv, TypeOK
<1>6. QED
  BY <1>1, <1>2, <1>3, <1>4, <1>5, OwnBlob DEF TryRemove, Remove, WholeOrOpen

\* A request that leaves off sending by Goto, or returns, in a step that shrinks.
LEMMA LeaveOrReturn ==
  ASSUME StorageInv, NEW r \in Reqs, req[r].pc # "idle", Shrinks, purge' = purge,
         NEW step \in {"announce", "setAvatar", "fanOut", "chunkRow", "deleteRow", "listPersonal",
                       "erase"},
         Goto(r, step) \/ Return(r),
         req' \in [Reqs -> Locals] => TypeOK'
  PROVE  StorageInv'
<1>1. CASE Return(r)
  BY <1>1, ReturnRequest, ReturnStep
<1>2. CASE Goto(r, step)
  <2>1. step \in Steps /\ step \notin Sending
    BY DEF Steps, Sending, Dated, Assembling
  <2>2. /\ req' \in [Reqs -> Locals] /\ \A q \in Reqs \ {r} : Rests(q)
        /\ req'[r].pc = step /\ req'[r].m = req[r].m /\ req'[r].id = req[r].id
    BY <1>2, <2>1, GotoRequest
  <2>3. RequestOK(r)'
    BY <2>2, MessageTypes DEF RequestOK, Sending, Dated, Assembling
  <2>4. QED
    BY <2>1, <2>2, <2>3, LeaveStep
<1>3. QED
  BY <1>1, <1>2

\* The answer with the existing row, the announcement, the avatar pointer.
LEMMA AnswerSteps ==
  ASSUME StorageInv, NEW r \in Reqs, Existing(r) \/ Announce(r) \/ SetAvatar(r)
  PROVE  StorageInv'
<1>1. /\ req[r].pc \in {"existing", "announce", "setAvatar"}
      /\ UNCHANGED <<rows, chunks, blobs, parts, app, expired, now, changes, purge, arrived, doomed, repeated>>
      /\ refs' \in {refs, refs \cup {req[r].id}}
      /\ avatar' \in {avatar, [avatar EXCEPT ![req[r].m.user] = req[r].id]}
  BY DEF Existing, Announce, SetAvatar, At, files, world, history
<1>2. PICK step \in {"announce", "setAvatar", "fanOut"} : Goto(r, step) \/ Return(r)
  BY DEF Existing, Announce, SetAvatar, Proceed, Uploaded
<1>3. req[r].id \in Ids /\ req[r].m.user \in Users
  BY <1>1, MessageTypes
<1>4. refs' \subseteq Ids /\ avatar' \in [Users -> Ids \cup {NoId}]
  BY <1>1, <1>3 DEF StorageInv, TypeOK
<1>5. req' \in [Reqs -> Locals] => TypeOK'
  BY <1>1, <1>4 DEF StorageInv, TypeOK
<1>6. QED
  BY <1>1, <1>2, <1>5, NothingWritten, LeaveOrReturn

\* FanOut goes on with the deletion of the previous avatar.
LEMMA FanOutStep ==
  ASSUME StorageInv, NEW r \in Reqs, FanOut(r)
  PROVE  StorageInv'
<1>1. /\ req[r].pc = "fanOut" /\ refs' \in {refs, refs \cup {req[r].id}}
      /\ UNCHANGED <<rows, chunks, blobs, parts, avatar, app, expired, now, changes, purge, arrived,
                     doomed, repeated>>
  BY DEF FanOut, At, files, world, history
<1>2. req[r].id \in Ids /\ req[r].m \in Messages
  BY <1>1, MessageTypes
<1>3. req' \in [Reqs -> Locals] => TypeOK'
  BY <1>1, <1>2 DEF StorageInv, TypeOK
<1>4. CASE Return(r)
  BY <1>1, <1>3, <1>4, ReturnRequest, ReturnQuietly
<1>5. CASE ~ Return(r)
  <2>1. PICK x \in Locals, old \in Ids : x = req[r] /\ old = req[r].prev
          /\ req' = [req EXCEPT ![r].pc = "deleteRead", ![r].id = old]
    <3>1. req[r].prev # NoId /\ req' = [req EXCEPT ![r].pc = "deleteRead", ![r].id = req[r].prev]
      BY <1>5 DEF FanOut
    <3>2. req[r] \in Locals /\ req[r].prev \in Ids \cup {NoId}
      BY TableTypes DEF Locals
    <3>3. QED
      BY <3>1, <3>2
  <2>2. [x EXCEPT !.pc = "deleteRead", !.id = old] \in Locals
    BY ONLY x \in Locals, old \in Ids DEF Locals, Steps
  <2>3. req' = [req EXCEPT ![r] = [x EXCEPT !.pc = "deleteRead", !.id = old]]
    BY <2>1
  <2>4. req'[r] = [x EXCEPT !.pc = "deleteRead", !.id = old] /\ req' \in [Reqs -> Locals]
        /\ \A q \in Reqs \ {r} : Rests(q)
    BY <2>2, <2>3 DEF StorageInv, TypeOK, Rests
  <2>5. req'[r].pc = "deleteRead" /\ req'[r].m = req[r].m /\ req'[r].id = old
    BY <2>1, <2>4 DEF Locals
  <2>6. RequestOK(r)' /\ req'[r].pc \notin Sending
    BY <1>2, <2>5 DEF RequestOK, Sending, Dated, Assembling
  <2>7. QED
    BY <1>1, <1>3, <2>4, <2>6, NothingWritten, LeaveStep
<1>6. QED
  BY <1>4, <1>5

-----------------------------------------------------------------------------
(* Chunked uploads. *)

\* The endpoint's checks.
LEMMA AuthorizeStep ==
  ASSUME StorageInv, NEW r \in Reqs, Authorize(r)
  PROVE  StorageInv'
<1>1. req[r].pc = "authorize" /\ UNCHANGED <<files, world, purge, arrived, history>>
  BY DEF Authorize, At
<1>2. CASE Return(r)
  BY <1>1, <1>2, ReturnRequest, TypesKept, ReturnQuietly DEF files, world, history
<1>3. CASE ~ Return(r)
  <2>1. RequestOK(r) /\ SendOK(r)
    BY DEF StorageInv
  <2>2. PICK x \in Locals, i \in Ids : x = req[r] /\ i = req[r].m.id
    BY <1>1, MessageTypes, TableTypes
  <2>3. PICK inApp \in BOOLEAN : inApp = rows[i].inApp
    BY TableTypes DEF Rows
  <2>4. PICK step \in {"chunkRead", "completeRead", "deleteRead"} :
          /\ step = "completeRead" => req[r].m.op = "complete"
          /\ req' = [req EXCEPT ![r].pc = step, ![r].inApp = inApp]
    BY <1>3, <2>2, <2>3 DEF Authorize
  <2>5. [x EXCEPT !.pc = step, !.inApp = inApp] \in Locals
    BY ONLY x \in Locals, step \in {"chunkRead", "completeRead", "deleteRead"}, inApp \in BOOLEAN
    DEF Locals, Steps
  <2>6. req' = [req EXCEPT ![r] = [x EXCEPT !.pc = step, !.inApp = inApp]]
    BY <2>2, <2>4
  <2>7. req'[r] = [x EXCEPT !.pc = step, !.inApp = inApp] /\ req' \in [Reqs -> Locals]
        /\ \A q \in Reqs \ {r} : Rests(q)
    BY <2>5, <2>6 DEF StorageInv, TypeOK, Rests
  <2>8. req'[r].pc = step /\ req'[r].m = req[r].m /\ req'[r].id = req[r].id
    BY <2>2, <2>7 DEF Locals
  <2>9. RequestOK(r)' /\ SendOK(r)' /\ (Sends(r)' => Sends(r))
    BY <1>1, <2>1, <2>4, <2>8
    DEF RequestOK, SendOK, Sends, Sending, Dated, Assembling, files, world, history
  <2>10. QED
    BY <1>1, <2>7, <2>8, <2>9, TypesKept, NothingWritten, QuietStep DEF files, world, history
<1>4. QED
  BY <1>2, <1>3

\* GetByID: a completion has read the row as it is, and the row is pending.
LEMMA ReadPendingStep ==
  ASSUME StorageInv, NEW r \in Reqs, ReadPending(r)
  PROVE  StorageInv'
<1>1. req[r].pc \in {"chunkRead", "completeRead"} /\ UNCHANGED <<files, world, purge, arrived, history>>
  BY DEF ReadPending, At
<1>2. CASE Return(r)
  BY <1>1, <1>2, ReturnRequest, TypesKept, ReturnQuietly DEF files, world, history
<1>3. CASE ~ Return(r)
  <2>1. RequestOK(r) /\ SendOK(r)
    BY DEF StorageInv
  <2>2. PICK x \in Locals, i \in Ids : x = req[r] /\ i = req[r].id
    BY <1>1, MessageTypes, TableTypes
  <2>3. PICK t \in Months, sum \in BOOLEAN : t = rows[i].month /\ sum = rows[i].sum
    BY TableTypes
  <2>4. PICK step \in {"chunkStore", "list"} :
          /\ step = "list" <=> req[r].pc = "completeRead"
          /\ rows[i].st = "pending"
          /\ req' = [req EXCEPT ![r].pc = step, ![r].month = t, ![r].sum = sum]
    BY <1>1, <1>3, <2>2, <2>3 DEF ReadPending, At
  <2>5. [x EXCEPT !.pc = step, !.month = t, !.sum = sum] \in Locals
    BY ONLY x \in Locals, step \in {"chunkStore", "list"}, t \in Months, sum \in BOOLEAN
    DEF Locals, Steps
  <2>6. req' = [req EXCEPT ![r] = [x EXCEPT !.pc = step, !.month = t, !.sum = sum]]
    BY <2>2, <2>4
  <2>7. req'[r] = [x EXCEPT !.pc = step, !.month = t, !.sum = sum] /\ req' \in [Reqs -> Locals]
        /\ \A q \in Reqs \ {r} : Rests(q)
    BY <2>5, <2>6 DEF StorageInv, TypeOK, Rests
  <2>8. req'[r].pc = step /\ req'[r].m = req[r].m /\ req'[r].id = i /\ req'[r].month = t
        /\ req'[r].sum = sum
    BY <2>2, <2>7 DEF Locals
  <2>9. RowOK(i) /\ DeclaredOK(i) /\ FileOK(i) /\ Exists(i) /\ t <= now
    <3>1. RowOK(i) /\ DeclaredOK(i) /\ FileOK(i) /\ Exists(i)
      BY <2>4 DEF StorageInv, Exists
    <3>2. t \in Nat /\ rows[i].seen \in Nat /\ now \in Nat
      BY TableTypes
    <3>3. QED
      BY <2>3, <3>1, <3>2 DEF RowOK
  <2>10. RequestOK(r)'
    <3>1. UNCHANGED <<now, doomed>> /\ (Declared(i) => sum) /\ req[r].m \in Messages
      BY <1>1, <2>3, <2>9, MessageTypes DEF DeclaredOK, world, history
    <3>2. req[r].pc = "completeRead" => i = req[r].m.id /\ req[r].m.op = "complete"
      BY <2>1, <2>2 DEF RequestOK, Sending
    <3>3. QED
      BY <2>4, <2>8, <2>9, <3>1, <3>2 DEF RequestOK, Sending, Dated, Assembling, Declared
  <2>11. SendOK(r)' /\ (Sends(r)' => Sends(r))
    <3>1. UNCHANGED <<rows, purge, repeated>>
      BY <1>1 DEF files, history
    <3>2. i \notin repeated /\ purge.pc = "blobs" => \A k \in Months : <<i, k>> \in purge.todo => k < t
      BY <2>3, <2>9 DEF FileOK
    <3>3. Sends(r)' => Sends(r)
      BY <2>4, <2>8 DEF Sends, Sending, Dated, Assembling
    <3>4. QED
      <4>1. rows'[i].st = "pending" /\ rows'[i].month = t /\ (rows'[i].sum <=> sum)
        BY <2>3, <2>4, <3>1
      <4>2. i \notin repeated' /\ purge'.pc = "blobs" =>
              \A k \in Months : <<i, k>> \in purge'.todo => k < t
        BY <3>1, <3>2
      <4>3. req'[r].pc \in {"chunkStore", "list"}
        BY <2>4, <2>8
      <4>4. QED
        BY <2>8, <3>3, <4>1, <4>2, <4>3 DEF SendOK
  <2>12. QED
    BY <1>1, <2>2, <2>7, <2>8, <2>10, <2>11, TypesKept, NothingWritten, QuietStep
    DEF files, world, history
<1>4. QED
  BY <1>2, <1>3

\* A chunk and its row: nothing a ready row serves.
LEMMA ChunkSteps ==
  ASSUME StorageInv, NEW r \in Reqs, ChunkStore(r) \/ ChunkRow(r)
  PROVE  StorageInv'
<1>1. /\ req[r].pc \in {"chunkStore", "chunkRow"}
      /\ UNCHANGED <<rows, blobs, refs, avatar, app, expired, now, changes, purge, arrived, doomed, repeated>>
      /\ parts' \in {parts, parts \cup {<<req[r].id, req[r].month, req[r].m.index>>}}
      /\ chunks' \in {chunks, chunks \cup {<<req[r].id, req[r].m.index>>}}
      /\ Goto(r, "chunkRow") \/ Return(r)
  BY DEF ChunkStore, ChunkRow, At, world, history
<1>2. req[r].id \in Ids /\ req[r].m.index \in Indexes /\ req[r].month \in Months
  BY <1>1, MessageTypes, TableTypes
<1>3. parts' \subseteq Ids \X Months \X Indexes /\ chunks' \subseteq Ids \X Indexes
  BY <1>1, <1>2 DEF StorageInv, TypeOK
<1>4. req' \in [Reqs -> Locals] => TypeOK'
  BY <1>1, <1>3 DEF StorageInv, TypeOK
<1>5. QED
  BY <1>1, <1>4, NothingWritten, LeaveOrReturn

\* The numbers of the uploaded chunks are at most Parts in number.
LEMMA ChunksCounted ==
  ASSUME StorageInv, NEW id \in Ids
  PROVE  Cardinality({c[2] : c \in {c \in chunks : c[1] = id}}) \in 0..Parts
<1>1. IsFiniteSet(Indexes) /\ Cardinality(Indexes) = Parts
  <2>1. Parts \in Nat /\ Parts - 1 \in Int
    BY FilesAssumption
  <2>2. IsFiniteSet(0..(Parts - 1)) /\ Cardinality(0..(Parts - 1)) =
          IF 0 > Parts - 1 THEN 0 ELSE (Parts - 1) - 0 + 1
    BY <2>1, FS_Interval
  <2>3. QED
    BY <2>1, <2>2, FilesAssumption DEF Indexes
<1>2. {c[2] : c \in {c \in chunks : c[1] = id}} \subseteq Indexes
  BY DEF StorageInv, TypeOK
<1>3. /\ IsFiniteSet({c[2] : c \in {c \in chunks : c[1] = id}})
      /\ Cardinality({c[2] : c \in {c \in chunks : c[1] = id}}) <= Parts
  BY <1>1, <1>2, FS_Subset
<1>4. Cardinality({c[2] : c \in {c \in chunks : c[1] = id}}) \in Nat
  BY <1>3, FS_CardinalityType
<1>5. QED
  BY <1>3, <1>4, FilesAssumption

\* GetChunks: the completion knows how many parts it will combine.
LEMMA ListChunksStep ==
  ASSUME StorageInv, NEW r \in Reqs, ListChunks(r)
  PROVE  StorageInv'
<1>1. req[r].pc = "list" /\ UNCHANGED <<files, world, purge, arrived, history>>
  BY DEF ListChunks, At
<1>2. CASE Return(r)
  BY <1>1, <1>2, ReturnRequest, TypesKept, ReturnQuietly DEF files, world, history
<1>3. CASE ~ Return(r)
  <2>1. RequestOK(r) /\ SendOK(r)
    BY DEF StorageInv
  <2>2. PICK x \in Locals, i \in Ids : x = req[r] /\ i = req[r].id
    BY <1>1, MessageTypes, TableTypes
  <2>3. PICK n \in 0..Parts : n > 0 /\ req' = [req EXCEPT ![r].pc = "combine", ![r].n = n]
    BY <1>3, <2>2, ChunksCounted DEF ListChunks
  <2>4. [x EXCEPT !.pc = "combine", !.n = n] \in Locals
    BY ONLY x \in Locals, n \in 0..Parts DEF Locals, Steps
  <2>5. req' = [req EXCEPT ![r] = [x EXCEPT !.pc = "combine", !.n = n]]
    BY <2>2, <2>3
  <2>6. req'[r] = [x EXCEPT !.pc = "combine", !.n = n] /\ req' \in [Reqs -> Locals]
        /\ \A q \in Reqs \ {r} : Rests(q)
    BY <2>4, <2>5 DEF StorageInv, TypeOK, Rests
  <2>7. req'[r].pc = "combine" /\ req'[r].n = n /\ req'[r].m = req[r].m /\ req'[r].id = i
        /\ req'[r].month = req[r].month /\ req'[r].sum = req[r].sum
    BY <2>2, <2>6 DEF Locals
  <2>8. RequestOK(r)'
    BY <1>1, <2>1, <2>2, <2>3, <2>7 DEF RequestOK, Declared, Sending, Dated, Assembling, world
  <2>9. SendOK(r)' /\ (Sends(r)' => Sends(r))
    <3>1. UNCHANGED <<rows, purge, repeated>>
      BY <1>1 DEF files, history
    <3>2. Sends(r)' => Sends(r)
      BY <1>1, <2>7 DEF Sends, Sending, Dated, Assembling
    <3>3. QED
      BY <1>1, <2>1, <2>2, <2>7, <3>1, <3>2 DEF SendOK, Exists, Dated, Assembling
  <2>10. QED
    BY <1>1, <2>2, <2>6, <2>7, <2>8, <2>9, TypesKept, NothingWritten, QuietStep
    DEF files, world, history
<1>4. QED
  BY <1>2, <1>3

\* Reading the parts, and their sum compared if one was declared.
LEMMA CombineStep ==
  ASSUME StorageInv, NEW r \in Reqs, Combine(r)
  PROVE  StorageInv'
<1>1. req[r].pc = "combine" /\ UNCHANGED <<files, world, purge, arrived, history>>
  BY DEF Combine, At
<1>2. Return(r) \/ (Goto(r, "storeCombined") /\ (req[r].sum => req[r].n = Parts))
  BY DEF Combine, Proceed
<1>3. CASE Return(r)
  BY <1>1, <1>3, ReturnRequest, TypesKept, ReturnQuietly DEF files, world, history
<1>4. CASE Goto(r, "storeCombined") /\ (req[r].sum => req[r].n = Parts)
  <2>1. RequestOK(r) /\ SendOK(r) /\ "storeCombined" \in Steps
    BY DEF StorageInv, Steps
  <2>2. /\ req'[r].pc = "storeCombined" /\ req'[r].m = req[r].m /\ req'[r].id = req[r].id
        /\ req'[r].month = req[r].month /\ req'[r].sum = req[r].sum /\ req'[r].n = req[r].n /\ TypeOK'
    BY <1>1, <1>4, <2>1, GotoRequest, TypesKept
  <2>3. RequestOK(r)'
    BY <1>1, <1>4, <2>1, <2>2 DEF RequestOK, Declared, Sending, Dated, Assembling, world
  <2>4. SendOK(r)' /\ (Sends(r)' => Sends(r))
    <3>1. UNCHANGED <<rows, purge, repeated>>
      BY <1>1 DEF files, history
    <3>2. Sends(r)' => Sends(r)
      BY <1>1, <2>2 DEF Sends, Sending, Dated, Assembling
    <3>3. QED
      BY <1>1, <2>1, <2>2, <3>1, <3>2 DEF SendOK, Exists, Dated, Assembling
  <2>5. QED
    BY <1>1, <1>4, <2>1, <2>2, <2>3, <2>4, GoOn DEF files, world, history
<1>5. QED
  BY <1>2, <1>3, <1>4

\* The chunks and their rows go; the content stored stays.
LEMMA DropSteps ==
  ASSUME StorageInv, NEW r \in Reqs, DropParts(r) \/ DropChunks(r)
  PROVE  StorageInv'
<1>1. PICK step \in {"dropChunks", "ready"} :
        /\ req[r].pc \in {"dropParts", "dropChunks"} /\ Goto(r, step)
        /\ UNCHANGED <<rows, blobs, world, purge, arrived, history>>
        /\ parts' \subseteq parts /\ chunks' \subseteq chunks
  BY DEF DropParts, DropChunks, At
<1>2. RequestOK(r) /\ SendOK(r) /\ step \in Steps
  BY DEF StorageInv, Steps
<1>3. /\ req'[r].pc = step /\ req'[r].m = req[r].m /\ req'[r].id = req[r].id
      /\ req'[r].month = req[r].month /\ req'[r].sum = req[r].sum /\ req'[r].n = req[r].n
      /\ req' \in [Reqs -> Locals]
  BY <1>1, <1>2, GotoRequest
<1>4. UNCHANGED <<rows, blobs, now, purge, doomed, repeated>>
  BY <1>1 DEF world, history
<1>5. TypeOK'
  <2>1. parts' \subseteq Ids \X Months \X Indexes /\ chunks' \subseteq Ids \X Indexes
    BY <1>1 DEF StorageInv, TypeOK
  <2>2. QED
    BY <1>1, <1>3, <2>1 DEF StorageInv, TypeOK, world, history
<1>6. RequestOK(r)'
  BY <1>1, <1>2, <1>3, <1>4 DEF RequestOK, Declared, Sending, Dated, Assembling
<1>7. SendOK(r)' /\ (Sends(r)' => Sends(r))
  <2>1. Sends(r)' => Sends(r)
    BY <1>1, <1>3 DEF Sends, Sending, Dated, Assembling
  <2>2. QED
    BY <1>1, <1>2, <1>3, <1>4, <2>1 DEF SendOK, Kept, Exists, Dated, Assembling
<1>8. QED
  BY <1>1, <1>2, <1>4, <1>5, <1>6, <1>7, GoOn

\* UpdateStatus: the row made ready is the row that was read, and serves what
\* was combined.
LEMMA ReadyStep ==
  ASSUME StorageInv, NEW r \in Reqs, Ready(r)
  PROVE  StorageInv'
<1>1. /\ req[r].pc = "ready"
      /\ UNCHANGED <<chunks, blobs, parts, refs, avatar, app, expired, now, changes, purge, arrived,
                     doomed, repeated>>
  BY DEF Ready, At, world, history
<1>2. PICK i \in Ids, t \in Months, n \in 0..Parts : i = req[r].id /\ t = req[r].month /\ n = req[r].n
  BY <1>1, MessageTypes, TableTypes
<1>3. RequestOK(r) /\ SendOK(r)
  BY DEF StorageInv
<1>4. Sends(r)
  BY <1>1, <1>3 DEF Sends, RequestOK, Writes, Sending, Dated, Assembling
<1>5. CASE Exists(i)
  <2>1. rows' = [rows EXCEPT ![i].st = "ready"] /\ Goto(r, "announce")
    BY <1>2, <1>5 DEF Ready, Proceed
  <2>2. PICK x \in Rows : x = rows[i]
    BY TableTypes
  <2>3. [x EXCEPT !.st = "ready"] \in Rows
    BY ONLY x \in Rows DEF Rows
  <2>4. rows' = [rows EXCEPT ![i] = [x EXCEPT !.st = "ready"]]
    BY <2>1, <2>2
  <2>5. /\ rows' \in [Ids -> Rows] /\ \A id \in Ids \ {i} : rows'[id] = rows[id]
        /\ rows'[i] = [x EXCEPT !.st = "ready"]
    BY <2>3, <2>4 DEF StorageInv, TypeOK
  <2>6. /\ rows'[i].st = "ready" /\ rows'[i].month = rows[i].month /\ rows'[i].sum = rows[i].sum
        /\ rows'[i].seen = rows[i].seen
    BY <2>2, <2>5 DEF Rows
  <2>7. /\ req' \in [Reqs -> Locals] /\ \A q \in Reqs \ {r} : Rests(q)
        /\ req'[r].pc = "announce" /\ req'[r].id = i /\ req'[r].m = req[r].m
    <3>1. "announce" \in Steps
      BY DEF Steps
    <3>2. QED
      BY <1>2, <2>1, <3>1, GotoRequest
  <2>8. TypeOK'
    BY <1>1, <2>5, <2>7 DEF StorageInv, TypeOK
  <2>9. RequestOK(r)' /\ SendOK(r)' /\ ~ Sends(r)'
    BY <1>1, <1>2, <2>7, NotSending, MessageTypes DEF RequestOK, Sending, Dated, Assembling
  <2>10. RowOK(i) /\ DeclaredOK(i) /\ FileOK(i)
    BY DEF StorageInv
  <2>11. RowOK(i)' /\ DeclaredOK(i)'
    BY <1>1, <1>5, <2>6, <2>10 DEF RowOK, DeclaredOK, WholeOrOpen, Declared, Exists
  <2>12. FileOK(i)'
    <3>1. i \notin repeated =>
            rows[i].month = t /\ (rows[i].sum <=> req[r].sum) /\ Kept(i, t, n)
      BY <1>1, <1>2, <1>3, <1>4, <1>5 DEF SendOK, Assembling
    <3>2. n \in 1..Parts /\ (req[r].sum => n = Parts)
      BY <1>1, <1>2, <1>3, FilesAssumption DEF RequestOK, Assembling
    <3>3. QED
      BY <1>1, <1>5, <2>6, <2>10, <3>1, <3>2 DEF FileOK, Kept, Path, Exists
  <2>13. QED
    BY <1>1, <1>2, <1>4, <2>5, <2>7, <2>8, <2>9, <2>11, <2>12, OwnStep
<1>6. CASE ~ Exists(i)
  <2>1. Return(r) /\ rows' = rows
    BY <1>2, <1>6 DEF Ready, Proceed
  <2>2. QED
    BY <1>1, <2>1, ReturnRequest, TypesKept, ReturnQuietly DEF files, world, history
<1>7. QED
  BY <1>5, <1>6

-----------------------------------------------------------------------------
(* Deletion, errors, crashes. *)

\* DELETE FROM storage leaves rows as they were or none.
LEMMA RemovedRows ==
  ASSUME StorageInv, NEW S, RemoveRows(S)
  PROVE  /\ rows' \in [Ids -> Rows] /\ avatar' \in [Users -> Ids \cup {NoId}]
         /\ \A id \in Ids : rows'[id].st = "none" \/ rows'[id] = rows[id]
<1>1. \A id : NoRow(id) \in Rows /\ NoRow(id).st = "none"
  <2>1. (CHOOSE u \in Users : TRUE) \in Users
    BY FilesAssumption
  <2>2. QED
    BY <2>1, FilesAssumption DEF NoRow, Rows, Months
<1>2. QED
  BY <1>1 DEF RemoveRows, StorageInv, TypeOK

\* A step that only removes rows shrinks.
LEMMA RowsRemoved ==
  ASSUME StorageInv, NEW S, RemoveRows(S), UNCHANGED <<blobs, now, repeated>>, doomed \subseteq doomed',
         purge'.pc = "blobs" => purge' = purge
  PROVE  Shrinks
<1>1. now \in Nat
  BY TableTypes
<1>2. QED
  BY <1>1, RemovedRows DEF Shrinks

\* A step that only removes content of doomed files shrinks.
LEMMA BlobsRemoved ==
  ASSUME StorageInv, NEW i \in Ids, NEW t \in Months, Remove(i, t) \/ UNCHANGED blobs,
         i \in doomed \/ (purge.pc = "blobs" /\ <<i, t>> \in purge.todo),
         UNCHANGED <<rows, now, repeated, doomed>>,
         purge'.pc = "blobs" => purge.pc = "blobs" /\ purge'.todo \subseteq purge.todo
  PROVE  Shrinks /\ blobs' \in [Ids \X Months -> Blobs]
<1>1. now \in Nat /\ NoBlob \in Blobs /\ blobs \in [Ids \X Months -> Blobs]
  BY TableTypes, BlobFacts DEF StorageInv, TypeOK
<1>2. blobs' = [blobs EXCEPT ![<<i, t>>] = NoBlob] \/ blobs' = blobs
  BY DEF Remove
<1>3. /\ blobs' \in [Ids \X Months -> Blobs]
      /\ \A id \in Ids, k \in Months :
           \/ blobs'[<<id, k>>] = blobs[<<id, k>>]
           \/ id = i /\ k = t /\ blobs'[<<id, k>>] = NoBlob
  BY <1>1, <1>2
<1>4. QED
  BY <1>1, <1>3 DEF Shrinks

\* Service.Delete dooms the file before anything of it goes.
LEMMA DeleteReadStep ==
  ASSUME StorageInv, NEW r \in Reqs, DeleteRead(r)
  PROVE  StorageInv'
<1>1. req[r].pc = "deleteRead" /\ UNCHANGED <<files, world, purge, arrived, repeated>>
  BY DEF DeleteRead, At
<1>2. CASE Return(r) /\ UNCHANGED doomed
  BY <1>1, <1>2, ReturnRequest, TypesKept, ReturnQuietly DEF files, world, history
<1>3. CASE ~ (Return(r) /\ UNCHANGED doomed)
  <2>1. PICK x \in Locals, i \in Ids : x = req[r] /\ i = req[r].id
    BY <1>1, MessageTypes, TableTypes
  <2>2. PICK t \in Months :
          /\ req' = [req EXCEPT ![r].pc = "deleteBlob", ![r].month = t]
          /\ doomed' = doomed \cup {i}
    BY <1>3, <2>1, TableTypes DEF DeleteRead
  <2>3. [x EXCEPT !.pc = "deleteBlob", !.month = t] \in Locals
    BY ONLY x \in Locals, t \in Months DEF Locals, Steps
  <2>4. req' = [req EXCEPT ![r] = [x EXCEPT !.pc = "deleteBlob", !.month = t]]
    BY <2>1, <2>2
  <2>5. req'[r] = [x EXCEPT !.pc = "deleteBlob", !.month = t] /\ req' \in [Reqs -> Locals]
        /\ \A q \in Reqs \ {r} : Rests(q)
    BY <2>3, <2>4 DEF StorageInv, TypeOK, Rests
  <2>6. req'[r].pc = "deleteBlob" /\ req'[r].m = req[r].m /\ req'[r].id = i
    BY <2>1, <2>5 DEF Locals
  <2>7. TypeOK'
    BY <1>1, <2>2, <2>5 DEF StorageInv, TypeOK, files, world
  <2>8. RequestOK(r)' /\ req'[r].pc \notin Sending
    BY <1>1, <2>2, <2>6, MessageTypes DEF RequestOK, Sending, Dated, Assembling
  <2>9. QED
    BY <1>1, <2>2, <2>5, <2>7, <2>8, NothingWritten, LeaveStep DEF files, world
<1>4. QED
  BY <1>2, <1>3

\* The blob of a doomed file, then its row.
LEMMA DeleteSteps ==
  ASSUME StorageInv, NEW r \in Reqs, DeleteBlob(r) \/ DeleteRow(r)
  PROVE  StorageInv'
<1>1. CASE DeleteBlob(r)
  <2>1. /\ req[r].pc = "deleteBlob" /\ TryRemove(req[r].id, req[r].month) /\ Goto(r, "deleteRow")
        /\ UNCHANGED <<rows, chunks, parts, refs, avatar, app, expired, now, changes, purge, arrived,
                       doomed, repeated>>
    BY <1>1 DEF DeleteBlob, At, world, history
  <2>2. PICK i \in Ids, t \in Months : i = req[r].id /\ t = req[r].month /\ i \in doomed
    BY <2>1, MessageTypes, TableTypes DEF StorageInv, RequestOK
  <2>3. Shrinks /\ blobs' \in [Ids \X Months -> Blobs]
    BY <2>1, <2>2, BlobsRemoved DEF TryRemove
  <2>4. req' \in [Reqs -> Locals] => TypeOK'
    BY <2>1, <2>3 DEF StorageInv, TypeOK
  <2>5. QED
    BY <2>1, <2>3, <2>4, LeaveOrReturn
<1>2. CASE DeleteRow(r)
  <2>1. /\ req[r].pc = "deleteRow" /\ RemoveRows({req[r].id})
        /\ Goto(r, "announce") \/ Return(r)
        /\ UNCHANGED <<chunks, blobs, parts, refs, app, expired, now, changes, purge, arrived,
                       doomed, repeated>>
    BY <1>2 DEF DeleteRow, At, Proceed, history
  <2>2. Shrinks
    BY <2>1, RowsRemoved
  <2>3. req' \in [Reqs -> Locals] => TypeOK'
    BY <2>1, RemovedRows DEF StorageInv, TypeOK
  <2>4. QED
    BY <2>1, <2>2, <2>3, LeaveOrReturn
<1>3. QED
  BY <1>1, <1>2

\* DeleteAccount: the avatar pointer, and at the end the rows.
LEMMA EraseSteps ==
  ASSUME StorageInv, NEW r \in Reqs, ClearAvatar(r) \/ Erase(r)
  PROVE  StorageInv'
<1>1. CASE ClearAvatar(r)
  <2>1. /\ req[r].pc = "clearAvatar" /\ avatar' = [avatar EXCEPT ![req[r].m.user] = NoId]
        /\ Goto(r, "listPersonal")
        /\ UNCHANGED <<rows, chunks, blobs, parts, refs, app, expired, now, changes, purge, arrived,
                       doomed, repeated>>
    BY <1>1 DEF ClearAvatar, At, files, history
  <2>2. req' \in [Reqs -> Locals] => TypeOK'
    BY <2>1 DEF StorageInv, TypeOK
  <2>3. QED
    BY <2>1, <2>2, NothingWritten, LeaveOrReturn
<1>2. CASE Erase(r)
  <2>1. /\ req[r].pc = "erase" /\ RemoveRows(Personal(req[r].m.user)) /\ Return(r)
        /\ doomed' = doomed \cup Personal(req[r].m.user)
        /\ UNCHANGED <<chunks, blobs, parts, refs, app, expired, now, changes, purge, arrived, repeated>>
    BY <1>2 DEF Erase, At
  <2>2. Shrinks
    BY <2>1, RowsRemoved
  <2>3. doomed' \subseteq Ids
    BY <2>1 DEF StorageInv, TypeOK, Personal
  <2>4. req' \in [Reqs -> Locals] => TypeOK'
    BY <2>1, <2>3, RemovedRows DEF StorageInv, TypeOK
  <2>5. QED
    BY <2>1, <2>2, <2>4, LeaveOrReturn
<1>3. QED
  BY <1>1, <1>2

\* DeletePersonalBlobs: the files listed are doomed, and their blobs go.
LEMMA PersonalSteps ==
  ASSUME StorageInv, NEW r \in Reqs, ListPersonal(r) \/ DropPersonal(r)
  PROVE  StorageInv'
<1>1. PICK x \in Locals : x = req[r]
  BY TableTypes
<1>2. ASSUME NEW todo \in SUBSET (Ids \X Months), req[r].pc # "idle",
             req' = [req EXCEPT ![r].pc = "dropPersonal", ![r].todo = todo],
             \A p \in todo : p[1] \in doomed',
             Shrinks, purge' = purge, req' \in [Reqs -> Locals] => TypeOK'
      PROVE  StorageInv'
  <2>1. [x EXCEPT !.pc = "dropPersonal", !.todo = todo] \in Locals
    BY ONLY x \in Locals, todo \in SUBSET (Ids \X Months) DEF Locals, Steps
  <2>2. req' = [req EXCEPT ![r] = [x EXCEPT !.pc = "dropPersonal", !.todo = todo]]
    BY <1>1, <1>2
  <2>3. req'[r] = [x EXCEPT !.pc = "dropPersonal", !.todo = todo] /\ req' \in [Reqs -> Locals]
        /\ \A q \in Reqs \ {r} : Rests(q)
    BY <2>1, <2>2 DEF StorageInv, TypeOK, Rests
  <2>4. req'[r].pc = "dropPersonal" /\ req'[r].m = req[r].m /\ req'[r].id = req[r].id
        /\ req'[r].todo = todo
    BY <1>1, <2>3 DEF Locals
  <2>5. RequestOK(r)' /\ req'[r].pc \notin Sending
    BY <1>2, <2>4, MessageTypes DEF RequestOK, Sending, Dated, Assembling
  <2>6. QED
    BY <1>2, <2>3, <2>5, LeaveStep
<1>3. CASE ListPersonal(r)
  <2>1. PICK mine : mine = Personal(req[r].m.user)
    OBVIOUS
  <2>2. /\ req[r].pc = "listPersonal" /\ doomed' = doomed \cup mine
        /\ req' = [req EXCEPT ![r].pc = "dropPersonal", ![r].todo = {Path(id) : id \in mine}]
        /\ UNCHANGED <<files, world, purge, arrived, repeated>>
    BY <1>3, <2>1 DEF ListPersonal, At
  <2>3. mine \subseteq Ids
    BY <2>1 DEF Personal
  <2>4. {Path(id) : id \in mine} \in SUBSET (Ids \X Months)
    BY <2>3, TableTypes DEF Path
  <2>5. \A p \in {Path(id) : id \in mine} : p[1] \in doomed'
    BY <2>2, <2>3 DEF Path
  <2>6. req' \in [Reqs -> Locals] => TypeOK'
    BY <2>2, <2>3 DEF StorageInv, TypeOK, files, world
  <2>7. Shrinks
    BY <2>2, NothingWritten DEF files, world
  <2>8. QED
    BY <1>2, <2>2, <2>4, <2>5, <2>6, <2>7
<1>4. CASE DropPersonal(r)
  <2>1. /\ req[r].pc = "dropPersonal" /\ x.todo \in SUBSET (Ids \X Months) /\ x.todo = req[r].todo
        /\ UNCHANGED <<rows, chunks, parts, refs, avatar, app, expired, now, changes, purge, arrived,
                       doomed, repeated>>
        /\ \A p \in req[r].todo : p[1] \in doomed
    BY <1>1, <1>4 DEF DropPersonal, At, world, history, StorageInv, RequestOK, Locals
  <2>2. CASE Goto(r, "erase") /\ UNCHANGED blobs
    <3>1. req' \in [Reqs -> Locals] => TypeOK'
      BY <2>1, <2>2 DEF StorageInv, TypeOK
    <3>2. QED
      BY <2>1, <2>2, <3>1, NothingWritten, LeaveOrReturn
  <2>3. CASE ~ (Goto(r, "erase") /\ UNCHANGED blobs)
    <3>1. PICK p \in req[r].todo :
            Remove(p[1], p[2]) /\ req' = [req EXCEPT ![r].todo = @ \ {p}]
      BY <1>4, <2>3 DEF DropPersonal
    <3>2. PICK i \in Ids, t \in Months : i = p[1] /\ t = p[2]
      BY <2>1, <3>1
    <3>3. Shrinks /\ blobs' \in [Ids \X Months -> Blobs]
      BY <2>1, <3>1, <3>2, BlobsRemoved
    <3>4. req' \in [Reqs -> Locals] => TypeOK'
      BY <2>1, <3>3 DEF StorageInv, TypeOK
    <3>5. x.todo \ {p} \in SUBSET (Ids \X Months) /\ \A o \in x.todo \ {p} : o[1] \in doomed'
      BY <2>1
    <3>6. req' = [req EXCEPT ![r].pc = "dropPersonal", ![r].todo = x.todo \ {p}]
      <4>1. req' = [req EXCEPT ![r] = [x EXCEPT !.todo = x.todo \ {p}]]
        BY <1>1, <3>1
      <4>2. [x EXCEPT !.todo = x.todo \ {p}] = [x EXCEPT !.pc = "dropPersonal", !.todo = x.todo \ {p}]
        BY <1>1, <2>1 DEF Locals
      <4>3. QED
        BY <1>1, <4>1, <4>2
    <3>7. QED
      BY <1>2, <2>1, <3>3, <3>4, <3>5, <3>6
  <2>4. QED
    BY <2>2, <2>3
<1>5. QED
  BY <1>3, <1>4

\* A failed statement; only Create goes on, to discard the content it stored.
LEMMA DatabaseErrorStep ==
  ASSUME StorageInv, NEW r \in Reqs, DatabaseError(r)
  PROVE  StorageInv'
<1>1. /\ UNCHANGED <<files, world, purge, arrived, history>>
      /\ Return(r) \/ (req[r].pc = "create" /\ req[r].m.op # "init" /\ Goto(r, "discard"))
  BY DEF DatabaseError, Proceed, At
<1>2. CASE Return(r)
  BY <1>1, <1>2, ReturnRequest, TypesKept, ReturnQuietly DEF files, world, history
<1>3. CASE req[r].pc = "create" /\ req[r].m.op # "init" /\ Goto(r, "discard")
  <2>1. RequestOK(r) /\ SendOK(r) /\ "discard" \in Steps
    BY DEF StorageInv, Steps
  <2>2. /\ req'[r].pc = "discard" /\ req'[r].m = req[r].m /\ req'[r].id = req[r].id
        /\ req'[r].month = req[r].month /\ TypeOK'
    BY <1>1, <1>3, <2>1, GotoRequest, TypesKept
  <2>3. UNCHANGED <<rows, blobs, now, purge, doomed, repeated>>
    BY <1>1 DEF files, world, history
  <2>4. RequestOK(r)' /\ SendOK(r)' /\ (Sends(r)' => Sends(r))
    BY <1>3, <2>1, <2>2, <2>3 DEF RequestOK, SendOK, Sends, Sending, Dated, Assembling
  <2>5. QED
    BY <1>3, <2>1, <2>2, <2>3, <2>4, GoOn
<1>4. QED
  BY <1>1, <1>2, <1>3

\* A failed backend call removes, or breaks off, at most the request's own
\* content or chunk.
LEMMA BackendErrorStep ==
  ASSUME StorageInv, NEW r \in Reqs, BackendError(r)
  PROVE  StorageInv'
<1>1. /\ Return(r) /\ UNCHANGED <<rows, chunks, world, purge, arrived, history>>
      /\ parts' \subseteq parts
  BY DEF BackendError, At
<1>2. /\ req' \in [Reqs -> Locals] /\ \A q \in Reqs \ {r} : Rests(q)
      /\ RequestOK(r)' /\ SendOK(r)' /\ ~ Sends(r)'
  BY <1>1, ReturnRequest
<1>3. parts' \subseteq Ids \X Months \X Indexes
  BY <1>1 DEF StorageInv, TypeOK
<1>4. CASE UNCHANGED blobs
  <2>1. TypeOK'
    BY <1>1, <1>2, <1>3, <1>4 DEF StorageInv, TypeOK, world, history
  <2>2. QED
    BY <1>1, <1>4, <2>1, ReturnQuietly DEF world, history
<1>5. CASE ~ UNCHANGED blobs
  <2>1. req[r].pc \in {"copy", "copyCombined"}
    BY <1>5 DEF BackendError, At
  <2>2. Sends(r)
    BY <2>1 DEF StorageInv, RequestOK, Sends, Writes, Sending, Dated, Assembling
  <2>3. PICK i \in Ids, t \in Months : i = req[r].id /\ t = req[r].month
    BY <2>1, MessageTypes, TableTypes
  <2>4. PICK old \in Blobs : old = blobs[<<i, t>>]
    BY TableTypes
  <2>5. PICK torn : torn = [n |-> old.n, by |-> old.by \ {r}, cut |-> TRUE]
    OBVIOUS
  <2>6. torn \in Blobs /\ torn.cut /\ NoBlob \in Blobs
    BY <2>5, BlobFacts DEF Blobs
  <2>7. blobs' = [blobs EXCEPT ![<<i, t>>] = NoBlob] \/ blobs' = [blobs EXCEPT ![<<i, t>>] = torn]
    BY <1>5, <2>3, <2>4, <2>5 DEF BackendError, Remove
  <2>8. PICK b \in {NoBlob, torn} : blobs' = [blobs EXCEPT ![<<i, t>>] = b]
    BY <2>7
  <2>9. b \in Blobs /\ WholeOrOpen(b)
    BY <2>6, <2>8 DEF WholeOrOpen
  <2>10. QED
    BY <1>1, <1>2, <1>3, <2>2, <2>3, <2>8, <2>9, OwnBlob
<1>6. QED
  BY <1>4, <1>5

\* Nobody is left after a crash; the files that were being written are torn, and
\* no file that a ready row serves is among them, unless it was sent again.
LEMMA CrashStep ==
  ASSUME StorageInv, Crash
  PROVE  StorageInv'
<1>1. /\ req' = [r \in Reqs |-> IdleReq] /\ purge' = IdlePurge
      /\ UNCHANGED <<rows, chunks, parts, refs, avatar, app, expired, now, changes, arrived,
                     doomed, repeated>>
  BY DEF Crash, world, history
<1>2. purge'.pc = "idle" /\ purge' \in [pc: PurgeSteps, todo: SUBSET (Ids \X Months)]
  BY <1>1 DEF IdlePurge, PurgeSteps
<1>3. ASSUME NEW p \in Ids \X Months
      PROVE  /\ blobs'[p] \in Blobs
             /\ blobs[p].by = {} => blobs'[p] = blobs[p]
             /\ WholeOrOpen(blobs[p]) => WholeOrOpen(blobs'[p])
  <2>1. PICK old \in Blobs : old = blobs[p]
    BY DEF StorageInv, TypeOK
  <2>2. PICK torn : torn = [n |-> old.n, by |-> {}, cut |-> TRUE]
    OBVIOUS
  <2>3. torn \in Blobs /\ torn.cut
    BY <2>2 DEF Blobs
  <2>4. blobs'[p] = IF old.by = {} THEN old ELSE torn
    BY <2>1, <2>2 DEF Crash
  <2>5. QED
    BY <2>1, <2>3, <2>4 DEF WholeOrOpen
<1>4. TypeOK'
  <2>1. blobs' \in [Ids \X Months -> Blobs]
    BY <1>3 DEF Crash
  <2>2. QED
    BY <1>1, <1>2, <2>1, IdleType DEF StorageInv, TypeOK
<1>5. ASSUME NEW r \in Reqs
      PROVE  RequestOK(r)' /\ SendOK(r)' /\ ~ Sends(r)'
  <2>1. req'[r].pc = "idle"
    BY <1>1, IdleType
  <2>2. QED
    BY <2>1, NotSending DEF RequestOK, Sending, Dated, Assembling
<1>6. ASSUME NEW id \in Ids
      PROVE  RowOK(id)' /\ DeclaredOK(id)' /\ FileOK(id)'
  <2>1. RowOK(id) /\ DeclaredOK(id) /\ FileOK(id) /\ Path(id) \in Ids \X Months
    BY TableTypes DEF StorageInv, Path
  <2>2. RowOK(id)'
    BY <1>1, <2>1 DEF RowOK, Exists
  <2>3. DeclaredOK(id)'
    <3>1. Declared(id) => \A k \in Months : WholeOrOpen(blobs'[<<id, k>>])
      BY <1>3, <2>1 DEF DeclaredOK
    <3>2. QED
      BY <1>1, <2>1, <3>1 DEF DeclaredOK, WholeOrOpen, Declared, Exists
  <2>4. FileOK(id)'
    <3>1. \A n \in 1..Parts : n \in 0..Parts
      OBVIOUS
    <3>2. blobs[Path(id)].by = {} => blobs'[Path(id)] = blobs[Path(id)]
      BY <1>3, <2>1
    <3>3. id \notin repeated /\ rows[id].st = "ready" => blobs'[Path(id)] = blobs[Path(id)]
      BY <2>1, <3>1, <3>2, BlobFacts DEF FileOK
    <3>4. Path(id)' = Path(id)
      BY <1>1 DEF Path
    <3>5. QED
      BY <1>1, <1>2, <2>1, <3>3, <3>4 DEF FileOK
  <2>5. QED
    BY <2>2, <2>3, <2>4
<1>7. QED
  BY <1>2, <1>4, <1>5, <1>6 DEF StorageInv, Apart, PurgeOK

-----------------------------------------------------------------------------
(* The purge scheduler, time, and the rest of the system. *)

\* A step that shrinks and in which every request rests.
LEMMA WorldStep ==
  ASSUME StorageInv, TypeOK', Shrinks, req' = req, PurgeOK'
  PROVE  StorageInv'
<1>1. \A q \in Reqs : RequestOK(q)' /\ SendOK(q)'
  BY ShrinkRequest DEF Rests
<1>2. \A p, q \in Reqs : p # q => Apart(p, q)'
  BY DEF StorageInv, Apart, Sends, Shrinks
<1>3. QED
  BY <1>1, <1>2, ShrinkFiles DEF StorageInv

\* Selections, markings and errors, which remove nothing.
LEMMA PurgeReadSteps ==
  ASSUME StorageInv, SelectApps \/ PurgeApplication \/ MarkReferenced \/ PurgeError
  PROVE  StorageInv'
<1>1. /\ UNCHANGED <<chunks, blobs, parts, refs, avatar, expired, now, changes, req, arrived, doomed,
                     repeated>>
      /\ app' \in {app, "gone"} /\ purge'.pc \in PurgeSteps \ {"blobs", "cleanBlobs"}
      /\ purge' \in [pc: PurgeSteps, todo: SUBSET (Ids \X Months)]
  <2>1. purge \in [pc: PurgeSteps, todo: SUBSET (Ids \X Months)]
    BY DEF StorageInv, TypeOK
  <2>2. CASE SelectApps
    <3>1. PICK step \in {"listApp", "mark"} : PurgeGoto(step)
      BY <2>2 DEF SelectApps
    <3>2. QED
      BY <2>1, <2>2, <3>1 DEF SelectApps, PurgeGoto, PurgeSteps, files, world, history
  <2>3. CASE PurgeApplication
    BY <2>1, <2>3 DEF PurgeApplication, PurgeGoto, PurgeSteps, files, history
  <2>4. CASE MarkReferenced
    BY <2>1, <2>4 DEF MarkReferenced, PurgeGoto, PurgeSteps, world, history
  <2>5. CASE PurgeError
    <3>1. PICK step \in {"idle", "mark"} : purge' = [pc |-> step, todo |-> {}]
      BY <2>5 DEF PurgeError
    <3>2. QED
      BY <2>5, <3>1 DEF PurgeError, PurgeSteps, files, world, history
  <2>6. QED
    BY <2>2, <2>3, <2>4, <2>5
<1>2. rows' \in [Ids -> Rows]
      /\ \A id \in Ids : /\ rows'[id].st = rows[id].st /\ rows'[id].month = rows[id].month
                         /\ rows'[id].sum = rows[id].sum /\ rows'[id].seen \in {rows[id].seen, now}
  <2>1. CASE rows' = rows
    BY <2>1 DEF StorageInv, TypeOK
  <2>2. CASE MarkReferenced
    <3>1. ASSUME NEW id \in Ids
          PROVE  /\ [rows[id] EXCEPT !.seen = now] \in Rows
                 /\ [rows[id] EXCEPT !.seen = now].st = rows[id].st
                 /\ [rows[id] EXCEPT !.seen = now].month = rows[id].month
                 /\ [rows[id] EXCEPT !.seen = now].sum = rows[id].sum
                 /\ [rows[id] EXCEPT !.seen = now].seen = now
      <4>1. PICK x \in Rows, t \in Months : x = rows[id] /\ t = now
        BY TableTypes
      <4>2. /\ [x EXCEPT !.seen = t] \in Rows /\ [x EXCEPT !.seen = t].st = x.st
            /\ [x EXCEPT !.seen = t].month = x.month /\ [x EXCEPT !.seen = t].sum = x.sum
            /\ [x EXCEPT !.seen = t].seen = t
        BY ONLY x \in Rows, t \in Months DEF Rows
      <4>3. QED
        BY <4>1, <4>2
    <3>2. QED
      BY <2>2, <3>1, TableTypes DEF MarkReferenced
  <2>3. QED
    BY <2>1, <2>2 DEF SelectApps, PurgeApplication, PurgeError, files
<1>3. TypeOK'
  BY <1>1, <1>2 DEF StorageInv, TypeOK, AppStates
<1>4. Shrinks
  <2>1. now \in Nat
    BY TableTypes
  <2>2. QED
    BY <1>1, <1>2, <2>1 DEF Shrinks
<1>5. QED
  BY <1>1, <1>3, <1>4, WorldStep DEF PurgeOK

\* CleanupApplicationStorage: the files listed are doomed; blobs, then rows.
LEMMA PurgeAppSteps ==
  ASSUME StorageInv, ListApp \/ CleanBlobs \/ CleanRows
  PROVE  StorageInv'
<1>1. purge \in [pc: PurgeSteps, todo: SUBSET (Ids \X Months)] /\ PurgeOK /\ now \in Nat
  BY TableTypes DEF StorageInv, TypeOK
<1>2. CASE ListApp
  <2>1. PICK S : S = AppFiles
    OBVIOUS
  <2>2. /\ purge' = [pc |-> "cleanBlobs", todo |-> {Path(id) : id \in S}]
        /\ doomed' = doomed \cup S
        /\ UNCHANGED <<rows, chunks, blobs, parts, refs, avatar, app, expired, now, changes, req,
                       arrived, repeated>>
    BY <1>2, <2>1 DEF ListApp, files, world
  <2>3. S \subseteq Ids
    BY <2>1 DEF AppFiles
  <2>4. {Path(id) : id \in S} \in SUBSET (Ids \X Months)
        /\ \A p \in {Path(id) : id \in S} : p[1] \in doomed'
    BY <2>2, <2>3, TableTypes DEF Path
  <2>5. purge' \in [pc: PurgeSteps, todo: SUBSET (Ids \X Months)]
    BY <2>2, <2>4 DEF PurgeSteps
  <2>6. TypeOK'
    BY <2>2, <2>3, <2>5 DEF StorageInv, TypeOK
  <2>7. Shrinks /\ PurgeOK'
    BY <1>1, <2>2, <2>4 DEF Shrinks, PurgeOK
  <2>8. QED
    BY <2>2, <2>6, <2>7, WorldStep
<1>3. CASE CleanBlobs
  <2>1. /\ purge.pc = "cleanBlobs"
        /\ UNCHANGED <<rows, chunks, parts, refs, avatar, app, expired, now, changes, req, arrived,
                       doomed, repeated>>
    BY <1>3 DEF CleanBlobs, PurgeAt, world, history
  <2>2. CASE PurgeGoto("cleanRows") /\ UNCHANGED blobs
    <3>1. purge'.pc = "cleanRows" /\ purge' \in [pc: PurgeSteps, todo: SUBSET (Ids \X Months)]
      BY <1>1, <2>2 DEF PurgeGoto, PurgeSteps
    <3>2. TypeOK'
      BY <2>1, <2>2, <3>1 DEF StorageInv, TypeOK
    <3>3. Shrinks /\ PurgeOK'
      BY <1>1, <2>1, <2>2, <3>1 DEF Shrinks, PurgeOK
    <3>4. QED
      BY <2>1, <3>2, <3>3, WorldStep
  <2>3. CASE ~ (PurgeGoto("cleanRows") /\ UNCHANGED blobs)
    <3>1. PICK p \in purge.todo :
            Remove(p[1], p[2]) /\ purge' = [purge EXCEPT !.todo = @ \ {p}]
      BY <1>3, <2>3 DEF CleanBlobs
    <3>2. PICK i \in Ids, t \in Months : i = p[1] /\ t = p[2] /\ i \in doomed
      BY <1>1, <2>1, <3>1 DEF PurgeOK
    <3>3. /\ purge'.pc = "cleanBlobs" /\ purge'.todo \subseteq purge.todo
          /\ purge' \in [pc: PurgeSteps, todo: SUBSET (Ids \X Months)]
      BY <1>1, <2>1, <3>1
    <3>4. Shrinks /\ blobs' \in [Ids \X Months -> Blobs]
      BY <2>1, <3>1, <3>2, <3>3, BlobsRemoved
    <3>5. TypeOK'
      BY <2>1, <3>3, <3>4 DEF StorageInv, TypeOK
    <3>6. PurgeOK'
      BY <1>1, <2>1, <3>3 DEF PurgeOK
    <3>7. QED
      BY <2>1, <3>4, <3>5, <3>6, WorldStep
  <2>4. QED
    BY <2>2, <2>3
<1>4. CASE CleanRows
  <2>1. /\ RemoveRows(AppFiles) /\ PurgeGoto("purgeApp")
        /\ UNCHANGED <<chunks, blobs, parts, refs, app, expired, now, changes, req, arrived, doomed, repeated>>
    BY <1>4 DEF CleanRows, history
  <2>2. purge'.pc = "purgeApp" /\ purge' \in [pc: PurgeSteps, todo: SUBSET (Ids \X Months)]
    BY <1>1, <2>1 DEF PurgeGoto, PurgeSteps
  <2>3. Shrinks
    BY <2>1, <2>2, RowsRemoved
  <2>4. TypeOK'
    BY <2>1, <2>2, RemovedRows DEF StorageInv, TypeOK
  <2>5. QED
    BY <2>1, <2>2, <2>3, <2>4, WorldStep DEF PurgeOK
<1>5. QED
  BY <1>2, <1>3, <1>4

\* PurgeUnreferencedBlobs: a row that goes is ready, so that nobody sends its
\* file, and it was created in an earlier month than any upload to come.
LEMMA DeleteUnreferencedStep ==
  ASSUME StorageInv, DeleteUnreferenced
  PROVE  StorageInv'
<1>1. PICK S : S = Unreferenced
  OBVIOUS
<1>2. /\ RemoveRows(S) /\ purge' = [pc |-> "blobs", todo |-> {Path(id) : id \in S}]
      /\ UNCHANGED <<chunks, blobs, parts, refs, app, expired, now, changes, req, arrived, doomed, repeated>>
  BY <1>1 DEF DeleteUnreferenced, history
<1>3. S \subseteq Ids /\ \A id \in S : rows[id].st = "ready" /\ rows[id].month < now
  <2>1. ASSUME NEW id \in S
        PROVE  id \in Ids /\ rows[id].st = "ready" /\ rows[id].month < now
    <3>1. id \in Ids /\ rows[id].st = "ready" /\ rows[id].seen + Grace <= now
      BY <1>1 DEF Unreferenced
    <3>2. RowOK(id) /\ rows[id].month \in Nat /\ rows[id].seen \in Nat /\ now \in Nat
      BY <3>1, TableTypes DEF StorageInv
    <3>3. QED
      BY <3>1, <3>2, FilesAssumption DEF RowOK, Exists
  <2>2. QED
    BY <2>1
<1>4. /\ rows' \in [Ids -> Rows] /\ avatar' \in [Users -> Ids \cup {NoId}]
      /\ \A id \in Ids : rows'[id].st = "none" \/ rows'[id] = rows[id]
      /\ \A id \in S : rows'[id].st = "none"
  BY <1>2, <1>3, RemovedRows DEF RemoveRows, NoRow
<1>5. purge'.pc = "blobs" /\ purge' \in [pc: PurgeSteps, todo: SUBSET (Ids \X Months)]
      /\ \A id, k : <<id, k>> \in purge'.todo => id \in S /\ k = rows[id].month
  BY <1>2, <1>3, TableTypes DEF Path, PurgeSteps
<1>6. TypeOK'
  BY <1>2, <1>4, <1>5 DEF StorageInv, TypeOK
<1>7. ASSUME NEW id \in Ids
      PROVE  RowOK(id)' /\ DeclaredOK(id)' /\ FileOK(id)'
  <2>1. RowOK(id) /\ DeclaredOK(id) /\ FileOK(id)
    BY DEF StorageInv
  <2>2. RowOK(id)' /\ DeclaredOK(id)'
    BY <1>2, <1>4, <2>1 DEF RowOK, DeclaredOK, WholeOrOpen, Declared, Exists
  <2>3. FileOK(id)'
    <3>1. \A k \in Months : <<id, k>> \in purge'.todo => k < now /\ rows'[id].st = "none"
      BY <1>3, <1>4, <1>5
    <3>2. QED
      BY <1>2, <1>4, <2>1, <3>1 DEF FileOK, Path, Exists
  <2>4. QED
    BY <2>2, <2>3
<1>8. ASSUME NEW q \in Reqs
      PROVE  RequestOK(q)' /\ SendOK(q)'
  <2>1. RequestOK(q) /\ SendOK(q)
    BY DEF StorageInv
  <2>2. RequestOK(q)'
    BY <1>2, <2>1 DEF RequestOK, Declared
  <2>3. SendOK(q)'
    <3>1. Sends(q) => req[q].id \in Ids
      BY <2>1 DEF Sends, RequestOK, Sending, Dated, Assembling
    <3>2. Sends(q) /\ req[q].id \notin repeated => \A k : <<req[q].id, k>> \notin purge'.todo
      BY <1>3, <1>5, <2>1 DEF SendOK
    <3>3. QED
      BY <1>2, <1>4, <2>1, <3>1, <3>2 DEF SendOK, Sends, Kept, Filling, Exists
  <2>4. QED
    BY <2>2, <2>3
<1>9. \A p, q \in Reqs : p # q => Apart(p, q)'
  BY <1>2 DEF StorageInv, Apart, Sends
<1>10. QED
  BY <1>5, <1>6, <1>7, <1>8, <1>9 DEF StorageInv, PurgeOK

\* ... and then the blobs, at the paths of the removed rows.
LEMMA PurgeBlobsStep ==
  ASSUME StorageInv, PurgeBlobs
  PROVE  StorageInv'
<1>1. purge \in [pc: PurgeSteps, todo: SUBSET (Ids \X Months)] /\ now \in Nat
  BY TableTypes DEF StorageInv, TypeOK
<1>2. /\ purge.pc = "blobs"
      /\ UNCHANGED <<rows, chunks, parts, refs, avatar, app, expired, now, changes, req, arrived,
                     doomed, repeated>>
  BY DEF PurgeBlobs, PurgeAt, world, history
<1>3. CASE PurgeGoto("idle") /\ UNCHANGED blobs
  <2>1. purge'.pc = "idle" /\ purge' \in [pc: PurgeSteps, todo: SUBSET (Ids \X Months)]
    BY <1>1, <1>3 DEF PurgeGoto, PurgeSteps
  <2>2. TypeOK'
    BY <1>2, <1>3, <2>1 DEF StorageInv, TypeOK
  <2>3. Shrinks /\ PurgeOK'
    BY <1>1, <1>2, <1>3, <2>1 DEF Shrinks, PurgeOK
  <2>4. QED
    BY <1>2, <2>2, <2>3, WorldStep
<1>4. CASE ~ (PurgeGoto("idle") /\ UNCHANGED blobs)
  <2>1. PICK p \in purge.todo : TryRemove(p[1], p[2]) /\ purge' = [purge EXCEPT !.todo = @ \ {p}]
    BY <1>4 DEF PurgeBlobs
  <2>2. PICK i \in Ids, t \in Months : i = p[1] /\ t = p[2] /\ <<i, t>> \in purge.todo
    BY <1>1, <2>1
  <2>3. /\ purge'.pc = "blobs" /\ purge'.todo \subseteq purge.todo
        /\ purge' \in [pc: PurgeSteps, todo: SUBSET (Ids \X Months)]
    BY <1>1, <1>2, <2>1
  <2>4. Shrinks /\ blobs' \in [Ids \X Months -> Blobs]
    BY <1>2, <2>1, <2>2, <2>3, BlobsRemoved DEF TryRemove
  <2>5. TypeOK'
    BY <1>2, <2>3, <2>4 DEF StorageInv, TypeOK
  <2>6. QED
    BY <1>2, <2>3, <2>4, <2>5, WorldStep DEF PurgeOK
<1>5. QED
  BY <1>3, <1>4

\* CleanupStalePending removes rows; time passes; references and the
\* application change.
LEMMA WorldSteps ==
  ASSUME StorageInv,
         CleanupStalePending \/ NextMonth \/ ApplicationChanges
           \/ \E id \in Ids : PendingTooLong(id) \/ ToggleReference(id)
  PROVE  StorageInv'
<1>1. /\ UNCHANGED <<blobs, parts, req, purge, arrived, doomed, repeated>> /\ chunks' \subseteq chunks
      /\ changes' \in 0..MaxChanges /\ app' \in AppStates /\ expired' \in BOOLEAN
  <2>1. changes \in 0..MaxChanges /\ app \in AppStates /\ expired \in BOOLEAN
    BY DEF StorageInv, TypeOK
  <2>2. CASE CleanupStalePending \/ NextMonth \/ \E id \in Ids : PendingTooLong(id)
    <3>1. /\ UNCHANGED <<blobs, parts, req, purge, arrived, doomed, repeated, changes, app, expired>>
          /\ chunks' \subseteq chunks
      BY <2>2 DEF CleanupStalePending, NextMonth, PendingTooLong, files, world, history
    <3>2. QED
      BY <2>1, <3>1
  <2>3. CASE ApplicationChanges
    <3>1. UNCHANGED <<chunks, blobs, parts, req, purge, arrived, doomed, repeated>>
      BY <2>3 DEF ApplicationChanges, files, history
    <3>2. changes < MaxChanges /\ changes' = changes + 1
      BY <2>3 DEF ApplicationChanges
    <3>3. changes' \in 0..MaxChanges
      BY <2>1, <3>2, FilesAssumption
    <3>4. app' \in AppStates /\ expired' \in BOOLEAN
      BY <2>1, <2>3 DEF ApplicationChanges, AppStates
    <3>5. QED
      BY <3>1, <3>3, <3>4
  <2>4. CASE \E id \in Ids : ToggleReference(id)
    BY <2>1, <2>4, FilesAssumption DEF ToggleReference, files, history
  <2>5. QED
    BY <2>2, <2>3, <2>4
<1>2. now' \in Months /\ now <= now'
  <2>1. now \in 0..MaxMonth /\ MaxMonth \in Nat
    BY FilesAssumption DEF StorageInv, TypeOK, Months
  <2>2. now' = now \/ (now < MaxMonth /\ now' = now + 1)
    BY DEF CleanupStalePending, NextMonth, ApplicationChanges, PendingTooLong, ToggleReference, world
  <2>3. QED
    BY <2>1, <2>2 DEF Months
<1>3. refs' \subseteq Ids
  BY DEF StorageInv, TypeOK, CleanupStalePending, NextMonth, ApplicationChanges, PendingTooLong,
         ToggleReference, world
<1>4. /\ rows' \in [Ids -> Rows] /\ avatar' \in [Users -> Ids \cup {NoId}]
      /\ \A id \in Ids : \/ rows'[id].st = "none"
                         \/ /\ rows'[id].st = rows[id].st /\ rows'[id].month = rows[id].month
                            /\ rows'[id].sum = rows[id].sum /\ rows'[id].seen = rows[id].seen
  <2>1. CASE CleanupStalePending
    <3>1. PICK S : RemoveRows(S)
      BY <2>1 DEF CleanupStalePending
    <3>2. QED
      BY <3>1, RemovedRows
  <2>2. CASE \E id \in Ids : PendingTooLong(id)
    <3>1. PICK i \in Ids, x \in Rows : x = rows[i] /\ PendingTooLong(i)
      BY <2>2, TableTypes
    <3>2. /\ [x EXCEPT !.stale = TRUE] \in Rows /\ [x EXCEPT !.stale = TRUE].st = x.st
          /\ [x EXCEPT !.stale = TRUE].month = x.month /\ [x EXCEPT !.stale = TRUE].sum = x.sum
          /\ [x EXCEPT !.stale = TRUE].seen = x.seen
      BY ONLY x \in Rows DEF Rows
    <3>3. rows' = [rows EXCEPT ![i] = [x EXCEPT !.stale = TRUE]] /\ avatar' = avatar
      BY <3>1 DEF PendingTooLong, world
    <3>4. QED
      BY <3>1, <3>2, <3>3 DEF StorageInv, TypeOK
  <2>3. CASE UNCHANGED <<rows, avatar>>
    BY <2>3 DEF StorageInv, TypeOK
  <2>4. QED
    BY <2>1, <2>2, <2>3 DEF NextMonth, ApplicationChanges, ToggleReference, files
<1>5. TypeOK'
  BY <1>1, <1>2, <1>3, <1>4 DEF StorageInv, TypeOK
<1>6. Shrinks
  BY <1>1, <1>2, <1>4 DEF Shrinks
<1>7. PurgeOK'
  BY <1>1 DEF StorageInv, PurgeOK
<1>8. QED
  BY <1>1, <1>5, <1>6, <1>7, WorldStep

\* No file, no request.
LEMMA StorageInit ==
  ASSUME Init
  PROVE  StorageInv
<1>1. \A id : NoRow(id) \in Rows /\ NoRow(id).st = "none"
  <2>1. (CHOOSE u \in Users : TRUE) \in Users
    BY FilesAssumption
  <2>2. QED
    BY <2>1, FilesAssumption DEF NoRow, Rows, Months
<1>2. IdlePurge \in [pc: PurgeSteps, todo: SUBSET (Ids \X Months)] /\ IdlePurge.pc = "idle"
  BY DEF IdlePurge, PurgeSteps
<1>3. TypeOK
  <2>1. rows \in [Ids -> Rows] /\ req \in [Reqs -> Locals]
    BY <1>1, IdleType DEF Init
  <2>2. /\ blobs \in [Ids \X Months -> Blobs] /\ avatar \in [Users -> Ids \cup {NoId}]
        /\ now \in Months /\ arrived \in 0..MaxRequests /\ changes \in 0..MaxChanges
    BY FilesAssumption, BlobFacts DEF Init, Months
  <2>3. QED
    BY <1>2, <2>1, <2>2 DEF Init, TypeOK, AppStates
<1>4. ASSUME NEW r \in Reqs
      PROVE  RequestOK(r) /\ SendOK(r) /\ ~ Sends(r)
  <2>1. req[r].pc = "idle"
    BY IdleType DEF Init
  <2>2. QED
    BY <2>1 DEF RequestOK, SendOK, Sends, Sending, Dated, Assembling
<1>5. ASSUME NEW id \in Ids
      PROVE  RowOK(id) /\ DeclaredOK(id) /\ FileOK(id)
  BY <1>1, <1>2 DEF Init, RowOK, DeclaredOK, WholeOrOpen, FileOK, Exists
<1>6. QED
  BY <1>2, <1>3, <1>4, <1>5 DEF StorageInv, Apart, PurgeOK, Init

\* A stuttering step.
LEMMA StorageStutter ==
  ASSUME StorageInv, UNCHANGED vars
  PROVE  StorageInv'
<1>1. UNCHANGED <<rows, chunks, blobs, parts, refs, avatar, app, expired, now, changes, req, purge,
                  arrived, doomed, repeated>>
  BY DEF vars, files, world, history
<1>2. TypeOK'
  BY <1>1 DEF StorageInv, TypeOK
<1>3. Shrinks /\ PurgeOK'
  BY <1>1, NothingWritten DEF StorageInv, PurgeOK
<1>4. QED
  BY <1>1, <1>2, <1>3, WorldStep

\* One step of one request.
LEMMA RequestSteps ==
  ASSUME StorageInv, WritersInv, NEW r \in Reqs, RequestStep(r)
  PROVE  StorageInv'
BY ArriveStep, GuardStep, CheckedUploadStep, StoreStep, CopyStep, CreateStep, CompensationSteps, AnswerSteps,
   FanOutStep, AuthorizeStep, ReadPendingStep, ChunkSteps, ListChunksStep, CombineStep,
   DropSteps, ReadyStep, DeleteReadStep, DeleteSteps, EraseSteps, PersonalSteps,
   DatabaseErrorStep, BackendErrorStep DEF RequestStep

-----------------------------------------------------------------------------
(* The requests that have a file open. *)

\* A step in which no request that is copying does anything opens no file.
LEMMA WritersRest ==
  ASSUME StorageInv, WritersInv,
         \A id \in Ids, k \in Months : blobs'[<<id, k>>] \in {blobs[<<id, k>>], NoBlob},
         \A q \in Reqs : req[q].pc \in {"copy", "copyCombined"} => Rests(q)
  PROVE  WritersInv'
<1>1. \A id \in Ids, k \in Months : blobs'[<<id, k>>].by \subseteq blobs[<<id, k>>].by
  <2>1. NoBlob.by = {}
    BY BlobFacts
  <2>2. QED
    BY <2>1
<1>2. \A id \in Ids, k \in Months : blobs[<<id, k>>].by \subseteq Reqs
  BY TableTypes DEF Blobs
<1>3. QED
  BY <1>1, <1>2 DEF WritersInv, Rests

\* A request at its file: nobody else is concerned.
LEMMA WritersOwn ==
  ASSUME StorageInv, WritersInv, NEW r \in Reqs, NEW i \in Ids, NEW t \in Months, NEW b \in Blobs,
         i = req[r].id, t = req[r].month, \A q \in Reqs \ {r} : Rests(q),
         blobs' = [blobs EXCEPT ![<<i, t>>] = b] \/ (UNCHANGED blobs /\ b = blobs[<<i, t>>]),
         b.by \ {r} \subseteq blobs[<<i, t>>].by,
         r \in b.by => req'[r].pc \in {"copy", "copyCombined"} /\ req'[r].id = i /\ req'[r].month = t
  PROVE  WritersInv'
<1>1. blobs \in [Ids \X Months -> Blobs]
  BY DEF StorageInv, TypeOK
<1>2. /\ blobs'[<<i, t>>] = b
      /\ \A id \in Ids, k \in Months : id # i \/ k # t => blobs'[<<id, k>>] = blobs[<<id, k>>]
  BY <1>1
<1>3. SUFFICES ASSUME NEW id \in Ids, NEW k \in Months, NEW q \in blobs'[<<id, k>>].by
               PROVE  req'[q].pc \in {"copy", "copyCombined"} /\ req'[q].id = id /\ req'[q].month = k
  BY DEF WritersInv
<1>4. blobs[<<id, k>>].by \subseteq Reqs /\ b.by \subseteq Reqs
  BY <1>1 DEF Blobs
<1>5. CASE id = i /\ k = t /\ q = r
  BY <1>2, <1>3, <1>5
<1>6. CASE id = i /\ k = t /\ q # r
  <2>1. q \in blobs[<<id, k>>].by
    BY <1>2, <1>3, <1>6
  <2>2. QED
    BY <1>4, <1>6, <2>1 DEF WritersInv, Rests
<1>7. CASE ~ (id = i /\ k = t)
  <2>1. q \in blobs[<<id, k>>].by
    BY <1>2, <1>3, <1>7
  <2>2. q # r
    BY <1>7, <2>1 DEF WritersInv
  <2>3. QED
    BY <1>4, <2>1, <2>2 DEF WritersInv, Rests
<1>8. QED
  BY <1>5, <1>6, <1>7

\* Store, Copy and a failing call, at the path of the request.
LEMMA WritersFileSteps ==
  ASSUME StorageInv, WritersInv, NEW r \in Reqs, Store(r) \/ Copy(r) \/ BackendError(r)
  PROVE  WritersInv'
<1>1. req[r].pc \in {"store", "storeCombined", "copy", "copyCombined", "chunkStore", "combine", "dropPersonal"}
  BY DEF Store, Copy, BackendError, At
<1>2. PICK i \in Ids, t \in Months : i = req[r].id /\ t = req[r].month
  BY <1>1, MessageTypes, TableTypes
<1>3. PICK old \in Blobs : old = blobs[<<i, t>>]
  BY TableTypes
<1>4. CASE Store(r)
  <2>1. PICK step \in {"copy", "copyCombined"} : Goto(r, step)
    BY <1>4 DEF Store
  <2>2. /\ \A q \in Reqs \ {r} : Rests(q)
        /\ req'[r].pc = step /\ req'[r].id = i /\ req'[r].month = t
    BY <1>2, <2>1, GotoRequest DEF Steps
  <2>3. PICK b : b = [n |-> 0, by |-> old.by \cup {r}, cut |-> FALSE]
    OBVIOUS
  <2>4. b \in Blobs /\ b.by = old.by \cup {r}
    BY <2>3, FilesAssumption DEF Blobs
  <2>5. blobs' = [blobs EXCEPT ![<<i, t>>] = b]
    BY <1>2, <1>3, <1>4, <2>3 DEF Store
  <2>6. QED
    BY <1>2, <1>3, <2>2, <2>4, <2>5, WritersOwn
<1>5. CASE Copy(r)
  <2>1. PICK step \in {"create", "dropParts"} : Goto(r, step)
    BY <1>5 DEF Copy
  <2>2. \A q \in Reqs \ {r} : Rests(q)
    BY <2>1, GotoRequest DEF Steps
  <2>3. PICK size \in 0..Parts : size = IF At(r, "copy") THEN Parts ELSE req[r].n
    BY TableTypes
  <2>4. PICK b : b = [n |-> IF old.n < size THEN size ELSE old.n, by |-> old.by \ {r}, cut |-> old.cut]
    OBVIOUS
  <2>5. b \in Blobs /\ b.by = old.by \ {r}
    <3>1. old.n \in 0..Parts /\ old.by \subseteq Reqs /\ old.cut \in BOOLEAN
      BY <1>3 DEF Blobs
    <3>2. QED
      BY <2>4, <3>1 DEF Blobs
  <2>6. \/ r \in old.by /\ blobs' = [blobs EXCEPT ![<<i, t>>] = b]
        \/ r \notin old.by /\ UNCHANGED blobs
    BY <1>2, <1>3, <1>5, <2>3, <2>4 DEF Copy
  <2>7. QED
    BY <1>2, <1>3, <2>2, <2>5, <2>6, WritersOwn
<1>6. CASE BackendError(r)
  <2>1. \A q \in Reqs \ {r} : Rests(q)
    BY <1>6, ReturnRequest DEF BackendError
  <2>2. PICK torn : torn = [n |-> old.n, by |-> old.by \ {r}, cut |-> TRUE]
    OBVIOUS
  <2>3. torn \in Blobs /\ torn.by = old.by \ {r} /\ NoBlob \in Blobs /\ NoBlob.by = {}
    BY <2>2, BlobFacts DEF Blobs
  <2>4. CASE req[r].pc \in {"copy", "copyCombined"}
    <3>1. \/ blobs' = [blobs EXCEPT ![<<i, t>>] = NoBlob]
          \/ blobs' = [blobs EXCEPT ![<<i, t>>] = torn]
          \/ r \notin old.by /\ UNCHANGED blobs
      BY <1>2, <1>3, <1>6, <2>2, <2>4 DEF BackendError, Remove, At
    <3>2. QED
      BY <1>2, <1>3, <2>1, <2>3, <3>1, WritersOwn
  <2>5. CASE req[r].pc \notin {"copy", "copyCombined"}
    <3>1. UNCHANGED blobs
      BY <1>6, <2>5 DEF BackendError, At
    <3>2. QED
      BY <2>1, <2>5, <3>1, WritersRest
  <2>6. QED
    BY <2>4, <2>5
<1>7. QED
  BY <1>4, <1>5, <1>6

\* The other steps of a request are steps of one that is not copying.
LEMMA QuietRequest ==
  ASSUME StorageInv, NEW r \in Reqs, RequestStep(r), ~ (Store(r) \/ Copy(r) \/ BackendError(r))
  PROVE  req[r].pc \notin {"copy", "copyCombined"} /\ \A q \in Reqs \ {r} : Rests(q)
<1>1. req[r].pc \notin {"copy", "copyCombined"}
  BY DEF RequestStep, Arrive, Guard, CheckedUpload, Create, Undo, Existing, Discard, Announce,
     SetAvatar, FanOut, Authorize, ReadPending, ChunkStore, ChunkRow, ListChunks, Combine, DropParts,
     DropChunks, Ready, DeleteRead, DeleteBlob, DeleteRow, ClearAvatar, ListPersonal, DropPersonal,
     Erase, DatabaseError, At
<1>2. \E x : req' = [req EXCEPT ![r] = x]
  BY DEF RequestStep, Arrive, Guard, CheckedUpload, Create, Undo, Existing, Discard, Announce,
     SetAvatar, FanOut, Authorize, ReadPending, ChunkStore, ChunkRow, ListChunks, Combine, DropParts,
     DropChunks, Ready, DeleteRead, DeleteBlob, DeleteRow, ClearAvatar, ListPersonal, DropPersonal,
     Erase, DatabaseError, Proceed, Goto, Return
<1>3. QED
  BY <1>1, <1>2 DEF StorageInv, TypeOK, Rests

\* Every step keeps it.
LEMMA WritersKept ==
  ASSUME StorageInv, WritersInv, Next
  PROVE  WritersInv'
<1>1. CASE Crash
  <2>1. \A id \in Ids, k \in Months : blobs'[<<id, k>>].by = {}
    BY <1>1 DEF Crash
  <2>2. QED
    BY <2>1 DEF WritersInv
<1>2. CASE PurgeStep \/ CleanupStalePending \/ NextMonth \/ ApplicationChanges
             \/ \E id \in Ids : PendingTooLong(id) \/ ToggleReference(id)
  <2>1. UNCHANGED req
    BY <1>2 DEF PurgeStep, SelectApps, ListApp, CleanBlobs, CleanRows, PurgeApplication, MarkReferenced,
       DeleteUnreferenced, PurgeBlobs, PurgeError, CleanupStalePending, NextMonth, ApplicationChanges,
       PendingTooLong, ToggleReference
  <2>2. UNCHANGED blobs \/ \E p : Remove(p[1], p[2])
    BY <1>2 DEF PurgeStep, SelectApps, ListApp, CleanBlobs, CleanRows, PurgeApplication, MarkReferenced,
       DeleteUnreferenced, PurgeBlobs, PurgeError, CleanupStalePending, NextMonth, ApplicationChanges,
       PendingTooLong, ToggleReference, TryRemove, files
  <2>3. \A id \in Ids, k \in Months : blobs'[<<id, k>>] \in {blobs[<<id, k>>], NoBlob}
    BY <2>2 DEF Remove, StorageInv, TypeOK
  <2>4. QED
    BY <2>1, <2>3, WritersRest DEF Rests
<1>3. ASSUME NEW r \in Reqs, RequestStep(r), ~ (Store(r) \/ Copy(r) \/ BackendError(r))
      PROVE  WritersInv'
  <2>1. req[r].pc \notin {"copy", "copyCombined"} /\ \A q \in Reqs \ {r} : Rests(q)
    BY <1>3, QuietRequest
  <2>2. UNCHANGED blobs \/ \E p : Remove(p[1], p[2])
    <3>1. UNCHANGED blobs \/ TryRemove(req[r].id, req[r].month) \/ \E p : Remove(p[1], p[2])
      BY <1>3 DEF RequestStep, Arrive, Guard, CheckedUpload, Create, Undo, Existing, Discard, Announce,
         SetAvatar, FanOut, Authorize, ReadPending, ChunkStore, ChunkRow, ListChunks, Combine, DropParts,
         DropChunks, Ready, DeleteRead, DeleteBlob, DeleteRow, ClearAvatar, ListPersonal, DropPersonal,
         Erase, DatabaseError, files
    <3>2. TryRemove(req[r].id, req[r].month) => UNCHANGED blobs \/ \E p : Remove(p[1], p[2])
      <4>1. PICK p : p = <<req[r].id, req[r].month>>
        OBVIOUS
      <4>2. QED
        BY <4>1 DEF TryRemove
    <3>3. QED
      BY <3>1, <3>2
  <2>3. \A id \in Ids, k \in Months : blobs'[<<id, k>>] \in {blobs[<<id, k>>], NoBlob}
    BY <2>2 DEF Remove, StorageInv, TypeOK
  <2>4. QED
    BY <2>1, <2>3, WritersRest
<1>4. QED
  BY <1>1, <1>2, <1>3, WritersFileSteps DEF Next

\* No file is open at the start.
LEMMA WritersInit ==
  ASSUME Init
  PROVE  WritersInv
BY BlobFacts DEF Init, WritersInv

\* A stuttering step opens no file.
LEMMA WritersStutter ==
  ASSUME StorageInv, WritersInv, UNCHANGED vars
  PROVE  WritersInv'
BY WritersRest DEF vars, files, Rests

\* The inductive invariant holds: the types, and what is known of the request
\* that sends a file, of the row it writes and of the paths a purge holds.
THEOREM StorageConsistent == Spec => []StorageInv
<1>1. StorageInv /\ WritersInv /\ [Next]_vars => StorageInv' /\ WritersInv'
  <2>1. SUFFICES ASSUME StorageInv, WritersInv, Next
                 PROVE  StorageInv'
    BY StorageStutter, WritersKept, WritersStutter
  <2>2. CASE PurgeStep
    BY <2>1, <2>2, PurgeReadSteps, PurgeAppSteps, DeleteUnreferencedStep, PurgeBlobsStep DEF PurgeStep
  <2>3. QED
    BY <2>1, <2>2, RequestSteps, CrashStep, WorldSteps DEF Next
<1>2. QED
  BY <1>1, StorageInit, WritersInit, PTL DEF Spec

\* DeclaredContent: CompleteChunkedUpload never makes a row ready that declares
\* a checksum and serves anything else than the whole file; LocalStorage.Store
\* empties it under a ready row only when the file is sent again.
THEOREM ReadyServesDeclared == Spec => []DeclaredContent
<1>1. StorageInv => DeclaredContent
  <2>1. SUFFICES ASSUME StorageInv, NEW id \in Ids, rows[id].st = "ready", rows[id].sum,
                        Declared(id) \/ id \notin repeated
                 PROVE  \/ blobs[Path(id)] \in {NoBlob, Content(Parts)}
                        \/ id \in repeated /\ \/ blobs[Path(id)].n = Parts
                                              \/ blobs[Path(id)].by # {} \/ blobs[Path(id)].cut
    BY DEF DeclaredContent
  <2>2. DeclaredOK(id) /\ FileOK(id) /\ rows[id].month \in Months
    BY <2>1, TableTypes DEF StorageInv
  <2>3. CASE id \notin repeated
    BY <2>1, <2>2, <2>3 DEF FileOK
  <2>4. CASE id \in repeated
    BY <2>1, <2>2, <2>4 DEF DeclaredOK, WholeOrOpen, Path
  <2>5. QED
    BY <2>3, <2>4
<1>2. QED
  BY <1>1, StorageConsistent, PTL

\* ReadyHasBlob: no upload, completion, compensation or purge leaves a ready row
\* without its blob, unless the file was being deleted or was sent again.
THEOREM ReadyKeepsBlob == Spec => []ReadyHasBlob
<1>1. StorageInv => ReadyHasBlob
  BY BlobFacts DEF StorageInv, ReadyHasBlob, FileOK
<1>2. QED
  BY <1>1, StorageConsistent, PTL

-----------------------------------------------------------------------------
(* The quota.  An upload that passes checkQuota leaves its count to Create. *)

Stored(u) == {id \in Ids : Exists(id) /\ rows[id].user = u}

\* The sets counted are finite.
LEMMA CountsFinite ==
  ASSUME NEW u
  PROVE  /\ IsFiniteSet(Stored(u)) /\ Cardinality(Stored(u)) \in Nat
         /\ IsFiniteSet(Passing(u)) /\ Cardinality(Passing(u)) \in Nat
         /\ Cardinality(Passing(u)) <= Cardinality(Reqs) /\ Cardinality(Reqs) \in Nat
         /\ Used(u) = Cardinality(Stored(u))
<1>1. Stored(u) \subseteq Ids /\ Passing(u) \subseteq Reqs
  BY DEF Stored, Passing
<1>2. QED
  BY <1>1, FS_Subset, FS_CardinalityType, FilesAssumption DEF Used, Stored

\* Fewer files and fewer uploads under way.
LEMMA CountsShrink ==
  ASSUME QuotaInv, \A u \in Users : Stored(u)' \subseteq Stored(u) /\ Passing(u)' \subseteq Passing(u)
  PROVE  QuotaInv'
<1>1. SUFFICES ASSUME Quota > 0, NEW u \in Users \ Exempt
               PROVE  Cardinality(Stored(u)') + Cardinality(Passing(u)') < Quota + Cardinality(Reqs)
  BY DEF QuotaInv, Used, Stored
<1>2. /\ Cardinality(Stored(u)') <= Cardinality(Stored(u)) /\ Cardinality(Stored(u)') \in Nat
      /\ Cardinality(Passing(u)') <= Cardinality(Passing(u)) /\ Cardinality(Passing(u)') \in Nat
  BY CountsFinite, FS_Subset, FS_CardinalityType
<1>3. Cardinality(Stored(u)) + Cardinality(Passing(u)) < Quota + Cardinality(Reqs)
  BY <1>1, CountsFinite DEF QuotaInv
<1>4. QED
  BY <1>2, <1>3, CountsFinite, FilesAssumption

\* A step that creates no row and passes no upload.
Counted ==
  /\ \A id \in Ids : \/ rows'[id].st = "none"
                     \/ rows[id].st # "none" /\ rows'[id].user = rows[id].user
  /\ \A q \in Reqs : \/ req'[q].pc \notin {"store", "copy", "create"}
                     \/ req[q].pc \in {"store", "copy", "create"} /\ req'[q].m = req[q].m

\* Such a step keeps the quota's invariant.
LEMMA CountedStep ==
  ASSUME QuotaInv, Counted
  PROVE  QuotaInv'
<1>1. ASSUME NEW u \in Users
      PROVE  Stored(u)' \subseteq Stored(u) /\ Passing(u)' \subseteq Passing(u)
  BY DEF Counted, Stored, Passing, Exists
<1>2. QED
  BY <1>1, CountsShrink

\* Rows that are removed, or stay as they are.
LEMMA RowsCounted ==
  ASSUME StorageInv, rows' = rows \/ \E S : RemoveRows(S),
         \A q \in Reqs : \/ req'[q] = req[q] \/ req'[q].pc \notin {"store", "copy", "create"}
                         \/ req[q].pc \in {"store", "copy"} /\ req'[q].m = req[q].m
  PROVE  Counted
BY RemovedRows DEF Counted

\* A request that returns or goes on to a step that passes no upload.
LEMMA RequestCounted ==
  ASSUME StorageInv, NEW r \in Reqs, NEW step \in Steps \ {"store", "copy", "create"},
         Goto(r, step) \/ Return(r), rows' = rows \/ \E S : RemoveRows(S)
  PROVE  Counted
<1>1. \A q \in Reqs : req'[q] = req[q] \/ req'[q].pc \notin {"store", "copy", "create"}
  <2>1. CASE Goto(r, step)
    BY <2>1, GotoRequest DEF Rests
  <2>2. CASE Return(r)
    BY <2>2, IdleType DEF StorageInv, TypeOK, Return
  <2>3. QED
    BY <2>1, <2>2
<1>2. QED
  BY <1>1, RowsCounted

\* The steps of a request that end or change nothing but its step.
LEMMA PlainStepsCounted ==
  ASSUME StorageInv, NEW r \in Reqs,
         Guard(r) \/ Undo(r) \/ Existing(r) \/ Discard(r) \/ Announce(r) \/ SetAvatar(r)
           \/ ChunkStore(r) \/ ChunkRow(r) \/ Combine(r) \/ DropParts(r)
           \/ DropChunks(r) \/ DeleteBlob(r) \/ DeleteRow(r) \/ ClearAvatar(r) \/ Erase(r)
           \/ DatabaseError(r) \/ BackendError(r)
  PROVE  Counted
<1>1. PICK step \in {"quota", "existing", "setAvatar", "announce", "fanOut", "chunkRow", "storeCombined",
                     "dropParts", "dropChunks", "ready", "deleteRow", "listPersonal", "discard"} :
        Goto(r, step) \/ Return(r)
  BY DEF Guard, Undo, Existing, Discard, Announce, SetAvatar, ChunkStore, ChunkRow, Combine,
         DropParts, DropChunks, DeleteBlob, DeleteRow, ClearAvatar, Erase,
         DatabaseError, BackendError, Proceed, Uploaded
<1>2. rows' = rows \/ \E S : RemoveRows(S)
  BY DEF Guard, Undo, Existing, Discard, Announce, SetAvatar, ChunkStore, ChunkRow, Combine,
         DropParts, DropChunks, DeleteBlob, DeleteRow, ClearAvatar, Erase,
         DatabaseError, BackendError, files
<1>3. QED
  BY <1>1, <1>2, RequestCounted DEF Steps

\* The steps of a request that set local variables too.
LEMMA LocalStepsCounted ==
  ASSUME StorageInv, NEW r \in Reqs,
         Arrive(r) \/ Store(r) \/ Copy(r) \/ FanOut(r) \/ Authorize(r) \/ ReadPending(r) \/ ListChunks(r)
           \/ DeleteRead(r) \/ ListPersonal(r) \/ DropPersonal(r)
  PROVE  Counted
<1>1. rows' = rows
  BY DEF Arrive, Store, Copy, FanOut, Authorize, ReadPending, ListChunks, DeleteRead, ListPersonal,
         DropPersonal, files
<1>2. \A q \in Reqs : \/ req'[q] = req[q] \/ req'[q].pc \notin {"store", "copy", "create"}
                      \/ req[q].pc \in {"store", "copy"} /\ req'[q].m = req[q].m
  <2>1. req \in [Reqs -> Locals] /\ req[r] \in Locals
    BY DEF StorageInv, TypeOK
  <2>2. CASE Return(r)
    BY <2>1, <2>2, IdleType DEF Return
  <2>3. CASE Arrive(r)
    <3>1. PICK x : req' = [req EXCEPT ![r] = x] /\ x.pc \notin {"store", "copy", "create"}
      <4>1. PICK m \in Messages :
              req' = [req EXCEPT ![r] =
                        [IdleReq EXCEPT !.pc = Entry(m), !.m = m, !.id = m.id, !.inApp = m.inApp,
                                        !.prev = IF m.op = "avatar" THEN avatar[m.user] ELSE NoId]]
        BY <2>3 DEF Arrive
      <4>2. Entry(m) \notin {"store", "copy", "create"}
        BY DEF Entry
      <4>3. [IdleReq EXCEPT !.pc = Entry(m), !.m = m, !.id = m.id, !.inApp = m.inApp,
                            !.prev = IF m.op = "avatar" THEN avatar[m.user] ELSE NoId].pc = Entry(m)
        BY DEF IdleReq
      <4>4. PICK x : x = [IdleReq EXCEPT !.pc = Entry(m), !.m = m, !.id = m.id, !.inApp = m.inApp,
                            !.prev = IF m.op = "avatar" THEN avatar[m.user] ELSE NoId]
        OBVIOUS
      <4>5. QED
        BY <4>1, <4>2, <4>3, <4>4
    <3>2. QED
      BY <2>1, <3>1
  <2>4. CASE Store(r) \/ Copy(r)
    <3>1. PICK step \in {"copy", "copyCombined", "create", "dropParts"} :
            /\ Goto(r, step)
            /\ step \in {"copy", "create"} => req[r].pc \in {"store", "copy"}
      BY <2>4 DEF Store, Copy, At
    <3>2. QED
      BY <2>1, <3>1, GotoRequest DEF Rests, Steps
  <2>5. CASE FanOut(r) \/ Authorize(r) \/ ReadPending(r) \/ ListChunks(r) \/ DeleteRead(r)
    BY <2>1, <2>2, <2>5
    DEF FanOut, Authorize, ReadPending, ListChunks, DeleteRead, Locals
  <2>6. CASE ListPersonal(r)
    BY <2>1, <2>6 DEF ListPersonal, Locals
  <2>7. CASE DropPersonal(r)
    <3>1. CASE Goto(r, "erase")
      BY <3>1, GotoRequest DEF Rests, Steps
    <3>2. CASE ~ Goto(r, "erase")
      BY <2>1, <2>7, <3>2 DEF DropPersonal, At, Locals
    <3>3. QED
      BY <3>1, <3>2
  <2>8. QED
    BY <2>3, <2>4, <2>5, <2>6, <2>7
<1>3. QED
  BY <1>1, <1>2, RowsCounted

\* checkQuota lets an upload pass while files and uploads together are below the
\* bound: the files alone are below the quota.
LEMMA CheckedUploadCounts ==
  ASSUME StorageInv, QuotaInv, NEW r \in Reqs, CheckedUpload(r)
  PROVE  QuotaInv'
<1>1. req[r].pc = "quota" /\ rows' = rows
  BY DEF CheckedUpload, At, files
<1>2. CASE Return(r)
  BY <1>1, <1>2, RequestCounted, CountedStep DEF Steps
<1>3. CASE ~ Return(r)
  <2>1. PICK w \in Users : w = req[r].m.user
    BY <1>1, MessageTypes
  <2>2. CheckQuota(w)
    BY <1>3, <2>1 DEF CheckedUpload
  <2>3. /\ req \in [Reqs -> Locals] /\ req[r] \in Locals
        /\ req' = [req EXCEPT ![r].pc = IF req[r].m.op = "init" THEN "create" ELSE "store",
                              ![r].month = now]
    BY <1>3 DEF CheckedUpload, StorageInv, TypeOK
  <2>4. req'[r].m = req[r].m /\ \A q \in Reqs \ {r} : req'[q] = req[q]
    BY <2>3 DEF Locals
  <2>5. SUFFICES ASSUME Quota > 0, NEW u \in Users \ Exempt
                 PROVE  Cardinality(Stored(u)') + Cardinality(Passing(u)') < Quota + Cardinality(Reqs)
    BY DEF QuotaInv, Used, Stored
  <2>6. Stored(u)' = Stored(u)
    BY <1>1 DEF Stored, Exists
  <2>7. CASE u # w
    <3>1. Passing(u)' \subseteq Passing(u)
      BY <2>1, <2>4, <2>7 DEF Passing
    <3>2. Cardinality(Passing(u)') <= Cardinality(Passing(u)) /\ Cardinality(Passing(u)') \in Nat
      BY <3>1, CountsFinite, FS_Subset, FS_CardinalityType
    <3>3. Cardinality(Stored(u)) + Cardinality(Passing(u)) < Quota + Cardinality(Reqs)
      BY <2>5, CountsFinite DEF QuotaInv
    <3>4. QED
      BY <2>6, <3>2, <3>3, CountsFinite, FilesAssumption
  <2>8. CASE u = w
    <3>1. Cardinality(Stored(u)) + 1 <= Quota
      BY <2>2, <2>5, <2>8, CountsFinite, FilesAssumption DEF CheckQuota
    <3>2. Passing(u)' \subseteq Reqs
      BY DEF Passing
    <3>3. Cardinality(Passing(u)') <= Cardinality(Reqs) /\ Cardinality(Passing(u)') \in Nat
      BY <3>2, FilesAssumption, FS_Subset, FS_CardinalityType
    <3>4. QED
      BY <2>6, <3>1, <3>3, CountsFinite, FilesAssumption
  <2>9. QED
    BY <2>7, <2>8
<1>4. QED
  BY <1>2, <1>3

\* Create turns an upload that has passed into a file, or into nothing.
LEMMA CreateCounts ==
  ASSUME StorageInv, QuotaInv, NEW r \in Reqs, Create(r)
  PROVE  QuotaInv'
<1>1. req[r].pc = "create"
  BY DEF Create, At
<1>2. RequestOK(r)
  BY DEF StorageInv
<1>3. PICK m \in Messages, i \in Ids : m = req[r].m /\ i = m.id /\ i = req[r].id /\ m.user \in Users
  BY <1>1, <1>2, MessageTypes DEF RequestOK, Sending, Dated
<1>4. PICK step \in {"undo", "setAvatar", "announce"} : Goto(r, step) \/ Return(r)
  BY <1>3 DEF Create, Proceed, Uploaded
<1>5. req'[r].pc \notin {"store", "copy", "create"} /\ \A q \in Reqs \ {r} : req'[q] = req[q]
  <2>1. CASE Goto(r, step)
    BY <2>1, GotoRequest DEF Rests, Steps
  <2>2. CASE Return(r)
    BY <2>2, IdleType DEF StorageInv, TypeOK, Return
  <2>3. QED
    BY <1>4, <2>1, <2>2
<1>6. CASE rows' = rows
  BY <1>4, <1>6, RequestCounted, CountedStep DEF Steps
<1>7. CASE rows' # rows
  <2>1. ~ Exists(i) /\ \A id \in Ids \ {i} : rows'[id] = rows[id]
    BY <1>3, <1>7 DEF Create, StorageInv, TypeOK
  <2>2. rows'[i].user = m.user
    BY <1>3, <1>7 DEF Create, StorageInv, TypeOK
  <2>3. SUFFICES ASSUME Quota > 0, NEW u \in Users \ Exempt
                 PROVE  Cardinality(Stored(u)') + Cardinality(Passing(u)') < Quota + Cardinality(Reqs)
    BY DEF QuotaInv, Used, Stored
  <2>4. Cardinality(Stored(u)) + Cardinality(Passing(u)) < Quota + Cardinality(Reqs)
    BY <2>3, CountsFinite DEF QuotaInv
  <2>5. CASE u # m.user
    <3>1. Stored(u)' \subseteq Stored(u) /\ Passing(u)' \subseteq Passing(u)
      BY <1>5, <2>1, <2>2, <2>5 DEF Stored, Passing, Exists
    <3>2. /\ Cardinality(Stored(u)') <= Cardinality(Stored(u)) /\ Cardinality(Stored(u)') \in Nat
          /\ Cardinality(Passing(u)') <= Cardinality(Passing(u)) /\ Cardinality(Passing(u)') \in Nat
      BY <3>1, CountsFinite, FS_Subset, FS_CardinalityType
    <3>3. QED
      BY <2>4, <3>2, CountsFinite, FilesAssumption
  <2>6. CASE u = m.user
    <3>1. Stored(u)' \subseteq Stored(u) \cup {i} /\ Passing(u)' \subseteq Passing(u) \ {r}
      BY <1>5, <2>1 DEF Stored, Passing, Exists
    <3>2. i \notin Stored(u) /\ r \in Passing(u)
      BY <1>1, <1>3, <2>1, <2>6 DEF Stored, Passing
    <3>3. /\ Cardinality(Stored(u) \cup {i}) = Cardinality(Stored(u)) + 1
          /\ IsFiniteSet(Stored(u) \cup {i})
      BY <3>2, CountsFinite, FS_AddElement
    <3>4. /\ Cardinality(Passing(u) \ {r}) = Cardinality(Passing(u)) - 1
          /\ IsFiniteSet(Passing(u) \ {r})
      BY <3>2, CountsFinite, FS_RemoveElement
    <3>5. /\ Cardinality(Stored(u)') <= Cardinality(Stored(u)) + 1 /\ Cardinality(Stored(u)') \in Nat
          /\ Cardinality(Passing(u)') <= Cardinality(Passing(u)) - 1 /\ Cardinality(Passing(u)') \in Nat
      BY <3>1, <3>3, <3>4, FS_Subset, FS_CardinalityType
    <3>6. QED
      BY <2>4, <3>5, CountsFinite, FilesAssumption
  <2>7. QED
    BY <2>5, <2>6
<1>8. QED
  BY <1>6, <1>7

\* Steps of the scheduler, of the rest of the system, and a crash.
LEMMA WorldStepsCounted ==
  ASSUME StorageInv,
         PurgeStep \/ CleanupStalePending \/ Crash \/ NextMonth \/ ApplicationChanges
           \/ \E id \in Ids : PendingTooLong(id) \/ ToggleReference(id)
  PROVE  Counted
<1>1. \A q \in Reqs : req'[q] = req[q] \/ req'[q].pc \notin {"store", "copy", "create"}
  <2>1. CASE Crash
    BY <2>1, IdleType DEF Crash
  <2>2. CASE req' = req
    BY <2>2
  <2>3. QED
    BY <2>1, <2>2 DEF PurgeStep, SelectApps, ListApp, CleanBlobs, CleanRows, PurgeApplication,
       MarkReferenced, DeleteUnreferenced, PurgeBlobs, PurgeError, CleanupStalePending, NextMonth,
       ApplicationChanges, PendingTooLong, ToggleReference
<1>2. CASE rows' = rows \/ \E S : RemoveRows(S)
  BY <1>1, <1>2, RowsCounted
<1>3. CASE MarkReferenced \/ \E id \in Ids : PendingTooLong(id)
  <2>1. \A id \in Ids : rows'[id].st = rows[id].st /\ rows'[id].user = rows[id].user
    <3>1. rows \in [Ids -> Rows] /\ \A id \in Ids : rows[id] \in Rows
      BY DEF StorageInv, TypeOK
    <3>2. QED
      BY <1>3, <3>1 DEF MarkReferenced, PendingTooLong, Rows
  <2>2. QED
    BY <1>1, <2>1 DEF Counted
<1>4. QED
  BY <1>2, <1>3 DEF PurgeStep, SelectApps, ListApp, CleanBlobs, CleanRows, PurgeApplication,
     DeleteUnreferenced, PurgeBlobs, PurgeError, CleanupStalePending, NextMonth, Crash,
     ApplicationChanges, ToggleReference, files

\* QuotaOvershootBounded: however many uploads checkQuota lets pass beside each
\* other, an account exceeds its quota by fewer files than there are requests.
THEOREM OvershootBounded == Spec => []QuotaOvershootBounded
<1>1. Init => QuotaInv
  <2>1. SUFFICES ASSUME Init, Quota > 0, NEW u \in Users \ Exempt
                 PROVE  Cardinality(Stored(u)) + Cardinality(Passing(u)) < Quota + Cardinality(Reqs)
    BY DEF QuotaInv, Used, Stored
  <2>2. Stored(u) = {} /\ Passing(u) = {}
    BY <2>1, IdleType DEF Init, Stored, Passing, Exists, NoRow
  <2>3. QED
    BY <2>1, <2>2, FS_EmptySet, CountsFinite, FilesAssumption
<1>2. StorageInv /\ QuotaInv /\ [Next]_vars => QuotaInv'
  <2>1. SUFFICES ASSUME StorageInv, QuotaInv, [Next]_vars
                 PROVE  QuotaInv'
    OBVIOUS
  <2>2. ASSUME NEW r \in Reqs, RequestStep(r)
        PROVE  QuotaInv'
    <3>1. CASE Ready(r)
      <4>1. \A id \in Ids : rows'[id].st = "none" \/
              (rows[id].st # "none" /\ rows'[id].user = rows[id].user)
        <5>1. \A id \in Ids : rows[id] \in Rows
          BY <2>1 DEF StorageInv, TypeOK
        <5>2. CASE rows' = rows
          BY <5>2
        <5>3. CASE rows' # rows
          BY <2>1, <3>1, <5>1, <5>3 DEF Ready, Exists, StorageInv, TypeOK, Rows
        <5>4. QED
          BY <5>2, <5>3
      <4>2. \A q \in Reqs : req'[q] = req[q] \/ req'[q].pc \notin {"store", "copy", "create"}
        <5>1. Goto(r, "announce") \/ Return(r)
          BY <3>1 DEF Ready, Proceed
        <5>2. CASE Goto(r, "announce")
          BY <2>1, <5>2, GotoRequest DEF Rests, Steps
        <5>3. CASE Return(r)
          BY <2>1, <5>3, IdleType DEF StorageInv, TypeOK, Return
        <5>4. QED
          BY <5>1, <5>2, <5>3
      <4>3. QED
        BY <2>1, <4>1, <4>2, CountedStep DEF Counted
    <3>2. QED
      BY <2>1, <2>2, <3>1, PlainStepsCounted, LocalStepsCounted, CheckedUploadCounts, CreateCounts,
         CountedStep DEF RequestStep
  <2>3. CASE UNCHANGED vars
    BY <2>1, <2>3 DEF QuotaInv, Used, Passing, Exists, vars, files
  <2>4. QED
    BY <2>1, <2>2, <2>3, WorldStepsCounted, CountedStep DEF Next
<1>3. QuotaInv => QuotaOvershootBounded
  <2>1. SUFFICES ASSUME QuotaInv, Quota > 0, NEW u \in Users \ Exempt
                 PROVE  Used(u) < Quota + Cardinality(Reqs)
    BY DEF QuotaOvershootBounded
  <2>2. Used(u) + Cardinality(Passing(u)) < Quota + Cardinality(Reqs)
    BY <2>1 DEF QuotaInv
  <2>3. QED
    BY <2>2, CountsFinite, FilesAssumption
<1>4. QED
  BY <1>1, <1>2, <1>3, StorageConsistent, PTL DEF Spec
=============================================================================
