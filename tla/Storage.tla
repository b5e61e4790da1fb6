------------------------------- MODULE Storage -------------------------------
(***************************************************************************)
(* Files: a row in the storage table and a blob in a backend that shares no *)
(* transaction with it.  Uploads, chunked uploads, avatars, deletion of a   *)
(* file, of an account's personal files and of a purged application's       *)
(* files, and the hourly purge run one statement or one backend call at a   *)
(* time, interleaved; any of them may fail, and the process may die.        *)
(*                                                                          *)
(* A file consists of Parts parts and has one content per id (ids are       *)
(* uuids the client draws for a file).  Sizes are one unit per file.        *)
(* The backend is the local one: it truncates the file at a path in place   *)
(* and copies into it, so others may see, remove or write a file that is    *)
(* being written, and a crash leaves what was copied.  An S3 put is the     *)
(* case in which nothing comes between the two steps.                       *)
(* Thumbnails and image dimensions are left out.                            *)
(***************************************************************************)
EXTENDS Naturals, FiniteSets

CONSTANTS
  Ids, NoId,        \* storage ids; an avatar pointer that is NULL
  Users, Exempt,    \* uploaders, and those with the space-owner role
  Reqs, NoMsg,      \* concurrently served requests; an idle one serves nothing
  Messages,         \* the requests that may arrive
  Parts,            \* parts of a file
  Quota,            \* configuration: account quota in files, 0 = unlimited
  Grace,            \* months nothing may reference a file before its purge
  MaxMonth,         \* bound: months that pass
  MaxRequests,      \* bound: requests that ever arrive
  MaxChanges        \* bound: changes to the application and to references

Months == 0..MaxMonth
Indexes == 0..(Parts - 1)

\* sum: a checksum is declared.  stale: pending for more than an hour.
\* seen: the month of COALESCE(last_referenced_at, created_at).
Rows ==
  [st: {"none", "pending", "ready"}, user: Users, inApp: BOOLEAN, month: Months,
   sum: BOOLEAN, stale: BOOLEAN, seen: Months]

\* n: the leading parts written to the file.  by: the requests that have it open
\* for writing.  cut: a write was broken off since the file was last truncated.
Blobs == [n: 0..Parts, by: SUBSET Reqs, cut: BOOLEAN]
Content(n) == [n |-> n, by |-> {}, cut |-> FALSE]
NoBlob == Content(0)

Requests ==
  [op: {"upload", "avatar", "init", "chunk", "complete", "delete", "account"},
   id: Ids, user: Users, inApp: BOOLEAN, sum: BOOLEAN, index: Indexes]

Steps ==
  {"idle", "guard", "quota", "store", "copy", "create", "undo", "existing", "discard", "announce",
   "setAvatar", "fanOut", "authorize", "chunkRead", "chunkStore", "chunkRow",
   "completeRead", "list", "combine", "storeCombined", "copyCombined", "dropParts",
   "dropChunks", "ready", "deleteRead", "deleteBlob", "deleteRow", "clearAvatar",
   "listPersonal", "dropPersonal", "erase"}

PurgeSteps ==
  {"idle", "listApp", "cleanBlobs", "cleanRows", "purgeApp", "mark", "unreference", "blobs"}

\* moved is the tombstone of a completed move; both it and deleted have deleted_at.
AppStates == {"live", "moving", "moved", "deleted", "gone"}

ASSUME FilesAssumption ==
  /\ IsFiniteSet(Ids) /\ NoId \notin Ids
  /\ IsFiniteSet(Reqs) /\ Exempt \subseteq Users /\ Users # {}
  /\ Parts \in Nat \ {0} /\ Quota \in Nat /\ Grace \in Nat \ {0}
  /\ MaxMonth \in Nat /\ MaxRequests \in Nat /\ MaxChanges \in Nat

\* A chunked upload belongs to an application, an avatar to none.
ASSUME MessagesAssumption ==
  /\ Messages \subseteq Requests /\ NoMsg \notin Requests
  /\ \A m \in Messages : (m.op = "init" => m.inApp) /\ (m.op = "avatar" => ~ m.inApp)

VARIABLES
  rows,      \* storage table
  chunks,    \* storage_chunks table: <<id, index>>
  blobs,     \* backend: content at the path of <<id, month>>
  parts,     \* backend: chunk blobs <<id, month, index>>
  refs,      \* ids mentioned by a component, an event, an icon or the space profile
  avatar,    \* users.avatar_storage_id
  app,       \* the application row
  expired,   \* the application has been deleted for longer than the retention
  now,       \* the month
  req,       \* per request: step, message and local variables
  purge,     \* the purge scheduler: step and files left to do
  arrived,   \* requests that have arrived
  changes,   \* changes made by the rest of the system
  doomed,    \* history: ids whose removal by Delete, an account or an app purge began
  repeated   \* history: ids written again while ready or while being written

files == <<rows, chunks, blobs, parts>>
world == <<refs, avatar, app, expired, now, changes>>
history == <<doomed, repeated>>
vars == <<files, world, req, purge, arrived, history>>

NoRow(id) ==
  [st |-> "none", user |-> CHOOSE u \in Users : TRUE, inApp |-> FALSE, month |-> 0,
   sum |-> FALSE, stale |-> FALSE, seen |-> 0]

\* id: the file the step is about.  month: that of its storagePath.
\* inApp, sum: of the row read.  n: parts combined.  prev: the avatar when the
\* request was authenticated.  todo: paths of personal files left to remove.
IdleReq ==
  [pc |-> "idle", m |-> NoMsg, id |-> NoId, month |-> 0, inApp |-> FALSE, sum |-> FALSE,
   n |-> 0, prev |-> NoId, todo |-> {}]
Locals ==
  [pc: Steps, m: Messages \cup {NoMsg}, id: Ids \cup {NoId}, month: Months, inApp: BOOLEAN,
   sum: BOOLEAN, n: 0..Parts, prev: Ids \cup {NoId}, todo: SUBSET (Ids \X Months)]
IdlePurge == [pc |-> "idle", todo |-> {}]

Init ==
  /\ rows = [id \in Ids |-> NoRow(id)]
  /\ chunks = {}
  /\ blobs = [p \in Ids \X Months |-> NoBlob]
  /\ parts = {}
  /\ refs = {}
  /\ avatar = [u \in Users |-> NoId]
  /\ app = "live"
  /\ expired = FALSE
  /\ now = 0
  /\ req = [r \in Reqs |-> IdleReq]
  /\ purge = IdlePurge
  /\ arrived = 0
  /\ changes = 0
  /\ doomed = {}
  /\ repeated = {}

Exists(id) == rows[id].st # "none"
Path(id) == <<id, rows[id].month>>
Used(u) == Cardinality({id \in Ids : Exists(id) /\ rows[id].user = u})

-----------------------------------------------------------------------------
(* Request plumbing. *)

At(r, step) == req[r].pc = step
Goto(r, step) == req' = [req EXCEPT ![r].pc = step]
Return(r) == req' = [req EXCEPT ![r] = IdleReq]
Proceed(r, ok, step) == IF ok THEN Goto(r, step) ELSE Return(r)

\* os.Remove: a request that has the file open goes on writing to no path.
Remove(id, month) == blobs' = [blobs EXCEPT ![<<id, month>>] = NoBlob]

\* A blob delete whose error is logged or ignored.
TryRemove(id, month) == Remove(id, month) \/ UNCHANGED blobs

\* DELETE FROM storage; users.avatar_storage_id is ON DELETE SET NULL.
RemoveRows(S) ==
  /\ rows' = [id \in Ids |-> IF id \in S THEN NoRow(id) ELSE rows[id]]
  /\ avatar' = [u \in Users |-> IF avatar[u] \in S THEN NoId ELSE avatar[u]]

Writes(op) == op \in {"upload", "avatar", "init", "complete"}
BeingWritten(id) ==
  rows[id].st = "ready" \/ \E r \in Reqs : ~ At(r, "idle") /\ req[r].id = id /\ Writes(req[r].m.op)

Entry(m) ==
  CASE m.op = "init" \/ (m.op = "upload" /\ m.inApp) -> "guard"
    [] m.op = "avatar" \/ (m.op = "upload" /\ ~ m.inApp) -> "quota"
    [] m.op = "account" -> "clearAvatar"
    [] OTHER -> "authorize"

Arrive(r) ==
  /\ At(r, "idle")
  /\ arrived < MaxRequests
  /\ arrived' = arrived + 1
  /\ \E m \in Messages :
       /\ req' = [req EXCEPT ![r] =
                    [IdleReq EXCEPT !.pc = Entry(m), !.m = m, !.id = m.id, !.inApp = m.inApp,
                                    !.prev = IF m.op = "avatar" THEN avatar[m.user] ELSE NoId]]
       /\ repeated' = IF Writes(m.op) /\ BeingWritten(m.id)
                        THEN repeated \cup {m.id} ELSE repeated
  /\ UNCHANGED <<files, world, purge, doomed>>

-----------------------------------------------------------------------------
(* Upload and UploadUserAvatar. *)

\* MoveGuard: a soft-deleted or purged application does not refuse.
MoveGuard == app \notin {"moving", "moved"}

\* checkAuthorization: MoveGuard and IsMember; the members go with the row.
Guard(r) ==
  /\ At(r, "guard")
  /\ Proceed(r, MoveGuard /\ app # "gone", "quota")
  /\ UNCHANGED <<files, world, purge, arrived, history>>

\* A mutant: the size of the new file is not counted.
CheckQuotaUsed(u) == Quota = 0 \/ u \in Exempt \/ Used(u) <= Quota
CheckQuota(u) == Quota = 0 \/ u \in Exempt \/ Used(u) + 1 <= Quota

\* A mutant: storagePath without year and month.
CheckedUploadFlatPath(r) ==
  /\ At(r, "quota")
  /\ Proceed(r, CheckQuota(req[r].m.user), IF req[r].m.op = "init" THEN "create" ELSE "store")
  /\ UNCHANGED <<files, world, purge, arrived, history>>

\* checkQuota, then created_at and the storagePath with its year and month.
CheckedUpload(r) ==
  /\ At(r, "quota")
  /\ IF CheckQuota(req[r].m.user)
       THEN req' = [req EXCEPT ![r].pc = IF req[r].m.op = "init" THEN "create" ELSE "store",
                               ![r].month = now]
       ELSE Return(r)
  /\ UNCHANGED <<files, world, purge, arrived, history>>

\* LocalStorage.Store, of an upload or of the combined parts: os.Create empties
\* the file, whoever else is writing it ...
Store(r) ==
  LET p == <<req[r].id, req[r].month>> IN
  /\ At(r, "store") \/ At(r, "storeCombined")
  /\ blobs' = [blobs EXCEPT ![p] = [n |-> 0, by |-> blobs[p].by \cup {r}, cut |-> FALSE]]
  /\ Goto(r, IF At(r, "store") THEN "copy" ELSE "copyCombined")
  /\ UNCHANGED <<rows, chunks, parts, world, purge, arrived, history>>

\* ... and io.Copy fills the file this request opened, unless it was removed.
Copy(r) ==
  LET p == <<req[r].id, req[r].month>>
      b == blobs[p]
      size == IF At(r, "copy") THEN Parts ELSE req[r].n
  IN /\ At(r, "copy") \/ At(r, "copyCombined")
     /\ blobs' = IF r \in b.by
                   THEN [blobs EXCEPT ![p] = [n |-> IF b.n < size THEN size ELSE b.n,
                                              by |-> b.by \ {r}, cut |-> b.cut]]
                   ELSE blobs
     /\ Goto(r, IF At(r, "copy") THEN "create" ELSE "dropParts")
     /\ UNCHANGED <<rows, chunks, parts, world, purge, arrived, history>>

\* Where an upload goes once it has a row to answer with.
Uploaded(m) ==
  CASE m.op = "avatar" -> "setAvatar"
    [] m.op = "upload" /\ m.inApp -> "announce"
    [] OTHER -> "idle"

\* repo.Create of Upload (ready) and of InitChunkedUpload (pending).
Create(r) ==
  LET m == req[r].m
      init == m.op = "init"
  IN /\ At(r, "create")
     /\ IF Exists(m.id)
          THEN Proceed(r, ~ init, "undo") /\ UNCHANGED rows
          ELSE /\ rows' = [rows EXCEPT ![m.id] =
                             [st |-> IF init THEN "pending" ELSE "ready", user |-> m.user,
                              inApp |-> m.inApp, month |-> req[r].month,
                              sum |-> init => m.sum, stale |-> FALSE, seen |-> req[r].month]]
               /\ Proceed(r, ~ init /\ Uploaded(m) # "idle", Uploaded(m))
     /\ UNCHANGED <<chunks, blobs, parts, world, purge, arrived, history>>

\* The unique violation: the blob just stored is deleted again ...
Undo(r) ==
  /\ At(r, "undo")
  /\ TryRemove(req[r].id, req[r].month)
  /\ Goto(r, "existing")
  /\ UNCHANGED <<rows, chunks, parts, world, purge, arrived, history>>

\* ... and the existing row is the answer.
Existing(r) ==
  /\ At(r, "existing")
  /\ Proceed(r, Exists(req[r].id) /\ Uploaded(req[r].m) # "idle", Uploaded(req[r].m))
  /\ UNCHANGED <<files, world, purge, arrived, history>>

\* Any other error of Create.
Discard(r) ==
  /\ At(r, "discard")
  /\ TryRemove(req[r].id, req[r].month)
  /\ Return(r)
  /\ UNCHANGED <<rows, chunks, parts, world, purge, arrived, history>>

\* ProduceEvent of application_file_created or _deleted: the event names the
\* file; a failure is logged.
Announce(r) ==
  /\ At(r, "announce")
  /\ \/ app = "live" /\ refs' = refs \cup {req[r].id}
     \/ UNCHANGED refs
  /\ Return(r)
  /\ UNCHANGED <<files, avatar, app, expired, now, changes, purge, arrived, history>>

\* UpdateAvatarStorageID; the foreign key refuses a row that is gone.
SetAvatar(r) ==
  /\ At(r, "setAvatar")
  /\ Proceed(r, Exists(req[r].id), "fanOut")
  /\ avatar' = IF Exists(req[r].id) THEN [avatar EXCEPT ![req[r].m.user] = req[r].id] ELSE avatar
  /\ UNCHANGED <<files, refs, app, expired, now, changes, purge, arrived, history>>

\* user_settings_changed to the member's applications, best-effort; then
\* Delete of the avatar the request was authenticated with.
FanOut(r) ==
  LET old == req[r].prev IN
  /\ At(r, "fanOut")
  /\ refs' \in {refs, refs \cup {req[r].id}}
  /\ IF old = NoId THEN Return(r)
     ELSE req' = [req EXCEPT ![r].pc = "deleteRead", ![r].id = old]
  /\ UNCHANGED <<files, avatar, app, expired, now, changes, purge, arrived, history>>

-----------------------------------------------------------------------------
(* Chunked uploads. *)

\* The endpoint's Get, its uploader check (Delete checks for itself) and
\* guardAppWrite.
Authorize(r) ==
  LET m == req[r].m
      row == rows[m.id]
  IN /\ At(r, "authorize")
     /\ IF /\ Exists(m.id)
           /\ m.op # "delete" => row.user = m.user
           /\ row.inApp => MoveGuard
          THEN req' = [req EXCEPT ![r].pc = CASE m.op = "chunk" -> "chunkRead"
                                              [] m.op = "complete" -> "completeRead"
                                              [] OTHER -> "deleteRead",
                                  ![r].inApp = row.inApp]
          ELSE Return(r)
     /\ UNCHANGED <<files, world, purge, arrived, history>>

\* GetByID and the status check, of UploadChunk and of CompleteChunkedUpload.
ReadPending(r) ==
  LET id == req[r].id IN
  /\ At(r, "chunkRead") \/ At(r, "completeRead")
  /\ IF rows[id].st = "pending"
       THEN req' = [req EXCEPT ![r].pc = IF At(r, "chunkRead") THEN "chunkStore" ELSE "list",
                               ![r].month = rows[id].month, ![r].sum = rows[id].sum]
       ELSE Return(r)
  /\ UNCHANGED <<files, world, purge, arrived, history>>

\* A part torn by a second write of it, or by a crash, makes the completion that
\* reads it fail its checksum (BackendError); without one nothing is claimed of it.
ChunkStore(r) ==
  /\ At(r, "chunkStore")
  /\ parts' = parts \cup {<<req[r].id, req[r].month, req[r].m.index>>}
  /\ Goto(r, "chunkRow")
  /\ UNCHANGED <<rows, chunks, blobs, world, purge, arrived, history>>

\* CreateChunk: an upsert; nothing ties it to the storage row.
ChunkRow(r) ==
  /\ At(r, "chunkRow")
  /\ chunks' = chunks \cup {<<req[r].id, req[r].m.index>>}
  /\ Return(r)
  /\ UNCHANGED <<rows, blobs, parts, world, purge, arrived, history>>

\* GetChunks; they must be contiguous from 0.  Their number is not checked.
ListChunks(r) ==
  LET uploaded == {c[2] : c \in {c \in chunks : c[1] = req[r].id}}
      n == Cardinality(uploaded)
  IN /\ At(r, "list")
     /\ IF n > 0 /\ uploaded = 0..(n - 1)
          THEN req' = [req EXCEPT ![r].pc = "combine", ![r].n = n]
          ELSE Return(r)
     /\ UNCHANGED <<files, world, purge, arrived, history>>

\* A mutant: the declared checksum is not compared.
CombineUnchecked(r) ==
  /\ At(r, "combine")
  /\ Proceed(r, \A i \in 0..(req[r].n - 1) : <<req[r].id, req[r].month, i>> \in parts,
             "storeCombined")
  /\ UNCHANGED <<files, world, purge, arrived, history>>

\* Every chunk blob is read; the combined size never exceeds the declared one
\* here, and a checksum declared in the row read at the start must match.
Combine(r) ==
  /\ At(r, "combine")
  /\ Proceed(r, /\ \A i \in 0..(req[r].n - 1) : <<req[r].id, req[r].month, i>> \in parts
                /\ req[r].sum => req[r].n = Parts,
             "storeCombined")
  /\ UNCHANGED <<files, world, purge, arrived, history>>

\* The errors of these deletes are ignored.
DropParts(r) ==
  LET mine == {<<req[r].id, req[r].month, i>> : i \in 0..(req[r].n - 1)} IN
  /\ At(r, "dropParts")
  /\ \E kept \in SUBSET mine : parts' = (parts \ mine) \cup (parts \cap kept)
  /\ Goto(r, "dropChunks")
  /\ UNCHANGED <<rows, chunks, blobs, world, purge, arrived, history>>

DropChunks(r) ==
  /\ At(r, "dropChunks")
  /\ chunks' \in {chunks, {c \in chunks : c[1] # req[r].id}}
  /\ Goto(r, "ready")
  /\ UNCHANGED <<rows, blobs, parts, world, purge, arrived, history>>

\* UpdateStatus by id alone, with the row check.
Ready(r) ==
  LET id == req[r].id IN
  /\ At(r, "ready")
  /\ rows' = IF Exists(id) THEN [rows EXCEPT ![id].st = "ready"] ELSE rows
  /\ Proceed(r, Exists(id), "announce")
  /\ UNCHANGED <<chunks, blobs, parts, world, purge, arrived, history>>

-----------------------------------------------------------------------------
(* Deletion: of a file, and of an account's personal files. *)

\* Service.Delete: GetByID and its uploader check.
DeleteRead(r) ==
  LET id == req[r].id IN
  /\ At(r, "deleteRead")
  /\ IF Exists(id) /\ rows[id].user = req[r].m.user
       THEN /\ req' = [req EXCEPT ![r].pc = "deleteBlob", ![r].month = rows[id].month]
            /\ doomed' = doomed \cup {id}
       ELSE Return(r) /\ UNCHANGED doomed
  /\ UNCHANGED <<files, world, purge, arrived, repeated>>

DeleteBlob(r) ==
  /\ At(r, "deleteBlob")
  /\ TryRemove(req[r].id, req[r].month)
  /\ Goto(r, "deleteRow")
  /\ UNCHANGED <<rows, chunks, parts, world, purge, arrived, history>>

DeleteRow(r) ==
  LET id == req[r].id IN
  /\ At(r, "deleteRow")
  /\ RemoveRows({id})
  /\ Proceed(r, Exists(id) /\ req[r].inApp, "announce")
  /\ UNCHANGED <<chunks, blobs, parts, refs, app, expired, now, changes, purge, arrived, history>>

\* DeleteAccount: the avatar pointer first ...
ClearAvatar(r) ==
  /\ At(r, "clearAvatar")
  /\ avatar' = [avatar EXCEPT ![req[r].m.user] = NoId]
  /\ Goto(r, "listPersonal")
  /\ UNCHANGED <<files, refs, app, expired, now, changes, purge, arrived, history>>

Personal(u) == {id \in Ids : Exists(id) /\ rows[id].user = u /\ ~ rows[id].inApp}

\* ... then DeletePersonalBlobs, which stops at the first error ...
ListPersonal(r) ==
  LET mine == Personal(req[r].m.user) IN
  /\ At(r, "listPersonal")
  /\ req' = [req EXCEPT ![r].pc = "dropPersonal", ![r].todo = {Path(id) : id \in mine}]
  /\ doomed' = doomed \cup mine
  /\ UNCHANGED <<files, world, purge, arrived, repeated>>

DropPersonal(r) ==
  /\ At(r, "dropPersonal")
  /\ IF req[r].todo = {} THEN Goto(r, "erase") /\ UNCHANGED blobs
     ELSE \E p \in req[r].todo :
            /\ Remove(p[1], p[2])
            /\ req' = [req EXCEPT ![r].todo = @ \ {p}]
  /\ UNCHANGED <<rows, chunks, parts, world, purge, arrived, history>>

\* ... and at the end the rows, in the transaction of eraseAccount.
Erase(r) ==
  /\ At(r, "erase")
  /\ RemoveRows(Personal(req[r].m.user))
  /\ doomed' = doomed \cup Personal(req[r].m.user)
  /\ Return(r)
  /\ UNCHANGED <<chunks, blobs, parts, refs, app, expired, now, changes, purge, arrived, repeated>>

-----------------------------------------------------------------------------
(* Errors. *)

\* A statement fails.  Create then discards the blob; elsewhere the request
\* returns.  Announce, FanOut and DropChunks ignore their errors.
DatabaseError(r) ==
  /\ req[r].pc \in {"guard", "quota", "create", "existing", "setAvatar", "authorize", "chunkRead",
                    "chunkRow", "completeRead", "list", "ready", "deleteRead", "deleteRow",
                    "clearAvatar", "listPersonal", "erase"}
  /\ Proceed(r, At(r, "create") /\ req[r].m.op # "init", "discard")
  /\ UNCHANGED <<files, world, purge, arrived, history>>

\* A backend call that must succeed fails.  When it is the copy, the local
\* backend removes what is now at the path; that error is ignored too.
BackendError(r) ==
  LET id == req[r].id
      p == <<id, req[r].month>>
      copying == At(r, "copy") \/ At(r, "copyCombined")
  IN /\ copying \/ req[r].pc \in {"store", "chunkStore", "combine", "storeCombined", "dropPersonal"}
     /\ Return(r)
     /\ \/ copying /\ Remove(id, req[r].month)
        \/ copying /\ r \in blobs[p].by
             /\ blobs' = [blobs EXCEPT ![p] = [n |-> blobs[p].n, by |-> blobs[p].by \ {r},
                                               cut |-> TRUE]]
        \/ (copying => r \notin blobs[p].by) /\ UNCHANGED blobs
     /\ IF At(r, "chunkStore")
          THEN parts' \in {parts, parts \ {<<id, req[r].month, req[r].m.index>>}}
          ELSE UNCHANGED parts
     /\ UNCHANGED <<rows, chunks, world, purge, arrived, history>>

\* The process dies: every request and the purge with it.  A file that was being
\* written holds what was copied.
Crash ==
  /\ req' = [r \in Reqs |-> IdleReq]
  /\ purge' = IdlePurge
  /\ blobs' = [p \in Ids \X Months |->
                 IF blobs[p].by = {} THEN blobs[p]
                 ELSE [n |-> blobs[p].n, by |-> {}, cut |-> TRUE]]
  /\ UNCHANGED <<rows, chunks, parts, world, arrived, history>>

-----------------------------------------------------------------------------
(* The purge scheduler, one goroutine: PurgeDeletedApps, then               *)
(* PurgeUnreferencedBlobs.  Any step may fail.                              *)

Purgeable == app \in {"deleted", "moved"} /\ expired
PurgeAt(step) == purge.pc = step
PurgeGoto(step) == purge' = [purge EXCEPT !.pc = step]

\* GetPurgeableApplicationIDs.
SelectApps ==
  /\ PurgeAt("idle")
  /\ PurgeGoto(IF Purgeable THEN "listApp" ELSE "mark")
  /\ UNCHANGED <<files, world, req, arrived, history>>

AppFiles == {id \in Ids : Exists(id) /\ rows[id].inApp}

\* CleanupApplicationStorage: GetByApplicationID ...
ListApp ==
  /\ PurgeAt("listApp")
  /\ purge' = [pc |-> "cleanBlobs", todo |-> {Path(id) : id \in AppFiles}]
  /\ doomed' = doomed \cup AppFiles
  /\ UNCHANGED <<files, world, req, arrived, repeated>>

\* ... the blobs; the first that fails leaves the rows for the next run ...
CleanBlobs ==
  /\ PurgeAt("cleanBlobs")
  /\ IF purge.todo = {} THEN PurgeGoto("cleanRows") /\ UNCHANGED blobs
     ELSE \E p \in purge.todo :
            /\ Remove(p[1], p[2])
            /\ purge' = [purge EXCEPT !.todo = @ \ {p}]
  /\ UNCHANGED <<rows, chunks, parts, world, req, arrived, history>>

\* ... DeleteByApplicationID.
CleanRows ==
  /\ PurgeAt("cleanRows")
  /\ RemoveRows(AppFiles)
  /\ PurgeGoto("purgeApp")
  /\ UNCHANGED <<chunks, blobs, parts, refs, app, expired, now, changes, req, arrived, history>>

\* PurgeApplication repeats the selection's condition.
PurgeApplication ==
  /\ PurgeAt("purgeApp")
  /\ app' = IF Purgeable THEN "gone" ELSE app
  /\ PurgeGoto("mark")
  /\ UNCHANGED <<files, refs, avatar, expired, now, changes, req, arrived, history>>

Referenced(id) == id \in refs \/ \E u \in Users : avatar[u] = id

\* The refresh at most once a day is finer than a month.
MarkReferenced ==
  /\ PurgeAt("mark")
  /\ rows' = [id \in Ids |->
                IF rows[id].st = "ready" /\ Referenced(id)
                  THEN [rows[id] EXCEPT !.seen = now] ELSE rows[id]]
  /\ PurgeGoto("unreference")
  /\ UNCHANGED <<chunks, blobs, parts, world, req, arrived, history>>

Unreferenced == {id \in Ids : /\ rows[id].st = "ready"
                              /\ rows[id].seen + Grace <= now
                              /\ ~ Referenced(id)}
\* The rows go first, in one statement ...
DeleteUnreferenced ==
  /\ PurgeAt("unreference")
  /\ RemoveRows(Unreferenced)
  /\ purge' = [pc |-> "blobs", todo |-> {Path(id) : id \in Unreferenced}]
  /\ UNCHANGED <<chunks, blobs, parts, refs, app, expired, now, changes, req, arrived, history>>

\* ... and then their blobs; an error is logged.
PurgeBlobs ==
  /\ PurgeAt("blobs")
  /\ IF purge.todo = {} THEN PurgeGoto("idle") /\ UNCHANGED blobs
     ELSE \E p \in purge.todo :
            /\ TryRemove(p[1], p[2])
            /\ purge' = [purge EXCEPT !.todo = @ \ {p}]
  /\ UNCHANGED <<rows, chunks, parts, world, req, arrived, history>>

PurgeError ==
  /\ purge.pc \notin {"idle", "blobs"}
  /\ purge' = [pc |-> IF purge.pc \in {"mark", "unreference"} THEN "idle" ELSE "mark",
               todo |-> {}]
  /\ UNCHANGED <<files, world, req, arrived, history>>

\* CleanupStalePendingUploads: one transaction; the blobs stay.
CleanupStalePending ==
  LET stale == {id \in Ids : rows[id].st = "pending" /\ rows[id].stale} IN
  /\ stale # {}
  /\ chunks' = {c \in chunks : c[1] \notin stale}
  /\ RemoveRows(stale)
  /\ UNCHANGED <<blobs, parts, refs, app, expired, now, changes, purge, req, arrived, history>>

-----------------------------------------------------------------------------
(* Time, and what the rest of the system does. *)

PendingTooLong(id) ==
  /\ rows[id].st = "pending" /\ ~ rows[id].stale
  /\ rows' = [rows EXCEPT ![id].stale = TRUE]
  /\ UNCHANGED <<chunks, blobs, parts, world, req, purge, arrived, history>>

NextMonth ==
  /\ now < MaxMonth
  /\ now' = now + 1
  /\ UNCHANGED <<files, refs, avatar, app, expired, changes, req, purge, arrived, history>>

\* A component, event, icon or profile names the file, or no longer does.
ToggleReference(id) ==
  /\ changes < MaxChanges /\ changes' = changes + 1
  /\ refs' = IF id \in refs THEN refs \ {id} ELSE refs \cup {id}
  /\ UNCHANGED <<files, avatar, app, expired, now, req, purge, arrived, history>>

\* Deletion, the move, the retention running out, and the upsert of
\* CreateApplication, which clears deleted_at and the move.
ApplicationChanges ==
  /\ changes < MaxChanges /\ changes' = changes + 1
  /\ \/ app = "live" /\ app' \in {"deleted", "moving"} /\ expired' = FALSE
     \/ app = "moving" /\ app' = "moved" /\ expired' = FALSE
     \/ app \in {"deleted", "moved"} /\ ~ expired /\ expired' = TRUE /\ UNCHANGED app
     \/ app # "live" /\ app' = "live" /\ expired' = FALSE
  /\ UNCHANGED <<files, refs, avatar, now, req, purge, arrived, history>>

RequestStep(r) ==
  \/ Arrive(r) \/ Guard(r) \/ CheckedUpload(r) \/ Store(r) \/ Copy(r) \/ Create(r) \/ Undo(r)
  \/ Existing(r) \/ Discard(r) \/ Announce(r) \/ SetAvatar(r) \/ FanOut(r)
  \/ Authorize(r) \/ ReadPending(r) \/ ChunkStore(r) \/ ChunkRow(r)
  \/ ListChunks(r) \/ Combine(r) \/ DropParts(r) \/ DropChunks(r) \/ Ready(r)
  \/ DeleteRead(r) \/ DeleteBlob(r) \/ DeleteRow(r)
  \/ ClearAvatar(r) \/ ListPersonal(r) \/ DropPersonal(r) \/ Erase(r)
  \/ DatabaseError(r) \/ BackendError(r)

PurgeStep ==
  \/ SelectApps \/ ListApp \/ CleanBlobs \/ CleanRows \/ PurgeApplication
  \/ MarkReferenced \/ DeleteUnreferenced \/ PurgeBlobs \/ PurgeError

Next ==
  \/ \E r \in Reqs : RequestStep(r)
  \/ PurgeStep
  \/ CleanupStalePending
  \/ Crash
  \/ NextMonth
  \/ \E id \in Ids : PendingTooLong(id) \/ ToggleReference(id)
  \/ ApplicationChanges

Spec == Init /\ [][Next]_vars

-----------------------------------------------------------------------------
(* Properties. *)

\* Every variable keeps its type: the tables, the backend, the requests' locals.
TypeOK ==
  /\ rows \in [Ids -> Rows]
  /\ chunks \subseteq Ids \X Indexes
  /\ blobs \in [Ids \X Months -> Blobs]
  /\ parts \subseteq Ids \X Months \X Indexes
  /\ refs \subseteq Ids
  /\ avatar \in [Users -> Ids \cup {NoId}]
  /\ app \in AppStates /\ expired \in BOOLEAN
  /\ now \in Months
  /\ req \in [Reqs -> Locals]
  /\ purge \in [pc: PurgeSteps, todo: SUBSET (Ids \X Months)]
  /\ arrived \in 0..MaxRequests /\ changes \in 0..MaxChanges
  /\ doomed \subseteq Ids /\ repeated \subseteq Ids

\* A ready file with a checksum serves its whole content or nothing, whichever
\* chunks were uploaded twice, late or out of order, and however many
\* completions and cleanups ran beside each other (CompleteChunkedUpload's
\* contiguity and checksum tests).  Incomplete content is served only of a file
\* that was sent again while it was ready or being written, and then only while
\* a store has it open or after one was broken off: LocalStorage.Store truncates
\* in place.  An id that is also announced without a checksum is covered unless
\* it was sent again: a completion without one may then store late, over it.
Declared(id) == \A m \in Messages : m.op = "init" /\ m.id = id => m.sum
DeclaredContent ==
  \A id \in Ids :
    LET b == blobs[Path(id)] IN
    (Declared(id) \/ id \notin repeated) /\ rows[id].st = "ready" /\ rows[id].sum =>
      \/ b \in {NoBlob, Content(Parts)}
      \/ id \in repeated /\ (b.n = Parts \/ b.by # {} \/ b.cut)

\* A ready row has its blob, unless a deletion of that file was begun or the
\* file was sent again while it was ready or being written.  In particular
\* PurgeUnreferenced, which deletes rows first, never takes the blob of a live
\* row, even when the id is uploaded again in the middle of its run.
ReadyHasBlob ==
  \A id \in Ids \ (doomed \cup repeated) : rows[id].st = "ready" => blobs[Path(id)] # NoBlob

\* checkQuota reads and only later writes, so concurrent uploads overshoot the
\* quota, but by fewer files than there are requests in flight.
QuotaOvershootBounded ==
  Quota > 0 => \A u \in Users \ Exempt : Used(u) < Quota + Cardinality(Reqs)
=============================================================================
