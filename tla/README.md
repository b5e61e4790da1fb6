# Verification of prappser-spaces

A *space* is a self-hosted Go server over PostgreSQL. It keeps shared
applications: their members, their components and a numbered event log that
clients synchronise from. Members join by invitation, files are stored beside
the log, agents get access by OAuth, and connected clients hear of events over
websockets. Nearly every request is a sequence of separate SQL statements, so
what can go wrong is what happens between two of them.

This directory models those sequences in TLA+, checks them with TLC on small
instances and proves the central results with TLAPS for every instance.

## 1. Inventory

| part (`internal/...`) | state | operations | what is hard |
|---|---|---|---|
| `event` | `events` rows (sequence, ordinal), id dedup | accept, produce, apply, broadcast, prune, list by cursor | concurrent sequencing, retries, events racing a move or a deletion, visibility of ordinals |
| `application` | `applications`, `members`, groups, components | register, delete, agent access, start / abort / complete move, expiry, purge | check-then-write statements, tombstones that come back, high-water mark of the log |
| `invitation` | `invitations`, `invitation_uses` | create, revoke, join, promote | a join is a dozen statements; a claimed use must be given back or spent, never both |
| `storage` | `storage` and chunk rows, blobs on disk or S3 | upload, chunked upload, delete, avatar, purge | two stores without a common transaction, re-uploads of an id, purges racing revival |
| `oauth` and `user/agent_*` | pending requests and codes in memory, agent devices and refresh tokens | authorize, approve, exchange, refresh, revoke | replay during an exchange, expiry in flight, restart |
| `websocket` | sockets, subscriptions, bounded channels | register, subscribe, broadcast, disconnect | closing a channel others send on, slow sockets, revocation against connection |
| `user` | accounts, devices, identity bindings, passwords, owner claim | login challenge, register, enroll, revoke, bind, claim | monotone bindings, first claim wins, device revival |
| `reminder` | rules and due rows | tick, fire, advance, skip | firing commits before advancing; recurrence over time zones |
| `push` | subscriptions, digest rows, VAPID key | notify, digest, prune | digest is claimed before it is sent |
| `keys` | key file, `space_keys` row | initialize, import, export | which identity wins after a crash or on a wrong volume |
| `component`, `schemas`, `schemabundle` | schema revisions; pure functions | validate, migrate by lens, publish bundle | lens laws, revision order |
| `profile` | (spans the others) | delete account | a long sequence of steps against every other service |
| `mcp` | none of its own | agent tools | calls the services above |
| `space`, `spaceprofile`, `admin`, `status`, `health`, `setup`, `middleware`, `netguard`, `httputil`, `config`, `db`, `http`, `main` | single rows, configuration, a rate limiter | single statements and stateless filters | little |

How they interact: endpoints call services; services call repositories, and
`EventService.ProduceEvent` is how invitations, storage, moves, reminders and
account deletion write to the log. After commit the event service calls the
hub and the push service. User and device changes call `Hub.Disconnect`.
Schedulers (event cleanup, storage purge, reminders, digests) run beside the
requests and share only the database with them.

What makes each part correct, in a sentence:

* the log of an application is a strictly increasing sequence in the order in
  which readers can see it; an event is applied once; a moved application's log
  says nothing but that it moved; an application keeps its owner;
* an invitation admits at most as many joiners as it has uses, whatever fails;
* a ready file has a blob with the declared content, unless it is sent again; the
  quota is overshot by at most the uploads under way;
* a code makes one agent, a replay costs it, a refresh token works once;
* nobody sends on a closed channel, leavers hear nothing later, and a stalled
  socket holds up nobody;
* while an account lives, a newer binding ends the sessions of the older one, a
  session speaks for the account of its device, a revoked device stays out until
  its identity space vouches for it again, and the escrowed key is not lost while
  the binding names this space;
* a claimed space keeps its owner, a sealed password keeps its salt;
* a reminder is fired by the rule that stands, again only if the first firing was
  lost; an event reaches a subscription once;
* a client that follows its cursor can tell when it has lost something.

## 2. Modules

`PROJECT.json` maps each definition to the lines it models. Operators marked
*Mutant* change a definition the way a plausible bug would; each property is
shown to fail under one of them.

### EventLog, EventRules, EventPipeline (`event`, `application`)

`EventLog` has the rows of the `events` table and what SQL does with them:
`GetNextSequence`, insertion, pruning. `EventRules` has the stateless checks:
roles, validation, staleness. `EventPipeline` composes them with the
`applications` and `members` tables, the row lock of `persistAndApply`, and the
requests. A request is a message (its input) and a program counter; each SQL
statement or transaction step is an action. `AcceptEvent`, `ProduceEvent` and
`ApplicationRequest` are the arrivals. `MoveGuard`, `Authorize`, `OwnerCheck`
are reads before the transaction; `BeginTx`, `Dedupe`, `InsertAndExecute`,
`Commit` are the transaction under the lock; `Broadcast` comes after it.
`StartMove`, `AbortMove`, `CompleteMove`, `DeleteApplication`,
`RegisterApplication` and `SetAgentRead` are the application service.
`CleanupOldEvents`, `PurgeApplication` are the background jobs; `StatementFails`,
`LockTimeout` and `Crash` may hit anywhere.

Abstractions: the two reads of `GetApplicationByID` are one; all event types
that change neither members nor the application row are represented by
`application_data_changed`; a clock tick is a day and no request spans one;
`LeaveApplication` changes nothing (the client submits the `member_removed`
event itself) and is left out.

### AppLog (what the pipeline promises)

One log per application, written by one writer at a time: an event, its number
and its effect on the members appear in one step (`Append`), numbers follow each
other without a gap above a mark that pruning does not lower, and an id is in
the log once. `EventPipeline` instantiates it with the committed rows, the mark
`GetNextSequence` starts from, and the members; `ImplementsLog` says that
every step of the pipeline is a step of the log or invisible to its readers. A
move or a purge ends a log (`End`), and the next one may start lower: that is
what the code does (section 5).

### EventFeed (`GET /events`)

Extends `EventPipeline` with a client of one account that polls by cursor. A
poll is three statements (`FindCursor`, `GetSince`, `LoadAppVersions`); its
answer may be lost, and a cursor that is gone makes the client start over. The
client is not in the repository: it keeps what it is given and moves its cursor
to the end of a page. `passed` records what a page went past and why.

### Invitation (`invitation`)

One application and its invitations. A join walks the statements of
`JoinApplication`: look up and check the invitation, look up the account, the
signup cap, the device, claim a use, create the account, enroll the device,
look at the membership, promote or admit, record the use; every early return
goes through the deferred `ReleaseUse`. Every statement may fail, and a crash
ends all requests at once. `vouched` means the join carries a verified identity
assertion; what a binding must say is in Sessions. `AuthorizeAppRole` and
`MoveGuard` are one read, and so are `GetDevice` and `HasBeenUsedBy` in
`canPromote`. Rows that are deleted keep their contents with `open = FALSE`, so
that the properties can speak of them. `GetInviteInfo` and
`CheckInvitationUsage` read only and are left out.

### Storage (`storage`, avatars and account deletion of `profile`)

Rows, chunk rows, the blob store and parts of chunked uploads. A blob is how many
leading parts of its content were copied to its path, which requests have it
open for writing, and whether a write was broken off since it was last truncated;
an id always stands for the same content, since it is drawn by the client for one
file. `Store` is `os.Create`, which empties what is there, and `Copy` is
`io.Copy`: between them others may read, remove or truncate the file, or write it
too, a copy that fails removes it, and a crash leaves any prefix. A put to S3 is
atomic, the case in which nothing comes between the two. A chunk's own blob is
written in one step: only a completion reads it, and compares what it read with
the declared checksum. A tick is a month: paths
contain the month, and the grace period of 90 days always crosses one. A
soft-deleted application still accepts uploads, because `MoveGuard` does not
look at `deleted_at`. The purges (`SelectApps` ... `PurgeApplication`, `MarkReferenced` ...
`PurgeBlobs`, `CleanupStalePending`) run step by step beside the requests. The
history variables `doomed` and `repeated` remember ids somebody began to delete
and ids that were sent or announced again while ready or while being written.
Reads of files and thumbnails are left out.

### OAuth (`oauth`, `user/agent_*`)

The in-memory store (pending requests, codes, both under one mutex and one step
per critical section) and the agent rows. A grant stands for a request and the
code it becomes. Checks of redirect URIs, scopes and PKCE are one Boolean of the
exchange, since a failed one burns the code. Pending requests and codes carry the
order in which they were stored, which is what eviction goes by; expired codes
stay until an insertion sweeps them. Refresh tokens are generation numbers. `Restart` forgets
the store and ends the requests. A commit whose outcome the server does not
learn is not modelled.

### Sessions (`user`: logins, devices, bindings, escrow)

Accounts, device rows, the challenge store, used delegations and the tokens
handed out. Logins by roster (`Verify`, `RosterDevice`, `RosterAccount`,
`RosterEscrow`, `Mint`) and by binding (`BindAccount`, `Accept`, `Reread`,
`BindDevice`, `Ensure`, `Recheck`, `Revive`, `Mint`), enrolment by delegation or
password (`Signer`, `Mark`, `Credential`, `Lookup`, `Enroll`), revocation,
`PutBinding`, setting and clearing the password with its escrow: one action per
statement. A binding is its time and the space it names, ordered as the SQL orders
them (`Later`). Signatures are taken as checked; a request with a wrong one
changes nothing. `AssertionSkew` and `BindingSkew` are how far the clock of a
signer may be ahead. `Restart` forgets the store.

`EraseAccount` removes the account and with it its device rows, which reference
it (migration `000018`); what else a deletion does is in Accounts. `Register`
creates an account with a password; that a first join also creates one is in
Invitation. History: `life` counts the deletions of an account, a token carries
the life its login found, and `born` is the life a request found, so that the
properties can say which tokens and requests are older than a deletion.

### Accounts (`user`: claim, registration, names, passwords; `profile`: deletion)

`ClaimOwner` and `RegisterUser` are transactions of several INSERTs; what a
request has inserted and not committed is in `held`, makes conflicting INSERTs
wait and is seen by nobody. `MayDeleteAccount`, `ListApps`, `LeaveApp`,
`MarkDeleted` and `EraseAccount` are the deletion of an account: one application
at a time, then a transaction whose first statements mark and lock the
applications solely owned and whose later ones delete every membership of the
key, listed or not. `RegisterOwnerCheck` and `RegisterApplication` are what a
registration by another device does to the owner's row; quota and move guard are
in EventPipeline. A name is a model value with its lower case; the salt of a
handle is the handle. `overlap`, `crossed` and `late` remember the races the
properties except.

### Reminder (`reminder`, rule changes in `event`)

One application's rules, one row per offset. A scheduler lists due keys
(`selectDueRowKeys`), then locks each (`lockRow`), decides (`processRow`),
produces `reminder_fired` in another transaction (`fire`, `ProduceCommits`) and
advances the row. A rule change holds the application's row while
`ApplyRuleChange` replaces the rows in a transaction of its own. Two workers are
the schedulers of processes that overlap during a deployment. A recurrence is
its period and a count.

### Push (`push`)

Subscriptions, digest rows and the fan-out of each event over the snapshot it
read, with the accounts' modes changing meanwhile. `browser` is the endpoint the
device really listens at; a push service answers any other with 404 or 410
(`MayBeGone`). A POST or PATCH carries any endpoint its client ever had, since
its body was made before it arrived and it may be late or sent twice.
`GetDailyUsers`, `ClaimDigest` and `sendDigest` are the digest scheduler. A day has `Day` hours and there is one time zone; `CountDigest`'s
clock read and statement are one step. Health columns, which nothing reads, are
left out.

### Hub (`websocket`, the callers in `event` and `user`)

Each socket has a reader (`HandleFastHTTP` and `ReadPump`), a writer and the
channel between them; `job` is what the hub's goroutine holds. `Register` and
`Unregister` are the rendezvous, `RegisterClient` and `UnregisterClient` what
the hub then does while the reader runs on. Event handlers commit, read the
recipients, wait for room in the channel, and for deletions and moves fan out
to each member. Pushes and disconnects come from other goroutines. A send to a
full channel blocks the reader and is skipped by the hub, as in the code.

## 3. Runs

| run | question | states |
|---|---|---|
| `sequencing` | Edits, deletion, re-registration, cleanup, purge and retries of one application: the pipeline implements AppLog, the cursor order agrees with the numbers, nothing is applied twice within the retention; every request ends | 111 k |
| `applications` | Moves, aborts, deletion and moving back against edits: a tombstone's log holds only `application_moved`. Joins with expiry, removals, role changes, agent access: an owner stays | 1.5 M |
| `feed` | A polling client against the same log, with pages, pruning, resync, a lapsing membership and lost answers: what its cursor may pass over, and that a loss shows | 2.7 M |
| `invitations` | Joins of members, guests, newcomers and foreign devices racing for uses, with failures and crashes | 1.9 M |
| `files` | Parts in any order, twice or missing, two completions of a whole file, crashes in mid write, stale cleanup; uploads, avatars, deletion, account deletion, reference changes, both purges, quota | 0.8 M |
| `oauth` | Approvals by two accounts, exchanges with retries and replays, refreshes, expiry, eviction, restart | 449 k |
| `sessions` | Logins by roster and binding, a device key two accounts want, bindings at equal and later times, a delegation replayed, revocations, an assertion of a clock that is ahead, password and escrow, an account deleted and registered again, restart | 2.0 M |
| `accounts` | Claims and registrations racing for names, devices and the space, renames, passwords, deletions of co-owners and of an account that claims again, beside registrations of a new application and of one being deleted | 1.1 M |
| `reminders` | A recurring rule edited, cancelled and edited again under two schedulers, with lost commits, deletion and revival | 209 k |
| `push` | An edit and a reminder against mode changes, two digest schedulers, late and repeated PATCHes, replaced endpoints and a crash | 1.5 M |
| `hub` | One socket against two broadcasting requests, leaving and joining members, pushes, revocations | 0.9 M |
| `hub_ends` | Liveness of the hub | 40 k |

**Bounds.** Two concurrent requests (or schedulers): every hazard listed is a
race of one request with one other or with a background job, and a third repeats
a role. More may arrive one after the other: three in `sessions` and `accounts`
(delete, register again, use what was read before). `reminders` has one request beside two schedulers; two requests pass
the safety properties too, at 988 k states, but not the liveness ones in
reasonable time. Three accounts where one has to manage, one to be managed and
one to be outside. `MaxOrdinal`, `MaxClock`, `MaxHour`, `MaxRequests`, `MaxChanges`,
`MaxCalls`, `MaxMonth`, `MaxGeneration`, `MaxIssued`, `MaxRestarts`,
`MaxFaults` and `MaxCrashes` bound counters; each is large enough for the
longest scenario its run is about (register, edit, move away, move back, move
away needs five ordinals; expiry, retention and purge need four days; a pruned
cursor that comes back needs four rows over three days). `SendBuffer` and
`Queue` are 1 instead of 256 and a page is one row, which makes full channels and
page ends common. The quota is one file, so that the second upload is already
over it. `applications` and `files` explore two workloads one at a time
(`OneApplication`, `OneWorkload`): they concern different rows. In `files`,
requests and changes share a bound (five for an upload in parts, three for whole
files), so that both happen: an upload of two parts (announce, send, send)
completed twice, the second completion beside the first or after it, and the
purge of an application, which takes two changes. The fifth request is a
completion in the first month and leaves no room for a change, to keep the run
in minutes. In `push` a crash takes the place of one of the four changes
(`Shared`). Requests are symmetric where no temporal property is checked.

**Deadlock** is checked in `sequencing`, `applications`, `feed`, `invitations`,
`files` and `oauth`. In the others the bounds on requests, calls and time end
every behaviour; that nobody waits for ever there is what their liveness
properties check (`hub_ends`, `accounts`, `reminders`).

**What a property does not cover.** `OwnerKept` does not depend on fresh roles:
a stale role lets an event of a member through that was removed meanwhile, but no
event takes the founder's role. `RequestsEnd` of `sequencing` would hold without
`lock_timeout`, since each holder of a lock goes on; the cycle that only the
timeout breaks is in `reminders`. There, one request at a time is in the run, and
at most one row is due, so that `DueRowsSettle` does not speak of what a full batch
leaves over. `SocketsEnd` excepts a socket whose reader is `Stuck`, and
`DisconnectReaches` begins when the socket is registered: a device revoked
before that keeps its socket (section 5).

**Fairness.** `sequencing` assumes strong fairness of each request's steps:
PostgreSQL grants a row lock to its waiters and `lock_timeout` breaks a wait.
`accounts` assumes only that a request that can go on does: an INSERT wakes when
the transaction it waits for ends. `reminders` assumes the same of schedulers
and requests, and strong fairness of `ApplyRuleChange`, whose DELETE has no
`lock_timeout` and is served by PostgreSQL's lock queue although schedulers keep
taking the rows. `DueRowsSettle` speaks of behaviours in which requests
eventually stop: a stream of rule changes may postpone a row for ever.
`hub_ends` assumes that a goroutine that can run does, that Go's `select`, which
chooses at random, does not pass over a ready case for ever, that a channel
serves its waiting senders in order, and that a write ends within its
deadline. Nothing assumes that clients send, that peers go away or that calls
arrive.

## 4. Proofs

| theorem | says |
|---|---|
| `EventPipelineProofs!LogInvHolds`, `PipelineImplementsLog` | `ImplementsLog`: the pipeline implements AppLog |
| `EventPipelineProofs!RetriesAppliedOnce` | `AppliedOnce`: a retry within the retention is applied once |
| `EventPipelineProofs!TypeCorrect` | `TypeOK` always |
| `EventPipelineProofs!OrderHolds`, `LogOrdered` | `OrderInv` always, hence `CursorFollowsSequence` |
| `EventPipelineProofs!TombstoneStaysClean` | `TombstoneClean`: a moved application's log is clean |
| `EventPipelineProofs!FounderStaysOwner` | `OwnerKept`, if each application has one registrant |
| `EventPipelineProofs!FeedInvHolds`, `FeedIsComplete` | `FeedComplete`: a client has every row below its cursor that was not passed for a reason |
| `EventPipelineProofs!NumbersHold`, `LossIsShown` | the action property `LossShows`: numbers that agree with the version leave nothing out |
| `InvitationProofs!ClaimsAccounted`, `UsesAccounted` | every taken use is either held by a request, spent or lost |
| `InvitationProofs!NoOveruse` | admissions never exceed an invitation's uses |
| `InvitationProofs!SpaceUsePaid` | `SpaceUsePaidFor`: the use of the space is paid for with an owner's invitation |
| `StorageProofs!StorageConsistent`, `ReadyServesDeclared`, `ReadyKeepsBlob` | a ready file has its blob, and the content it declares unless it is sent again |
| `StorageProofs!OvershootBounded` | the quota is overshot by fewer files than there are requests |
| `OAuthProofs!OAuthConsistent`, `CodeMakesOneAgent`, `ReplayRevokes` | a code makes one agent, and a replay costs it |
| `OAuthProofs!RefreshRotatesOnce` | a refresh token works once |
| `SessionsProofs!SessionsConsistent`, `EscrowStays`, `BindingEndsSessions`, `DevicesKeepTheirAccount`, `RevocationHolds`, `DelegationUsedOnce` | the five invariants of `sessions`: who a session speaks for and what a binding ends in one life of an account, revocation while the row stays |
| `AccountsProofs!AccountsConsistent`, `ClaimedSpaceKeepsOwner`, `ApplicationsKeepOwner` | the space and the applications keep an owner, outside the races named |
| `AccountsProofs!SaltStable` | the action property `SealedSaltStable` |
| `NotificationProofs!ReminderInvHolds`, `FiredOnce`, `NewestRuleStays`, `EarlyFiringsExplained` | `FiredOncePerLoss`, `NewestRuleWins`, `EarlyOnlyIfRescheduled` |
| `NotificationProofs!FiringsFollowTheRule` | the action property `FiresTheRule` |
| `NotificationProofs!PushInvHolds`, `ToldOnce`, `DigestOnce` | `NotifiedOnce`, `OneDigestPerDue` |
| `NotificationProofs!LiveEndpointStays` | the action property `LiveEndpointKept`: only a statement that carries an older endpoint takes the live one |
| `NotificationProofs!ReminderTypes`, `PushTypes` | `TypeOK` of both, always |
| `HubProofs!ClosingOrdered`, `NoSendOnClosed` | nobody can send on a closed channel |
| `HubProofs!HearingEntitled`, `LeaversHearNothing` | a socket hears nothing that was committed after its account left |

All hold for any sets of requests, applications, accounts, ids and any bounds.
They assume only the named assumptions of the modules (finite sets where
cardinalities occur, null values outside the sets they extend, one owner of a
space in its initial state); `FounderStaysOwner` also has the hypothesis
`FoundedBy`, explained below. Each inductive invariant was also checked by TLC on
its run. The action properties and the refinement are proved from the same
invariants. `NotificationProofs` is about two modules that never meet: it
extends Reminder and Push, and each half speaks of the variables of one.

*Order of the log.* That numbers are unique is not inductive: a request that
has drawn a number may still insert. `OrderInv` adds that a request inside the
transaction holds the application's lock, that the row it inserted lies on top of
every committed one, and that ordinals lie below the next to be drawn. The lock
makes the transactions of one application exclusive, which is why the order in
which rows become visible is the order of their numbers.

*Refinement.* Only `Commit`, registration, cleanup, `CompleteMove` and the purge
change what a reader sees; every other action is a stutter. For `Commit`,
`LogInv` adds to `OrderInv` that the row about to be committed has the number
after the mark and an id that is in no committed and no other pending row, and
that every application with rows has a newest one. The mark is the greatest of
the numbers in the log and `last_sequence`; that cleanup does not lower it follows
from the newest row being spared, and that `Commit` raises it by one from the
pending number. The invariant is proved for every action, then each action is
mapped to its step of AppLog.

*Retries.* `AppliedOnce` compares moments of the past, of which the state keeps
only the rows. `AppliedInv` adds that what was committed less than the retention
ago is still a row with that time, unless a completed move emptied the log, and
that a row about to be committed is of today. (A purge takes the application's
history with its rows: what is registered under its id later is a new one.) A second commit of an id then meets
either the first one's row, which `LogInv` forbids, or one older than the
retention.

*Tombstones.* `TombstoneInv` adds that an event's transaction that holds the
lock works on a row that has not been moved: `BeginTx` looks at `deleted_at`
under the lock, and `CompleteMove` needs the same row. A comment
(`event_service.go:114`) fears that an event racing `CompleteMove` lands on the
tombstone; this invariant is why it does not.

*Owner of an application.* `OwnerKept` says that a registered application has an
owner. Owners are protected by what `Authorize` reads before the lock, so the
proof shows something stronger that cannot become stale: the account that
registered the application is its owner for good. `RequestsHarmless` says that no
event that is past its authorization names the founder: whoever is the owner can
be neither removed nor demoted. It needs `FoundedBy`: an application is
registered by one account only (the client that creates it draws its id), and no
membership event the space itself produces names that account (`Join` produces
one only for an account that is no member, account deletion only for one that is
not the owner). The workloads of `applications` satisfy it, and section 5 has the
behaviour that breaks the property when two accounts register the same id.

*Feed.* `FeedComplete` speaks of the cursor, but a cursor is moved by an answer
that was read earlier, from an ordinal found earlier still. `FeedInv` says the
same of each of the three: below the client's cursor, below the ordinal a poll
starts from, and below the last row of its page, every committed row was given
or passed, and every row that is inserted and not committed was passed already.
The last part is what makes it inductive, since such a row becomes visible below
a cursor that has moved on. A page is closed below by `FirstOf`, a set is finite
because cleanup and commits keep it so, and within one application no row can
be pending below a committed one: that is `PendingRowOnTop`, the row lock again.

*Losses.* `LossShows` compares what a client holds with rows that may be long
pruned. `NumbersInv` says of all that was ever committed, until a completed move
empties the log, that no number was given to two events, that the newest row or
the mark is at or above each of them, and that the mark is at or above each that
counts. The mark rises with a commit only if the application is live, so
`TxOnLiveRow` is needed: `BeginTx` looks at `deleted_at` under the lock and every
other writer of the row waits for it. Numbers without a hole up to the version
then account for every event in between. Proving it corrected the property
twice. It had excused an event as unversioned only while its row was there;
cleanup may have pruned it, so the history now keeps the type. And it had spoken
of applications that were emptied by a move, whose numbers do start over
(section 5).

*Uses.* `ClaimsInv` counts: an invitation's `used_count` is exactly the uses
held by requests, plus those spent, plus those a crash or a failed release lost,
and at most its maximum; and a request holds a use only at the steps between the
claim and its end. Every request step is one of three kinds: it leaves claims
alone, takes one, or ends one; each kind has a lemma, and each action is shown
to be of one kind. The arithmetic of cardinalities is in lemmas of its own.
`PaidInv` is separate: only the owner's invitations carry the use of the space,
which `Create` decides from the role it reads, and a request about to promote has
claimed or is claiming such an invitation.

*Files.* An id may be written by several requests, so `StorageInv` is about who
else can be where: `Apart` says that two requests send one file only if its id is in
`repeated`; `SendOK` what the only sender may still assume of the row and of the
blob it wrote; `DeclaredOK` and `FileOK` what a row may assume of its blob. The
backend empties a file in place, so for an id in `repeated` a row may assume
less: the blob is whole, missing, open for writing, or torn by a write that broke
off. `WritersInv` says that the requests that have a file open are those at its
copy: when the last one leaves, the file is whole, removed or marked as torn. The
purge of unreferenced files holds only paths of months before the present one,
and an id that is uploaded again meanwhile has a path of the present month: that
is why it never takes the blob of a live row. The quota needs a count instead: `QuotaInv` adds the requests between `checkQuota` and
their row to the used files, and each of them is one request.

*Agents.* `OAuthInv` says where the right to make the agent of a grant is: in the
pending request, in the code not yet consumed, in one exchange, or used up
(`SoleHolder`). Every critical section of the store moves it or drops it. A
replay is answered from what the store remembers of the code, so `GrantOK`
relates that to the agent's row, or to the exchange that has not written it yet.
A refresh token is a generation number, and `TokensSpent` has every exchanged one
below the current.

*Sessions.* A login uses in later statements what it read in earlier ones.
`RequestOK` says what of it still holds if the account was not deleted meanwhile
(`Current`): within one life of an account its device rows do not change hands,
so the row a request found is still its own, and binding times only grow
(`Grows`), so the one it read, or was admitted with, is at most the stored one.
The last is why a token minted late is ended by the newer binding all the same.
Of a request or a token older than a deletion the invariant says nothing of the
kind, and nothing of the kind is true: the rows may be another account's by then.
For revocations
and delegations the invariant ties the history to the tables: a row marked as
revoked carries the last revocation, and a used delegation is remembered while it
is valid.

*Accounts.* What a transaction has inserted and not committed excludes others:
`Apart` says that the rows two transactions hold never conflict, which is what
uniqueness of the keys gives, so that a commit finds no row in its way.
`LeavingOK` says that where a deletion still has an owner's row, it will delete
the application, or has yet to leave it and somebody else owns it too; else the
application is in `crossed`, or was registered after the list was read (`late`).
`OwnersHaveAccounts` is what makes the owners left behind worth something: an
owner's row has no foreign key to the account. `OwnerStays` follows from the refusal in
`DeleteAccount` and the claim row, except where `overlap` records that the role
read at authentication had become another's. `SealedSaltStable` follows from
handles being unique and kept (`NamesUnique`, `HandlesKept`).

*Reminders.* `FiredOncePerLoss` compares two counts, which only change when
somebody who holds a row's lock commits. `ReminderInv` says who that can be: a
worker between `lockRow` and the end of its transaction has the row to itself
and knows its occurrence, and a rule change cannot replace the row under it. An
occurrence that was fired and not lost is spent: no pending row has it, except
the one row whose worker has not advanced it yet. The rule in force is the newest
of those committed, and one that is about to replace it is newer, because
`ApplyRuleChange` compares under the application's row lock. An occurrence due
later than now can only be held by a worker that listed the row before a rule
change or another worker moved it, which `EarlyOnlyIfRescheduled` names.

*Notifications.* The right to tell a subscription of an event is in one place: in
the snapshot a fan-out still holds, or spent in the count. `PushInv` says that
what was told and what is left to tell do not overlap, and that a fan-out holds
each row once. For digests the claim is the conditional DELETE: a due slot that
was claimed has no row left to claim, because `last_digest_at` only grows and a
row inserted later is due later. An endpoint the device listens at is the newest
it ever had, so a statement that removes or overwrites it on the strength of
another works on an older one: on a snapshot, a body or a row from before the
client stored the new one, as `LiveEndpointKept` says.

*Channels.* `ClosingInv` follows the order of a socket's end: the reader returns
before the hub is told, a registration is handled before the same reader can
return, and `client.subscriptions` names every list the client is in.

*Hearing.* A subscription outlives the membership, so that a leaver hears nothing
later is not a matter of the list of sockets. `HearInv` says of every event in a
channel, in the hub's queues or in the hands of a handler, that each account it is
addressed to may hear it: it was committed while the account was a member, or not
after the account left. A handler reads the recipients after its commit, an
account that leaves does so with an event of its own, later than all committed
ones, and the hub sends to the recipients the handler read, not to the list.

**Only model-checked:** liveness (`RequestsEnd` of three modules, `DueRowsSettle`,
`BroadcastsEnd`, `SocketsEnd`, `DisconnectReaches`), which with fairness and
`ENABLED` is outside the prover. Every invariant and every action property a run
checks is also a theorem. No model computes by recursion over data, so nothing is
left to TLC for that reason.

## 5. Behaviour the models show without a run

Each is a consequence of separate statements; the module has the steps.

*Log and applications.*

* `UpdateLastSequence` skips deleted rows (`application/repository.go:133`), so
  the number of `application_moved`, drawn on a tombstone, is not remembered, and
  the next `CompleteMove` deletes the row: moving away, back and away again
  hands out a number twice, which the comment of `GetNextSequence` says clients
  discard. `AppLog!End` allows it.
* Two first registrations of one id by different accounts both pass
  `HasOtherOwner`, and the application has two owners. It can even end with none:
  the first registers, removes the second as a member, and while that event is in
  its transaction the second registration writes itself as owner and makes the
  first a member; the removal then takes the only owner. `FounderStaysOwner` has
  one registrant per application as a hypothesis for this reason. Two
  registrations of one account pass `CountOwnedApplications` together and exceed
  `MaxAppsPerAccount`.
* An event that read `MoveGuard` before `StartMove` commits while the application
  is moving, after the export may have been taken. If the process dies after
  `CompleteMove`, `application_moved` is never written (`move.go:142`); clients
  learn of the move from the answer 410.
* A role change is authorized against the role its sender believed
  (`event_authorizer.go:21`); a racing change makes that stale.
* Broadcasts leave the lock's order (`event_service.go:248`): two events may
  reach a socket in the opposite order of their numbers.

*Feed.*

* A page goes past a row of another application, or of the account itself, that
  is inserted and not committed; `event_cursor_integration_test.go:210` accepts
  this. `LossShows` is why a client can notice for applications; an event of the
  account itself has no number and is lost silently.
* Cleanup may remove rows a client has not read while its cursor, the newest row
  of another stream, stays: no resync is asked for, and only the hole in the
  numbers shows it.
* An event that was pruned and is sent again later than the retention gets a new
  ordinal. A client whose cursor it was goes on from there and skips what lies
  between.
* `application_deleted` does not raise `last_sequence`: after the application is
  registered again, a client that missed it finds its numbers in order until the
  next event.

*Invitations.*

* A join that fails after creating the account gives the use back
  (`invitation_service.go:898`), so a single-use identity invitation can make
  more than one account, against the note D9 at `:224`.
* Two concurrent joins of one guest each spend a use on one promotion.

*Files.*

* `PurgeDeletedApps` deletes the files of an application revived since it was
  selected (`storage/purge.go:77`); only `PurgeApplication` looks again.
* A second completion that read the row as pending, or a repeated upload, empties
  the file of a row that is ready by now and copies into it (`os.Create` at
  `local_storage.go:92`). Downloads meanwhile get a prefix. If the process dies
  before the copy ends, the row stays ready over a prefix or nothing, for good; if
  the copy fails, the file is removed and the row stays ready without it. That
  completions may run beside each other is meant (`DeclaredContent` names the
  exception).
* A repeated upload within a month deletes the blob of the first
  (`service.go:157`) and answers with success; an avatar sent again under its
  own id deletes itself (`endpoints.go:304`). The storage properties exclude ids
  that were repeated.
* A chunked upload without a checksum may be completed with parts missing. One
  whose completion has read its row before the id is announced again with a
  checksum may write such a blob under the new row (`DeclaredContent` excepts ids
  that are announced both ways and were repeated).
* An announcement under way while the same id is uploaded or purged replaces the
  row of one with the state of the other; such ids count as repeated.

*Agents, sessions and accounts.*

* A code that expires during its exchange and is swept forgets that it was
  replayed, and its tokens live on, although `docs/oauth.md:5` says otherwise.
* Tokens carry only the time of the binding: one of equal time and greater
  subject replaces the former without ending its sessions.
* `RegisterDevice` does not read again after `EnsureDevice`, and may answer 201 for
  a device that a concurrent enrolment gave to another account.
* A device revoked between `ValidateJWT` and registration keeps its socket.
* An assertion may be stamped up to 30 seconds ahead (`assertion.go:160`). One
  minted before a revocation by a clock that is ahead carries a later time, and
  revives the device afterwards. `RevokedStaysOut` speaks of the stamps.
* Deleting an account deletes its device rows (migration `000018`), and tokens are
  checked against the account and the device apart. The key of a deleted row may
  enrol with another account; once the first account registers again, a token of
  its earlier life that has not expired is accepted, from a device that is no
  longer its own. `DeviceSpeaksForItsAccount` and `SessionsFollowBinding` speak of
  one life of an account.
* The deletion also forgets the revocations and the binding: after it, a revoked
  key may enrol again, and a binding older than the last one is accepted. A
  revocation that read its target before finds it by key, and marks the row of
  whoever has the key by then.
* Deleting an account uses the role read at authentication. If an earlier
  account of the same key was deleted and the key has claimed the space
  meanwhile, the new owner is erased; the claim row stays, and the space is
  claimed without an owner. `OwnerStays` excepts exactly this (`overlap`).
  A key that already registered cannot claim.
* Two co-owners who delete their accounts at once leave an application without
  an owner, as the comment in `DeleteAccount` accepts (`crossed`). A join racing
  a deletion can leave a member row of an erased account.
* The applications are listed at `account_endpoints.go:62`, and `eraseAccount`
  deletes all memberships of the key (`:150`). An application that another device
  of the account registers in between stays live without an owner, after a single
  deletion; so does one it registers again after the deletion marked it deleted.
  The comment at `:69` accepts two co-owners and a revival, not the first. A
  registration that was authenticated before the account was erased writes an
  owner's row for an account that is gone: `members` has no foreign key to
  `users`. `OwnedUnlessCrossed` names these (`late`).
* The salt fetched before a registration or a password change may differ from
  the handle stored by then.
* Accounts, and live agents, exceed their limit by one less than the number of
  parallel requests.

*Reminders and notifications.*

* `lockRow` looks only whether the row is pending. A rule moved to a later time,
  or advanced by another scheduler, between listing and locking is fired at
  once, and then advanced or done, even with one scheduler
  (`EarlyOnlyIfRescheduled`).
* An occurrence missed by more than `graceWindow`, or due while the application is
  soft-deleted, is marked skipped and never advanced: a recurring rule is dead
  after a day of downtime or a revival.
* `ApplyRuleChange` commits before the event: when the event rolls back, the rule
  stands without it, and the retry is dropped as stale but logged.
* An answer 404 or 410 removes the subscription by id even if the client has
  stored a new endpoint. A PATCH that mutes writes the whole row it read and can
  restore an old endpoint, and one that moves the subscription carries the endpoint
  of its body: when it is delayed, or sent again, it overwrites a newer one.
  Endpoints have no order the server could go by.
* Digest subscriptions are read before the claim, whose DELETE also takes rows
  of newer subscriptions: those are never sent.

*Sockets.*

* A reader that answers a frame while its buffer is full and its writer has given
  up waits for ever (`Stuck`); the socket stays registered.

## 6. Not modelled, and the plan

Not worth a model: reports, health, setup, routing, configuration, CORS, URL
and address checks, message texts, thumbnails, cryptography, the S3 client, test
doubles (`memory_repository.go`, `testdb`), single-row settings (space profile,
locale, time zone, user state).

Not modelled yet, in this order:

1. **Component rows**: what `component_data_changed` and edit mode do to groups and
   components under the application's lock, and the version merge of the MCP
   tool `update_component`.
2. **Keys**: which identity wins when the key file and the `space_keys` row
   disagree after a crash, a wrong volume or an import.
3. **Component lenses**: `lens` as pure operators, with the round-trip laws.
4. **Recurrence**: `recurrence.go` against a reference definition.
5. **Schemas**: which published revision is served.

What is left to prove is liveness, which these provers cannot. Of the hazards
listed, those without a property (`PROJECT.json` says why at each) are cases in
which the code makes no promise (section 5); a fix would be where to state one.
