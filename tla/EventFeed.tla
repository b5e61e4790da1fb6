----------------------------- MODULE EventFeed -----------------------------
(***************************************************************************)
(* GET /events over the event pipeline: a client of one account follows the *)
(* log by a cursor, the id of the last event it was given.                  *)
(*                                                                          *)
(* A poll is three statements between which the pipeline runs on: find the  *)
(* ordinal of the cursor, read a page above it, and, when the page is the   *)
(* last, read the numbers the applications have reached.  Ordinals are      *)
(* drawn when a row is inserted and seen when it is committed, by one       *)
(* transaction at a time within an application but not between them.  The   *)
(* client is not part of the repository: it keeps what it is given, moves   *)
(* its cursor to the end of a page, starts over when told to, and may lose  *)
(* an answer.                                                               *)
(***************************************************************************)
EXTENDS EventPipeline, FiniteSetsExt

CONSTANTS
  Viewer,     \* the account that polls
  NoCursor,   \* a poll without since
  Limit       \* rows of a page

ASSUME FeedAssumption == Viewer \in Keys /\ NoCursor \notin Ids /\ Limit \in Nat \ {0}

VARIABLES
  poll,     \* the request under way: its step, the ordinal found, the rows read
  cursor,   \* the event the client will ask from, and its ordinal when given
  got,      \* the rows the client was given
  passed    \* history: ordinals a page went past for a reason FeedComplete names

feedVars == <<poll, cursor, got, passed>>

NoPoll == [pc |-> "away", since |-> 0, page |-> {}, versions |-> [a \in Apps |-> 0]]
Start == [id |-> NoCursor, ord |-> 0]

FeedInit == Init /\ poll = NoPoll /\ cursor = Start /\ got = {} /\ passed = {}

-----------------------------------------------------------------------------
(* The server's side of a poll. *)

\* GetSince's first statement: the ordinal of the client's cursor.  An event
\* pruned and submitted again has another one than the client was given.
FindCursor ==
  /\ poll.pc = "away"
  /\ \E since \in {e.ord : e \in {x \in events : x.id = cursor.id}} \cup {o \in {0} : cursor.id = NoCursor} :
       /\ poll' = [NoPoll EXCEPT !.pc = "query", !.since = since]
       /\ passed' = passed \cup ((cursor.ord + 1) .. since)
  /\ UNCHANGED <<cursor, got>>

\* ErrCursorNotFound: the client is told to start over, and does.
FullResync ==
  /\ poll.pc = "away"
  /\ cursor.id # NoCursor /\ \A e \in events : e.id # cursor.id
  /\ cursor' = Start /\ got' = {} /\ passed' = {}
  /\ UNCHANGED poll

\* The two halves of GetSince's query: applications the account is an active
\* member of, and the account's own events.
Visible(e) ==
  IF e.app = NoApp THEN e.by = Viewer ELSE Active(members[e.app][Viewer], clock)

\* Mutant: the cursor order that ordinals replaced, the day and then an order
\* the server does not assign.
FirstOfTheDay(rows) ==
  {e \in rows : Cardinality({f \in rows : f.at < e.at \/ (f.at = e.at /\ f.ord > e.ord)}) < Limit}

\* ORDER BY ordinal LIMIT.
FirstOf(rows) == {e \in rows : Cardinality({f \in rows : f.ord < e.ord}) < Limit}

Last(page) == CHOOSE e \in page : \A f \in page : f.ord <= e.ord

\* What a page goes past without giving it: rows the account may not see now,
\* and rows of another application, or of none, that are not committed yet.
GoesPast(page) ==
  LET last == Last(page)
  IN  {e.ord : e \in {x \in events : ~Visible(x) /\ x.ord < last.ord}}
        \cup {row[r].ord : r \in {q \in Reqs : pc[q] = "commit" /\ row[q].ord < last.ord
                                                /\ (row[q].app = NoApp \/ row[q].app # last.app)}}

\* GetSince's second statement.  AppVersions are only sent with the last page.
GetSince ==
  LET rows == {e \in events : Visible(e) /\ e.ord > poll.since}
      page == FirstOf(rows)
  IN
  /\ poll.pc = "query"
  /\ poll' = [poll EXCEPT !.pc = IF page = rows THEN "versions" ELSE "answer", !.page = page]
  /\ passed' = IF page = {} THEN passed ELSE passed \cup GoesPast(page)
  /\ UNCHANGED <<cursor, got>>

\* GetAppVersionsByMemberPublicKey; 0 where it has no row or last_sequence is NULL.
AppVersions ==
  [a \in Apps |-> IF Live(a) /\ Active(members[a][Viewer], clock) THEN apps[a].lastSeq ELSE 0]

\* loadAppVersions; a failure only leaves them out.
LoadAppVersions ==
  /\ poll.pc = "versions"
  /\ \E v \in {AppVersions, NoPoll.versions} : poll' = [poll EXCEPT !.pc = "answer", !.versions = v]
  /\ UNCHANGED <<cursor, got, passed>>

\* A statement fails, or the answer does not arrive.
PollFails == poll.pc # "away" /\ poll' = NoPoll /\ UNCHANGED <<cursor, got, passed>>

\* The client takes the answer.
Receive ==
  /\ poll.pc = "answer"
  /\ got' = got \cup poll.page
  /\ cursor' = IF poll.page = {} THEN cursor
               ELSE [id |-> Last(poll.page).id, ord |-> Last(poll.page).ord]
  /\ poll' = NoPoll
  /\ UNCHANGED passed

Poll == FindCursor \/ FullResync \/ GetSince \/ LoadAppVersions \/ Receive \/ PollFails

FeedNext == (Next /\ UNCHANGED feedVars) \/ (Poll /\ UNCHANGED vars)

FeedSpec == FeedInit /\ [][FeedNext]_<<vars, feedVars>>

-----------------------------------------------------------------------------
(* Properties. *)

\* A client that follows its cursor has every row below it that it may see.
\* A page goes past a row only while the account may not see it, or while the
\* row is inserted and not committed in another application than the page's
\* last (the exposure event_cursor_integration_test.go accepts): never within
\* one application and never at the end of a page.  A cursor leaves rows out
\* only if its event was pruned and, longer than the retention after, sent again.
FeedComplete ==
  \A e \in events : (Visible(e) /\ e.ord <= cursor.ord) => (e \in got \/ e.ord \in passed)

\* The rows of an application in its present life that the client has after
\* this answer.
Held(a) == {e \in got \cup poll.page : e.app = a /\ \E x \in issued : x.app = a /\ x.seq = e.seq /\ x.id = e.id}
Numbers(S) == {x.seq : x \in S}

\* The client finds nothing amiss: its numbers have no hole and end where the
\* version says.
Agrees(a, version) ==
  /\ Held(a) # {}
  /\ Max(Numbers(Held(a))) = version
  /\ \A n \in Min(Numbers(Held(a))) .. version : n \in Numbers(Held(a))

\* The version of an application is last_sequence, which the rows written as it
\* goes do not raise: only such a row can be missing unnoticed.
Unversioned(x) == x.type \in {"application_deleted", "application_moved"}

\* What the feed loses shows: when the numbers of an application agree with the
\* version sent with the last page, the client has every event that was
\* committed since the first one it has, pruned ones included.  A completed move
\* empties the log and may start its numbers over: nothing is said after one.
LossShows ==
  [][\A a \in Apps :
       (/\ poll.pc = "versions" /\ poll'.pc = "answer" /\ poll'.versions[a] # 0
        /\ ~wiped[a] /\ Agrees(a, poll'.versions[a])) =>
         \A x \in issued : (x.app = a /\ x.seq >= Min(Numbers(Held(a))) /\ ~Unversioned(x)) =>
           \E e \in Held(a) : e.id = x.id]_<<vars, feedVars>>

-----------------------------------------------------------------------------
(* The inductive invariant behind FeedComplete.                              *)

\* A row has an ordinal of its own from the moment it is inserted.
OrdinalsApart ==
  /\ IsFiniteSet(events)
  /\ \A e \in events : e.ord # 0 /\ \A f \in events : e.ord = f.ord => e = f
  /\ \A r \in Reqs : pc[r] = "commit" =>
       /\ row[r].ord # 0
       /\ \A e \in events : e.ord # row[r].ord
       /\ \A q \in Reqs : (pc[q] = "commit" /\ row[q].ord = row[r].ord) => q = r

\* Up to an ordinal, every row committed is among those given or was passed for
\* a reason, every row not committed yet was passed, and no row is still to come.
Covered(ord, given) ==
  /\ ord < nextOrd
  /\ \A e \in events : e.ord <= ord => e \in given \/ e.ord \in passed
  /\ \A r \in Reqs : (pc[r] = "commit" /\ row[r].ord <= ord) => row[r].ord \in passed

\* It holds of the cursor, of the ordinal a poll starts from, and of the end of
\* the page it has read.
FeedCovered ==
  /\ Covered(cursor.ord, got)
  /\ poll.pc = "query" => Covered(poll.since, got)
  /\ (poll.pc \in {"versions", "answer"} /\ poll.page # {}) =>
       Covered(Last(poll.page).ord, got \cup poll.page)

FeedInv == OrdinalsApart /\ FeedCovered

-----------------------------------------------------------------------------
(* The inductive invariant behind LossShows: of an application that was not    *)
(* emptied by a move, no number was ever given to two events, the newest row   *)
(* or the high-water mark is at or above all of them, and what lies above the  *)
(* mark does not count towards the version.                                    *)

Kept(x) == x.app \in Apps /\ ~wiped[x.app]

NumbersOnce ==
  \A x, y \in issued : (Kept(x) /\ x.app = y.app /\ x.seq = y.seq) => x = y

NumbersTopped ==
  \A x \in issued : Kept(x) =>
    x.seq <= apps[x.app].lastSeq \/ \E e \in events : e.app = x.app /\ x.seq <= e.seq

VersionCovers ==
  \A x \in issued : (Kept(x) /\ ~Unversioned(x)) => x.seq <= apps[x.app].lastSeq

\* An event other than application_moved is committed on an application that is
\* still there.
TxOnLiveRow ==
  \A r \in Reqs :
    (InTx(r) /\ Sequenced(msg[r]) /\ msg[r].type # "application_moved") => Live(msg[r].app)

NumbersInv == NumbersOnce /\ NumbersTopped /\ VersionCovers /\ TxOnLiveRow
=============================================================================
