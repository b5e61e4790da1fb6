------------------------------ MODULE EventLog ------------------------------
(***************************************************************************)
(* The rows of the events table and what internal/event/event_repository.go *)
(* computes from them.  A row is abstracted to the columns its queries read: *)
(* the payload survives only as the template id and revision that           *)
(* DeleteOlderThan ranks by.  Everything here is a state-independent         *)
(* operator on a set of rows; EventPipeline and EventFeed own the state.     *)
(***************************************************************************)
EXTENDS Integers, FiniteSets

CONSTANTS
  Apps,       \* application ids
  Keys,       \* user public keys
  Ids,        \* event ids (client-minted or drawn by the space)
  Templates,  \* account-owned template ids
  NoApp,      \* the NULL application_id of a user-scoped event
  NoTpl       \* no template id in the payload

ASSUME NoAppAssumption == NoApp \notin Apps
ASSUME NoTplAssumption == NoTpl \notin Templates

\* IsUserScoped: types that carry no application id.
UserScopedTypes == {"user_settings_changed", "application_created", "template_changed"}

\* The event types that the pipeline tells apart.  The types that any member
\* may submit and whose effect lies outside the member and application rows
\* (component_data_changed, application_after_edit_mode_changed,
\* reminder_changed) are represented by application_data_changed.
AppScopedTypes ==
  {"member_added", "member_removed", "member_role_changed",
   "application_data_changed", "application_deleted", "application_moved",
   "invite_revoked", "reminder_fired"}

EventTypes == UserScopedTypes \cup AppScopedTypes

EventRows ==
  [id: Ids, app: Apps \cup {NoApp}, seq: Nat, type: EventTypes, by: Keys,
   ord: Nat, at: Nat, tpl: Templates \cup {NoTpl}, rev: Nat]

\* isRetryOf: a stored row answers a submission of the same event.
IsRetryOf(e, id, app, by, type) ==
  /\ e.id = id
  /\ e.app = app
  /\ e.by = by
  /\ e.type = type

\* GetNextSequence's two operands: the application's numbers in the log, and
\* the high-water mark last_sequence (COALESCE makes an empty side 0).
HighWater(E, a, lastSeq) == {e.seq : e \in {x \in E : x.app = a}} \cup {lastSeq}

\* Mutant: hands out the first number no row of the application carries.
GetNextSequenceFirstFree(E, a, lastSeq) ==
  LET used == {e.seq : e \in {x \in E : x.app = a}}
  IN {n \in 1..(Cardinality(used) + 1) : n \notin used /\ 1..(n - 1) \subseteq used}

\* GetNextSequence: one more than the greatest of them, as a singleton set.
GetNextSequence(E, a, lastSeq) ==
  LET marks == HighWater(E, a, lastSeq)
  IN {h + 1 : h \in {x \in marks : \A s \in marks : s <= x}}

\* The rows DeleteOlderThan never prunes: the newest row (MAX(ordinal)) of
\* each application and of each creator's user-scoped rows ...
NewestOfItsStream(E, e) ==
  \A x \in E :
    (x.app = e.app /\ (e.app = NoApp => x.by = e.by)) => x.ord <= e.ord

\* ... and the rows that RANK() puts first among those of their template.
TemplateHead(E, e) ==
  /\ e.app = NoApp
  /\ e.type = "template_changed"
  /\ \A x \in E :
       (/\ x.app = NoApp
        /\ x.type = "template_changed"
        /\ x.by = e.by
        /\ x.tpl = e.tpl) => x.rev <= e.rev

\* Mutant: also prunes what is exactly as old as the cutoff.
RetainedExclusive(E, cutoff) ==
  {e \in E : e.at > cutoff \/ NewestOfItsStream(E, e) \/ TemplateHead(E, e)}

\* DeleteOlderThan(cutoff): what is left of the log.
Retained(E, cutoff) ==
  {e \in E : e.at >= cutoff \/ NewestOfItsStream(E, e) \/ TemplateHead(E, e)}
=============================================================================
