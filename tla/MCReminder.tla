----------------------------- MODULE MCReminder -----------------------------
(***************************************************************************)
(* Workload for Reminder: one rule that recurs once, moved to a later time,  *)
(* cancelled and edited again by late and repeated requests.                 *)
(***************************************************************************)
EXTENDS Reminder, TLC

CONSTANTS rule

Change(rev, state, due, count) ==
  [op |-> "change", rule |-> rule, rev |-> rev, state |-> state, due |-> due, count |-> count]

Workload ==
  { Change(1, "pending", 1, 2), Change(2, "pending", 3, 1), Change(3, "cancelled", 1, 1),
    [op |-> "deleteComponent"], [op |-> "deleteApplication"] }

\* One unit ahead of the occurrence.
OneOffset == <<-1>>
=============================================================================
