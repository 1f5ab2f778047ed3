----------------------------- MODULE MCReminders -----------------------------
(* One reminder, two runs of the task that may overlap, one slow request beside
   the bulk actions and deletions. *)
EXTENDS Reminders

CONSTANTS r1, w1, w2, q1
=============================================================================
