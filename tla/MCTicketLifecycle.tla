-------------------------- MODULE MCTicketLifecycle --------------------------
(***************************************************************************)
(* TicketLifecycle on the seeded statuses (src/apps/tickets/defaults.py),  *)
(* "waiting" flagged pauses_sla as tests and the admin page do.            *)
(***************************************************************************)
EXTENDS TicketLifecycle, TLC

SeededStatuses == {"open", "in-progress", "waiting", "resolved", "closed"}
\* A tenant that has added a waiting status of its own.
TenantStatuses == SeededStatuses \cup {"on-hold"}
Processes == Permutations(Worker)
=============================================================================
