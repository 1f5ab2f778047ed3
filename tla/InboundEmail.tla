----------------------------- MODULE InboundEmail -----------------------------
(***************************************************************************)
(* The inbound e-mail pipeline (src/apps/inbound_email): one message of    *)
(* one tenant, for which several InboundEmail rows may exist (an SMTP      *)
(* delivery to several recipients, two overlapping IMAP runs), each with a *)
(* Celery task process_inbound_email_task.                                 *)
(*                                                                         *)
(* process_inbound_email is one transaction. Its steps are separate here   *)
(* where another process can tell: the row lock, the duplicate check on    *)
(* committed rows, the claim of the unique idempotency key, the commit.    *)
(* The task acknowledges late: it stays with the broker until it ends.     *)
(***************************************************************************)
EXTENDS Integers, FiniteSets

CONSTANTS
    Row,         \* InboundEmail rows that carry the message
    Worker,      \* Celery processes
    Agent,       \* users who press "create ticket" on one of the rows
    MaxRetries,  \* max_retries of the task
    Faults,      \* subset of Fault
    NoRow        \* no row: an idle worker's, an agent's with no form open

\* unsent: the broker refuses the task, or its sender dies; error: an attempt fails;
\* kill: a worker goes down; lose: only its child process does.
Fault == {"unsent", "error", "kill", "lose"}

ASSUME PipelineAssumption ==
    /\ MaxRetries \in Nat
    /\ Faults \subseteq Fault
    /\ NoRow \notin Row

VARIABLES
    row,     \* the committed rows
    unsent,  \* rows whose receiver has yet to publish their task
    tasks,   \* task messages the broker holds, delivered or not
    made,    \* tickets, replies and hub e-mails workers made of the message
    lost,    \* rows whose task was never published, or was acknowledged for a
             \* killed child (history variable)
    worker,  \* what each Celery process is doing
    agent    \* the row each agent has read and found without a ticket

vars == <<row, unsent, tasks, made, lost, worker, agent>>

\* done: TICKET_CREATED, REPLY_ADDED or PARKED_IN_HUB. PROCESSING is never
\* committed. used: the row has made something of the message.
RowState ==
    [status : {"none", "pending", "rejected", "done", "failed"},
     key : BOOLEAN, used : BOOLEAN]
Record(status, key, used) == [status |-> status, key |-> key, used |-> used]

Task == [row : Row, attempt : 0..MaxRetries]
Attempt(r, n) == [row |-> r, attempt |-> n]

At(pc, task) == [pc |-> pc, task |-> task]
Idle == At("idle", Attempt(NoRow, 0))
Busy == {"locked", "checked", "claimed", "broken", "failing", "ending"}
WorkerState == {Idle} \cup [pc : Busy, task : Task]

Set(w, state) == worker' = [worker EXCEPT ![w] = state]
Goto(w, pc) == Set(w, At(pc, worker[w].task))
RowOf(w) == worker[w].task.row

\* The worker's transaction holds the lock of its row.
InTransaction(w) == worker[w].pc \in {"locked", "checked", "claimed", "broken"}
Unlocked(r) == \A w \in Worker : InTransaction(w) => RowOf(w) # r
Write(r, record) == row' = [row EXCEPT ![r] = record]

-----------------------------------------------------------------------------
\* The receiver commits the row, and only then saves the attachments and publishes.
Arrive(r) ==
    /\ row[r].status = "none"
    /\ Write(r, Record("pending", FALSE, FALSE))
    /\ unsent' = unsent \cup {r}
    /\ UNCHANGED <<tasks, made, lost, worker, agent>>

Publish(r) ==
    /\ r \in unsent
    /\ unsent' = unsent \ {r}
    /\ tasks' = tasks \cup {Attempt(r, 0)}
    /\ UNCHANGED <<row, made, lost, worker, agent>>

\* An error of the broker is logged and swallowed: nobody publishes the task again.
FailToPublish(r) ==
    /\ "unsent" \in Faults
    /\ r \in unsent
    /\ unsent' = unsent \ {r}
    /\ lost' = lost \cup {r}
    /\ UNCHANGED <<row, tasks, made, worker, agent>>

\* The tasks a worker may get whose row it can lock. The broker holds on to a
\* delivered task for longer than the task may run, so that it is delivered again
\* only if its worker is lost. Waiting for the lock is as good as not having taken
\* the task.
Takes(t) ==
    /\ Unlocked(t.row)
    /\ \A v \in Worker : worker[v] # Idle => worker[v].task # t

\* Variant: no guard on the status of the locked row.
LockAnyStatus(w) ==
    /\ worker[w] = Idle
    /\ \E t \in tasks : Takes(t) /\ Set(w, At("locked", t))
    /\ UNCHANGED <<row, unsent, tasks, made, lost, agent>>

\* SELECT ... FOR UPDATE, then the guard: a row already processed is skipped.
Lock(w) ==
    /\ worker[w] = Idle
    /\ \E t \in tasks :
          /\ Takes(t)
          /\ Set(w, At(IF row[t.row].status = "pending" THEN "locked" ELSE "ending", t))
    /\ UNCHANGED <<row, unsent, tasks, made, lost, agent>>

Rejects(w) ==
    /\ Write(RowOf(w), Record("rejected", FALSE, FALSE))
    /\ Goto(w, "ending")

\* Loops, auto-replies and bounces, or an address of no tenant.
Filter(w) ==
    /\ worker[w].pc = "locked"
    /\ Rejects(w)
    /\ UNCHANGED <<unsent, tasks, made, lost, agent>>

KeyTaken(r) == \E s \in Row \ {r} : row[s].key

\* The idempotency check on committed rows.
CheckDuplicate(w) ==
    /\ worker[w].pc = "locked"
    /\ IF KeyTaken(RowOf(w))
       THEN Rejects(w)
       ELSE Goto(w, "checked") /\ UNCHANGED row
    /\ UNCHANGED <<unsent, tasks, made, lost, agent>>

\* Variant: the key is not unique in the database.
ClaimFreely(w) ==
    /\ worker[w].pc = "checked"
    /\ Goto(w, "claimed")
    /\ UNCHANGED <<row, unsent, tasks, made, lost, agent>>

\* The UPDATE of the unique key waits for a transaction that has written the
\* same key; if that commits, IntegrityError. It is caught without a savepoint:
\* the transaction is broken, and the save in _reject raises in its turn.
Claim(w) ==
    /\ worker[w].pc = "checked"
    /\ \A v \in Worker : worker[v].pc # "claimed"
    /\ Goto(w, IF KeyTaken(RowOf(w)) THEN "broken" ELSE "claimed")
    /\ UNCHANGED <<row, unsent, tasks, made, lost, agent>>

\* Threading, then a reply, a parked hub e-mail or a new ticket; COMMIT.
Commit(w) ==
    /\ worker[w].pc = "claimed"
    /\ Write(RowOf(w), Record("done", TRUE, TRUE))
    /\ made' = made + 1
    /\ Goto(w, "ending")
    /\ UNCHANGED <<unsent, tasks, lost, agent>>

\* A reply that is empty without its quotes is rejected, but keeps the key.
RejectEmptyReply(w) ==
    /\ worker[w].pc = "claimed"
    /\ Write(RowOf(w), Record("rejected", TRUE, FALSE))
    /\ Goto(w, "ending")
    /\ UNCHANGED <<unsent, tasks, made, lost, agent>>

\* Any exception rolls the transaction back.
Fail(w) ==
    /\ \/ worker[w].pc = "broken"
       \/ "error" \in Faults /\ InTransaction(w)
    /\ Goto(w, "failing")
    /\ UNCHANGED <<row, unsent, tasks, made, lost, agent>>

\* Variant: a failed attempt is not tried again.
GiveUp(w) ==
    /\ worker[w].pc = "failing"
    /\ worker[w].task.attempt < MaxRetries
    /\ Goto(w, "ending")
    /\ UNCHANGED <<row, unsent, tasks, made, lost, agent>>

Retry(w) ==
    /\ worker[w].pc = "failing"
    /\ worker[w].task.attempt < MaxRetries
    /\ tasks' = tasks \cup {Attempt(RowOf(w), worker[w].task.attempt + 1)}
    /\ Goto(w, "ending")
    /\ UNCHANGED <<row, unsent, made, lost, agent>>

\* self.retry() publishes too: refused by the broker, the task is rejected for good.
FailToRetry(w) ==
    /\ "unsent" \in Faults
    /\ worker[w].pc = "failing"
    /\ worker[w].task.attempt < MaxRetries
    /\ lost' = lost \cup {RowOf(w)}
    /\ Goto(w, "ending")
    /\ UNCHANGED <<row, unsent, tasks, made, agent>>

\* mark_inbound_failed: an unconditional UPDATE outside the transaction.
MarkFailed(w) ==
    /\ worker[w].pc = "failing"
    /\ worker[w].task.attempt = MaxRetries
    /\ Unlocked(RowOf(w))
    /\ Write(RowOf(w), Record("failed", row[RowOf(w)].key, row[RowOf(w)].used))
    /\ Goto(w, "ending")
    /\ UNCHANGED <<unsent, tasks, made, lost, agent>>

Acknowledge(w) ==
    /\ worker[w].pc = "ending"
    /\ tasks' = tasks \ {worker[w].task}
    /\ Set(w, Idle)
    /\ UNCHANGED <<row, unsent, made, lost, agent>>

\* A worker goes down: PostgreSQL rolls back. The broker keeps the task, unless
\* only the child process was killed (the hard time limit, memory): then its
\* parent acknowledges the task, late or not.
Die(w) ==
    /\ worker[w] # Idle
    /\ \/ /\ "kill" \in Faults
          /\ UNCHANGED <<tasks, lost>>
       \/ /\ "lose" \in Faults
          /\ tasks' = tasks \ {worker[w].task}
          /\ lost' = lost \cup {RowOf(w)}
    /\ Set(w, Idle)
    /\ UNCHANGED <<row, unsent, made, agent>>

\* InboundEmailViewSet.create_ticket: the check on a plain read. (A parked row
\* goes by the conversion of its hub e-mail instead.)
OpenForm(a, r) ==
    /\ agent[a] = NoRow
    /\ row[r].status # "none" /\ ~row[r].used
    /\ agent' = [agent EXCEPT ![a] = r]
    /\ UNCHANGED <<row, unsent, tasks, made, lost, worker>>

\* The ticket, in a transaction that locks the row only to write it.
CreateTicket(a) ==
    /\ agent[a] # NoRow
    /\ Unlocked(agent[a])
    /\ Write(agent[a], Record("done", row[agent[a]].key, TRUE))
    /\ agent' = [agent EXCEPT ![a] = NoRow]
    /\ UNCHANGED <<unsent, tasks, made, lost, worker>>

Init ==
    /\ row = [r \in Row |-> Record("none", FALSE, FALSE)]
    /\ unsent = {}
    /\ tasks = {}
    /\ made = 0
    /\ lost = {}
    /\ worker = [w \in Worker |-> Idle]
    /\ agent = [a \in Agent |-> NoRow]

Next ==
    \/ \E r \in Row : Arrive(r) \/ Publish(r) \/ FailToPublish(r)
    \/ \E w \in Worker :
          \/ Lock(w) \/ Filter(w) \/ CheckDuplicate(w) \/ Claim(w)
          \/ Commit(w) \/ RejectEmptyReply(w)
          \/ Fail(w) \/ Retry(w) \/ FailToRetry(w) \/ MarkFailed(w) \/ Acknowledge(w) \/ Die(w)
    \/ \E a \in Agent : CreateTicket(a) \/ \E r \in Row : OpenForm(a, r)

Spec == Init /\ [][Next]_vars

\* A receiver goes on to publish, or fails to. The Celery pool runs: a worker that can
\* go on does, and workers are not killed for ever (to lose a task again changes what
\* acknowledging it would). An attempt fails of its own accord or not at all.
Attend(w) ==
    \/ Lock(w) \/ CheckDuplicate(w) \/ Claim(w) \/ Commit(w)
    \/ Fail(w) /\ worker[w].pc = "broken"
    \/ Retry(w) \/ MarkFailed(w) \/ Acknowledge(w)
Fairness ==
    /\ \A r \in Row : WF_vars(Publish(r))
    /\ \A w \in Worker : WF_vars(Attend(w))
    /\ <>[][\A w \in Worker : Die(w) => Acknowledge(w)]_vars
FairSpec == Spec /\ Fairness

-----------------------------------------------------------------------------
\* Every variable has its type; an attempt of the task stays within MaxRetries.
TypeOK ==
    /\ row \in [Row -> RowState]
    /\ unsent \subseteq Row
    /\ tasks \subseteq Task
    /\ made \in Nat
    /\ lost \subseteq Row
    /\ worker \in [Worker -> WorkerState]
    /\ agent \in [Agent -> Row \cup {NoRow}]

\* However many rows carry the message, and however often their tasks are
\* delivered, fail and are retried, the workers make one ticket, reply or hub e-mail
\* of it.
OneTicketPerMessage == made <= 1

\* What an agent has made a ticket of, no worker makes a second one of, although
\* its task may be waiting for the row at that moment.
UsedRowsAreLeft == [][\A w \in Worker : Commit(w) => ~row[RowOf(w)].used]_vars

\* A row that has arrived is processed, rejected or marked as failed, in spite of
\* failing attempts and lost workers, unless its task was never published or died
\* with a child process: those two rows stay PENDING until an agent uses them.
RowIsSettled ==
    \A r \in Row : row[r].status = "pending" ~> row[r].status # "pending" \/ r \in lost

\* "another worker claimed the key between the check and the save. This is fine --
\* reject as duplicate": losing that race is a rejection, not a failed attempt.
\* The code breaks this (README, section 6).
RaceIsRejected == \A w \in Worker : worker[w].pc # "failing"
=============================================================================
