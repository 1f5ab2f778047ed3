# Kanzan: verification project

Kanzan is a multi-tenant CRM and help desk: Django with REST endpoints, Channels
sockets for live updates, Celery workers and Beat over Redis, PostgreSQL in
production. This directory holds TLA+ models of the parts of it that carry state
machines and concurrency, the TLC configurations that check them on small
instances, and TLAPS proofs of what holds for every instance.

Nothing in Kanzan runs inside one process. A request is handled by one of several
web workers, an agent's socket by another, a task by one of several Celery
processes that may lose it, run it twice or die in it. They meet in PostgreSQL
under READ COMMITTED: what one of them has read without a lock may have changed
when it writes. The models follow that picture throughout. A step of a model is
what no other process can come between: a locked read and the writes up to the
commit, or one unlocked read, or one call to the broker.

## 1. Inventory

| Component (`src/apps/...`) | State | Operations | What is hard |
| --- | --- | --- | --- |
| Ticket status lifecycle (`tickets/services.py`, `signals.py`, `tasks.py`) | status, closure and solution times, remembered status, open SLA pauses, auto-close task id | transition, bulk, close, board move, assignment, reply, PATCH, merge, pipeline stage, auto-close | every handler decides on a snapshot loaded before the row lock; receivers compare with a second read; hooks run after commit |
| Ticket numbering (`tickets/models.py`) | one counter row per tenant | draw a number | first use; autocommit and enclosing transactions; rollback |
| Ticket SLA clock (`tickets/sla.py`, `tasks.py`, `signals.py`) | deadlines, breach flags, pause rows, escalation log | initialise, shift after a pause, extend on escalation, edit a policy, PATCH, breach sweep | several writers of one deadline, each from an instance loaded without a lock; sweeps against edits and against each other |
| Business hours (`tickets/sla.py`) | none | add and count business minutes | day boundaries, holidays, time zones |
| Merge, split, links, CSAT (`tickets/services.py`) | comments and activities of two tickets, links, survey tokens | merge, split, link, rate | mutual merges, tokens used twice |
| IMAP poller, SMTP server (`inbound_email/imap_poller.py`, `smtp_server.py`) | watermark, UIDVALIDITY, InboundEmail rows | poll, receive | overlapping and killed runs; the meaning of 0 |
| Inbound pipeline (`inbound_email/services.py`, `tasks.py`, `api_views.py`) | InboundEmail rows, unique idempotency key | process, retry, mark failed, create a ticket by hand | late acknowledgement, redelivery, duplicates in parallel |
| Inbox Hub (`inbox_hub/`) | conversations, assignees, counters of agents | park, route, assign, drain, convert, dismiss, reassign, transition, escalate | selection before assignment; some operations lock, some do not |
| Agent presence (`agents/presence.py`, `tasks.py`, `tenants/consumers.py`) | status, last heartbeat | connect, ping, choose a status, log out, reap | heartbeats and the reaper write what they read before |
| Agent load (`agents/services.py`, `views.py`) | load counter | recount, assign tickets | two owners of one counter; unlocked ranking |
| Kanban (`kanban/services.py`, `views.py`) | card order, columns, WIP limits | move, reorder, add, remove, follow a status | the card commits before the ticket; positions read before the lock |
| Billing (`billing/`) | subscription, invoices, usage | Stripe events, plan limits | events repeated and out of order |
| Outgoing webhooks (`tickets/webhook_service.py`) | failure counter, is_active | deliver, retry, disable | counter read and written in parallel |
| VoIP (`voip/`) | call rows, usage counter, recordings | initiate, hang up, hold, apply events, sweep | every writer saves a copy; events in any order, lost or early |
| CRM reminders (`crm/tasks.py`, `views.py`) | due time, stamp of the alert, completion | create, edit, reschedule, end, delete, fire | the stamp is written without a condition; PATCH writes it back |
| Messaging, notifications, API keys, accounts, tenancy, comments, custom fields, knowledge base, attachments, analytics, contacts, notes, newsfeed | rows of their own | CRUD, periodic scans, counters | read markers, per-day deduplication, revocation against caches |

How they interact: the IMAP poller and the SMTP server make InboundEmail rows and
queue `process_inbound_email_task`; the pipeline adds a reply to a ticket (which may
reopen it or end its wait), parks the mail in the Hub, or makes a ticket (which draws
a number). The Hub hands mail to agents, and converts it into tickets. A ticket's
status moves its kanban card, pauses and resumes its SLA clock, and schedules its
auto-close task; a card that is moved moves the ticket. Presence sockets of agents
trigger the drain of held mail.

What makes each component correct, in the order of importance given to it here:

* lifecycle: the status, what is stamped on the row, the pauses, the card and the
  scheduled task agree; the transition map is kept; no ticket stays resolved;
* numbering: no number twice, no creation stuck;
* poller: old mail stays out, no new mail is lost, no row without its task;
* pipeline: one ticket, reply or conversation per message; every row is settled;
* hub: a conversation ends once; counters are what they count; the engine respects
  capacity and takes nothing from people;
* SLA clock: the stored deadline and the elapsed time of the sweep say the same, flags
  tell the truth, a late ticket is flagged, and told of no oftener than sweeps overlap;
* kanban: a move puts one card where it was asked for and leaves the others in order;
* calls: limits overrun by no more than the requests in flight; calls end;
* presence: the dead are not assignable, choices are kept, the living become assignable;
* reminders: what is due is announced, and again only by a race that can be named.

PROJECT.json lists every component with its status, and under "hazards" each place
in the code where one of these can go wrong.

## 2. Plan

Built in this order: TicketLifecycle with StatusPromise, TicketNumbering, ImapPoller,
InboundEmail, InboxHub, then SlaClock, KanbanBoard, VoipCall, AgentPresence and
Reminders. Each component is a module of its own, with an MC module and one run for all
that it promises. Proofs are in modules that extend the component's: one for each, but
`TicketServices_proofs` for both TicketNumbering and SlaClock (of `apps/tickets`) and
`PeriodicTasks_proofs` for both ImapPoller and Reminders (tasks of Celery beat). Where
two modules are extended together, the names one of them would share with the other
carry its own name (`NumberSpec`, `ReminderSpec`).

What the plan had and the project does not, and why:

* `DeadlinePromise`, an abstract SLA clock: the abstract clock would have to say what a
  deadline is after an edit of the policy during a pause, which the code does not say.
  `TestsAgree` compares the two clocks of the code with each other instead.
* `MailPath`, the composition of poller, pipeline and hub: their interface is a row and
  a task, which InboundEmail takes in any number and order; composing the full
  modules exceeds what TLC can search.
* `AgentAssignment`: `auto_assign_ticket` is called by tests only, and the rest of the
  load counter is InboxHub's.
* `WebhookDelivery`, `Billing`, `TicketMerge`: section 7.

## 3. Modules and their correspondence to the code

### TicketLifecycle (one ticket)

`ticket` is the committed row, reduced to what handlers read and write: status,
`pre_wait_status`, whether `solved_at` is set, whether `resolved_at`/`closed_at` are
(`stamped`; every writer sets and clears them together), the auto-close task id, and
whether `sla_paused_at` is set. `openPauses` counts SLAPause rows with `resumed_at`
null, `card` is the status of the column the card lies in, `pending` the auto-close
tasks at the broker. `worker[w]` is what a process is doing: the handler, where it is
bound for, and the snapshot it loaded.

A handler takes the steps `Begin` (load and decide: `Targets` has one line per
handler), `PreSave` (the second read in `handle_ticket_status_change`, and the revoke
just before), `Save` (UPDATE, receivers, COMMIT), `Publish` and `RecordTask`
(`_schedule_auto_close`: `apply_async`, then the id). A PATCH (`edit`) writes the
whole snapshot; the service path writes the columns `change_ticket_status` lists in
`update_fields`; assignments and pipeline stages only the status. `DropCard` and
`PickUpDropped` are the two transactions of `move_card`. `ResumeOnReply` and `Merge`
take the row lock early, so their rest is one step. `BeginAutoClose` and `ClearTask`
are the task. `Die` is a lost process.

`StatusPromise` says what readers of a ticket may rely on: somebody decides on a
change, by the map or at will, and the change is one move, with the marks of the new
status, the SLA clock stopped where a wait begins and started where it ends, and the
status before the wait remembered through other waiting statuses. `PromiseKept` states
that TicketLifecycle implements it when no two handlers overlap, under the mapping of
the row's five columns and of the handler in hand (`DecidedBy`).

### TicketNumbering (one tenant)

`counter` is the committed `TicketCounter.last_number`, `lock` and `draft` the
transaction that holds the row and what it sees. `LockCounter`, `MissCounter`,
`CreateCounter`, `CreateLost` are the steps of `select_for_update().get_or_create`;
`Increment` the F() update; `Insert` the ticket. `inTxn` distinguishes the API
(autocommit: the counter commits before the ticket) from the pipeline and the Hub.

### ImapPoller (one mailbox)

`watermark` is `IMAPPollState.last_uid`, `poller[p]` a run of
`fetch_inbound_emails_task`: SELECT (`next`), load state (`mark`), anchor and SEARCH,
then FETCH, row, task and watermark for each message. Beat starts a run every minute
whatever the others do, hence several. A message's Message-ID is as good as its UID.
`tried`, `fresh`, `hit` and `ended` are history variables the properties need.

### InboundEmail (one message, several rows)

`row` are the committed rows (status, key, whether something was made of them),
`tasks` the messages at the broker, `worker[w]` a Celery process. `Lock` to `Commit`
are the steps of `process_inbound_email` that others can tell apart; `Arrive` commits
the row, and `Publish` or `FailToPublish` follow (smtp_server.py:127, 220); `Claim` is the
UPDATE of the unique key, which waits for a rival's transaction. `Retry`, `MarkFailed`
`FailToRetry` and `Acknowledge` end an attempt. `Die` has two forms: a whole worker is lost and the
broker keeps the task, or only its child and the task is acknowledged. `OpenForm` and
`CreateTicket` are the agent's "create ticket".

### InboxHub (one tenant)

`email[e]` is a HubEmail: state, assignee, whether it has its ticket, whether it has
been routed. `load[a]` is what the Hub has added to the agent's
`current_ticket_count`; every agent has an availability row. `job[p]` is what a
process still has to do. `Park`, `Route`, `Select`, `Assign` are the inbound pipeline's
on_commit hooks; `Connect`, `Drain`, `Assign` an agent's socket; `Assign` is
`assign_to`, with both rows locked. `Convert`, `Dismiss` and `Reassign` lock the row
and are single steps. `Load` and `Overwrite` are `transition_hub_email` and
`escalate_hub_email`, which do not lock. `DeleteTicket` is SET_NULL.

### SlaClock (one ticket)

`ticket` is the row with its priority, its two deadlines, when it was answered and
closed, and its breach flags; `pauses` the SLAPause rows, `policy` what every priority
promises, `queued` the policy edits whose task has not run, `held` the instances that
requests on their way have loaded, `sweep` where each worker is in `check_sla_breaches`
and the copy it works on. No request locks the ticket (views.py:932): each works on the
instance c that it has loaded, which is the row, or one loaded (`Load`) before others
saved, and what it saves is computed from c. `ChangeStatus`, `CustomerReply`,
`Respond`, `Escalate`, `ChangePriority` and `Patch` are requests, each one step from the
receivers' look at the row to the commit (TicketLifecycle, section 3, has these apart),
`EditPolicy` and `Propagate` are about policies; `StartSweep`, which any idle worker may
take while others are at it, `Visit`, `Check`, `Announce`, `SelectRules`, `ExecuteRule`,
`LogRule` and `EndRules` are the commits of the sweep and `Crash` the loss of a worker.
`tally` counts what the properties make allowance for: lost workers, sweeps begun before
another had ended, PATCHes that took a flag off. `Business` and
`AddBusiness` are `tickets/sla.py` over the set `OpenMinutes`, with the minute as the
unit; the code computes that set from weekdays, holidays and the time zone.

### KanbanBoard (one board)

`col` and `ord` are CardPosition rows, `req` the move requests: `Read` (the card as the
view loads it), `Check` (the WIP limit, unlocked), `LockSource`, `LockTarget`, then
`CloseGap` and `OpenGap` (the UPDATEs of the source and the target) or `ShiftBetween`
(the one of a reorder), `Commit` (the card's own row and COMMIT), `SyncStatus` (the
ticket, in a second transaction). `col` and `ord` are what is committed; the rows a
transaction has lowered and raised stand in its record until then. Moves between two
columns lock the source first, so that crossing moves deadlock and PostgreSQL aborts one
(`Abort`). `CreateTicket`, `ChangeStatus`, `AddTicket`, `Populate` and the others that
put a card behind those of a column count these first (`Count`, into `placing`) and
commit the card later (`Land`): an insert waits for no lock. `WriteCard` is the viewset's
own POST, PUT and PATCH, which take column and order as they come. A ticket's row lets
one of its saves through at a time; `add_ticket` does not save it, and that it could
give a ticket a second card, in another column, is left out. A statement takes all its
row locks together.

### VoipCall (one tenant)

`row` are CallLog rows, `dial` how far each initiate request is (`Check`, `SaveRow`,
`Originate`, `StoreChannel` or `MarkFailed`, `Count`), `channel` what Asterisk does,
`events` the queued `sync_call_state` tasks, `job` what other requests and tasks do
with the copy they read. `Sweep` is `cleanup_stale_calls`, `Record` the task of
recordings. What a save writes is in `Merged`: some of its columns, or all of them.

### AgentPresence (agents of one tenant)

`status` and `seen` are the AgentAvailability columns, times given as ages; `touch` a
heartbeat between its read and its write, `reaping` what the reaper has listed and not
yet written. `open` are agents with a working socket. `Connect`, `Ping` and `Stamp` are
`touch_presence` as the consumer calls it, `Choose` and `Logout` the requests, `Reap`
and `ReapOne` the task. `dead`, `chosen` and `overtaken` are history variables.

### Reminders (reminders of one tenant)

`row` are Reminder rows with their due time and stamp, `run` what each worker does
(`Begin` fixes the time, `List`, `Claim`, `Send` or `Fail`), `request` the single
requests between read and save; a bulk action and a deletion are one step. A PATCH saves
the whole copy, and inserts the row again if it has been deleted. `told`, `last`,
`repeated`, `raced` and `failed` are history variables.

## 4. Runs

| Run | Instance | States | Shows |
| --- | --- | --- | --- |
| `lifecycle_one_process` | one process, all handlers but merge and pipeline stages, two waiting statuses, two task ids | 2 012 | marks, pauses, remembered status, card and scheduled task agree; the task leaves no ticket resolved; the service path keeps to the map; the whole is the one-move service of `StatusPromise` |
| `lifecycle_overlap` | two processes with stale snapshots, deaths | 478 657, symmetric | a closed ticket has its closure times, a resolved one `solved_at`, whatever overlaps |
| `numbering` | three creators, numbers up to 5 | 7 393 | no collision, the counter covers every ticket, creations end |
| `imap_overlap` | two runs, one old and two new messages, all faults | 165 359 | no backfill, nothing skipped, rows have their task, mail is handed on |
| `inbound_pool` | two rows, two workers, one agent, one retry, all faults | 238 106 | one ticket per message, an agent's row is left alone, every row is settled whose task was published and not lost with a child |
| `hub` | two conversations, two agents with one place each, two processes | 1 222 443, symmetric | conversations end once, counters are exact, the engine keeps capacity and takes nothing away |
| `sla_clock` | one ticket of two priorities, two workers, 4 ticks of a day of three minutes, one instance loaded early, two events (pauses, edits, early loads, lost workers, overlapping sweeps) | 1 241 164 | the two clocks agree, flags tell the truth, notices are repeated only by what `tally` counts, only policy edits and late saves bring a deadline nearer, a late ticket is flagged |
| `kanban` | three tickets, two columns of which one takes two cards, two requests, one card by other means | 3 481 334, symmetric | a move that read the present card, and into whose columns no card has come, keeps both dense and the others in order |
| `voip` | two calls, two handlers, two requests at a time, one call allowed | 187 190 | overrun within the requests in flight, no recording of a call that never was up, no call active for ever |
| `presence` | one agent, two threads, TTL of two ticks | 59 960 | the dead are not assignable and are reaped; choices stand |
| `reminders` | one reminder, two runs of the task, one slow request, two edits | 93 457 | repeats come from named races only, the stamp tells of an alert, what is due is claimed |
| `presence_reaped` | as `presence` | violation | section 6 |

Why the bounds suffice. Two processes show every race found in the code: each
handler holds one stale snapshot, and it takes one other handler to make it stale (the
proofs of section 5 are for any number of processes). Numbering has
three creators since the loser of the first INSERT meets a third one's lock.
`History = 1` separates old from new mail and two more messages put one in hand while
another arrives. One retry has all of a retry's ordering; `MaxRetries` only repeats
it. `MaxLoad = 1` makes every selection a race for the last place. The bounds that
only keep the state space finite are `MaxPauses` (open SLAPause rows), `MaxNumber`
(numbers drawn), `MaxUid` (UIDs assigned), `MaxTickets` (tickets made of one
conversation, which `DeleteTicket` and reopening could repeat without end), and
`TaskId` (ids are reused once nothing refers to them).

The overlap run of the lifecycle leaves out pausing statuses and the pipeline stages,
and `bulk`, which goes anywhere, stands there for every validated move. Pauses are not
promised under overlap (section 6). In `hub`, `Targets` is `{"in_progress"}`: one
working state stands for all of them, since no other operation of the Hub tells them
apart, and escalation is always possible.

The bounds of the newer runs: `MaxTime`, `Horizon`, `MaxEvents`, `MaxHeld` and
`MaxNested` of SlaClock bound the clock, the search for a deadline, the events, the
instances loaded early and the pauses that one save leaves behind. One budget (`Room`)
covers pauses, edits, early loads, lost workers and overlapping sweeps; two of them are
what each interleaving that matters takes: an early load and a pause whose shift its save
takes back, an early load and an overlap or a loss, two pauses. Closing, answers, replies
and sweeps one after another are free of it. A day of
three minutes, two open, puts closed time between any two open ones, and four ticks
reach into the second day. Two workers are the sweep and the next one that Beat starts;
the proofs are for any number. `Horizon` cuts nothing off: `HorizonAssumption`, which TLC
evaluates, requires a calendar with so many open minutes before `Horizon` that
`MaxEvents` events, each of which moves a deadline by at most the longest promise or all
the time there is, leave it within reach of the search. The code's own limit, 8 760
rounds of at most a day each (sla.py:353), takes a calendar with hardly an open minute
to reach and is not modelled. The run serves requests between tickets of a sweep and not
within one (`Overlap = FALSE`), since stale copies of the sweep break what it checks
(section 6). `MaxPos` and `MaxOutside` of KanbanBoard bound positions asked for and
cards that come and go by other means; two requests are one that is stale and one that
made it so. `Followed` and `MaxSteps` of VoipCall keep one of two calls busy while the
other only contends for the limit. AgentPresence has no bound but the TTL: agents share
nothing but the reaper's list, so one agent shows what they do. `MaxTime = 1` and
`MaxEdits = 2` of Reminders give a reminder that is due, is moved beyond the time of a
run, and is edited once more.

CHECK_DEADLOCK is off where the system may stop: when all rows are settled, when
`MaxTickets` is reached, when the clock of SlaClock ends, when the one-shot requests of
KanbanBoard and VoipCall are used up.

Fairness. `lifecycle_one_process`: a handler that has started goes on (weak fairness
of a process's steps), and Celery gives a due task to some process however busy (strong
fairness, because the processes may always find something else to do in between).
`numbering`: strong fairness of each creator's steps, since PostgreSQL queues the
waiters of a row lock. `imap_overlap`: Beat starts runs for ever, and runs are not
killed for ever. `inbound_pool`: receivers and workers go on, and workers are not lost for ever; an
attempt that fails of its own accord may do so every time. "Not killed for ever" is
stated as an action formula that spares the steps which change exactly what a kill
would (a run that ends, a task acknowledged once more); forbidding those too would
leave no fair behaviour to check. The Hub has no liveness
property: held mail waits for people who connect, whom nothing in the code brings back.
`sla_clock`: Beat runs the sweep again and again and every worker goes on with its own
(weak fairness of each); workers are lost a bounded number of times. `voip`: an initiate request ends, calls grow old, and the hourly sweep runs
(base.py:332), which assumes a worker that reads its queue (section 7). `presence`: time
passes and the reaper runs (weak); threads finish what they began, open pages ping and
a listed row is written in the end although workers are killed (strong). `reminders`:
time passes, runs begin and alerts end (weak); listing and claiming happen in the end
although workers die (strong).

## 5. Proofs

Checked by tlapm, for every value of the constants:

| Theorem | Assumes | Inductive invariant |
| --- | --- | --- |
| `TicketLifecycle_proofs!TypeCorrect` | the named ASSUMEs | `TypeInv`: types and, per process, what a handler may still write (`StepOK`), since a slot in `WorkerState` alone does not say that a saving handler has a status |
| `ClosedStaysStamped`, `ResolvedStaysSolved` | one closed status, no won/lost stages, tickets not created closed or resolved (`Assumed`) | `MarkInv`: the row is marked, and so is every snapshot still to be written, because a PATCH writes all of it |
| `TimestampsStayMatched`, `PausesStayMatched`, `PreWaitStaysUsable` | `OneAtATime`, `Ordinary` | `AloneInv`: the process at work holds the row as it is, is bound for what its checks chose for that row (`FreshInv`), and the row's marks, pauses and remembered status fit its status (`RowInv`) |
| `ServiceKeepsToMap` (`ServiceMovesAreLegal`) | these and `MapCoversService` | `AloneInv` |
| `PromiseIsKept` (`PromiseKept`) | `OneAtATime`, `Ordinary`, `MapCoversService` | `AloneInv`; only saves write what readers see (`OnlySavesWrite`), `PromiseStep` maps a save to a move of StatusPromise, the load before it to a decision, and every other step to a stutter |
| `CardStaysWithStatus`, `ResolvedStaysScheduled` | `OneAtATime`, `Ordinary`, no faults | `QuietInv`: `AloneInv`, the card in the column of the status or of a change on its way (`CardInv`), the task on the row, at the broker or about to be (`OnSchedule`) |
| `TicketServices_proofs!NumbersTyped`, `NumbersAreUnique`, `CounterIsAhead` (`NeverCollides`, `CounterCoversTickets`) | the named ASSUME | `NumberInv`: only the lock's owner drafts, the draft follows the committed counter, a number in hand is covered by it |
| `PeriodicTasks_proofs!PollerTyped`, `RowsFindTheirTask` | the named ASSUME | types and the message in hand |
| `MailIsSafe`, `NewMailIsFetched` (`NoBackfill`, `NothingSkipped`) | a message in the mailbox when polling begins (`History > 0`) | `MailInv`: a watermark is 0 or at least the history; each run's mark and list cover what it has not tried |
| `InboundEmail_proofs!TypeCorrect` (attempts stay within `MaxRetries`) | the named ASSUME | `TypeOK` itself |
| `InboundEmail_proofs!UsedRowsStay` | the named ASSUME | `RowInv`: locks are exclusive, a locked row is pending, a row that has the key or made something is not pending |
| `OneTicketOnly` | the named ASSUME | the above, `ClaimInv` (one claim at a time, only while nobody has the key) and `MadeInv` |
| `InboxHub_proofs!TypeCorrect`, `ConversationsEndOnce` | the named ASSUME | `TypeInv` with `HasTicket` (a set ticket field means that a ticket exists); `EndsInv` |
| `LoadsAreExact` | the named ASSUME, finitely many conversations | `LoadInv`: one step moves one conversation, by cardinality of the sets it leaves and joins |
| `EngineStaysWithinLimit`, `EngineTakesNothing` (`EngineKeepsCapacity`, `NothingIsTakenAway`) | the named ASSUME | `TypeInv`; `AssignGives` says what the locked second look lets `Assign` write, whatever the unlocked first one saw |
| `KanbanBoard_proofs!TypeCorrect`, `MovesKeepOrder` | the named ASSUME | `LockInv`: no row is held twice, what is held is a card, and what a transaction has lowered and raised is right for every row it holds (`Ready`), because a row under lock is not changed by others (`ReadyStays`). At the commit the statements add up to `Reordered` or `Shifted` (`StatementsAddUp`), of which two lemmas show that they are bijections on positions, for columns of any length |
| `VoipCall_proofs!TypeCorrect`, `OverrunBounded` | the named ASSUME | requests in flight plus calls counted stay below the limit plus `Dialling`, by cardinality |
| `RecordedWereUp` | the named ASSUME | every row, every copy in hand and every waiting task with an answer belongs to a channel that was up |
| `AgentPresence_proofs!TypeCorrect`, `DeadStayUnassigned` | the named ASSUME | every stamp, written or in flight, is at least as old as the death of the last socket |
| `ChoicesStand` | the named ASSUME | a heartbeat in flight for an agent whose choice stands has read that choice, and the reaper has not listed the agent |
| `TicketServices_proofs!BreachesAreToldOnce` (the first half of `NoticesAreNotRepeated`) | the named ASSUMEs | `NoticeInv`: no more sweeps are on their way than have begun before another had ended, and one. By cardinality of the workers (`Within`): while a kind is flagged, how often it has been told, the workers about to tell it (`Telling`) and those about to check a copy without its flag (`Unaware`) are together within the bound; while it is not, the first two are within what the flags taken off so far allow. A worker that sets the flag turns from unaware to telling, one that loads a flagged row is not unaware, and only a PATCH takes a flag off |
| `NoticesStaySingle` (`NoticesAreNotRepeated`) | `Unbroken`: requests come between tickets of a sweep only, or the rules only notify | `NoticeInv` and `RuleInv` (`Sparing`): until a rule is in the timeline, each execution has lost its worker or is on its way to be logged; afterwards its executions and the workers that read the timeline before (`Intent`) are within the bound |
| `PausesNeverDouble` (`NoDuplicatePauses`, `PausesAreWaits`) | `~Overlap`: requests come between tickets of a sweep only | `PauseInv`: only the last pause may be open, and only while the row waits (a late reply may end it before the wait is over). `CopyInv`: the copy a sweep works on has the status and times of the row, so that the receivers see no change in its save, however many sweeps are at it |
| `DeadlinesOnlyGrow` (`DeadlineNeverEarlier`) | `~Overlap` | `DueInv` with the above: the priority on the row and on every copy stays on the ladder, the promise in force is one of `Targets`, and after n ended pauses and edits a deadline has at most n + 1 times `Most` open minutes before it (`Fits`), one held by an early instance one event less, so that the next one is found (`AddFits`); `ExtendedLater`, `ShiftsLater` and `RequestDue` say that each handler counts forward from the deadline of its instance or from a later instant |
| `TwoClocksAgree` (`TestsAgree`) | `~Overlap` | `LengthInv`: as long as nothing touches the clock, the open minutes before a deadline are the promise and the minutes of the ended pauses. `OpenTakes` adds the open pause, and `ClocksAgree` compares |
| `FlagsAreHonest` (`FlagsMatchClock`) | `~Overlap` | `FlagInv`: of each promise `Truth` says that it is flagged if it was kept late, and only if it has been overrun by now or by then, or was kept in a pause. A flag outlives the pauses that come later, since what has run until a time stays what it was and never shrinks (`Runs`, `RanStays`, `TickRuns`). `SweepInv`: the time, policies and priority of every sweep are the present ones where it compares; `OpenInv`: an open ticket has no closing time |
| `ClockTyped` (`SlaClock!TypeOK`) | `~Overlap` | `ShapeInv` with the above: columns, instances, steps and sets, and `Apart`, a pause ends before the next begins |
| `PeriodicTasks_proofs!RemindersTyped` | the named ASSUME | `ReminderInv`: types, what a request in hand will save, and one reminder claimed at a time |
| `RepeatsAreRaces` (`RepeatedOnlyByRaces`) | the named ASSUME | `OnceInv`: of a reminder not raced, every due time told or in a run's hands is at most its stamp, no two runs hold the same one, and what a run has listed lies above the stamp it read |
| `StampsTellTheTruth` (`StampMeansAlert`) | the named ASSUME | `AlertInv`: every stamp, on a row or in a copy that a request will save, is answered by an alert at or after it, one in hand, or a recorded failure |

The assumptions are not decoration. Without `History > 0` the theorem is false (an
empty mailbox, section 6). `Assumed` excludes the lost stage, which closes a ticket
without its stamps. The agreement theorems hold for `OneAtATime`, one process: with
two, a stale PATCH writes the marks of another status back. `Ordinary` leaves out merge
and the pipeline stages, which write the status and leave marks of the old one, tickets
created closed or resolved, and a default status that pauses or is "resolved".
`MapCoversService` says that the tenant's statuses are the built-in ones: with a custom
status, resume_from_wait goes back to a remembered status, and the auto-close to the
first closed one, without asking the map. A process may die at any step in all theorems
but the last two of the lifecycle (a death after COMMIT leaves the card or the task
behind). `Unbroken` excludes what happens when a request takes a ticket out of its wait
between the sweep's read and a rule's save: the receivers save the copy again and again
until the stack is exhausted, the action is committed, its row in the timeline is not,
and the next sweep executes the rule again (TLC finds this with `Overlap = TRUE` and
one rule that assigns). The bound on announcements needs no such assumption.

`~Overlap` is needed too: with requests between the steps of one ticket TLC refutes
both `NoDuplicatePauses` and `DeadlineNeverEarlier` (section 6). It is about requests
only: sweeps always come between each other's steps. A request is one step in these
theorems; that two of them look at the row before either has its lock is in
TicketLifecycle, where it opens a second pause or leaves one open (section 6).

`HorizonAssumption` says that a search is not cut off: `add_business_minutes` goes
8 760 rounds (sla.py:353), one or two for each working day, `AddBusiness` up to
`Horizon`, and the assumption is that the calendar is long enough for so many events, each of `Most` open
minutes at the most; that every deadline is found then is proved (`DueInv`).

Time is counted in these proofs, not added up: `Worked` is the number of open minutes
before a time, and `PauseMinutes`, a sum over the rows in the code, the number of pairs
of a row and a minute that it takes off. Two facts then carry them, that an open pause
takes off just the minutes since it began (`OpenTakes`), and that the search finds its
instant (`AddCounts`, by the least time with enough minutes before it); both follow from
the library's theorems on cardinality and on least numbers.

For these proofs the sweep's breaches and rules are sets, taken in their order by
`Announce` and `Turn`, workers are a finite set of numbers, and each row, sweep and
tally is written column by column in the lemmas: what a write of one column leaves is
what the inductive steps go by.

Model-checked only:

* everything under fairness: `ResolvedIsLeft`, `CreationEnds`, `MailIsHandedOn`,
  `RowIsSettled`, `LateIsFlagged`, `CallsEnd`, `DeadAreReaped`, `DueAreClaimed`.

`TypeOK` of SlaClock is the other way round: proved (`ClockTyped`) and not among the
properties of a run.

## 6. Where the code and its words disagree

Shown by a run that must find a violation:

* `presence_reaped`: tenants/consumers.py:67 says that a live socket makes its agent
  assignable. A heartbeat only takes an agent from OFFLINE to ONLINE, and the reaper
  takes a stale one from ONLINE to AWAY: after one lost connection an agent who never
  chose a status stays AWAY, and unassigned, under any number of heartbeats.

Stated in a module and refuted by TLC, without a run of their own:

* `AutoCloseNeedsResolved` (TicketLifecycle): `auto_close_ticket` (tickets/tasks.py:757-774)
  tests status and task id on an unlocked read and closes later; a reply or a
  transition in between is overtaken.
* `ClosedIsStamped` with a lost stage among the handlers: `transition_pipeline_stage`
  closes a ticket with `update_fields` that leave out what the pre_save receiver has
  stamped (tickets/signals.py:80).
* `NothingSkipped` with `History = 0` (ImapPoller): a watermark of 0 means both "not
  anchored" and "anchored on an empty mailbox" (imap_poller.py:106); the first mail is
  passed over.
* `RaceIsRejected` (InboundEmail, without faults): the IntegrityError of the lost race
  is caught inside the transaction without a savepoint (inbound_email/services.py:338),
  so the rejection that should follow fails and the attempt is retried.
* `ClosedStaysClosed` (InboxHub): transition and escalate decide on the row as the
  request loaded it (inbox_hub/services.py:304) and reopen a converted or dismissed
  conversation.
* `NoDuplicatePauses` (SlaClock with `Overlap = TRUE`): the sweep saves a priority with
  the status it loaded, and the receivers open a second pause.
* `DeadlineNeverEarlier` (SlaClock with `Overlap = TRUE`): a ticket that the sweep has
  loaded begins to wait and is escalated; saving the flag, the sweep's copy seems to
  end the wait, and the receiver shifts and saves the deadlines of the copy
  (`_resume_sla_pause`, tickets/signals.py:341), which takes the escalation's extension
  back.
* `DeadlineNeverEarlier` without its exception for late saves (SlaClock, with
  `Overlap = FALSE` and no sweep at all): an agent's request loads a ticket; the ticket
  waits and comes back, which shifts its deadlines; the request escalates, computes both
  deadlines from the instance loaded without a lock (views.py:932, services.py:1190-1208)
  and saves them over the shifted ones. A PATCH in progress (views.py:644), and a
  transition or reply that ends a pause with the deadlines of an old instance, do the
  same.
* `announced[k] <= 1` (SlaClock): Beat starts `check_sla_breaches` every 120 s with no
  lock and `acks_late`. Two runs load the ticket without its flag (tasks.py:73-81), both
  set the flag and both announce the breach (:112-118): "Persist breach flags BEFORE
  sending notifications to prevent duplicate notifications on task retry" (:110) covers
  the retry, not the overlap. With the timeline read by both before either has its row,
  both execute the rule (:243-277), no worker being lost. A PATCH that loaded the ticket
  before the flag was set takes it off, and the next sweep finds and announces it anew.
* `ColumnsStayDense` (KanbanBoard; kanban/services.py:203, :279, :303): a request that
  read its card before another move shifts by the old position. Nor do the locks stop new
  cards, which are counted and inserted under none (tickets/signals.py:511-517, 569-572):
  of a column with x at 0 and y at 1, a move takes x out and lowers y without having
  committed; a new ticket counts two cards and is put at 2; the commit leaves y at 0 and
  the new card at 2. Two cards that count the same column get the same order, and two
  moves into an empty column find no row to lock and may do the same. A removed card
  leaves its gap, and a PUT of a card makes no room.
* `FinishedStaysFinished` (VoipCall): "Immutable call detail record"
  (voip/models.py:166), which a late copy of a PATCH or an event sets back to active.

Met while modelling, part of the models, and without a run of their own:

* bulk changes (tickets/services.py:1340), the board and the pipeline stages pass by
  the transition map: a closed ticket is moved out of closed;
* the API creates tickets in a closed status without stamps (serializers.py:562);
* a change out of waiting that overlaps the change into it leaves an SLA pause open
  for good, because the receiver compares with a status read before the lock
  (signals.py:56);
* a PATCH of other fields writes back the status it loaded (views.py:644), and with it
  deadlines, breach flags and closing time;
* two changes into waiting that overlap open two SLA pauses, since both compare with the
  status read before the lock (signals.py:56); a reply whose ticket was loaded before a
  wait began ends the pause and not the wait, which goes on with its clock running;
* the SMTP server commits the row, then publishes, and swallows the broker's error: the
  row stays PENDING without a task although the sender has its 250 (smtp_server.py:225);
  so does one whose retry the broker refuses; `lost` names both;
* a poller killed between the row and its task leaves a row that every later run
  takes for a duplicate (imap_poller.py:362); the fault variable `hit` names it;
* `mark_inbound_failed` writes FAILED over whatever the row says, also over the
  success of a redelivered attempt (inbound_email/services.py:388);
* two agents who press "create ticket" on one row get two (api_views.py:165);
* ending a conversation takes nothing off its agent's counter, and the recount of the
  workload page (agents/views.py:816) forgets all mail;
* two drains that want the same mail leave younger held mail where it is although
  there is room for it; between parking and routing, mail is open to any agent's drain;
* the transition endpoint accepts `converted_to_ticket` and `dismissed` directly: a
  conversation closes as converted without a ticket (inbox_hub/views.py:261);
* the breach flag of a conversation is committed before its escalation;
* closing a ticket out of a waiting status, or answering it there, compares with the
  deadline before the pause has shifted it (services.py:832, signals.py:94); deadlines
  use business hours even where the policy says `business_hours_only = False`, which the
  sweep respects; a new ticket's deadlines start now, an edited policy's at `created_at`;
* a change of priority does not compute the deadlines anew, and warnings of one day
  suppress those of the other kind;
* a position beyond the end of a column is not clamped (kanban/services.py); the
  receiver of status changes puts a card at `cards.count()`, which may be taken; WIP
  limits bind drags and `add_ticket` only; a drag goes by the transition map;
* a call that is put on hold while it rings is ANSWERED without `answered_at` after it;
  events that arrive before the channel id is stored are dropped; a call alive for more
  than two hours is marked FAILED; voip/signals.py:79-92 gives TicketActivity fields
  that it does not have, and swallows the TypeError: no call reaches a timeline;
* a chosen OFFLINE is undone by the next ping of an open page; "a manual AWAY/BUSY choice
  is never overridden" (settings/base.py:359) holds but for a heartbeat or a reaper that
  has read the row before (`overtaken`);
* "this fires exactly once" (crm/tasks.py:40): two overlapping runs both claim, and a
  PATCH in progress writes the old stamp back, undoes a completion, or inserts a
  deleted reminder again; a cancelled reminder can be rescheduled and never fires;
  moving a reminder forward to a time that its stamp has passed does not re-arm it
  (models.py:162 says that moving forward does).

## 7. Not modelled

Within the modelled components: split, links and survey tokens of tickets;
logs, webhooks and broadcasts that only report a change; attachments, contacts and
threading in the pipeline; UIDVALIDITY resets; deadlines, first responses and notes in
the Hub, and the evaluation of routing rules (`Pool` stands for the outcome; mail
without a department goes to all agents of `Pool`); idle-time rules, the warnings task
and daylight saving in the SLA clock; editing of boards and columns, and cards that are
no tickets; queues, extensions, SIP credentials and settings of VoIP; custom statuses
and working hours of agents; reassignment of reminders, and the task that nags about
overdue ones, which Beat does not start. The database's isolation level and locks,
Celery's acknowledgement, Redis, Asterisk and the clock are modelled from how the code
uses them. The deployment in the repository starts neither a worker for the queue
`crm_voip` nor `run_ari_listener` (docs/reference/codebase-inventory.md:163);
`CallsEnd` assumes both.

Left out as components, with what was met while reading them:

* Merging tickets: no check of cycles or closed tickets, `exists()` on a
  `select_for_update` locks one row of the two that services.py:1533 names, and a merged
  ticket can be reopened. The closing of the secondary is in TicketLifecycle.
* Billing: Stripe decides which events come in what order, and the code does not say
  what a row should be after them. An `invoice.paid` before its subscription is
  acknowledged and lost (webhooks.py:228-236); a late event of an old subscription
  repoints the tenant's row to it (:143-158); usage counters of tickets, contacts and
  storage are never incremented.
* Outgoing webhooks: one HTTP call with retries; the failure counter is read and
  written back by deliveries in parallel.
* Memberships and permissions: rules checked request by request, with no protocol
  between actors.

The other components marked not_modelled in PROJECT.json are plain CRUD, file
transfer, presentation or configuration with no protocol of their own.
