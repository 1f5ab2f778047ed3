--------------------------- MODULE TicketLifecycle ---------------------------
(***************************************************************************)
(* The status lifecycle of one ticket (src/apps/tickets).                  *)
(*                                                                         *)
(* Every handler that changes a status follows the same pattern under      *)
(* PostgreSQL READ COMMITTED with no lock on the ticket row:               *)
(*                                                                         *)
(*   Begin    the view or task loads the ticket (get_object) and decides   *)
(*            on that snapshot whether and where to move it                *)
(*   PreSave  the pre_save receiver reads the row again ("previous")       *)
(*   Save     the UPDATE takes the row lock; it, the post_save receivers   *)
(*            and the COMMIT are one step for every other transaction      *)
(*   Publish, RecordTask   the on_commit hook that schedules the           *)
(*            auto-close task and then stores its id on the ticket         *)
(*                                                                         *)
(* A worker is a web or Celery process that runs one handler at a time.    *)
(* Handlers names the handlers a configuration lets run, so that the       *)
(* service path can be checked alone and next to the code that bypasses it.*)
(***************************************************************************)
EXTENDS Integers, FiniteSets

CONSTANTS
    Status,        \* slugs of the tenant's TicketStatus rows
    Closed,        \* those with is_closed
    Pausing,       \* those with pauses_sla
    Default,       \* the one with is_default
    FirstClosed,   \* the closed status of least order
    CreateIn,      \* the statuses in which tickets are created
    Handlers,      \* the handlers that run (a subset of AllHandlers)
    Worker,        \* web and Celery processes
    TaskId,        \* ids of auto-close tasks (recycled once unreferenced)
    MaxPauses,     \* bound on the SLAPause rows left open
    Faulty,        \* whether processes die and the broker refuses a task
    NoStatus,      \* a null pre_wait_status
    NoTask         \* a null auto_close_task_id

AllHandlers ==
    {"transition", "bulk", "kanban", "close", "reply", "agentReply",
     "assign", "edit", "merge", "won", "lost"}

ASSUME StatusAssumption ==
    /\ {"open", "in-progress", "waiting", "resolved", "closed"} \subseteq Status
    /\ Closed \subseteq Status /\ Pausing \subseteq Status
    /\ CreateIn \subseteq Status
    /\ Default \in Status \ Closed
    /\ FirstClosed \in Closed
    /\ {"open", "in-progress", "resolved"} \cap (Closed \cup Pausing) = {}
    /\ "closed" \in Closed
    /\ NoStatus \notin Status
ASSUME HandlerAssumption ==
    /\ Handlers \subseteq AllHandlers
    /\ NoTask \notin TaskId
    /\ Faulty \in BOOLEAN
    /\ MaxPauses \in Nat

VARIABLES
    ticket,      \* the committed row
    openPauses,  \* how many SLAPause rows of the ticket have resumed_at null
    card,        \* the status its card's kanban column is mapped to
    pending,     \* auto-close tasks the broker still holds
    worker       \* what each process is doing

vars == <<ticket, openPauses, card, pending, worker>>

(***************************************************************************)
(* stamped stands for resolved_at and closed_at, which every writer sets   *)
(* and clears together; solved for solved_at, paused for sla_paused_at.    *)
(***************************************************************************)
TicketRow ==
    [status : Status, preWait : Status \cup {NoStatus}, solved : BOOLEAN,
     stamped : BOOLEAN, task : TaskId \cup {NoTask}, paused : BOOLEAN]

NewTicket(s) ==
    [status |-> s, preWait |-> NoStatus, solved |-> FALSE,
     stamped |-> FALSE, task |-> NoTask, paused |-> FALSE]

Blank == NewTicket(Default)

\* A process at step pc of handler op, bound for the status to.
Busy(pc, op, to, snap, task) ==
    [pc |-> pc, op |-> op, to |-> to, snap |-> snap, prev |-> NoStatus, task |-> task]

Idle == Busy("idle", "none", NoStatus, Blank, NoTask)

WorkerState ==
    [pc : {"idle", "dropped", "loaded", "saving", "publish", "record", "clear"},
     op : AllHandlers \cup {"autoclose", "none"},
     to : Status \cup {NoStatus}, snap : TicketRow,
     prev : Status \cup {NoStatus}, task : TaskId \cup {NoTask}]

-----------------------------------------------------------------------------
(* The transition map and the target each handler chooses.                 *)

\* ALLOWED_TRANSITIONS: custom slugs are not in the map and go anywhere.
AllowedFrom(s) ==
    CASE s = "open"        -> {"in-progress", "waiting", "resolved", "closed"}
      [] s = "in-progress" -> {"open", "waiting", "resolved", "closed"}
      [] s = "waiting"     -> {"open", "in-progress", "resolved", "closed"}
      [] s = "resolved"    -> {"closed", "open"}
      [] s = "closed"      -> {}
      [] OTHER             -> Status

\* Variant: the transition map is not consulted.
UncheckedTransitions(t) == Status \ {t.status}

\* What transition_ticket_status accepts: the same status is a silent no-op.
Transitions(t) == AllowedFrom(t.status) \ {t.status}

\* resume_from_wait: the remembered status if still usable, else "open".
ResumeTarget(t) ==
    IF t.preWait \in Status \ (Closed \cup Pausing) THEN t.preWait ELSE "open"

\* A reply reopens a resolved ticket and takes a waiting one out of its wait.
ReplyTarget(t) ==
    CASE t.status = "resolved"    -> "open"
      [] t.status \in Pausing     -> ResumeTarget(t)
      [] OTHER                    -> NoStatus

\* The statuses a handler may go on to write for the ticket t it has loaded;
\* no element: it returns or raises without touching the row.
Targets(op, t) ==
    CASE op = "transition" -> Transitions(t)
      [] op = "bulk"       -> Status \ {t.status}
      [] op = "close"      -> {s \in {FirstClosed} \cap Transitions(t) :
                                     t.status \notin Closed}
      [] op = "reply"      -> {ReplyTarget(t)}
      [] op = "agentReply" -> {ReplyTarget(t)} \ {NoStatus}
      [] op = "assign"     -> {s \in {"in-progress"} \ {t.status} :
                                     t.status = Default}
      [] op = "edit"       -> {t.status}
      [] op = "merge"      -> {FirstClosed}
      [] op = "won"        -> {"resolved"} \ {t.status}
      [] op = "lost"       -> {"closed"} \ {t.status}
      [] OTHER             -> {}

-----------------------------------------------------------------------------
(* What a save writes, and what the post_save receivers do next.           *)

\* Variant: update_fields names the status alone.
StatusOnlyRow(row, snap, to) == [row EXCEPT !.status = to]

\* Variant: the remembered status is set on every move into or between waits and
\* never cleared.
KeepsPreWaitRow(row, snap, to) ==
    [row EXCEPT !.status = to, !.preWait = IF to \in Pausing THEN snap.status ELSE @]

\* Variant: a move between two waiting statuses forgets where the ticket came from.
ForgetfulRow(row, snap, to) ==
    [row EXCEPT
        !.status  = to,
        !.preWait = IF to \in Pausing /\ snap.status \notin Pausing THEN snap.status ELSE NoStatus,
        !.solved  = to = "resolved",
        !.task    = IF snap.status = "resolved" THEN NoTask ELSE @,
        !.stamped = to \in Closed]

\* change_ticket_status: the fields it lists in update_fields are written over
\* row, with values computed from the snapshot snap.
ServiceRow(row, snap, to) ==
    [row EXCEPT
        !.status  = to,
        !.preWait = CASE to \in Pausing /\ snap.status \notin Pausing -> snap.status
                      [] to \notin Pausing /\ snap.status \in Pausing -> NoStatus
                      [] OTHER -> @,
        !.solved  = CASE to = "resolved"          -> TRUE
                      [] snap.status = "resolved" -> FALSE
                      [] OTHER -> @,
        !.task    = IF snap.status = "resolved" THEN NoTask ELSE @,
        !.stamped = CASE to \in Closed /\ snap.status \notin Closed -> TRUE
                      [] to \notin Closed /\ snap.status \in Closed -> FALSE
                      [] OTHER -> @]

\* serializer.save() of a PATCH: no update_fields, so every column of the
\* snapshot goes back; the pre_save receiver re-stamps it if the status differs
\* from prev, the status it read.
EditedRow(snap, prev) ==
    [snap EXCEPT !.stamped = IF prev = snap.status THEN @ ELSE snap.status \in Closed]

\* The row an UPDATE leaves when it is written over row: only the columns in
\* update_fields change. assign_ticket and transition_pipeline_stage list the
\* status alone; merge_tickets lists the closure timestamps too.
SavedRow(op, row, snap, prev, to) ==
    CASE op = "edit"                    -> EditedRow(snap, prev)
      [] op \in {"assign", "won", "lost"} -> [row EXCEPT !.status = to]
      [] op = "merge"                   -> [row EXCEPT !.status = to, !.stamped = TRUE]
      [] OTHER                          -> ServiceRow(row, snap, to)

\* handle_sla_pause_on_status_change compares prev with the status written.
EntersWait(prev, to) == prev \notin Pausing /\ to \in Pausing
LeavesWait(prev, to) == prev \in Pausing /\ to \notin Pausing

\* Variants: the receiver does not look whether a pause is open; it never resumes.
UncheckedPausesAfter(open, prev, to) ==
    CASE EntersWait(prev, to) -> open + 1
      [] LeavesWait(prev, to) -> open - 1
      [] OTHER                -> open
NeverResumedPausesAfter(open, prev, to) ==
    IF EntersWait(prev, to) THEN open + 1 ELSE open

\* The SLAPause rows left open, and sla_paused_at, after the receivers ran.
PausesAfter(open, prev, to) ==
    CASE EntersWait(prev, to)              -> open + 1
      [] LeavesWait(prev, to) /\ open > 0  -> open - 1
      [] OTHER                             -> open
PausedAfter(paused, open, prev, to) ==
    CASE EntersWait(prev, to)              -> TRUE
      [] LeavesWait(prev, to) /\ open > 0  -> FALSE
      [] OTHER                             -> paused

\* Variant: no card sync.
WriteOverWithoutCard(row, open, op, snap, prev, to) ==
    /\ ticket' = [SavedRow(op, row, snap, prev, to) EXCEPT
                    !.paused = PausedAfter(@, open, prev, to)]
    /\ openPauses' = PausesAfter(open, prev, to)
    /\ UNCHANGED card

\* One transaction's effect on the row and its companions: the UPDATE over row,
\* then the pause receiver and sync_kanban_card_on_status_change.
WriteOver(row, open, op, snap, prev, to) ==
    LET saved == SavedRow(op, row, snap, prev, to)
    IN  /\ ticket' = [saved EXCEPT !.paused = PausedAfter(@, open, prev, to)]
        /\ openPauses' = PausesAfter(open, prev, to)
        /\ card' = to

-----------------------------------------------------------------------------
(* The steps of a handler.                                                 *)

Goto(w, state) == worker' = [worker EXCEPT ![w] = state]

\* The handlers that consult the transition map, and those that end in
\* change_ticket_status.
ServicePath == {"transition", "close", "reply", "agentReply", "assign", "autoclose"}
IsService(op) == op \notin {"edit", "assign", "won", "lost", "merge"}

\* Variant: nothing is scheduled on commit.
NothingScheduled(k) == IF k.op = "autoclose" THEN Busy("clear", "autoclose", NoStatus, Blank, k.task) ELSE Idle

\* on_commit after change_ticket_status moved the ticket to resolved; the
\* auto-close task clears the stored id after its own change.
AfterCommit(k) ==
    CASE k.op = "autoclose" -> Busy("clear", "autoclose", NoStatus, Blank, k.task)
      [] k.op # "autoclose" /\ IsService(k.op) /\ k.to = "resolved" ->
                                Busy("publish", "none", NoStatus, Blank, k.task)
      [] OTHER -> Idle

\* _cancel_auto_close_task: revoke the snapshot's task. It is best effort, and
\* it is not undone when the transaction around it fails.
Revoke(k) ==
    IF IsService(k.op) /\ k.snap.status = "resolved" /\ k.to # "resolved"
    THEN pending' \in {pending, pending \ {k.snap.task}}
    ELSE pending' = pending

\* Ids that nothing refers to: a new task may be given one of them.
FreeTasks ==
    {t \in TaskId \ pending : /\ ticket.task # t
                              /\ \A w \in Worker : t \notin {worker[w].task, worker[w].snap.task}}

\* A task id is set aside by a handler whose on_commit hook will publish it.
TaskFor(op, to) ==
    IF IsService(op) /\ to = "resolved" THEN FreeTasks ELSE {NoTask}

\* Bound: no handler sets out for a waiting status when every process entering
\* one could leave more than MaxPauses rows open.
RoomToPause(to) == to \in Pausing => openPauses + Cardinality(Worker) <= MaxPauses

\* get_object() and the handler's checks, all on one snapshot.
Begin(w, op, to) ==
    /\ worker[w].pc = "idle"
    /\ to \in Targets(op, ticket)
    /\ RoomToPause(to)
    /\ \E t \in TaskFor(op, to) :
          Goto(w, Busy("loaded", op, to, ticket, t))
    /\ UNCHANGED <<ticket, openPauses, card, pending>>

\* move_card on a board whose column is mapped to the status s: the card moves in
\* a transaction of its own, and only then is the ticket read.
DropCard(w, s) ==
    /\ worker[w].pc = "idle"
    /\ card # s
    /\ RoomToPause(s)
    /\ card' = s
    /\ \E t \in TaskFor("kanban", s) :
          Goto(w, Busy("dropped", "kanban", s, Blank, t))
    /\ UNCHANGED <<ticket, openPauses, pending>>

PickUpDropped(w) ==
    /\ worker[w].pc = "dropped"
    /\ Goto(w, IF ticket.status = worker[w].to
               THEN Idle
               ELSE [worker[w] EXCEPT !.pc = "loaded", !.snap = ticket])
    /\ UNCHANGED <<ticket, openPauses, card, pending>>

\* The pre_save receiver's read of the row; revoke() comes just before it. A
\* reply that finds no open SLAPause and no status to change is done.
PreSave(w) ==
    LET k == worker[w] IN
    /\ k.pc = "loaded"
    /\ k.op # "merge"
    /\ k.op = "reply" => openPauses = 0
    /\ IF k.to = NoStatus
       THEN Goto(w, Idle) /\ UNCHANGED pending
       ELSE Goto(w, [k EXCEPT !.pc = "saving", !.prev = ticket.status]) /\ Revoke(k)
    /\ UNCHANGED <<ticket, openPauses, card>>

\* UPDATE, receivers, COMMIT.
Save(w) ==
    LET k == worker[w] IN
    /\ k.pc = "saving"
    /\ WriteOver(ticket, openPauses, k.op, k.snap, k.prev, k.to)
    /\ Goto(w, AfterCommit(k))
    /\ UNCHANGED pending

\* A customer reply that finds an open SLAPause closes it and clears
\* sla_paused_at, which locks the row: the rest of its transaction is one step.
ResumeOnReply(w) ==
    LET k   == worker[w]
        row == [ticket EXCEPT !.paused = FALSE]
    IN
    /\ k.pc = "loaded" /\ k.op = "reply"
    /\ openPauses > 0
    /\ IF k.to = NoStatus
       THEN /\ ticket' = row
            /\ openPauses' = openPauses - 1
            /\ UNCHANGED <<card, pending>>
       ELSE /\ WriteOver(row, openPauses - 1, k.op, k.snap, ticket.status, k.to)
            /\ Revoke(k)
    /\ Goto(w, AfterCommit(k))

\* merge_tickets, this ticket being the secondary: select_for_update() keeps the
\* row still, but the instance written is the one the view loaded.
Merge(w) ==
    LET k == worker[w] IN
    /\ k.pc = "loaded" /\ k.op = "merge"
    /\ WriteOver(ticket, openPauses, "merge", k.snap, ticket.status, k.to)
    /\ Goto(w, Idle)
    /\ UNCHANGED pending

\* _schedule_auto_close: apply_async, then the id goes onto the row.
Publish(w) ==
    LET k == worker[w] IN
    /\ k.pc = "publish"
    /\ pending' = pending \cup {k.task}
    /\ Goto(w, [k EXCEPT !.pc = "record"])
    /\ UNCHANGED <<ticket, openPauses, card>>

RecordTask(w) ==
    LET k == worker[w] IN
    /\ k.pc = "record"
    /\ ticket' = [ticket EXCEPT !.task = k.task]
    /\ Goto(w, Idle)
    /\ UNCHANGED <<openPauses, card, pending>>

\* auto_close_ticket: both guards on one unlocked read.
BeginAutoClose(w, t) ==
    /\ worker[w].pc = "idle"
    /\ t \in pending
    /\ pending' = pending \ {t}
    /\ IF ticket.status = "resolved" /\ ticket.task = t
       THEN Goto(w, Busy("loaded", "autoclose", FirstClosed, ticket, t))
       ELSE UNCHANGED worker
    /\ UNCHANGED <<ticket, openPauses, card>>

\* Its last statement: the stored id is cleared whatever it is.
ClearTask(w) ==
    /\ worker[w].pc = "clear"
    /\ ticket' = [ticket EXCEPT !.task = NoTask]
    /\ Goto(w, Idle)
    /\ UNCHANGED <<openPauses, card, pending>>

\* The process dies: PostgreSQL rolls back what was not committed, the hooks
\* that had not run are lost. The broker refusing a task ends Publish the same
\* way (_schedule_auto_close swallows the error). acks_late: the broker may hand an
\* unfinished auto-close task out again.
Die(w) ==
    /\ Faulty
    /\ worker[w].pc # "idle"
    /\ Goto(w, Idle)
    /\ \/ UNCHANGED pending
       \/ worker[w].op = "autoclose" /\ pending' = pending \cup {worker[w].task}
    /\ UNCHANGED <<ticket, openPauses, card>>

-----------------------------------------------------------------------------
Init ==
    \E s \in CreateIn :
        /\ ticket = NewTicket(s)
        /\ openPauses = 0
        /\ card = s
        /\ pending = {}
        /\ worker = [w \in Worker |-> Idle]

Step(w) ==
    \/ PickUpDropped(w)
    \/ PreSave(w)
    \/ Save(w)
    \/ ResumeOnReply(w)
    \/ Merge(w)
    \/ Publish(w)
    \/ RecordTask(w)
    \/ ClearTask(w)

Next ==
    \E w \in Worker :
        \/ \E op \in Handlers \ {"kanban"}, to \in Status \cup {NoStatus} : Begin(w, op, to)
        \/ \E s \in Status : "kanban" \in Handlers /\ DropCard(w, s)
        \/ \E t \in TaskId : BeginAutoClose(w, t)
        \/ Step(w)
        \/ Die(w)

Spec == Init /\ [][Next]_vars

\* A started handler runs to its end, and Celery gives every due task to some
\* process, however busy the processes are.
Fairness ==
    /\ \A w \in Worker : WF_vars(Step(w))
    /\ \A t \in TaskId : SF_vars(\E w \in Worker : BeginAutoClose(w, t))

FairSpec == Spec /\ Fairness

-----------------------------------------------------------------------------
(* Properties.                                                             *)

\* Every variable has its type: the row, its pauses and tasks, the snapshots in hand.
TypeOK ==
    /\ ticket \in TicketRow
    /\ openPauses \in Nat
    /\ card \in Status
    /\ pending \subseteq TaskId
    /\ worker \in [Worker -> WorkerState]

Quiescent == \A w \in Worker : worker[w].pc = "idle"

\* A closed ticket carries its closure timestamps and a resolved one its
\* solved_at, whatever the handlers' snapshots were: the reports and the SLA
\* breach check read these columns, never the status history.
ClosedIsStamped == ticket.status \in Closed => ticket.stamped
ResolvedIsSolved == ticket.status = "resolved" => ticket.solved

\* With no two handlers overlapping, the closure timestamps are set exactly while
\* the ticket is closed, solved_at exactly while it is resolved: nothing stale is
\* left behind by a reopening (signals.handle_ticket_status_change).
TimestampsMatchStatus ==
    /\ ticket.stamped <=> ticket.status \in Closed
    /\ ticket.solved <=> ticket.status = "resolved"

\* At most one SLAPause is open, only while the ticket waits, and sla_paused_at
\* says so: the SLA clock runs again whichever way the wait ends.
PauseMatchesWait ==
    /\ openPauses = 1 <=> ticket.paused
    /\ openPauses > 0 => openPauses = 1 /\ ticket.status \in Pausing

\* The remembered status is only kept while the ticket waits, and going back to
\* it is a legal move that ends the wait (resume_from_wait).
PreWaitIsUsable ==
    ticket.preWait # NoStatus =>
        /\ ticket.status \in Pausing
        /\ ticket.preWait \notin Pausing

\* Between requests a ticket's kanban card lies in the column of its status,
\* whether the status moved the card or the card the status.
CardFollowsStatus == Quiescent => card = ticket.status

\* Between requests a resolved ticket has its auto-close waiting at the broker
\* under the very id the row stores, and no other ticket stores one.
ResolvedIsScheduled ==
    Quiescent => /\ ticket.status = "resolved" => ticket.task \in pending
                 /\ ticket.status # "resolved" => ticket.task = NoTask

\* A resolved ticket does not stay resolved forever: it is reopened or the
\* auto-close task closes it.
ResolvedIsLeft == ticket.status = "resolved" ~> ticket.status # "resolved"

\* With no two handlers overlapping, what goes through the transition service
\* keeps to the transition map (bulk changes, the board, merges and the pipeline
\* stages go past it): a closed ticket is not reopened by a reply, an assignment or
\* a late task.
ServiceMovesAreLegal ==
    [][\A w \in Worker :
          worker[w].op \in ServicePath /\ worker'[w] # worker[w] =>
              ticket.status' \in AllowedFrom(ticket.status) \cup {ticket.status}]_vars

\* "Ticket must still be in 'resolved' status (not reopened)" (auto_close_ticket):
\* what the task closes is a resolved ticket at the moment it closes it.
\* The code breaks this (README, section 6).
AutoCloseNeedsResolved ==
    [][\A w \in Worker :
          worker[w].op = "autoclose" /\ worker[w].pc = "saving"
              /\ worker'[w].pc = "clear" => ticket.status = "resolved"]_vars

-----------------------------------------------------------------------------
(* One handler at a time, the code implements StatusPromise.                *)

TransitionMap ==
    {move \in Status \X Status : move[2] \in AllowedFrom(move[1]) \ {move[1]}}

\* Who has read the ticket and is about to write it.
DecidedBy ==
    IF \E w \in Worker : worker[w].pc \in {"loaded", "saving"}
    THEN IF \E w \in Worker : worker[w].op \in ServicePath THEN "byMap" ELSE "atWill"
    ELSE "nobody"

Promise ==
    INSTANCE StatusPromise WITH
        Map      <- TransitionMap,
        Nowhere  <- NoStatus,
        status   <- ticket.status,
        stamped  <- ticket.stamped,
        solved   <- ticket.solved,
        returnTo <- ticket.preWait,
        stopped  <- ticket.paused,
        decided  <- DecidedBy

\* To a reader of the ticket every handler, with all its receivers and the steps in
\* between, is one move: along the map if it consults the map, with the marks of the
\* new status, and with the wait's two columns as the wait calls for.
PromiseKept == Promise!Spec
=============================================================================
