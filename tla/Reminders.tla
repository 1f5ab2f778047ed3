------------------------------ MODULE Reminders ------------------------------
(***************************************************************************)
(* CRM reminders (src/apps/crm): the requests that move, end, edit and     *)
(* delete them, and the task that announces each one when it comes due.    *)
(*                                                                         *)
(* The task fixes its time when it begins, lists the reminders that are    *)
(* due and not announced since, and for each of them first stamps          *)
(* due_notified_at with that time and then sends the alert. Single         *)
(* requests read the row and save it later: a PATCH all of it, the actions *)
(* the columns they set. Bulk actions are one UPDATE. Runs may overlap,    *)
(* workers and deliveries may fail. Times are ticks of a bounded clock.    *)
(***************************************************************************)
EXTENDS Integers

CONSTANTS
    Reminder,
    Worker,    \* processes that run fire_due_reminders
    Request,   \* web requests in progress at a time
    MaxTime,   \* bound on the clock
    MaxEdits   \* bound on the requests and bulk actions after it is created

ASSUME ReminderAssumption == MaxTime \in Nat /\ MaxEdits \in Nat

Time == 0 .. MaxTime
Null == -1

VARIABLES
    row,      \* the committed rows
    clock,
    run,      \* what every worker is doing
    request,  \* what every web request is doing
    edits,    \* requests and bulk actions so far
    told,     \* the due times announced of every reminder (history variable)
    last,     \* the time of the last alert, Null if none (history variable)
    repeated, \* reminders announced again for a due time (history variable)
    raced,    \* reminders stamped over a stamp not read or a row gone (history variable)
    failed    \* reminders claimed by a run that then failed (history variable)

history == <<told, last, repeated, raced, failed>>
reminderVars == <<row, clock, run, request, edits, history>>

\* due: scheduled_at. stamp: due_notified_at.
Row == [life : {"unborn", "kept", "deleted"}, due : Time, stamp : Time \cup {Null}, completed : BOOLEAN, cancelled : BOOLEAN]
NoRow == [life |-> "unborn", due |-> 0, stamp |-> Null, completed |-> FALSE, cancelled |-> FALSE]
Fresh(t) == [NoRow EXCEPT !.life = "kept", !.due = t]

Kept(x) == x.life = "kept"

\* read: the rows as they were listed. sending: the list's reminder that is claimed.
Run == [step : {"idle", "begun", "listed", "claimed"}, now : Time,
        list : SUBSET Reminder, sending : SUBSET Reminder, read : [Reminder -> Row]]
Resting == [step |-> "idle", now |-> 0, list |-> {}, sending |-> {},
            read |-> [r \in Reminder |-> NoRow]]

\* copy: the row a request has read. to: the time it moves the reminder to.
Op == {"none", "patch", "complete", "cancel", "reschedule"}
Asked == [op : Op, of : SUBSET Reminder, copy : Row, to : Time]
Quiet == [op |-> "none", of |-> {}, copy |-> NoRow, to |-> 0]

\* Every variable has its type: rows, runs of the task and requests in hand.
ReminderTypeOK ==
    /\ row \in [Reminder -> Row]
    /\ clock \in Time
    /\ run \in [Worker -> Run]
    /\ request \in [Request -> Asked]
    /\ edits \in 0 .. MaxEdits
    /\ told \in [Reminder -> SUBSET Time]
    /\ last \in [Reminder -> Time \cup {Null}]
    /\ repeated \subseteq Reminder
    /\ raced \subseteq Reminder
    /\ failed \subseteq Reminder

ReminderInit ==
    /\ row = [r \in Reminder |-> NoRow]
    /\ clock = 0
    /\ run = [w \in Worker |-> Resting]
    /\ request = [q \in Request |-> Quiet]
    /\ edits = 0
    /\ told = [r \in Reminder |-> {}]
    /\ last = [r \in Reminder |-> Null]
    /\ repeated = {}
    /\ raced = {}
    /\ failed = {}

Open(x) == Kept(x) /\ ~x.completed /\ ~x.cancelled

\* Variant: a reminder is announced once in its life.
ArmedOnce(x) == x.stamp = Null

\* Variant: a stamp of the due time itself does not count.
ArmedStill(x) == x.stamp <= x.due

\* The stamp is older than the due time: moving a reminder forward arms it again.
Armed(x) == x.stamp < x.due

-----------------------------------------------------------------------------
(* Requests *)

Edit == edits < MaxEdits /\ edits' = edits + 1

Create(r, t) ==
    /\ row[r].life = "unborn"
    /\ row' = [row EXCEPT ![r] = Fresh(t)]
    /\ UNCHANGED <<clock, run, request, edits, history>>

\* A request reads the row and passes the checks of its endpoint.
Read(q, r, op, t) ==
    /\ request[q] = Quiet
    /\ Kept(row[r])
    /\ op \in {"complete", "cancel"} => Open(row[r])
    /\ op = "reschedule" => ~row[r].completed
    /\ Edit
    /\ request' = [request EXCEPT ![q] = [op |-> op, of |-> {r}, copy |-> row[r], to |-> t]]
    /\ UNCHANGED <<row, clock, run, history>>

\* What is saved over the row: all of the copy, or the columns named.
Saved(x, j) ==
    CASE j.op = "patch" -> [j.copy EXCEPT !.due = j.to]
      [] j.op = "reschedule" -> [x EXCEPT !.due = j.to]
      [] j.op = "complete" -> [x EXCEPT !.completed = TRUE]
      [] j.op = "cancel" -> [x EXCEPT !.cancelled = TRUE]

\* A full save of a row that is gone inserts it again; a save of some columns fails.
Save(q) ==
    /\ request[q] # Quiet
    /\ \E r \in request[q].of :
          IF Kept(row[r]) \/ request[q].op = "patch"
          THEN /\ row' = [row EXCEPT ![r] = Saved(row[r], request[q])]
               /\ raced' = IF request[q].op = "patch"
                              /\ (~Kept(row[r]) \/ row[r].stamp # request[q].copy.stamp)
                           THEN raced \cup {r} ELSE raced
          ELSE UNCHANGED <<row, raced>>
    /\ request' = [request EXCEPT ![q] = Quiet]
    /\ UNCHANGED <<clock, run, edits, told, last, repeated, failed>>

Bulk(r, op, t) ==
    /\ Kept(row[r])
    /\ \/ op \in {"complete", "cancel"} /\ Open(row[r])
       \/ op = "reschedule" /\ ~row[r].completed
    /\ Edit
    /\ row' = [row EXCEPT ![r] = Saved(@, [op |-> op, to |-> t])]
    /\ UNCHANGED <<clock, run, request, history>>

Delete(r) ==
    /\ Kept(row[r])
    /\ Edit
    /\ row' = [row EXCEPT ![r] = [NoRow EXCEPT !.life = "deleted"]]
    /\ UNCHANGED <<clock, run, request, history>>

-----------------------------------------------------------------------------
(* The task *)

Begin(w) ==
    /\ run[w] = Resting
    /\ run' = [run EXCEPT ![w] = [Resting EXCEPT !.step = "begun", !.now = clock]]
    /\ UNCHANGED <<row, clock, request, edits, history>>

DueAt(x, now) == Open(x) /\ x.due <= now /\ Armed(x)

List(w) ==
    /\ run[w].step = "begun"
    /\ LET due == {r \in Reminder : DueAt(row[r], run[w].now)}
       IN run' = [run EXCEPT ![w] =
                     IF due = {} THEN Resting
                     ELSE [@ EXCEPT !.step = "listed", !.list = due,
                                    !.read = [r \in Reminder |-> IF r \in due THEN row[r] ELSE NoRow]]]
    /\ UNCHANGED <<row, clock, request, edits, history>>

\* Variant: the stamp is computed from the row instead of taken from the run.
WatermarkOfRow(x, now) == [x EXCEPT !.stamp = x.due]

Watermark(x, now) == [x EXCEPT !.stamp = now]

\* "Claim FIRST": the row is stamped, whatever it has become.
Claim(w, r) ==
    /\ run[w].step = "listed"
    /\ r \in run[w].list
    /\ row' = [row EXCEPT ![r] = IF Kept(@) THEN Watermark(@, run[w].now) ELSE @]
    /\ raced' = IF ~Kept(row[r]) \/ row[r].stamp # run[w].read[r].stamp THEN raced \cup {r} ELSE raced
    /\ run' = [run EXCEPT ![w].step = "claimed", ![w].list = @ \ {r}, ![w].sending = {r}]
    /\ UNCHANGED <<clock, request, edits, told, last, repeated, failed>>

\* The list goes on without the reminder that was sent or failed.
GoOn(w) ==
    run' = [run EXCEPT ![w] =
               IF @.list = {} THEN Resting ELSE [@ EXCEPT !.step = "listed", !.sending = {}]]

\* The notification is stored and pushed, for the due time that was listed.
Send(w) ==
    /\ run[w].step = "claimed"
    /\ \E r \in run[w].sending :
          LET due == run[w].read[r].due
          IN /\ told' = [told EXCEPT ![r] = @ \cup {due}]
             /\ last' = [last EXCEPT ![r] = clock]
             /\ repeated' = IF due \in told[r] THEN repeated \cup {r} ELSE repeated
    /\ GoOn(w)
    /\ UNCHANGED <<row, clock, request, edits, raced, failed>>

\* The alert of one reminder fails and is logged; the batch goes on.
Fail(w) ==
    /\ run[w].step = "claimed"
    /\ failed' = failed \cup run[w].sending
    /\ GoOn(w)
    /\ UNCHANGED <<row, clock, request, edits, told, last, repeated, raced>>

\* The worker dies; acks_late has the run delivered again, which begins anew.
LoseWorker(w) ==
    /\ run[w] # Resting
    /\ failed' = failed \cup run[w].sending
    /\ run' = [run EXCEPT ![w] = Resting]
    /\ UNCHANGED <<row, clock, request, edits, told, last, repeated, raced>>

Tick ==
    /\ clock < MaxTime
    /\ clock' = clock + 1
    /\ UNCHANGED <<row, run, request, edits, history>>

ReminderNext ==
    \/ \E r \in Reminder, t \in Time : Create(r, t)
    \/ \E q \in Request, r \in Reminder :
          \/ \E op \in {"patch", "reschedule"}, t \in Time : Read(q, r, op, t)
          \/ \E op \in {"complete", "cancel"} : Read(q, r, op, 0)
    \/ \E q \in Request : Save(q)
    \/ \E r \in Reminder :
          \/ \E t \in Time : Bulk(r, "reschedule", t)
          \/ \E op \in {"complete", "cancel"} : Bulk(r, op, 0)
    \/ \E r \in Reminder : Delete(r)
    \/ \E w \in Worker : Begin(w) \/ List(w) \/ Send(w) \/ Fail(w) \/ LoseWorker(w)
    \/ \E w \in Worker, r \in Reminder : Claim(w, r)
    \/ Tick

ReminderSpec == ReminderInit /\ [][ReminderNext]_reminderVars

\* The task is due every 30 seconds and runs to its end unless it is killed, and it
\* is not killed before the same claim every time.
ReminderFairness ==
    /\ WF_reminderVars(Tick)
    /\ \A w \in Worker :
          /\ WF_reminderVars(Begin(w))
          /\ SF_reminderVars(List(w))
          /\ \A r \in Reminder : SF_reminderVars(Claim(w, r))
          /\ WF_reminderVars(Send(w) \/ Fail(w))

ReminderFairSpec == ReminderSpec /\ ReminderFairness

-----------------------------------------------------------------------------
(* Properties *)

\* "a missed alert, never a duplicate loop" (tasks.py): a due time is announced
\* again only if the stamp of the first alert was overwritten by somebody who had
\* read the row before: an overlapping run, or a PATCH that saves its copy.
RepeatedOnlyByRaces == repeated \subseteq raced

\* due_notified_at tells the truth: a reminder the task passes over as announced has
\* had an alert at or after its due time, is about to, or lost it to a failure.
StampMeansAlert ==
    \A r \in Reminder : Kept(row[r]) /\ ~Armed(row[r]) =>
        \/ last[r] >= row[r].due
        \/ \E w \in Worker : r \in run[w].sending
        \/ r \in failed

\* "so the owner ... never misses it": a reminder that is due and open is claimed for
\* that time, unless it is moved, ended or deleted first.
DueAreClaimed ==
    \A r \in Reminder :
        (Open(row[r]) /\ row[r].due <= clock) ~>
            (~Open(row[r]) \/ row[r].due > clock \/ row[r].stamp >= row[r].due)
=============================================================================
