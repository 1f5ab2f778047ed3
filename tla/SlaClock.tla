------------------------------ MODULE SlaClock ------------------------------
(***************************************************************************)
(* The SLA clock of one ticket (src/apps/tickets: services, signals, sla,  *)
(* tasks).                                                                 *)
(*                                                                         *)
(* The code keeps time twice.  The ticket row stores two deadlines, which  *)
(* are set at creation, pushed back when a pause ends or an agent          *)
(* escalates, and recomputed when an administrator edits the policy.  The  *)
(* periodic sweep ignores them: it computes the elapsed time from          *)
(* created_at less the SLAPause rows and compares it with the policy of    *)
(* the ticket's present priority.  The answer and closing paths compare    *)
(* with the stored deadlines.                                              *)
(*                                                                         *)
(* A request loads the ticket without a lock and works on that instance c: *)
(* it may be the row as it is now, or one of those loaded earlier (held).  *)
(* Its writes are one step, computed from c.  The sweep is a Celery task   *)
(* of many steps.  Beat starts it every two minutes whether or not the     *)
(* last one has ended, so that several workers may be at it; it loads      *)
(* tickets in chunks, so that its copy may be older than the row; it can   *)
(* be killed between any two of its commits and is delivered again         *)
(* (acks_late).  Requests come between the tickets of a sweep; with        *)
(* Overlap they, and the clock, also come between the steps of one ticket. *)
(***************************************************************************)
EXTENDS Integers, Sequences, SequencesExt, FiniteSets

CONSTANTS
    Ladder,        \* the priorities, lowest first (priority_order)
    SweepOrder,    \* the priorities in the order the policies are visited
    Targets,       \* the [resp, res] minutes a policy may promise
    Promise,       \* per priority, what it promises to begin with
    Born,          \* the priorities with which tickets are created
    BusinessOnly,  \* per priority, the policy's business_hours_only
    OpenMinutes,   \* the business minutes of the tenant
    Rule,          \* the escalation rules, in order
    Sweeper,       \* the workers that run the sweep
    Overlap,       \* whether requests interleave with the sweep's ticket
    MaxTime,       \* bound on the clock
    Horizon,       \* bound on the deadlines searched for
    MaxEvents,     \* bound on the events below (Room)
    MaxHeld,       \* bound on the requests that have loaded and not yet saved
    MaxNested      \* bound on the pauses one overflowing save leaves behind

Priority == ToSet(Ladder)
NoTime   == -1
MinExtension == 1       \* 15 business minutes, the unit of the clock

ASSUME SlaAssumption ==
    /\ Ladder \in Seq(Priority)
    /\ ToSet(SweepOrder) = Priority
    /\ BusinessOnly \in [Priority -> BOOLEAN]
    /\ OpenMinutes \subseteq Nat
    /\ Targets \subseteq [resp : Nat, res : Nat]
    /\ Promise \in [Priority -> Targets]
    /\ Rule \in Seq(
         [policy : Priority, trigger : {"response", "resolution"}, after : Nat,
          action : {"notify", "assign", "change_priority"}])
    /\ Overlap \in BOOLEAN
    /\ Born \subseteq Priority
    /\ Sweeper \subseteq Nat /\ IsFiniteSet(Sweeper)
    /\ {MaxTime, Horizon, MaxEvents, MaxHeld, MaxNested} \subseteq Nat

VARIABLES
    now,      \* the wall clock
    policy,   \* per priority, the minutes its active SLAPolicy promises
    ticket,   \* the ticket row
    pauses,   \* its SLAPause rows, oldest first
    queued,   \* the policies whose propagation is left to a Celery task
    held,     \* the instances that requests on their way have loaded
    sweep,    \* per worker, its run of the check_sla_breaches task
    fired,    \* per rule, how often its action has been executed
    logged,   \* the rules whose execution is in the timeline (TicketActivity)
    announced,\* per kind of breach, how often it has been announced
    tally     \* ghost: the bounded events so far

vars == <<now, policy, ticket, pauses, queued, held, sweep, fired, logged,
          announced, tally>>

Kind == {"response", "resolution"}

\* Waiting stands for every status with pauses_sla, closed for every one with
\* is_closed, and active for the others, "resolved" among them.
Status == {"active", "waiting", "closed"}

Row ==
    [prio : Priority, policy : Priority, respDue : Int, resDue : Int,
     responded : Int, closed : Int,
     status : Status, flags : SUBSET Kind]

-----------------------------------------------------------------------------
(* Business time.                                                          *)

\* Per time, the business minutes before it.
Worked ==
    [t \in 0 .. Horizon |-> Cardinality({m \in OpenMinutes : m < t})]

\* The code searches for a deadline in 8 760 rounds, the model up to Horizon, and
\* both find it: each event moves one by at most `most` open minutes.
ASSUME HorizonAssumption ==
    /\ MaxTime <= Horizon
    /\ \E most \in 0 .. Horizon :
          /\ Worked[MaxTime] < most
          /\ \A target \in Targets : target.resp <= most /\ target.res <= most
          /\ most * (MaxEvents + 2) <= Worked[Horizon]

\* elapsed_business_minutes: the open minutes in [from, to).
Business(from, to) == IF from < to THEN Worked[to] - Worked[from] ELSE 0

\* add_business_minutes: the instant at which that many have been counted.
AddBusiness(from, minutes) ==
    IF minutes = 0 THEN from
    ELSE CHOOSE t \in (from + 1) .. Horizon :
            /\ Business(from, t) = minutes
            /\ Business(from, t - 1) < minutes

\* What the policy of priority p counts: business minutes or wall clock.
Elapsed(p, from, to) ==
    IF BusinessOnly[p] THEN Business(from, to) ELSE to - from

\* The minutes in [from, to) that it counts.
Counted(p, from, to) == {m \in from .. to - 1 : BusinessOnly[p] => m \in OpenMinutes}

\* Variant: an open pause is not subtracted.
ClosedPausesOnly(p, at) ==
    Cardinality(UNION {{i} \X Counted(p, pauses[i].from, pauses[i].to) : i \in DOMAIN pauses})

\* get_total_pause_minutes, the sum over the rows: the pairs of a row and a
\* minute that it takes off; an open pause is counted up to the given time.
PauseMinutes(p, at) ==
    LET end(q) == IF q.to = NoTime THEN at ELSE q.to
    IN  Cardinality(UNION {{i} \X Counted(p, pauses[i].from, end(pauses[i])) :
                           i \in DOMAIN pauses})

\* get_effective_elapsed_minutes: the ticket was created at time 0.
EffectiveElapsed(p, at) ==
    LET net == Elapsed(p, 0, at) - PauseMinutes(p, at)
    IN  IF net < 0 THEN 0 ELSE net

-----------------------------------------------------------------------------
(* What saving a ticket does to the clock: c is the instance that is       *)
(* saved, ps the pauses; the row may have changed since c was loaded.      *)

Shift(due, minutes) ==
    IF due = NoTime THEN NoTime ELSE AddBusiness(due, minutes)

OpenPauses(ps) == {i \in DOMAIN ps : ps[i].to = NoTime}
LastOpen(ps)   == CHOOSE i \in OpenPauses(ps) : \A j \in OpenPauses(ps) : j <= i

\* _resume_sla_pause: _shift_sla_deadlines by the last open pause, if any.
Resumed(c, ps) ==
    IF OpenPauses(ps) = {} THEN c
    ELSE LET length == Business(ps[LastOpen(ps)].from, now)
         IN  [c EXCEPT !.respDue = Shift(c.respDue, length),
                       !.resDue  = Shift(c.resDue, length)]

\* The row t when the instance c has been resumed: the deadlines of c are saved,
\* unless no business time has passed in the pause.
ResumedRow(t, c, ps) ==
    IF OpenPauses(ps) # {} /\ Business(ps[LastOpen(ps)].from, now) > 0
    THEN [t EXCEPT !.respDue = Resumed(c, ps).respDue,
                   !.resDue  = Resumed(c, ps).resDue]
    ELSE t

EndPause(ps) ==
    IF OpenPauses(ps) = {} THEN ps ELSE [ps EXCEPT ![LastOpen(ps)].to = now]

BeginPause(ps) == Append(ps, [from |-> now, to |-> NoTime])

\* handle_sla_pause_on_status_change, when the row goes from one status to another.
PausesAfter(ps, from, to) ==
    CASE to = "waiting" /\ from # "waiting" -> BeginPause(ps)
      [] to # "waiting" /\ from = "waiting" -> EndPause(ps)
      [] OTHER -> ps

\* Variant: a ticket closed late is not flagged.
ClosedUnchecked(c) == [c EXCEPT !.closed = IF @ = NoTime THEN now ELSE @]

\* _check_resolution_breach, which pre_save repeats: before the pause ends.
Closed(c) ==
    LET end == IF c.closed = NoTime THEN now ELSE c.closed
    IN  [c EXCEPT !.closed = end,
                  !.flags  = IF c.resDue # NoTime /\ end > c.resDue
                             THEN @ \cup {"resolution"} ELSE @]

\* The instance as it enters a status, stamped or with its stamps cleared.
Entered(c, to) ==
    [(IF to = "closed" THEN Closed(c) ELSE [c EXCEPT !.closed = NoTime])
        EXCEPT !.status = to]

-----------------------------------------------------------------------------
\* A row that stands for no copy, and the task between two of its runs.
NoCopy ==
    [prio |-> Head(Ladder), policy |-> Head(Ladder), respDue |-> NoTime,
     resDue |-> NoTime, responded |-> NoTime, closed |-> NoTime,
     status |-> "active", flags |-> {}]

NoSweep ==
    [pc |-> "idle", at |-> 0,
     policy |-> [p \in Priority |-> [resp |-> 0, res |-> 0]], todo |-> <<>>,
     prio |-> Head(Ladder), copy |-> NoCopy, breaches |-> {}, rules |-> {}]

\* initialize_sla, for a ticket created at time 0 with priority p.
NewTicket(p) ==
    [NoCopy EXCEPT !.prio = p, !.policy = p,
                   !.respDue = AddBusiness(0, policy[p].resp),
                   !.resDue  = AddBusiness(0, policy[p].res)]

Init ==
    /\ now = 0
    /\ policy = Promise
    /\ ticket \in {NewTicket(p) : p \in Born}
    /\ pauses = <<>>
    /\ queued = {}
    /\ held = {}
    /\ sweep = [i \in Sweeper |-> NoSweep]
    /\ fired = [r \in DOMAIN Rule |-> 0]
    /\ logged = {}
    /\ announced = [k \in Kind |-> 0]
    /\ tally = [edits |-> 0, crashes |-> 0, overlaps |-> 0, cleared |-> 0, touched |-> FALSE,
                inPause |-> {}]

\* Requests come between the tickets of a sweep, or between any two of its steps.
Served == Overlap \/ \A i \in Sweeper : sweep[i].pc \in {"idle", "scan"}

\* The bound on pauses, on edits (and instances loaded early), on lost workers and on
\* sweeps that begin before another has ended.
Room == Len(pauses) + tally.edits + tally.crashes + tally.overlaps < MaxEvents

\* A sweep is short against a tick, which is the 15 minutes of an extension.
Tick ==
    /\ Overlap \/ \A i \in Sweeper : sweep[i].pc = "idle"
    /\ now < MaxTime
    /\ now' = now + 1
    /\ UNCHANGED <<policy, ticket, pauses, queued, held, sweep, fired, logged,
                   announced, tally>>

-----------------------------------------------------------------------------
(* Requests, each with the instance c that it has loaded.                  *)

\* Everything the handlers below leave alone.
Aside == <<now, sweep, fired, logged, announced>>

\* The instance of a request that begins now, or of one that has begun before.
Instance(c) == c \in held \cup {ticket}

\* get_object: a request loads the ticket and is overtaken by others.
Load ==
    /\ Served
    /\ Room
    /\ Cardinality(held) < MaxHeld
    /\ held' = held \cup {ticket}
    /\ tally' = [tally EXCEPT !.edits = @ + 1]
    /\ UNCHANGED <<policy, ticket, pauses, queued, Aside>>

\* Every save of a request that has loaded c.  A held c equal to the row is
\* as good as one loaded now, and stays.
Save(c) ==
    /\ Served
    /\ Instance(c)
    /\ held' = held \ ({c} \ {ticket})
    /\ UNCHANGED <<policy, queued, Aside>>

\* Ghost: the ticket is answered or closed while its clock stands still.
EndsInPause(kind) ==
    IF tally.touched \/ OpenPauses(pauses) = {} THEN tally
    ELSE [tally EXCEPT !.inPause = @ \cup {kind}]

\* Ghost: a change after which the two clocks are not expected to agree, such as the
\* saving of an instance over a row that has changed since.
Touched == [tally EXCEPT !.touched = TRUE, !.inPause = {}]

\* An edit, of an instance loaded early it has been counted then.
MayEdit(c) == c = ticket => Room
Edited(c)  == [Touched EXCEPT !.edits = IF c = ticket THEN @ + 1 ELSE @]

(***************************************************************************)
(* ticket.save(update_fields=...) of the copy c, which makes the row t.    *)
(* The status is not among the columns, but pre_save compares the one of   *)
(* the copy with the one of the row, and post_save acts on the difference: *)
(* it ends the pause of a ticket that has begun to wait, with the          *)
(* deadlines of the copy; for one that has stopped waiting it begins a     *)
(* pause, saves the copy again, and so on until the stack is exhausted:    *)
(* a request is rolled back then, and a sweep leaves the pauses behind.    *)
(***************************************************************************)
Overflows(c) == c.status = "waiting" /\ ticket.status # "waiting"
Resumes(c)   == c.status # "waiting" /\ ticket.status = "waiting"

SaveCopy(c, t) ==
    CASE Overflows(c) ->
           /\ ticket' = t
           /\ pauses' = pauses \o [i \in 1 .. MaxNested |->
                                     [from |-> now, to |-> NoTime]]
      [] Resumes(c) ->
           /\ ticket' = ResumedRow(t, c, pauses)
           /\ pauses' = EndPause(pauses)
      [] OTHER ->
           /\ ticket' = t
           /\ UNCHANGED pauses

\* transition_ticket_status and every other way to set a status; the columns that
\* change_ticket_status names are written.  Active stands for several statuses.
ChangeStatus(c, to) ==
    LET d == Entered(c, to)
        t == [ticket EXCEPT
                !.status = to,
                !.closed = IF (c.status = "closed") = (to = "closed") THEN @
                           ELSE d.closed,
                !.flags  = IF to = "closed" THEN @ \cup (d.flags \cap {"resolution"})
                           ELSE @]
    IN  /\ Save(c)
        /\ to # c.status \/ (to = "active" /\ c # ticket)
        /\ to = "waiting" => Room
        /\ ticket' = IF ticket.status = "waiting" /\ to # "waiting"
                     THEN ResumedRow(t, d, pauses) ELSE t
        /\ pauses' = PausesAfter(pauses, ticket.status, to)
        /\ tally' = CASE c # ticket               -> Touched
                      [] c = ticket /\ to = "closed" -> EndsInPause("resolution")
                      [] OTHER                    -> tally

\* An inbound customer reply resumes the clock, then takes the ticket out of
\* its wait; that transition finds no open pause any more.
CustomerReply(c) ==
    LET t == ResumedRow(ticket, c, pauses)
    IN  /\ Save(c)
        /\ "waiting" \in {c.status, ticket.status}
        /\ ticket' = IF c.status = "waiting" THEN [t EXCEPT !.status = "active"]
                     ELSE t
        /\ pauses' = EndPause(pauses)
        /\ tally' = IF c = ticket THEN tally ELSE Touched

\* record_first_response and _check_first_response_breach.
Respond(c) ==
    /\ Save(c)
    /\ c.responded = NoTime /\ ticket.responded = NoTime
    /\ ticket' =
         [ticket EXCEPT
            !.responded = now,
            !.flags = IF /\ "response" \notin c.flags
                         /\ c.respDue # NoTime /\ now > c.respDue
                      THEN @ \cup {"response"} ELSE @]
    /\ tally' = IF c = ticket THEN EndsInPause("response") ELSE Touched
    /\ UNCHANGED pauses

Clamp(low, x, high) ==
    LET capped == IF x < high THEN x ELSE high
    IN  IF capped < low THEN low ELSE capped

\* Variant: an escalation starts the clock again.
ExtendedFromNow(due, minutes) == AddBusiness(now, minutes)

\* _extend_deadline; half a remaining minute is rounded down.
Extended(due, minutes) ==
    CASE due = NoTime -> AddBusiness(now, minutes)
      [] due # NoTime /\ due <= now -> AddBusiness(now, MinExtension)
      [] OTHER ->
           AddBusiness(due, Clamp(MinExtension, (due - now) \div 2, minutes))

\* escalate_ticket: saves its counters, then the deadlines it computes from the
\* instance.
Escalate(c) ==
    LET d      == IF Resumes(c) THEN Resumed(c, pauses) ELSE c
        target == policy[c.prio]
    IN  /\ Save(c)
        /\ MayEdit(c)
        /\ ~Overflows(c)
        /\ ticket' = [ticket EXCEPT
                        !.policy  = IF c.policy = c.prio THEN @ ELSE c.prio,
                        !.respDue = Extended(d.respDue, target.resp),
                        !.resDue  = Extended(d.resDue, target.res)]
        /\ pauses' = IF Resumes(c) THEN EndPause(pauses) ELSE pauses
        /\ tally' = Edited(c)

\* change_ticket_priority: neither the policy nor the deadlines follow.
ChangePriority(c, p) ==
    /\ Save(c)
    /\ MayEdit(c)
    /\ p # c.prio
    /\ ~Overflows(c)
    /\ SaveCopy(c, [ticket EXCEPT !.prio = p])
    /\ tally' = Edited(c)

\* perform_update of a PATCH saves every column as it was when the request loaded
\* the ticket; the new status or priority of the PATCH are requests of their own.
Patch(c) ==
    LET d == IF c.status = ticket.status THEN c ELSE Entered(c, c.status)
    IN  /\ Save(c)
        /\ c # ticket
        /\ c.status = "waiting" => ticket.status = "waiting" \/ Room
        /\ ticket' = IF Resumes(c) THEN Resumed(d, pauses) ELSE d
        /\ pauses' = PausesAfter(pauses, ticket.status, c.status)
        /\ tally' = [Touched EXCEPT
                       !.cleared = IF ticket.flags \subseteq d.flags THEN @ ELSE @ + 1]

Request(c) ==
    \/ \E s \in Status : ChangeStatus(c, s)
    \/ CustomerReply(c) \/ Respond(c) \/ Escalate(c) \/ Patch(c)
    \/ \E p \in Priority : ChangePriority(c, p)

\* _apply_policy_to_tickets: from created_at, whatever has happened since.
Recomputed(target) ==
    [ticket EXCEPT !.respDue = AddBusiness(0, target.resp),
                   !.resDue  = AddBusiness(0, target.res)]

\* propagate_sla_policy_change: at once, or by a task if many are affected.
EditPolicy(p, target) ==
    /\ Served
    /\ Room
    /\ target # policy[p]
    /\ policy' = [policy EXCEPT ![p] = target]
    /\ IF ticket.policy = p /\ ticket.status # "closed"
       THEN \/ ticket' = Recomputed(target) /\ UNCHANGED queued
            \/ queued' = queued \cup {p} /\ UNCHANGED ticket
       ELSE UNCHANGED <<ticket, queued>>
    /\ tally' = Edited(ticket)
    /\ UNCHANGED <<pauses, held, Aside>>

\* propagate_sla_policy_change_task, with the policy as it is by then.
Propagate(p) ==
    /\ Served
    /\ p \in queued
    /\ queued' = queued \ {p}
    /\ ticket' = Recomputed(policy[p])
    /\ UNCHANGED <<policy, pauses, held, tally, Aside>>

-----------------------------------------------------------------------------
(* check_sla_breaches, by the worker i.                                    *)

Becomes(i, s) == sweep' = [sweep EXCEPT ![i] = s]

\* The sweep s with no ticket in hand, or its end after the last policy.
Rest(s) ==
    IF s.todo = <<>> THEN NoSweep
    ELSE [NoSweep EXCEPT !.pc = "scan", !.at = s.at, !.policy = s.policy, !.todo = s.todo]

Running == {i \in Sweeper : sweep[i].pc # "idle"}

\* _check_tenant_sla: the policies are read once, the time is the start.  Nothing
\* keeps a sweep from beginning while another one is on its way (idle workers are
\* alike: the first of them takes it).
StartSweep(i) ==
    /\ sweep[i].pc = "idle"
    /\ \A j \in Sweeper \ {i} : sweep[j].pc = "idle" => i < j
    /\ Running # {} => Room
    /\ Becomes(i, [NoSweep EXCEPT !.pc = "scan", !.at = now, !.policy = policy,
                                  !.todo = SweepOrder])
    /\ tally' = [tally EXCEPT !.overlaps = IF Running = {} THEN @ ELSE @ + 1]
    /\ UNCHANGED <<now, policy, ticket, pauses, queued, held, fired, logged,
                   announced>>

\* The tickets of the next policy's priority are loaded as they are now.
Visit(i) ==
    /\ sweep[i].pc = "scan"
    /\ Becomes(i,
         IF ticket.status # "closed" /\ ticket.prio = Head(sweep[i].todo)
         THEN [sweep[i] EXCEPT !.pc = "check", !.todo = Tail(@),
                               !.prio = ticket.prio, !.copy = ticket]
         ELSE Rest([sweep[i] EXCEPT !.todo = Tail(@)]))
    /\ UNCHANGED <<now, policy, ticket, pauses, queued, held, fired, logged,
                   announced, tally>>

Minutes(target, kind) == IF kind = "response" THEN target.resp ELSE target.res

\* The copy has not been answered, or not been closed.
Pending(c, kind) ==
    IF kind = "response" THEN c.responded = NoTime ELSE c.closed = NoTime

\* Variant: what is flagged already is found again.
BreachedAgain(s) ==
    {k \in Kind : /\ Pending(s.copy, k)
                  /\ EffectiveElapsed(s.prio, s.at) > Minutes(s.policy[s.prio], k)}

\* Variant: a ticket that waits for the customer is not checked.
BreachedUnlessWaiting(s) ==
    {k \in Kind \ s.copy.flags :
        /\ s.copy.status # "waiting"
        /\ Pending(s.copy, k)
        /\ EffectiveElapsed(s.prio, s.at) > Minutes(s.policy[s.prio], k)}

\* The flags that are due: past the promise at the start of the sweep s.
Breached(s) ==
    {k \in Kind \ s.copy.flags :
        /\ Pending(s.copy, k)
        /\ EffectiveElapsed(s.prio, s.at) > Minutes(s.policy[s.prio], k)}

\* The copy after the flags of late have been set, ready to announce them.
Flagging(s, late) ==
    [s EXCEPT !.pc = "announce", !.copy.flags = @ \cup late, !.breaches = late]

\* _check_ticket_sla: the flags are saved before anything is announced.
Check(i) ==
    LET c    == sweep[i].copy
        late == Breached(sweep[i])
    IN  /\ sweep[i].pc = "check"
        /\ IF late = {} THEN UNCHANGED <<ticket, pauses>>
           ELSE SaveCopy(c, [ticket EXCEPT !.flags = @ \cup late])
        /\ Becomes(i, IF late # {} /\ Overflows(c) THEN NoSweep
                      ELSE Flagging(sweep[i], late))
        /\ UNCHANGED <<now, policy, queued, held, fired, logged, announced, tally>>

\* _fire_breach: the notifications, the timeline row and the webhook, the response
\* breach first.
Announce(i) ==
    /\ sweep[i].pc = "announce"
    /\ \E k \in sweep[i].breaches :
          /\ k = "response" \/ "response" \notin sweep[i].breaches
          /\ announced' = [announced EXCEPT ![k] = @ + 1]
          /\ Becomes(i, [sweep[i] EXCEPT !.breaches = @ \ {k}])
    /\ UNCHANGED <<now, policy, ticket, pauses, queued, held, fired, logged, tally>>

\* The rule's trigger: past the promise by its threshold, and not yet fired.
Due(r, s) ==
    LET rule == Rule[r]
    IN  /\ rule.policy = s.prio
        /\ r \notin logged
        /\ Pending(s.copy, rule.trigger)
        /\ EffectiveElapsed(s.prio, s.at)
             >= Minutes(s.policy[s.prio], rule.trigger) + rule.after

\* _check_escalation_rules reads the timeline and the pauses once.
SelectRules(i) ==
    /\ sweep[i].pc = "announce"
    /\ sweep[i].breaches = {}
    /\ Becomes(i, [sweep[i] EXCEPT !.pc = "rules",
                                   !.rules = {r \in DOMAIN Rule : Due(r, sweep[i])}])
    /\ UNCHANGED <<now, policy, ticket, pauses, queued, held, fired, logged,
                   announced, tally>>

\* The next rung of the ladder, or the same priority on the last one.
Raised(p) ==
    LET i == CHOOSE j \in DOMAIN Ladder : Ladder[j] = p
    IN  IF i < Len(Ladder) THEN Ladder[i + 1] ELSE p

\* r comes first, in the order of the rules, of those left to the sweep s.
Turn(r, s) == r \in s.rules /\ \A q \in s.rules : r <= q

\* _execute_rule up to its save: the action, on the sweep's copy.
ExecuteRule(i, r) ==
    LET c      == sweep[i].copy
        raised == Raised(c.prio)
        saves  == \/ Rule[r].action = "assign"
                  \/ Rule[r].action = "change_priority" /\ raised # c.prio
        d      == IF Rule[r].action = "change_priority"
                  THEN [c EXCEPT !.prio = raised] ELSE c
    IN  /\ sweep[i].pc = "rules"
        /\ Turn(r, sweep[i])
        /\ IF saves
           THEN SaveCopy(d, [ticket EXCEPT
                   !.prio = IF Rule[r].action = "change_priority"
                            THEN raised ELSE @])
           ELSE UNCHANGED <<ticket, pauses>>
        /\ Becomes(i, IF saves /\ Overflows(d) THEN NoSweep
                      ELSE [sweep[i] EXCEPT !.pc = "log", !.copy = d])
        /\ fired' = [fired EXCEPT ![r] = @ + 1]
        /\ tally' = IF d.prio = c.prio THEN tally ELSE Touched
        /\ UNCHANGED <<now, policy, queued, held, logged, announced>>

\* The timeline row by which later sweeps know that the rule has fired.
LogRule(i, r) ==
    /\ sweep[i].pc = "log"
    /\ Turn(r, sweep[i])
    /\ logged' = logged \cup {r}
    /\ Becomes(i, [sweep[i] EXCEPT !.pc = "rules", !.rules = @ \ {r}])
    /\ UNCHANGED <<now, policy, ticket, pauses, queued, held, fired, announced,
                   tally>>

EndRules(i) ==
    /\ sweep[i].pc = "rules"
    /\ sweep[i].rules = {}
    /\ Becomes(i, Rest(sweep[i]))
    /\ UNCHANGED <<now, policy, ticket, pauses, queued, held, fired, logged,
                   announced, tally>>

\* The worker is lost; the broker hands the task to another one.
Crash(i) ==
    /\ sweep[i].pc # "idle"
    /\ Room
    /\ Becomes(i, NoSweep)
    /\ tally' = [tally EXCEPT !.crashes = @ + 1]
    /\ UNCHANGED <<now, policy, ticket, pauses, queued, held, fired, logged,
                   announced>>

Sweep(i) ==
    \/ StartSweep(i) \/ Visit(i)
    \/ Check(i) \/ Announce(i) \/ SelectRules(i)
    \/ \E r \in DOMAIN Rule : ExecuteRule(i, r) \/ LogRule(i, r)
    \/ EndRules(i)

Next ==
    \/ Tick
    \/ Load
    \/ \E c \in held \cup {ticket} : Request(c)
    \/ \E p \in Priority :
         \/ Propagate(p)
         \/ \E target \in Targets : EditPolicy(p, target)
    \/ \E i \in Sweeper : Sweep(i) \/ Crash(i)

\* Celery beat starts the sweep every two minutes, and the workers run it.
Fairness == \A i \in Sweeper : WF_vars(Sweep(i))

Spec == Init /\ [][Next]_vars /\ Fairness

-----------------------------------------------------------------------------
(* Properties.                                                             *)

\* The shape of the state: the pauses do not overlap, only the last is open.
TypeOK ==
    /\ now \in 0 .. MaxTime
    /\ policy \in [Priority -> Targets]
    /\ ticket \in Row
    /\ pauses \in Seq([from : 0 .. MaxTime, to : 0 .. MaxTime \cup {NoTime}])
    /\ \A i, j \in DOMAIN pauses :
         i < j => pauses[i].to # NoTime /\ pauses[i].to <= pauses[j].from
    /\ queued \subseteq Priority
    /\ held \subseteq Row /\ Cardinality(held) <= MaxHeld
    /\ \A i \in Sweeper :
         sweep[i].pc \in {"idle", "scan", "check", "announce", "rules", "log"}
    /\ fired \in [DOMAIN Rule -> Nat]
    /\ logged \subseteq DOMAIN Rule
    /\ announced \in [Kind -> Nat]

\* The stored deadline, as the end of the present pause would leave it.
DueAfterPause(due) ==
    IF OpenPauses(pauses) = {} THEN due
    ELSE Shift(due, Business(pauses[LastOpen(pauses)].from, now))

\* The two ways the code keeps time agree: as long as nobody escalates, edits
\* the policy or changes the priority, the elapsed time of the sweep exceeds
\* the promise exactly if business time has passed since the stored deadline,
\* through any number of pauses (_shift_sla_deadlines against
\* get_effective_elapsed_minutes).
TestsAgree ==
    (~tally.touched /\ BusinessOnly[ticket.prio]) =>
        \A due \in {<<"response", ticket.respDue>>, <<"resolution", ticket.resDue>>} :
            (EffectiveElapsed(ticket.prio, now)
                > Minutes(policy[ticket.prio], due[1]))
            <=> Business(DueAfterPause(due[2]), now) > 0

\* The minutes that had run by the time t, less the pauses until then.
RanUntil(t) ==
    LET end(q) == IF q.to = NoTime \/ q.to > t THEN t ELSE q.to
    IN  Elapsed(ticket.prio, 0, t)
        - Cardinality(UNION {{i} \X Counted(ticket.prio, pauses[i].from, end(pauses[i])) :
                             i \in DOMAIN pauses})

\* A breach flag tells the truth about when the ticket was answered and
\* closed, whichever of the sweep, the answer and the closing set it first: late
\* is always flagged and in time never is, unless it was answered or closed in
\* a pause, which those paths do not take off the deadline.
FlagsMatchClock ==
    (~tally.touched /\ BusinessOnly[ticket.prio]) =>
        \A end \in {<<"response", ticket.responded>>, <<"resolution", ticket.closed>>} :
            end[2] # NoTime =>
                LET ran     == RanUntil(end[2])
                    promise == Minutes(policy[ticket.prio], end[1])
                IN  /\ ran > promise => end[1] \in ticket.flags
                    /\ end[1] \in ticket.flags => ran >= promise \/ end[1] \in tally.inPause

\* A breach is announced once however often the sweep is killed and delivered
\* again, since its flag is committed first; only sweeps that were on their way
\* together may announce it once each, and a PATCH that takes the flag off has it
\* found again.  A rule is executed once, and once more at most for every worker lost
\* between its action and its log row and for every sweep begun before another ended.
NoticesAreNotRepeated ==
    /\ \A k \in Kind :
         announced[k] <= (1 + tally.overlaps) * (1 + tally.cleared)
    /\ \A r \in DOMAIN Rule : fired[r] <= 1 + tally.crashes + tally.overlaps

\* Its deadlines are not those of the row any more.
Outdated(c) == c.respDue # ticket.respDue \/ c.resDue # ticket.resDue

\* A deadline moves towards the present only when the policy is edited, or when a
\* request saves an instance that it loaded before the deadlines last moved: no
\* escalation, pause, answer, change of priority or sweep does (the promise of
\* _extend_sla_on_escalation, "extend SLA deadlines instead of resetting them").
DeadlineNeverEarlier ==
    [][\/ ticket'.respDue >= ticket.respDue /\ ticket'.resDue >= ticket.resDue
       \/ policy' # policy
       \/ queued' # queued
       \/ \E c \in held \ held' : Outdated(c)]_vars

\* An open ticket beyond the promise of its priority.
Late(kind) ==
    /\ ticket.status # "closed"
    /\ Pending(ticket, kind)
    /\ EffectiveElapsed(ticket.prio, now) > Minutes(policy[ticket.prio], kind)

\* A ticket that stays late is flagged in the end, though sweeps are killed
\* and its priority and policy change while one is on its way.
LateIsFlagged ==
    Late("resolution") ~> ("resolution" \in ticket.flags \/ ~Late("resolution"))

\* The title of tests/test_sla_pause.py: "No duplicate pauses". The code breaks this (README, section 6).
NoDuplicatePauses == Cardinality(OpenPauses(pauses)) <= 1

=============================================================================
