------------------------------- MODULE InboxHub -------------------------------
(***************************************************************************)
(* The Inbox Hub (src/apps/inbox_hub): mail parked for triage, its life    *)
(* cycle, the engine that hands it to agents with room for it, and the     *)
(* requests by which people convert, dismiss, move or escalate it.         *)
(*                                                                         *)
(* convert, dismiss, reassign and assign_to re-read the row under its lock *)
(* and are one step each. transition and escalate decide on the row as it  *)
(* was when the request (or the SLA sweep) loaded it. Selecting an agent,  *)
(* listing the backlog and assigning are steps of their own. Deadlines and *)
(* first responses, which decide only what the sweep looks at, are left    *)
(* out: it may look at any open conversation.                              *)
(***************************************************************************)
EXTENDS Integers, FiniteSets

CONSTANTS
    Email,     \* conversations (HubEmail rows with their InboundEmail)
    Agent,     \* members of the tenant
    Process,   \* web workers, sockets and Celery processes
    Nobody,    \* no assignee
    Pool,      \* Pool[e]: the members of the department that e is routed to
    MaxLoad,   \* conversations an agent takes (max_concurrent_tickets)
    Targets,   \* states asked for through the transition endpoint
    MaxTickets \* bound on the tickets that exist of one conversation

State == {"new", "assigned", "in_progress", "pending_agent", "awaiting_customer",
          "escalated", "resolved", "converted", "dismissed"}
Closed == {"converted", "dismissed"}

ASSUME HubAssumption ==
    /\ IsFiniteSet(Email)
    /\ Nobody \notin Agent
    /\ Pool \in [Email -> SUBSET Agent]
    /\ MaxLoad \in Nat
    /\ Targets \subseteq State
    /\ MaxTickets \in Nat

VARIABLES
    email,    \* the committed rows
    load,     \* what the Hub has added to every agent's current_ticket_count
    present,  \* agents ONLINE with a fresh heartbeat, within their hours
    job,      \* what each process is doing
    tickets,  \* tickets that exist of each conversation
    reopened  \* closed conversations that got another state (history variable)

vars == <<email, load, present, job, tickets, reopened>>

\* routed: the hook has set the department. ticket: converted_ticket is set.
Stored == State \cup {"none"}
Row == [state : Stored, assignee : Agent \cup {Nobody}, ticket : BOOLEAN, routed : BOOLEAN]
Unparked == [state |-> "none", assignee |-> Nobody, ticket |-> FALSE, routed |-> FALSE]

\* to: the state a request may give the row. agent: whom an assignment is for.
Job == [op : {"idle", "overwrite", "route", "select", "drain", "assign"},
        emails : SUBSET Email, to : Stored, agent : Agent \cup {Nobody}]
Do(op, emails, to, a) == [op |-> op, emails |-> emails, to |-> to, agent |-> a]
Idle == Do("idle", {}, "none", Nobody)

Start(p, j) == job[p] = Idle /\ job' = [job EXCEPT ![p] = j]
Goto(p, j) == job' = [job EXCEPT ![p] = j]
Done(p) == Goto(p, Idle)

Working == {"in_progress", "pending_agent", "awaiting_customer"}
Ends == {"dismissed", "converted"}
AllowedFrom ==
    [s \in Stored |->
        CASE s = "new" -> {"assigned", "escalated"} \cup Ends
          [] s = "assigned" -> {"new", "escalated", "resolved"} \cup Working \cup Ends
          [] s \in Working -> (Working \ {s}) \cup {"escalated", "resolved"} \cup Ends
          [] s = "escalated" -> {"assigned", "in_progress", "resolved"} \cup Ends
          [] s = "resolved" -> {"in_progress"} \cup Ends
          [] OTHER -> {}]

Parked(e) == email[e].state # "none"
Held(e) == email[e].state = "new" /\ email[e].assignee = Nobody
Assignable(a) == a \in present /\ load[a] < MaxLoad

-----------------------------------------------------------------------------
\* The inbound pipeline parks the message and commits; its on_commit hooks run in
\* the same process.
Park(p, e) ==
    /\ ~Parked(e)
    /\ email' = [email EXCEPT ![e].state = "new"]
    /\ Start(p, Do("route", {e}, "none", Nobody))
    /\ UNCHANGED <<load, present, tickets, reopened>>

\* The first hook sets the department.
Route(p) ==
    /\ job[p].op = "route"
    /\ \E e \in job[p].emails : email' = [email EXCEPT ![e].routed = TRUE]
    /\ Goto(p, [job[p] EXCEPT !.op = "select"])
    /\ UNCHANGED <<load, present, tickets, reopened>>

\* Whoever of the candidates the strategy chain ranks first; if there is none the
\* mail is held.
Select(p) ==
    /\ job[p].op = "select"
    /\ LET candidates == {a \in UNION {Pool[e] : e \in job[p].emails} : Assignable(a)}
       IN \/ candidates = {} /\ Done(p)
          \/ \E a \in candidates : Goto(p, Do("assign", job[p].emails, "none", a))
    /\ UNCHANGED <<email, load, present, tickets, reopened>>

\* An agent's live socket connects: presence first, then the backlog.
Connect(p, a) ==
    /\ present' = present \cup {a}
    /\ Start(p, Do("drain", {}, "none", a))
    /\ UNCHANGED <<email, load, tickets, reopened>>

\* The heartbeat ages out, or the agent goes away by choice.
Leave(a) ==
    /\ present' = present \ {a}
    /\ UNCHANGED <<email, load, job, tickets, reopened>>

\* Mail that is not routed yet counts as mail without a department, open to all.
Backlog(a) == {e \in Email : Held(e) /\ (email[e].routed => a \in Pool[e])}

\* The list of held mail, cut to the room the agent has left.
Drain(p) ==
    /\ job[p].op = "drain"
    /\ LET a == job[p].agent
           room == MaxLoad - load[a]
       IN \/ ~Assignable(a) /\ Done(p)
          \/ /\ Assignable(a)
             /\ \E list \in SUBSET Backlog(a) :
                   /\ Cardinality(list) <= room
                   /\ Cardinality(list) < room => list = Backlog(a)
                   /\ Goto(p, IF list = {} THEN Idle ELSE Do("assign", list, "none", a))
    /\ UNCHANGED <<email, load, present, tickets, reopened>>

\* The rest of the list, or the end of it.
Assigned(p, e) ==
    Goto(p, IF job[p].emails = {e} THEN Idle ELSE [job[p] EXCEPT !.emails = @ \ {e}])

GivenTo(r, a, s) == [r EXCEPT !.assignee = a, !.state = s]

HandTo(e, a) ==
    /\ email' = [email EXCEPT ![e] = GivenTo(@, a, "assigned")]
    /\ load' = [load EXCEPT ![a] = @ + 1]

\* Variant: the locked row is not looked at again.
AssignUnread(p) ==
    /\ job[p].op = "assign"
    /\ \E e \in job[p].emails :
          /\ Assigned(p, e)
          /\ IF Assignable(job[p].agent) THEN HandTo(e, job[p].agent) ELSE UNCHANGED <<email, load>>
    /\ UNCHANGED <<present, tickets, reopened>>

\* Variant: the agent's row is not locked and looked at again.
AssignUncounted(p) ==
    /\ job[p].op = "assign"
    /\ \E e \in job[p].emails :
          /\ Assigned(p, e)
          /\ IF Held(e) THEN HandTo(e, job[p].agent) ELSE UNCHANGED <<email, load>>
    /\ UNCHANGED <<present, tickets, reopened>>

\* assign_to: the mail's row and the agent's, locked and read again.
Assign(p) ==
    /\ job[p].op = "assign"
    /\ \E e \in job[p].emails :
          /\ Assigned(p, e)
          /\ IF Held(e) /\ Assignable(job[p].agent)
             THEN HandTo(e, job[p].agent)
             ELSE UNCHANGED <<email, load>>
    /\ UNCHANGED <<present, tickets, reopened>>

-----------------------------------------------------------------------------
Less(n) == IF n > 0 THEN n - 1 ELSE 0

\* The load after e goes from its assignee to a.
Moved(e, a) ==
    [b \in Agent |-> IF email[e].assignee = a THEN load[b]
                     ELSE IF b = a THEN load[b] + 1
                     ELSE IF b = email[e].assignee THEN Less(load[b])
                     ELSE load[b]]

Take(e, a) ==
    /\ Parked(e) /\ email[e].state \notin Closed
    /\ LET s == email[e].state
       IN email' = [email EXCEPT ![e] = GivenTo(@, a, IF s = "new" THEN "assigned" ELSE s)]
    /\ UNCHANGED <<present, job, tickets, reopened>>

\* Variant: a claim of one's own mail counts again.
ReassignCounted(e, a) ==
    /\ Take(e, a)
    /\ load' = [b \in Agent |-> IF b = a THEN load[b] + 1
                                ELSE IF b = email[e].assignee THEN Less(load[b]) ELSE load[b]]

\* reassign_hub_email: assign, reassign and claim, whatever the agent's load.
Reassign(e, a) ==
    /\ Take(e, a)
    /\ load' = Moved(e, a)

Converted(r) == [r EXCEPT !.state = "converted", !.ticket = TRUE]

MakeTicket(e) ==
    /\ tickets[e] < MaxTickets
    /\ email' = [email EXCEPT ![e] = Converted(@)]
    /\ tickets' = [tickets EXCEPT ![e] = @ + 1]
    /\ UNCHANGED <<load, present, job, reopened>>

\* Variant: the state is not read again under the lock.
ConvertUnread(e) ==
    /\ Parked(e) /\ email[e].state # "dismissed"
    /\ MakeTicket(e)

\* A converted row whose ticket was deleted may be converted again.
Convert(e) ==
    /\ \/ "converted" \in AllowedFrom[email[e].state]
       \/ email[e].state = "converted" /\ ~email[e].ticket
    /\ MakeTicket(e)

\* Variant: no look at the state map.
DismissAny(e) ==
    /\ Parked(e)
    /\ email' = [email EXCEPT ![e].state = "dismissed"]
    /\ UNCHANGED <<load, present, job, tickets, reopened>>

Dismiss(e) ==
    /\ "dismissed" \in AllowedFrom[email[e].state]
    /\ email' = [email EXCEPT ![e].state = "dismissed"]
    /\ UNCHANGED <<load, present, job, tickets, reopened>>

\* The ticket of a conversion is deleted: SET_NULL.
DeleteTicket(e) ==
    /\ email[e].ticket
    /\ email' = [email EXCEPT ![e].ticket = FALSE]
    /\ tickets' = [tickets EXCEPT ![e] = @ - 1]
    /\ UNCHANGED <<load, present, job, reopened>>

-----------------------------------------------------------------------------
\* A request asks for state s (every state may be asked for), or to escalate, and
\* the state map is consulted for the row as it was loaded. The SLA sweep
\* escalates what it loaded in the same way.
Load(p, e, s) ==
    /\ s \in AllowedFrom[email[e].state]
    /\ s \in Targets \cup {"escalated"}
    /\ Start(p, Do("overwrite", {e}, s, Nobody))
    /\ UNCHANGED <<email, load, present, tickets, reopened>>

\* transition_hub_email, escalate_hub_email: the UPDATE of the state waits for the
\* row but does not look at it.
Overwrite(p) ==
    /\ job[p].op = "overwrite"
    /\ \E e \in job[p].emails :
          /\ email' = [email EXCEPT ![e].state = job[p].to]
          /\ reopened' = IF email[e].state \in Closed THEN reopened \cup {e} ELSE reopened
    /\ Done(p)
    /\ UNCHANGED <<load, present, tickets>>

\* A process is lost between two of its steps.
Die(p) ==
    /\ job[p] # Idle
    /\ Done(p)
    /\ UNCHANGED <<email, load, present, tickets, reopened>>

-----------------------------------------------------------------------------
Init ==
    /\ email = [e \in Email |-> Unparked]
    /\ load = [a \in Agent |-> 0]
    /\ present = {}
    /\ job = [p \in Process |-> Idle]
    /\ tickets = [e \in Email |-> 0]
    /\ reopened = {}

Engine(p) ==
    \/ Route(p) \/ Select(p) \/ Drain(p) \/ Assign(p)

Next ==
    \/ \E p \in Process :
          \/ \E e \in Email : Park(p, e)
          \/ \E a \in Agent : Connect(p, a)
          \/ \E e \in Email, s \in State : Load(p, e, s)
          \/ Engine(p) \/ Overwrite(p) \/ Die(p)
    \/ \E e \in Email :
          \/ Convert(e) \/ Dismiss(e) \/ DeleteTicket(e)
          \/ \E a \in Agent : Reassign(e, a)
    \/ \E a \in Agent : Leave(a)

Spec == Init /\ [][Next]_vars

-----------------------------------------------------------------------------
\* Every variable has its type: rows, counters and the jobs of the processes.
TypeOK ==
    /\ email \in [Email -> Row]
    /\ load \in [Agent -> Nat]
    /\ present \subseteq Agent
    /\ job \in [Process -> Job]
    /\ tickets \in [Email -> Nat]
    /\ reopened \subseteq Email

\* Whoever converts, dismisses or takes a conversation at the same time: unless an
\* unlocked write has reopened it, it has one ticket if it is converted (and its
\* ticket was not deleted), and none otherwise.
EndsOnce ==
    \A e \in Email \ reopened :
        /\ email[e].ticket => email[e].state = "converted"
        /\ tickets[e] = IF email[e].ticket THEN 1 ELSE 0

\* Every conversation counts once, for the agent in whose name it is: assignments,
\* claims of one's own mail and crossing reassignments lose none and count none
\* twice. (Nothing is counted off when it ends.)
MailOf(a) == {e \in Email : email[e].assignee = a}
LoadIsMail == \A a \in Agent : load[a] = Cardinality(MailOf(a))

\* Two selections may have counted on the same free place: the engine still takes
\* no agent over the limit. Only people do.
EngineKeepsCapacity ==
    [][\A p \in Process : Assign(p) =>
          \A a \in Agent : load'[a] # load[a] => load'[a] <= MaxLoad]_vars

\* The hooks of a parked message, the drains of agents who connect and people who
\* claim it race for it: the engine takes nothing from anyone, nor out of a closed
\* conversation.
NothingIsTakenAway ==
    [][\A p \in Process, e \in Email :
          Assign(p) /\ email'[e] # email[e] => email[e].assignee = Nobody /\ email[e].state = "new"]_vars

\* "the workspace can never reach an inconsistent lifecycle (e.g. re-opening a
\* converted email, or assigning a dismissed one)". The code breaks this (README, section 6).
ClosedStaysClosed ==
    [][\A e \in Email : email[e].state \in Closed => email'[e].state = email[e].state]_vars
=============================================================================
