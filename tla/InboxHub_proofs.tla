---------------------------- MODULE InboxHub_proofs ----------------------------
(***************************************************************************)
(* For every number of conversations, agents and processes, and whatever   *)
(* states people ask for: types, at most one ticket of a conversation that *)
(* no unlocked write has reopened, exact load counters, and what a step of *)
(* the engine may do to loads and to mail that somebody has.               *)
(***************************************************************************)
EXTENDS InboxHub, FiniteSetTheorems, TLAPS

\* A ticket pointer comes with a ticket, for reopened conversations too.
HasTicket == \A e \in Email : email[e].ticket => tickets[e] > 0

TypeInv == TypeOK /\ HasTicket

\* The state map leads to states, and from open conversations only.
LEMMA MapIsSound ==
    ASSUME NEW s \in Stored, NEW t \in AllowedFrom[s]
    PROVE  t \in State /\ s \notin Closed /\ s # "none"
<1>1. CASE s \in {"none", "converted", "dismissed"}
  BY <1>1 DEF AllowedFrom, Stored, State, Working, Ends, Closed
<1>2. CASE s \in {"new", "assigned"}
  BY <1>2 DEF AllowedFrom, Stored, State, Working, Ends, Closed
<1>3. CASE s \in Working
  BY <1>3 DEF AllowedFrom, Stored, State, Working, Ends, Closed
<1>4. CASE s \in {"escalated", "resolved"}
  BY <1>4 DEF AllowedFrom, Stored, State, Working, Ends, Closed
<1> QED BY <1>1, <1>2, <1>3, <1>4 DEF Stored, State, Working

\* What a process does is a job, and so is what is left of it.
LEMMA DoIsJob ==
    ASSUME NEW op \in {"idle", "overwrite", "route", "select", "drain", "assign"},
           NEW emails \in SUBSET Email, NEW s \in Stored, NEW a \in Agent \cup {Nobody}
    PROVE  Do(op, emails, s, a) \in Job
BY DEF Do, Job

LEMMA IdleIsJob == Idle \in Job
BY DoIsJob DEF Idle, Stored

LEMMA JobParts ==
    ASSUME NEW j \in Job
    PROVE  /\ j.emails \in SUBSET Email /\ j.to \in Stored /\ j.agent \in Agent \cup {Nobody}
           /\ [j EXCEPT !.op = "select"] \in Job
           /\ \A e \in Email : [j EXCEPT !.emails = @ \ {e}] \in Job
BY DEF Job

\* A row stays a row when columns are written, and keeps the others.
LEMMA RowParts ==
    ASSUME NEW r \in Row
    PROVE  /\ r.state \in Stored /\ r.assignee \in Agent \cup {Nobody}
           /\ r.ticket \in BOOLEAN /\ r.routed \in BOOLEAN
BY DEF Row

LEMMA RoutedRow ==
    ASSUME NEW r \in Row
    PROVE  /\ [r EXCEPT !.routed = TRUE] \in Row
           /\ [r EXCEPT !.routed = TRUE].ticket = r.ticket
           /\ [r EXCEPT !.routed = TRUE].state = r.state
           /\ [r EXCEPT !.routed = TRUE].assignee = r.assignee
BY DEF Row

LEMMA StateRow ==
    ASSUME NEW r \in Row, NEW s \in Stored
    PROVE  /\ [r EXCEPT !.state = s] \in Row
           /\ [r EXCEPT !.state = s].ticket = r.ticket
           /\ [r EXCEPT !.state = s].state = s
           /\ [r EXCEPT !.state = s].assignee = r.assignee
BY DEF Row

LEMMA TakenRow ==
    ASSUME NEW r \in Row, NEW s \in Stored, NEW a \in Agent
    PROVE  /\ GivenTo(r, a, s) \in Row /\ GivenTo(r, a, s).ticket = r.ticket
           /\ GivenTo(r, a, s).state = s /\ GivenTo(r, a, s).assignee = a
BY DEF Row, GivenTo

LEMMA TicketRow ==
    ASSUME NEW r \in Row
    PROVE  /\ Converted(r) \in Row /\ Converted(r).ticket
           /\ Converted(r).state = "converted" /\ Converted(r).assignee = r.assignee
           /\ [r EXCEPT !.ticket = FALSE] \in Row
           /\ ~[r EXCEPT !.ticket = FALSE].ticket
           /\ [r EXCEPT !.ticket = FALSE].state = r.state
           /\ [r EXCEPT !.ticket = FALSE].assignee = r.assignee
BY DEF Row, Converted, Stored, State

LEMMA JobsStayTyped ==
    ASSUME NEW p \in Process, job \in [Process -> Job], NEW j \in Job, Goto(p, j)
    PROVE  job' \in [Process -> Job]
BY DEF Goto

\* Each handler keeps the types, the pending jobs of the other processes included.
LEMMA InitType == Init => TypeInv
<1> SUFFICES ASSUME Init PROVE TypeInv
  OBVIOUS
<1>1. job \in [Process -> Job]
  BY IdleIsJob DEF Init
<1> QED BY <1>1 DEF Init, TypeInv, TypeOK, HasTicket, Row, Stored, Unparked

\* What an action does to the row of e, in a form that hides the row's columns.
Writes(e, r) == email' = [email EXCEPT ![e] = r] /\ r \in Row /\ (r.ticket => email[e].ticket)

LEMMA NextType == TypeInv /\ [Next]_vars => TypeInv'
<1> SUFFICES ASSUME TypeInv, [Next]_vars PROVE TypeInv'
  OBVIOUS
<1> USE HubAssumption DEF TypeInv, TypeOK, HasTicket
<1> DEFINE JobsTyped == job' \in [Process -> Job]
<1>a. \A s \in State : s \in Stored
  BY DEF Stored
\* An action that writes one row, gives it no ticket and makes or deletes none.
<1>w. ASSUME NEW e \in Email, NEW r, Writes(e, r), UNCHANGED tickets
      PROVE  email' \in [Email -> Row] /\ HasTicket'
  BY <1>w DEF Writes
<1>1. ASSUME NEW p \in Process, NEW e \in Email, Park(p, e) PROVE TypeInv'
  <2>1. JobsTyped
    BY <1>1, DoIsJob, JobsStayTyped DEF Park, Start, Goto, Stored
  <2>2. Writes(e, [email[e] EXCEPT !.state = "new"])
    BY <1>1, StateRow DEF Park, Writes, Stored, State
  <2> QED BY <1>1, <1>w, <2>1, <2>2 DEF Park
<1>2. ASSUME NEW p \in Process, NEW a \in Agent, Connect(p, a) PROVE TypeInv'
  <2>1. JobsTyped
    BY <1>2, DoIsJob, JobsStayTyped DEF Connect, Start, Goto, Stored
  <2> QED BY <1>2, <2>1 DEF Connect
<1>3. ASSUME NEW p \in Process, NEW e \in Email, NEW s \in State, Load(p, e, s) PROVE TypeInv'
  <2>1. JobsTyped
    BY <1>3, <1>a, DoIsJob, JobsStayTyped DEF Load, Start, Goto
  <2> QED BY <1>3, <2>1 DEF Load
<1>4. ASSUME NEW p \in Process, Route(p) PROVE TypeInv'
  <2>1. JobsTyped
    BY <1>4, JobParts, JobsStayTyped DEF Route
  <2>2. PICK e \in job[p].emails : email' = [email EXCEPT ![e].routed = TRUE]
    BY <1>4 DEF Route
  <2>3. e \in Email
    BY JobParts
  <2>4. Writes(e, [email[e] EXCEPT !.routed = TRUE])
    BY <2>2, <2>3, RoutedRow DEF Writes
  <2> QED BY <1>4, <1>w, <2>1, <2>3, <2>4 DEF Route
<1>5. ASSUME NEW p \in Process, Select(p) PROVE TypeInv'
  <2>1. job[p].emails \in SUBSET Email
    BY JobParts
  <2>2. UNION {Pool[e] : e \in job[p].emails} \subseteq Agent
    <3>1. \A e \in job[p].emails : Pool[e] \subseteq Agent
      BY <2>1
    <3> QED BY <3>1
  <2>3. JobsTyped
    BY <1>5, <2>1, <2>2, DoIsJob, IdleIsJob, JobsStayTyped DEF Select, Done, Stored
  <2> QED BY <1>5, <2>3 DEF Select
<1>6. ASSUME NEW p \in Process, Drain(p) PROVE TypeInv'
  <2>1. PICK j \in Job : Goto(p, j)
    <3>1. CASE Done(p)
      BY <3>1, IdleIsJob DEF Done
    <3>2. ASSUME NEW list \in SUBSET Backlog(job[p].agent),
                 Goto(p, IF list = {} THEN Idle ELSE Do("assign", list, "none", job[p].agent))
          PROVE  \E j \in Job : Goto(p, j)
      <4>1. list \in SUBSET Email
        BY DEF Backlog
      <4>2. Do("assign", list, "none", job[p].agent) \in Job
        BY <4>1, DoIsJob, JobParts DEF Stored
      <4> QED BY <3>2, <4>2, IdleIsJob
    <3> QED BY <1>6, <3>1, <3>2 DEF Drain
  <2>2. JobsTyped
    BY <2>1, JobsStayTyped
  <2> QED BY <1>6, <2>2 DEF Drain
<1>7. ASSUME NEW p \in Process, Assign(p) PROVE TypeInv'
  <2>1. PICK e \in job[p].emails :
            /\ Assigned(p, e)
            /\ IF Held(e) /\ Assignable(job[p].agent)
               THEN HandTo(e, job[p].agent)
               ELSE UNCHANGED <<email, load>>
    BY <1>7 DEF Assign
  <2>2. e \in Email
    BY <2>1, JobParts
  <2>3. JobsTyped
    BY <2>1, <2>2, IdleIsJob, JobParts, JobsStayTyped DEF Assigned
  <2>4. CASE Held(e) /\ Assignable(job[p].agent)
    <3>1. HandTo(e, job[p].agent) /\ job[p].agent \in Agent
      BY <2>1, <2>4 DEF Assignable
    <3>2. Writes(e, GivenTo(email[e], job[p].agent, "assigned"))
      <4>1. "assigned" \in Stored
        BY DEF Stored, State
      <4> QED BY <2>2, <3>1, <4>1, TakenRow DEF Writes, HandTo
    <3>3. load' \in [Agent -> Nat]
      BY <3>1 DEF HandTo
    <3> QED BY <1>7, <1>w, <2>2, <2>3, <3>2, <3>3 DEF Assign
  <2>5. CASE ~(Held(e) /\ Assignable(job[p].agent))
    BY <1>7, <2>1, <2>3, <2>5 DEF Assign
  <2> QED BY <2>4, <2>5
<1>8. ASSUME NEW p \in Process, Overwrite(p) PROVE TypeInv'
  <2>1. JobsTyped
    BY <1>8, IdleIsJob, JobsStayTyped DEF Overwrite, Done
  <2>2. PICK e \in job[p].emails :
            /\ email' = [email EXCEPT ![e].state = job[p].to]
            /\ reopened' = IF email[e].state \in Closed THEN reopened \cup {e} ELSE reopened
    BY <1>8 DEF Overwrite
  <2>3. e \in Email /\ job[p].to \in Stored
    BY JobParts
  <2>4. Writes(e, [email[e] EXCEPT !.state = job[p].to])
    BY <2>2, <2>3, StateRow DEF Writes
  <2> QED BY <1>8, <1>w, <2>1, <2>2, <2>3, <2>4 DEF Overwrite
<1>9. ASSUME NEW p \in Process, Die(p) PROVE TypeInv'
  <2>1. JobsTyped
    BY <1>9, IdleIsJob, JobsStayTyped DEF Die, Done
  <2> QED BY <1>9, <2>1 DEF Die
<1>10. ASSUME NEW e \in Email, Convert(e) PROVE TypeInv'
  <2>1. email' = [email EXCEPT ![e] = Converted(email[e])]
    BY <1>10 DEF Convert, MakeTicket
  <2>2. tickets' = [tickets EXCEPT ![e] = @ + 1] /\ UNCHANGED <<load, present, job, reopened>>
    BY <1>10 DEF Convert, MakeTicket
  <2>3. email' \in [Email -> Row]
    BY <2>1, TicketRow DEF Stored, State
  <2>4. tickets' \in [Email -> Nat] /\ tickets'[e] > 0
    BY <2>2
  <2>5. \A f \in Email \ {e} : email'[f] = email[f] /\ tickets'[f] = tickets[f]
    BY <2>1, <2>2
  <2>6. HasTicket'
    BY <2>4, <2>5
  <2> QED BY <2>2, <2>3, <2>4, <2>6
<1>11. ASSUME NEW e \in Email, Dismiss(e) PROVE TypeInv'
  <2>1. Writes(e, [email[e] EXCEPT !.state = "dismissed"])
    BY <1>11, StateRow DEF Dismiss, Writes, Stored, State
  <2> QED BY <1>11, <1>w, <2>1 DEF Dismiss
<1>12. ASSUME NEW e \in Email, DeleteTicket(e) PROVE TypeInv'
  <2>1. email' = [email EXCEPT ![e].ticket = FALSE] /\ tickets[e] > 0
    BY <1>12 DEF DeleteTicket
  <2>2. tickets' = [tickets EXCEPT ![e] = @ - 1] /\ UNCHANGED <<load, present, job, reopened>>
    BY <1>12 DEF DeleteTicket
  <2>3. email' \in [Email -> Row] /\ ~email'[e].ticket
    BY <2>1, TicketRow DEF Stored
  <2>4. tickets' \in [Email -> Nat]
    BY <2>1, <2>2
  <2>5. \A f \in Email \ {e} : email'[f] = email[f] /\ tickets'[f] = tickets[f]
    BY <2>1, <2>2
  <2>6. HasTicket'
    BY <2>3, <2>5
  <2> QED BY <2>2, <2>3, <2>4, <2>6
<1>13. ASSUME NEW e \in Email, NEW a \in Agent, Reassign(e, a) PROVE TypeInv'
  <2>1. PICK s \in Stored :
            email' = [email EXCEPT ![e] = GivenTo(email[e], a, s)]
    BY <1>13, RowParts DEF Reassign, Take, Stored, State
  <2>2. Writes(e, GivenTo(email[e], a, s))
    BY <2>1, TakenRow DEF Writes
  <2>3. load' \in [Agent -> Nat]
    BY <1>13 DEF Reassign, Moved, Less
  <2>4. UNCHANGED <<present, job, tickets, reopened>>
    BY <1>13 DEF Reassign, Take
  <2> QED BY <1>w, <2>2, <2>3, <2>4
<1>14. ASSUME NEW a \in Agent, Leave(a) PROVE TypeInv'
  BY <1>14 DEF Leave
<1>15. ASSUME UNCHANGED vars PROVE TypeInv'
  BY <1>15 DEF vars
<1> QED
  BY <1>1, <1>2, <1>3, <1>4, <1>5, <1>6, <1>7, <1>8, <1>9, <1>10, <1>11, <1>12, <1>13,
     <1>14, <1>15 DEF Next, Engine

\* The columns only ever hold what the model declares: a stale state map lookup,
\* a list of backlog and a count taken down all stay within it.
THEOREM TypeCorrect == Spec => []TypeOK
<1>1. TypeInv => TypeOK
  BY DEF TypeInv
<1> QED BY <1>1, InitType, NextType, PTL DEF Spec

-----------------------------------------------------------------------------
EndsInv == TypeInv /\ EndsOnce

LEMMA InitEnds == Init => EndsInv
BY InitType DEF EndsInv, EndsOnce, Init, Unparked

\* A locked write finds the conversation open, hence without a ticket; an unlocked
\* one that finds it closed puts it among the reopened.
LEMMA NextEnds == EndsInv /\ [Next]_vars => EndsInv'
<1> SUFFICES ASSUME EndsInv, [Next]_vars PROVE EndsOnce'
  BY NextType DEF EndsInv
<1> USE DEF EndsInv, EndsOnce
<1>t. TypeOK
  BY DEF TypeInv
<1>r. \A e \in Email : email[e] \in Row
  BY <1>t DEF TypeOK
<1>s. {"new", "assigned", "converted", "dismissed"} \subseteq Stored
  BY DEF Stored, State
\* What suffices where no ticket is made or deleted.
<1>w. ASSUME NEW e \in Email, NEW r \in Row, r.ticket = email[e].ticket,
             email' = [email EXCEPT ![e] = r], UNCHANGED tickets, reopened \subseteq reopened',
             e \notin reopened' /\ r.ticket => r.state = "converted"
      PROVE  EndsOnce'
  BY <1>w, <1>t DEF TypeOK
<1>1. ASSUME NEW p \in Process, NEW e \in Email, Park(p, e) PROVE EndsOnce'
  <2>1. email[e].state = "none" /\ UNCHANGED <<tickets, reopened>>
    BY <1>1 DEF Park, Parked
  <2>2. email' = [email EXCEPT ![e] = [email[e] EXCEPT !.state = "new"]]
    BY <1>1 DEF Park
  <2> QED BY <1>w, <1>r, <1>s, <2>1, <2>2, StateRow
<1>4. ASSUME NEW p \in Process, Route(p) PROVE EndsOnce'
  <2>1. PICK e \in job[p].emails : email' = [email EXCEPT ![e].routed = TRUE]
    BY <1>4 DEF Route
  <2>2. e \in Email /\ UNCHANGED <<tickets, reopened>>
    BY <1>4, <1>t, JobParts DEF TypeOK, Route
  <2> QED BY <1>w, <1>r, <2>1, <2>2, RoutedRow
<1>7. ASSUME NEW p \in Process, Assign(p) PROVE EndsOnce'
  <2>1. PICK e \in job[p].emails :
            IF Held(e) /\ Assignable(job[p].agent)
            THEN HandTo(e, job[p].agent)
            ELSE UNCHANGED <<email, load>>
    BY <1>7 DEF Assign
  <2>2. e \in Email /\ UNCHANGED <<tickets, reopened>>
    BY <1>7, <1>t, JobParts DEF TypeOK, Assign
  <2>3. CASE Held(e) /\ Assignable(job[p].agent)
    <3>1. job[p].agent \in Agent /\ email[e].state = "new"
      BY <1>t, <2>3 DEF Assignable, Held, TypeOK
    <3>2. email' = [email EXCEPT ![e] = GivenTo(email[e], job[p].agent, "assigned")]
      BY <2>1, <2>3 DEF HandTo
    <3> QED BY <1>w, <1>r, <1>s, <2>2, <3>1, <3>2, TakenRow
  <2>4. CASE ~(Held(e) /\ Assignable(job[p].agent))
    BY <2>1, <2>2, <2>4
  <2> QED BY <2>3, <2>4
<1>8. ASSUME NEW p \in Process, Overwrite(p) PROVE EndsOnce'
  <2>1. PICK e \in job[p].emails :
            /\ email' = [email EXCEPT ![e].state = job[p].to]
            /\ reopened' = IF email[e].state \in Closed THEN reopened \cup {e} ELSE reopened
    BY <1>8 DEF Overwrite
  <2>2. e \in Email /\ job[p].to \in Stored /\ UNCHANGED tickets
    BY <1>8, <1>t, JobParts DEF TypeOK, Overwrite
  <2>3. e \notin reopened' => ~email[e].ticket
    BY <2>1, <2>2 DEF Closed
  <2> QED BY <1>w, <1>r, <2>1, <2>2, <2>3, StateRow
<1>10. ASSUME NEW e \in Email, Convert(e) PROVE EndsOnce'
  <2>1. e \notin reopened => ~email[e].ticket
    BY <1>10, <1>r, RowParts, MapIsSound DEF Convert, Closed
  <2>2. email' = [email EXCEPT ![e] = Converted(email[e])]
    BY <1>10 DEF Convert, MakeTicket
  <2>3. tickets' = [tickets EXCEPT ![e] = @ + 1] /\ UNCHANGED reopened
    BY <1>10 DEF Convert, MakeTicket
  <2>4. email'[e].ticket /\ email'[e].state = "converted"
    <3>1. email'[e] = Converted(email[e])
      BY <1>t, <2>2 DEF TypeOK
    <3>2. Converted(email[e]).ticket /\ Converted(email[e]).state = "converted"
      BY <1>r, TicketRow
    <3> QED BY <3>1, <3>2, Zenon
  <2>5. e \notin reopened => tickets'[e] = 1
    BY <1>t, <2>1, <2>3 DEF TypeOK
  <2>6. \A f \in Email \ {e} : email'[f] = email[f] /\ tickets'[f] = tickets[f]
    BY <1>t, <2>2, <2>3 DEF TypeOK
  <2> QED BY <2>3, <2>4, <2>5, <2>6
<1>11. ASSUME NEW e \in Email, Dismiss(e) PROVE EndsOnce'
  <2>1. email[e].state \notin Closed
    BY <1>11, <1>r, RowParts, MapIsSound DEF Dismiss
  <2>2. e \notin reopened => ~email[e].ticket
    BY <2>1 DEF Closed
  <2>3. email' = [email EXCEPT ![e] = [email[e] EXCEPT !.state = "dismissed"]]
    BY <1>11 DEF Dismiss
  <2>4. UNCHANGED <<tickets, reopened>>
    BY <1>11 DEF Dismiss
  <2> QED BY <1>w, <1>r, <1>s, <2>2, <2>3, <2>4, StateRow
<1>12. ASSUME NEW e \in Email, DeleteTicket(e) PROVE EndsOnce'
  <2>1. email' = [email EXCEPT ![e].ticket = FALSE] /\ email[e].ticket
    BY <1>12 DEF DeleteTicket
  <2>2. tickets' = [tickets EXCEPT ![e] = @ - 1] /\ UNCHANGED reopened
    BY <1>12 DEF DeleteTicket
  <2>3. ~email'[e].ticket
    BY <1>r, <1>s, <1>t, <2>1, TicketRow DEF TypeOK
  <2>4. e \notin reopened => tickets'[e] = 0
    BY <1>t, <2>1, <2>2 DEF TypeOK
  <2>5. \A f \in Email \ {e} : email'[f] = email[f] /\ tickets'[f] = tickets[f]
    BY <1>t, <2>1, <2>2 DEF TypeOK
  <2> QED BY <2>2, <2>3, <2>4, <2>5
<1>13. ASSUME NEW e \in Email, NEW a \in Agent, Reassign(e, a) PROVE EndsOnce'
  <2>1. PICK s \in Stored : email' = [email EXCEPT ![e] = GivenTo(email[e], a, s)]
    BY <1>13, <1>r, <1>s, RowParts DEF Reassign, Take
  <2>2. e \notin reopened => ~email[e].ticket
    BY <1>13 DEF Reassign, Take, Closed
  <2>3. UNCHANGED <<tickets, reopened>>
    BY <1>13 DEF Reassign, Take
  <2> QED BY <1>w, <1>r, <2>1, <2>2, <2>3, TakenRow
\* The others leave conversations and tickets alone.
<1>14. ASSUME UNCHANGED <<email, tickets, reopened>> PROVE EndsOnce'
  BY <1>14
<1> QED
  BY <1>1, <1>4, <1>7, <1>8, <1>10, <1>11, <1>12, <1>13, <1>14
     DEF Next, Engine, Connect, Load, Select, Drain, Die, Leave, vars

\* inbox_hub/services.py: conversions, dismissals, assignments and claims in any
\* order and number leave one ticket at most of a conversation, and none of a
\* dismissed one, as long as no unlocked write has reopened it.
THEOREM ConversationsEndOnce == Spec => []EndsOnce
<1>1. EndsInv => EndsOnce
  BY DEF EndsInv
<1> QED BY <1>1, InitEnds, NextEnds, PTL DEF Spec

-----------------------------------------------------------------------------
LoadInv == TypeInv /\ LoadIsMail

\* The mail in an agent's name is finite; one conversation more or less counts one.
LEMMA MailIsFinite ==
    ASSUME NEW a
    PROVE  IsFiniteSet(MailOf(a)) /\ IsFiniteSet(MailOf(a)')
BY HubAssumption, FS_Subset DEF MailOf

LEMMA InitLoad == Init => LoadInv
<1> SUFFICES ASSUME Init PROVE LoadIsMail
  BY InitType DEF LoadInv
<1>1. \A a \in Agent : MailOf(a) = {}
  BY HubAssumption DEF MailOf, Init, Unparked
<1> QED BY <1>1, FS_EmptySet DEF LoadIsMail, Init

LEMMA SameMail ==
    ASSUME LoadIsMail, UNCHANGED load,
           \A e \in Email : email'[e].assignee = email[e].assignee
    PROVE  LoadIsMail'
<1>1. \A a \in Agent : MailOf(a)' = MailOf(a)
  BY DEF MailOf
<1> QED BY <1>1 DEF LoadIsMail

\* Mail e goes to agent a from whoever had it, counted on one side and off the other.
LEMMA MovedMail ==
    ASSUME TypeOK, LoadIsMail, NEW e \in Email, NEW a \in Agent, NEW old, old # a,
           old = email[e].assignee, email'[e].assignee = a,
           \A f \in Email \ {e} : email'[f].assignee = email[f].assignee,
           load' \in [Agent -> Nat],
           load'[a] = load[a] + 1,
           old \in Agent => load'[old] = Less(load[old]),
           \A b \in Agent \ {a, old} : load'[b] = load[b]
    PROVE  LoadIsMail'
<1>1. load'[a] = Cardinality(MailOf(a)')
  <2>1. MailOf(a)' = MailOf(a) \cup {e} /\ e \notin MailOf(a)
    BY DEF MailOf
  <2> QED BY <2>1, MailIsFinite, FS_AddElement DEF LoadIsMail
<1>2. old \in Agent => load'[old] = Cardinality(MailOf(old)')
  <2> SUFFICES ASSUME old \in Agent PROVE load'[old] = Cardinality(MailOf(old)')
    OBVIOUS
  <2>1. MailOf(old)' = MailOf(old) \ {e} /\ e \in MailOf(old)
    BY DEF MailOf
  <2>2. Cardinality(MailOf(old)') = Cardinality(MailOf(old)) - 1
    BY <2>1, MailIsFinite, FS_RemoveElement
  <2>3. load[old] \in Nat /\ load[old] = Cardinality(MailOf(old))
    BY DEF TypeOK, LoadIsMail
  <2>4. Cardinality(MailOf(old)) # 0
    BY <2>1, MailIsFinite, FS_EmptySet
  <2> QED BY <2>2, <2>3, <2>4 DEF Less
<1>3. \A b \in Agent \ {a, old} : load'[b] = Cardinality(MailOf(b)')
  <2>1. \A b \in Agent \ {a, old} : MailOf(b)' = MailOf(b)
    BY DEF MailOf
  <2> QED BY <2>1 DEF LoadIsMail
<1> QED BY <1>1, <1>2, <1>3 DEF LoadIsMail

LEMMA NextLoad == LoadInv /\ [Next]_vars => LoadInv'
<1> SUFFICES ASSUME LoadInv, [Next]_vars PROVE LoadIsMail'
  BY NextType DEF LoadInv
<1>t. TypeOK /\ TypeOK' /\ LoadIsMail
  BY NextType DEF LoadInv, TypeInv
<1>r. \A e \in Email : email[e] \in Row
  BY <1>t DEF TypeOK
<1>s. {"new", "assigned", "converted", "dismissed"} \subseteq Stored
  BY DEF Stored, State
\* What suffices where no conversation changes hands.
<1>w. ASSUME NEW e \in Email, NEW r \in Row, r.assignee = email[e].assignee,
             email' = [email EXCEPT ![e] = r], UNCHANGED load
      PROVE  LoadIsMail'
  <2>1. \A f \in Email : email'[f].assignee = email[f].assignee
    BY <1>w, <1>t DEF TypeOK
  <2> QED BY <1>t, <1>w, <2>1, SameMail
<1>1. ASSUME NEW p \in Process, NEW e \in Email, Park(p, e) PROVE LoadIsMail'
  BY <1>1, <1>w, <1>r, <1>s, StateRow DEF Park
<1>4. ASSUME NEW p \in Process, Route(p) PROVE LoadIsMail'
  <2>1. PICK e \in job[p].emails : email' = [email EXCEPT ![e].routed = TRUE]
    BY <1>4 DEF Route
  <2>2. e \in Email /\ UNCHANGED load
    BY <1>4, <1>t, JobParts DEF TypeOK, Route
  <2> QED BY <1>w, <1>r, <2>1, <2>2, RoutedRow
<1>7. ASSUME NEW p \in Process, Assign(p) PROVE LoadIsMail'
  <2>1. PICK e \in job[p].emails :
            IF Held(e) /\ Assignable(job[p].agent)
            THEN HandTo(e, job[p].agent)
            ELSE UNCHANGED <<email, load>>
    BY <1>7 DEF Assign
  <2>2. e \in Email
    BY <1>t, JobParts DEF TypeOK
  <2>3. CASE Held(e) /\ Assignable(job[p].agent)
    <3> DEFINE a == job[p].agent
    <3>1. a \in Agent /\ email[e].assignee = Nobody /\ Nobody \notin Agent
      BY <1>t, <2>3, HubAssumption DEF Assignable, Held, TypeOK
    <3>2. email' = [email EXCEPT ![e] = GivenTo(email[e], a, "assigned")]
      BY <2>1, <2>3 DEF HandTo
    <3>3. load' = [load EXCEPT ![a] = @ + 1]
      BY <2>1, <2>3 DEF HandTo
    <3>4. email'[e].assignee = a
      BY <1>r, <1>s, <1>t, <2>2, <3>1, <3>2, TakenRow DEF TypeOK
    <3>5. \A f \in Email \ {e} : email'[f].assignee = email[f].assignee
      BY <1>t, <3>2 DEF TypeOK
    <3>6. load' \in [Agent -> Nat] /\ load'[a] = load[a] + 1
      BY <1>t, <3>1, <3>3 DEF TypeOK
    <3>7. \A b \in Agent \ {a, Nobody} : load'[b] = load[b]
      BY <1>t, <3>3 DEF TypeOK
    <3> HIDE DEF a
    <3> QED BY <1>t, <2>2, <3>1, <3>4, <3>5, <3>6, <3>7, MovedMail
  <2>4. CASE ~(Held(e) /\ Assignable(job[p].agent))
    BY <1>t, <2>1, <2>4, SameMail
  <2> QED BY <2>3, <2>4
<1>8. ASSUME NEW p \in Process, Overwrite(p) PROVE LoadIsMail'
  <2>1. PICK e \in job[p].emails : email' = [email EXCEPT ![e].state = job[p].to]
    BY <1>8 DEF Overwrite
  <2>2. e \in Email /\ job[p].to \in Stored /\ UNCHANGED load
    BY <1>8, <1>t, JobParts DEF TypeOK, Overwrite
  <2> QED BY <1>w, <1>r, <2>1, <2>2, StateRow
<1>10. ASSUME NEW e \in Email, Convert(e) PROVE LoadIsMail'
  BY <1>10, <1>w, <1>r, <1>s, TicketRow DEF Convert, MakeTicket
<1>11. ASSUME NEW e \in Email, Dismiss(e) PROVE LoadIsMail'
  BY <1>11, <1>w, <1>r, <1>s, StateRow DEF Dismiss
<1>12. ASSUME NEW e \in Email, DeleteTicket(e) PROVE LoadIsMail'
  BY <1>12, <1>w, <1>r, <1>s, TicketRow DEF DeleteTicket
<1>13. ASSUME NEW e \in Email, NEW a \in Agent, Reassign(e, a) PROVE LoadIsMail'
  <2>1. PICK s \in Stored : email' = [email EXCEPT ![e] = GivenTo(email[e], a, s)]
    BY <1>13, <1>r, <1>s, RowParts DEF Reassign, Take
  <2>2. load' = Moved(e, a)
    BY <1>13 DEF Reassign
  <2>3. email'[e].assignee = a
    BY <1>r, <1>t, <2>1, TakenRow DEF TypeOK
  <2>4. \A f \in Email \ {e} : email'[f].assignee = email[f].assignee
    BY <1>t, <2>1 DEF TypeOK
  <2>5. CASE email[e].assignee = a
    <3>1. UNCHANGED load
      BY <1>t, <2>2, <2>5 DEF Moved, TypeOK
    <3>2. \A f \in Email : email'[f].assignee = email[f].assignee
      BY <2>3, <2>4, <2>5
    <3> QED BY <1>t, <3>1, <3>2, SameMail
  <2>6. CASE email[e].assignee # a
    <3>1. load'[a] = load[a] + 1
      BY <2>2, <2>6 DEF Moved
    <3>2. email[e].assignee \in Agent => load'[email[e].assignee] = Less(load[email[e].assignee])
      BY <2>2, <2>6 DEF Moved
    <3>3. \A b \in Agent \ {a, email[e].assignee} : load'[b] = load[b]
      BY <2>2, <2>6 DEF Moved
    <3>4. load' \in [Agent -> Nat]
      BY <1>t DEF TypeOK
    <3> QED BY <1>t, <2>3, <2>4, <2>6, <3>1, <3>2, <3>3, <3>4, MovedMail
  <2> QED BY <2>5, <2>6
\* The others touch neither assignees nor counters.
<1>14. ASSUME UNCHANGED <<email, load>> PROVE LoadIsMail'
  BY <1>14, <1>t, SameMail
<1> QED
  BY <1>1, <1>4, <1>7, <1>8, <1>10, <1>11, <1>12, <1>13, <1>14
     DEF Next, Engine, Connect, Load, Select, Drain, Die, Leave, vars

\* inbox_hub/services.py, assignment.py: an agent's counter goes up and down with
\* the conversations in their name, whoever hands them out or takes them.
THEOREM LoadsAreExact == Spec => []LoadIsMail
<1>1. LoadInv => LoadIsMail
  BY DEF LoadInv
<1> QED BY <1>1, InitLoad, NextLoad, PTL DEF Spec
-----------------------------------------------------------------------------
(* What the engine may do to rows and counters: one locked look at both.   *)

\* assign_to writes one row of the list and the counter of the one agent, and only if
\* the row is still held and the agent still has room.
LEMMA AssignGives ==
    ASSUME TypeInv, NEW p \in Process, Assign(p)
    PROVE  \/ UNCHANGED <<email, load>>
           \/ \E e \in Email :
                 /\ Held(e) /\ Assignable(job[p].agent)
                 /\ HandTo(e, job[p].agent)
<1>1. job[p].emails \subseteq Email
  BY JobParts DEF TypeInv, TypeOK
<1>2. PICK e \in job[p].emails :
         IF Held(e) /\ Assignable(job[p].agent)
         THEN HandTo(e, job[p].agent)
         ELSE UNCHANGED <<email, load>>
  BY DEF Assign
<1>3. CASE Held(e) /\ Assignable(job[p].agent)
  BY <1>1, <1>2, <1>3
<1>4. CASE ~(Held(e) /\ Assignable(job[p].agent))
  BY <1>2, <1>4
<1> QED BY <1>3, <1>4

LEMMA AssignKeepsCapacity ==
    ASSUME TypeInv, NEW p \in Process, Assign(p), NEW a \in Agent, load'[a] # load[a]
    PROVE  load'[a] <= MaxLoad
<1>1. load \in [Agent -> Nat] /\ MaxLoad \in Nat
  BY HubAssumption DEF TypeInv, TypeOK
<1>2. PICK e \in Email : Assignable(job[p].agent) /\ HandTo(e, job[p].agent)
  BY AssignGives
<1>3. load' = [load EXCEPT ![job[p].agent] = @ + 1] /\ load[job[p].agent] < MaxLoad
  BY <1>2 DEF HandTo, Assignable
<1>4. a = job[p].agent
  BY <1>1, <1>3
<1> QED BY <1>1, <1>3, <1>4

LEMMA AssignTakesHeld ==
    ASSUME TypeInv, NEW p \in Process, NEW e \in Email, Assign(p), email'[e] # email[e]
    PROVE  email[e].assignee = Nobody /\ email[e].state = "new"
<1>1. email \in [Email -> Row]
  BY DEF TypeInv, TypeOK
<1>2. PICK d \in Email : Held(d) /\ HandTo(d, job[p].agent)
  BY AssignGives
<1>3. email' = [email EXCEPT ![d] = GivenTo(email[d], job[p].agent, "assigned")]
  BY <1>2 DEF HandTo
<1>4. e = d
  BY <1>1, <1>3
<1> QED BY <1>2, <1>4 DEF Held

\* inbox_hub/assignment.py (select_hub_agent, assign_to): selections and drains count
\* free places without a lock, however many of them at a time; the locked second look
\* keeps every agent the engine serves at the limit or below.
THEOREM EngineStaysWithinLimit == Spec => EngineKeepsCapacity
<1>1. TypeInv /\ [Next]_vars =>
         [\A p \in Process : Assign(p) =>
             \A a \in Agent : load'[a] # load[a] => load'[a] <= MaxLoad]_vars
  BY AssignKeepsCapacity
<1> QED BY <1>1, InitType, NextType, PTL DEF Spec, EngineKeepsCapacity

\* inbox_hub/assignment.py (assign_to): whatever list or hook the engine goes by, it
\* writes rows only that are new and nobody's when it holds their lock.
THEOREM EngineTakesNothing == Spec => NothingIsTakenAway
<1>1. TypeInv /\ [Next]_vars =>
         [\A p \in Process, e \in Email :
             Assign(p) /\ email'[e] # email[e]
                => email[e].assignee = Nobody /\ email[e].state = "new"]_vars
  BY AssignTakesHeld
<1> QED BY <1>1, InitType, NextType, PTL DEF Spec, NothingIsTakenAway
=============================================================================
