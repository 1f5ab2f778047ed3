------------------------ MODULE TicketLifecycle_proofs ------------------------
(***************************************************************************)
(* Theorems about TicketLifecycle, for every set of statuses, processes and *)
(* task ids: type correctness, the two facts about the row that hold       *)
(* however handlers overlap, what else holds of the row, its pauses, its   *)
(* card and its auto-close task when they do not, and then also the        *)
(* refinement of StatusPromise.                                            *)
(***************************************************************************)
EXTENDS TicketLifecycle, TLAPS

\* What a handler may still write, given the snapshot it works from. A slot in
\* WorkerState alone would allow a transition to its own starting status.
StepOK(k) ==
    /\ k.pc = "idle" => k.to = NoStatus
    /\ k.pc \in {"saving", "dropped"} => k.to \in Status
    /\ k.pc = "loaded" /\ k.op # "reply" => k.to \in Status
    /\ k.pc \in {"publish", "record"} => k.task \in TaskId
    /\ k.pc \in {"loaded", "saving", "dropped"} /\ IsService(k.op) /\ k.to = "resolved"
           => k.task \in TaskId
    /\ k.op = "autoclose" => k.task \in TaskId

TypeInv == TypeOK /\ \A w \in Worker : StepOK(worker[w])

LEMMA GotoTypes ==
    ASSUME TypeInv, NEW w \in Worker, NEW k \in WorkerState, StepOK(k), Goto(w, k)
    PROVE  /\ worker' \in [Worker -> WorkerState]
           /\ \A v \in Worker : StepOK(worker[v])'
<1>1. worker' \in [Worker -> WorkerState]
  BY DEF Goto, TypeInv, TypeOK
<1>2. \A v \in Worker : worker'[v] = IF v = w THEN k ELSE worker[v]
  BY DEF Goto, TypeInv, TypeOK
<1>3. \A v \in Worker : StepOK(worker'[v])
  BY <1>2 DEF TypeInv
<1> QED
  BY <1>1, <1>3 DEF StepOK

\* Writing any legal value into one column keeps a row a row.
LEMMA ColumnTypes ==
    ASSUME NEW row \in TicketRow, NEW b \in BOOLEAN, NEW s \in Status,
           NEW p \in Status \cup {NoStatus}, NEW t \in TaskId \cup {NoTask}
    PROVE  /\ [row EXCEPT !.status = s] \in TicketRow
           /\ [row EXCEPT !.stamped = b] \in TicketRow
           /\ [row EXCEPT !.paused = b] \in TicketRow
           /\ [row EXCEPT !.task = t] \in TicketRow
           /\ [row EXCEPT !.status = s, !.stamped = b] \in TicketRow
           /\ \A b2 \in BOOLEAN :
                [row EXCEPT !.status = s, !.preWait = p, !.solved = b2,
                            !.task = t, !.stamped = b] \in TicketRow
BY DEF TicketRow

\* No value a handler writes leaves TicketRow.
LEMMA SavedRowType ==
    ASSUME NEW row \in TicketRow, NEW snap \in TicketRow, NEW to \in Status,
           NEW prev \in Status \cup {NoStatus}, NEW op
    PROVE  SavedRow(op, row, snap, prev, to) \in TicketRow
<1>1. EditedRow(snap, prev) \in TicketRow
  <2> DEFINE b == IF prev = snap.status THEN snap.stamped ELSE snap.status \in Closed
  <2>1. b \in BOOLEAN
    <3>1. snap.stamped \in BOOLEAN /\ (snap.status \in Closed) \in BOOLEAN
      BY DEF TicketRow
    <3> QED
      BY <3>1, Zenon
  <2> HIDE DEF b
  <2>2. [snap EXCEPT !.stamped = b] \in TicketRow
    BY <2>1, ColumnTypes
  <2> QED
    BY <2>2 DEF EditedRow, b
<1>2. ServiceRow(row, snap, to) \in TicketRow
  <2> DEFINE
        p == CASE to \in Pausing /\ snap.status \notin Pausing -> snap.status
               [] to \notin Pausing /\ snap.status \in Pausing -> NoStatus
               [] OTHER -> row.preWait
        sol == CASE to = "resolved"          -> TRUE
                 [] snap.status = "resolved" -> FALSE
                 [] OTHER -> row.solved
        t == IF snap.status = "resolved" THEN NoTask ELSE row.task
        b == CASE to \in Closed /\ snap.status \notin Closed -> TRUE
               [] to \notin Closed /\ snap.status \in Closed -> FALSE
               [] OTHER -> row.stamped
  <2>1. p \in Status \cup {NoStatus} /\ t \in TaskId \cup {NoTask}
    BY DEF TicketRow
  <2>2. sol \in BOOLEAN /\ b \in BOOLEAN
    BY DEF TicketRow
  <2> HIDE DEF p, sol, t, b
  <2>3. [row EXCEPT !.status = to, !.preWait = p, !.solved = sol,
                    !.task = t, !.stamped = b] \in TicketRow
    BY <2>1, <2>2, ColumnTypes
  <2> QED
    BY <2>3 DEF ServiceRow, p, sol, t, b
<1>3. [row EXCEPT !.status = to] \in TicketRow
  BY ColumnTypes
<1>4. [row EXCEPT !.status = to, !.stamped = TRUE] \in TicketRow
  BY ColumnTypes
<1> QED
  BY <1>1, <1>2, <1>3, <1>4 DEF SavedRow
LEMMA PausesType ==
    ASSUME NEW open \in Nat, NEW prev, NEW to
    PROVE  PausesAfter(open, prev, to) \in Nat
<1>1. CASE EntersWait(prev, to)
  BY <1>1 DEF PausesAfter
<1>2. CASE ~EntersWait(prev, to) /\ LeavesWait(prev, to) /\ open > 0
  BY <1>2 DEF PausesAfter
<1>3. CASE ~EntersWait(prev, to) /\ ~(LeavesWait(prev, to) /\ open > 0)
  BY <1>3 DEF PausesAfter
<1> QED
  BY <1>1, <1>2, <1>3

LEMMA PausedType ==
    ASSUME NEW paused \in BOOLEAN, NEW open, NEW prev, NEW to
    PROVE  PausedAfter(paused, open, prev, to) \in BOOLEAN
BY Zenon DEF PausedAfter

LEMMA WriteOverTypes ==
    ASSUME NEW row \in TicketRow, NEW open \in Nat, NEW op, NEW snap \in TicketRow,
           NEW prev \in Status \cup {NoStatus}, NEW to \in Status,
           WriteOver(row, open, op, snap, prev, to)
    PROVE  ticket' \in TicketRow /\ openPauses' \in Nat /\ card' \in Status
<1> DEFINE saved == SavedRow(op, row, snap, prev, to)
           b == PausedAfter(saved.paused, open, prev, to)
<1>1. saved \in TicketRow
  BY SavedRowType
<1> HIDE DEF saved
<1>2. saved.paused \in BOOLEAN
  BY <1>1 DEF TicketRow
<1>3. b \in BOOLEAN
  BY <1>2, PausedType
<1> HIDE DEF b
<1>4. [saved EXCEPT !.paused = b] \in TicketRow
  BY <1>1, <1>3, ColumnTypes
<1>5. ticket' = [saved EXCEPT !.paused = b]
  BY DEF WriteOver, saved, b
<1>6. openPauses' \in Nat /\ card' \in Status
  BY PausesType DEF WriteOver
<1> QED
  BY <1>4, <1>5, <1>6

LEMMA BusyTypes ==
    ASSUME NEW pc \in {"idle", "dropped", "loaded", "saving", "publish", "record", "clear"},
           NEW op \in AllHandlers \cup {"autoclose", "none"},
           NEW to \in Status \cup {NoStatus}, NEW snap \in TicketRow,
           NEW t \in TaskId \cup {NoTask}
    PROVE  Busy(pc, op, to, snap, t) \in WorkerState
BY DEF Busy, WorkerState

LEMMA IdleTypes == Blank \in TicketRow /\ Idle \in WorkerState /\ StepOK(Idle)
<1>1. Blank \in TicketRow
  BY StatusAssumption DEF Blank, NewTicket, TicketRow
<1>2. Idle \in WorkerState
  BY <1>1, BusyTypes DEF Idle
<1>3. StepOK(Idle)
  BY DEF Idle, Busy, StepOK
<1> QED
  BY <1>1, <1>2, <1>3

LEMMA TypeInit == Init => TypeInv
<1> SUFFICES ASSUME Init PROVE TypeInv
  OBVIOUS
<1>1. PICK s \in CreateIn : ticket = NewTicket(s) /\ card = s
  BY DEF Init
<1>2. ticket \in TicketRow /\ card \in Status
  BY <1>1, StatusAssumption DEF NewTicket, TicketRow
<1>3. worker = [w \in Worker |-> Idle] /\ openPauses = 0 /\ pending = {}
  BY DEF Init
<1> QED
  BY <1>2, <1>3, IdleTypes DEF TypeInv, TypeOK
LEMMA TargetsType ==
    ASSUME ticket \in TicketRow, NEW op, NEW to \in Targets(op, ticket)
    PROVE  /\ to \in Status \cup {NoStatus}
           /\ op # "reply" => to \in Status
<1>1. AllowedFrom(ticket.status) \subseteq Status
  BY StatusAssumption DEF AllowedFrom
<1>2. {"open", "in-progress", "resolved", "closed", FirstClosed} \subseteq Status
  BY StatusAssumption
<1>3. ReplyTarget(ticket) \in Status \cup {NoStatus}
  BY <1>2 DEF ReplyTarget, ResumeTarget
<1>4. CASE op \in {"transition", "bulk", "close", "assign", "edit", "merge", "won", "lost"}
  BY <1>1, <1>2, <1>4 DEF Targets, Transitions, TicketRow
<1>5. CASE op \in {"reply", "agentReply"}
  BY <1>3, <1>5 DEF Targets
<1>6. CASE op \notin {"transition", "bulk", "close", "assign", "edit", "merge",
                      "won", "lost", "reply", "agentReply"}
  BY <1>6 DEF Targets
<1> QED
  BY <1>4, <1>5, <1>6

LEMMA TaskForType ==
    ASSUME NEW op, NEW to, NEW t \in TaskFor(op, to)
    PROVE  /\ t \in TaskId \cup {NoTask}
           /\ IsService(op) /\ to = "resolved" => t \in TaskId
BY DEF TaskFor, FreeTasks

LEMMA AfterCommitTypes ==
    ASSUME NEW k \in WorkerState, StepOK(k), k.pc \in {"loaded", "saving"}
    PROVE  AfterCommit(k) \in WorkerState /\ StepOK(AfterCommit(k))
<1>1. CASE k.op = "autoclose"
  <2>1. AfterCommit(k) = Busy("clear", "autoclose", NoStatus, Blank, k.task)
    BY <1>1 DEF AfterCommit
  <2>2. k.task \in TaskId
    BY <1>1 DEF StepOK
  <2> QED
    BY <2>1, <2>2, IdleTypes, BusyTypes DEF Busy, StepOK
<1>2. CASE k.op # "autoclose" /\ IsService(k.op) /\ k.to = "resolved"
  <2>1. AfterCommit(k) = Busy("publish", "none", NoStatus, Blank, k.task)
    BY <1>2 DEF AfterCommit
  <2>2. k.task \in TaskId
    BY <1>2 DEF StepOK
  <2> QED
    BY <2>1, <2>2, IdleTypes, BusyTypes DEF Busy, StepOK
<1>3. CASE k.op # "autoclose" /\ ~(IsService(k.op) /\ k.to = "resolved")
  BY <1>3, IdleTypes DEF AfterCommit
<1> QED
  BY <1>1, <1>2, <1>3

LEMMA RevokeTypes ==
    ASSUME pending \subseteq TaskId, NEW k, Revoke(k)
    PROVE  pending' \subseteq TaskId
BY DEF Revoke

LEMMA TypeStep == TypeInv /\ [Next]_vars => TypeInv'
<1> SUFFICES ASSUME TypeInv, [Next]_vars PROVE TypeInv'
  OBVIOUS
<1> USE DEF TypeInv, TypeOK
<1>1. ASSUME NEW w \in Worker, NEW op \in Handlers \ {"kanban"},
             NEW to \in Status \cup {NoStatus}, Begin(w, op, to)
      PROVE  TypeInv'
  <2>1. PICK t \in TaskFor(op, to) : Goto(w, Busy("loaded", op, to, ticket, t))
    BY <1>1 DEF Begin
  <2>2. to \in Targets(op, ticket) /\ op \in AllHandlers
    BY <1>1, HandlerAssumption DEF Begin
  <2>3. op # "reply" => to \in Status
    BY <2>2, TargetsType
  <2>4. t \in TaskId \cup {NoTask} /\ (IsService(op) /\ to = "resolved" => t \in TaskId)
    BY TaskForType
  <2>5. Busy("loaded", op, to, ticket, t) \in WorkerState
    BY <2>2, <2>4, BusyTypes
  <2>6. op # "autoclose"
    BY <2>2 DEF AllHandlers
  <2>7. StepOK(Busy("loaded", op, to, ticket, t))
    BY <2>3, <2>4, <2>6 DEF StepOK, Busy
  <2> QED
    BY <1>1, <2>1, <2>5, <2>7, GotoTypes DEF Begin
<1>2. ASSUME NEW w \in Worker, NEW s \in Status, DropCard(w, s)
      PROVE  TypeInv'
  <2>1. PICK t \in TaskFor("kanban", s) : Goto(w, Busy("dropped", "kanban", s, Blank, t))
    BY <1>2 DEF DropCard
  <2>2. t \in TaskId \cup {NoTask} /\ (s = "resolved" => t \in TaskId)
    BY TaskForType DEF IsService
  <2>3. Busy("dropped", "kanban", s, Blank, t) \in WorkerState
    BY <2>2, BusyTypes, IdleTypes DEF AllHandlers
  <2>4. StepOK(Busy("dropped", "kanban", s, Blank, t))
    BY <2>2 DEF StepOK, Busy
  <2> QED
    BY <1>2, <2>1, <2>3, <2>4, GotoTypes DEF DropCard
<1>3. ASSUME NEW w \in Worker, PickUpDropped(w)
      PROVE  TypeInv'
  <2> DEFINE k == worker[w]
  <2>1. k \in WorkerState /\ StepOK(k) /\ k.pc = "dropped"
    BY <1>3 DEF PickUpDropped
  <2>2. [k EXCEPT !.pc = "loaded", !.snap = ticket] \in WorkerState
    BY <2>1 DEF WorkerState
  <2>3. StepOK([k EXCEPT !.pc = "loaded", !.snap = ticket])
    BY <2>1 DEF StepOK, WorkerState
  <2> QED
    BY <1>3, <2>2, <2>3, IdleTypes, GotoTypes DEF PickUpDropped
<1>4. ASSUME NEW w \in Worker, PreSave(w)
      PROVE  TypeInv'
  <2> DEFINE k == worker[w]
  <2>1. k \in WorkerState /\ StepOK(k) /\ k.pc = "loaded"
    BY <1>4 DEF PreSave
  <2>2. ASSUME k.to # NoStatus
        PROVE  LET n == [k EXCEPT !.pc = "saving", !.prev = ticket.status]
               IN  n \in WorkerState /\ StepOK(n)
    BY <2>1, <2>2 DEF StepOK, WorkerState, TicketRow
  <2>3. pending' \subseteq TaskId
    BY <1>4, RevokeTypes DEF PreSave
  <2> QED
    BY <1>4, <2>2, <2>3, IdleTypes, GotoTypes DEF PreSave
<1>5. ASSUME NEW w \in Worker, Save(w)
      PROVE  TypeInv'
  <2> DEFINE k == worker[w]
  <2>1. k \in WorkerState /\ StepOK(k) /\ k.pc = "saving"
    BY <1>5 DEF Save
  <2>2. k.snap \in TicketRow /\ k.prev \in Status \cup {NoStatus} /\ k.to \in Status
    BY <2>1 DEF WorkerState, StepOK
  <2>3. ticket' \in TicketRow /\ openPauses' \in Nat /\ card' \in Status
    BY <1>5, <2>2, WriteOverTypes DEF Save
  <2> QED
    BY <1>5, <2>1, <2>3, AfterCommitTypes, GotoTypes DEF Save
<1>6. ASSUME NEW w \in Worker, ResumeOnReply(w)
      PROVE  TypeInv'
  <2> DEFINE k == worker[w]
             row == [ticket EXCEPT !.paused = FALSE]
  <2>1. k \in WorkerState /\ StepOK(k) /\ k.pc = "loaded" /\ openPauses > 0
    BY <1>6 DEF ResumeOnReply
  <2>2. k.snap \in TicketRow /\ ticket.status \in Status \cup {NoStatus}
    BY <2>1 DEF WorkerState, TicketRow
  <2>3. row \in TicketRow
    BY ColumnTypes, Zenon
  <2>4. openPauses - 1 \in Nat
    BY <2>1
  <2>5. ticket' \in TicketRow /\ openPauses' \in Nat /\ card' \in Status
    <3>1. CASE k.to = NoStatus
      BY <1>6, <2>3, <2>4, <3>1 DEF ResumeOnReply
    <3>2. CASE k.to # NoStatus
      <4>1. k.to \in Status
        BY <2>1, <3>2 DEF WorkerState
      <4>2. WriteOver(row, openPauses - 1, k.op, k.snap, ticket.status, k.to)
        BY <1>6, <3>2 DEF ResumeOnReply
      <4> HIDE DEF k, row
      <4> QED
        BY <2>2, <2>3, <2>4, <4>1, <4>2, WriteOverTypes
    <3> QED
      BY <3>1, <3>2
  <2>6. pending' \subseteq TaskId
    BY <1>6, RevokeTypes DEF ResumeOnReply
  <2>7. Goto(w, AfterCommit(k))
    BY <1>6 DEF ResumeOnReply
  <2> QED
    BY <2>1, <2>5, <2>6, <2>7, AfterCommitTypes, GotoTypes
<1>7. ASSUME NEW w \in Worker, Merge(w)
      PROVE  TypeInv'
  <2> DEFINE k == worker[w]
  <2>1. k \in WorkerState /\ StepOK(k) /\ k.pc = "loaded" /\ k.op = "merge"
    BY <1>7 DEF Merge
  <2>2. k.snap \in TicketRow /\ k.to \in Status /\ ticket.status \in Status \cup {NoStatus}
    BY <2>1 DEF WorkerState, StepOK, TicketRow
  <2>3. ticket' \in TicketRow /\ openPauses' \in Nat /\ card' \in Status
    BY <1>7, <2>2, WriteOverTypes DEF Merge
  <2> QED
    BY <1>7, <2>3, IdleTypes, GotoTypes DEF Merge
<1>8. ASSUME NEW w \in Worker, Publish(w)
      PROVE  TypeInv'
  <2> DEFINE k == worker[w]
  <2>1. k \in WorkerState /\ StepOK(k) /\ k.pc = "publish"
    BY <1>8 DEF Publish
  <2>2. k.task \in TaskId
    BY <2>1 DEF StepOK
  <2>3. [k EXCEPT !.pc = "record"] \in WorkerState
    BY <2>1 DEF WorkerState
  <2>4. StepOK([k EXCEPT !.pc = "record"])
    BY <2>1, <2>2 DEF StepOK, WorkerState
  <2> QED
    BY <1>8, <2>2, <2>3, <2>4, GotoTypes DEF Publish
<1>9. ASSUME NEW w \in Worker, RecordTask(w)
      PROVE  TypeInv'
  <2>1. worker[w].task \in TaskId \cup {NoTask}
    BY DEF WorkerState
  <2>2. ticket' \in TicketRow
    BY <1>9, <2>1, ColumnTypes DEF RecordTask
  <2> QED
    BY <1>9, <2>2, IdleTypes, GotoTypes DEF RecordTask
<1>10. ASSUME NEW w \in Worker, NEW t \in TaskId, BeginAutoClose(w, t)
       PROVE  TypeInv'
  <2> DEFINE k == Busy("loaded", "autoclose", FirstClosed, ticket, t)
  <2>1. k \in WorkerState
    BY StatusAssumption, BusyTypes
  <2>2. StepOK(k)
    BY StatusAssumption DEF StepOK, Busy
  <2>3. pending' \subseteq TaskId
    BY <1>10 DEF BeginAutoClose
  <2>4. worker' \in [Worker -> WorkerState] /\ \A v \in Worker : StepOK(worker[v])'
    <3>1. CASE Goto(w, k)
      BY <2>1, <2>2, <3>1, GotoTypes
    <3>2. CASE UNCHANGED worker
      BY <3>2 DEF StepOK
    <3> QED
      BY <1>10, <3>1, <3>2 DEF BeginAutoClose
  <2> QED
    BY <1>10, <2>3, <2>4 DEF BeginAutoClose
<1>11. ASSUME NEW w \in Worker, ClearTask(w)
       PROVE  TypeInv'
  <2>1. ticket' \in TicketRow
    BY <1>11, ColumnTypes DEF ClearTask
  <2> QED
    BY <1>11, <2>1, IdleTypes, GotoTypes DEF ClearTask
<1>12. ASSUME NEW w \in Worker, Die(w)
       PROVE  TypeInv'
  <2>1. worker[w].op = "autoclose" => worker[w].task \in TaskId
    BY DEF StepOK
  <2>2. pending' \subseteq TaskId
    BY <1>12, <2>1 DEF Die
  <2> QED
    BY <1>12, <2>2, IdleTypes, GotoTypes DEF Die
<1>13. CASE UNCHANGED vars
  BY <1>13 DEF vars, StepOK
<1> QED
  BY <1>1, <1>2, <1>3, <1>4, <1>5, <1>6, <1>7, <1>8, <1>9, <1>10, <1>11, <1>12, <1>13
     DEF Next, Step

\* The row, its companions and every process's local state keep their shape; in
\* particular no handler ever writes a status or a task id that is none.
THEOREM TypeCorrect == Spec => []TypeOK
<1>1. TypeInv => TypeOK
  BY DEF TypeInv
<1> QED
  BY <1>1, TypeInit, TypeStep, PTL DEF Spec
-----------------------------------------------------------------------------
(* Closure timestamps and solved_at under any overlap. The row alone is not *)
(* inductive: a PATCH writes a whole snapshot back and change_ticket_status *)
(* decides on one, so the invariant speaks of the snapshots too.            *)

\* What the code needs of a tenant for it: a single closed status (two of them
\* let a stale closed-to-closed change skip the stamps), no pipeline-stage
\* handler, no ticket created closed or resolved.
Assumed ==
    /\ \A s, t \in Closed : s = t
    /\ Handlers \cap {"won", "lost"} = {}
    /\ CreateIn \cap (Closed \cup {"resolved"}) = {}

Marked(row) ==
    /\ row.status \in Closed => row.stamped
    /\ row.status = "resolved" => row.solved

Sound(k) ==
    k.pc \in {"loaded", "saving"} =>
        /\ Marked(k.snap)
        /\ k.op \notin {"won", "lost"}
        /\ k.op = "edit" => k.to = k.snap.status
        /\ k.op = "merge" => k.to \in Closed
        /\ k.op = "assign" => k.to = "in-progress"
        /\ IsService(k.op) => k.to # k.snap.status

MarkInv ==
    /\ Marked(ticket)
    /\ \A w \in Worker : /\ Sound(worker[w])
                         /\ worker[w].pc = "dropped" => worker[w].op = "kanban"

LEMMA SavedRowMarked ==
    ASSUME Assumed, NEW k \in WorkerState, Sound(k), k.pc \in {"loaded", "saving"},
           NEW row \in TicketRow, NEW prev, k.to \in Status
    PROVE  Marked(SavedRow(k.op, row, k.snap, prev, k.to))
<1> DEFINE saved == SavedRow(k.op, row, k.snap, prev, k.to)
<1>0. k.snap \in TicketRow /\ Marked(k.snap)
  BY DEF Sound, WorkerState
<1>1. CASE k.op = "edit"
  <2>1. saved = EditedRow(k.snap, prev)
    BY <1>1 DEF SavedRow
  <2>2. saved.status = k.snap.status /\ saved.solved = k.snap.solved
    BY <2>1, <1>0 DEF EditedRow, TicketRow
  <2>3. saved.stamped = IF prev = k.snap.status THEN k.snap.stamped ELSE k.snap.status \in Closed
    BY <2>1, <1>0 DEF EditedRow, TicketRow
  <2> HIDE DEF saved
  <2>4. saved.status \in Closed => saved.stamped
    BY <1>0, <2>2, <2>3, Zenon DEF Marked
  <2>5. Marked(saved)
    BY <1>0, <2>2, <2>4 DEF Marked
  <2> QED
    BY <2>5 DEF saved
<1>2. CASE k.op = "assign"
  <2>1. saved.status = "in-progress"
    BY <1>2 DEF SavedRow, Sound, TicketRow
  <2> QED
    BY <2>1, StatusAssumption DEF Marked
<1>3. CASE k.op = "merge"
  <2>1. saved.status \in Closed /\ saved.stamped = TRUE
    BY <1>3 DEF SavedRow, Sound, TicketRow
  <2> QED
    BY <2>1, StatusAssumption DEF Marked
<1>4. CASE IsService(k.op)
  <2>1. saved = ServiceRow(row, k.snap, k.to)
    BY <1>4 DEF SavedRow, IsService
  <2>2. saved.status = k.to /\ k.to # k.snap.status
    BY <2>1, <1>4 DEF ServiceRow, Sound, TicketRow
  <2>3. ASSUME k.to \in Closed PROVE saved.stamped = TRUE
    <3>1. k.snap.status \notin Closed
      BY <2>2, <2>3 DEF Assumed
    <3> QED
      BY <2>1, <2>3, <3>1 DEF ServiceRow, TicketRow
  <2>4. ASSUME k.to = "resolved" PROVE saved.solved = TRUE
    <3> DEFINE
          p == CASE k.to \in Pausing /\ k.snap.status \notin Pausing -> k.snap.status
                 [] k.to \notin Pausing /\ k.snap.status \in Pausing -> NoStatus
                 [] OTHER -> row.preWait
          sol == CASE k.to = "resolved"            -> TRUE
                   [] k.snap.status = "resolved" -> FALSE
                   [] OTHER -> row.solved
          t == IF k.snap.status = "resolved" THEN NoTask ELSE row.task
          b == CASE k.to \in Closed /\ k.snap.status \notin Closed -> TRUE
                 [] k.to \notin Closed /\ k.snap.status \in Closed -> FALSE
                 [] OTHER -> row.stamped
    <3>1. saved = [row EXCEPT !.status = k.to, !.preWait = p, !.solved = sol,
                              !.task = t, !.stamped = b]
      BY <2>1 DEF ServiceRow
    <3>2. sol = TRUE
      BY <2>2, <2>4
    <3> HIDE DEF p, sol, t, b
    <3> QED
      BY <3>1, <3>2 DEF TicketRow
  <2> QED
    BY <2>2, <2>3, <2>4 DEF Marked
<1> QED
  BY <1>1, <1>2, <1>3, <1>4 DEF Sound, IsService

\* The pause receiver's own save touches sla_paused_at alone.
LEMMA WriteOverMarked ==
    ASSUME Assumed, NEW k \in WorkerState, Sound(k), k.pc \in {"loaded", "saving"},
           NEW row \in TicketRow, NEW open, NEW prev \in Status \cup {NoStatus},
           k.to \in Status, WriteOver(row, open, k.op, k.snap, prev, k.to)
    PROVE  Marked(ticket')
<1> DEFINE saved == SavedRow(k.op, row, k.snap, prev, k.to)
<1>1. Marked(saved) /\ saved \in TicketRow
  BY SavedRowMarked, SavedRowType DEF WorkerState
<1>2. ticket' = [saved EXCEPT !.paused = PausedAfter(saved.paused, open, prev, k.to)]
  BY DEF WriteOver
<1> HIDE DEF saved
<1>3. /\ ticket'.status = saved.status /\ ticket'.stamped = saved.stamped
      /\ ticket'.solved = saved.solved
  BY <1>1, <1>2 DEF TicketRow
<1> QED
  BY <1>1, <1>3 DEF Marked

LEMMA TargetsSound ==
    ASSUME ticket \in TicketRow, NEW op, NEW to \in Targets(op, ticket)
    PROVE  /\ op = "edit" => to = ticket.status
           /\ op = "merge" => to \in Closed
           /\ op = "assign" => to = "in-progress"
           /\ IsService(op) => to # ticket.status
<1>1. op = "edit" => to = ticket.status
  BY DEF Targets
<1>2. op = "merge" => to \in Closed
  BY StatusAssumption DEF Targets
<1>3. op = "assign" => to = "in-progress"
  BY DEF Targets
<1>4. ReplyTarget(ticket) # ticket.status
  BY StatusAssumption DEF ReplyTarget, ResumeTarget, TicketRow
<1>5. ASSUME IsService(op) PROVE to # ticket.status
  <2>1. CASE op = "reply" \/ op = "agentReply"
    BY <1>4, <2>1 DEF Targets
  <2>2. CASE op = "transition" \/ op = "bulk" \/ op = "close"
    BY <2>2 DEF Targets, Transitions
  <2>3. CASE ~(op = "reply" \/ op = "agentReply" \/ op = "transition" \/ op = "bulk"
                 \/ op = "close")
    BY <1>5, <2>3 DEF Targets, IsService
  <2> QED
    BY <2>1, <2>2, <2>3
<1> QED
  BY <1>1, <1>2, <1>3, <1>5
LEMMA MarkInit == Assumed /\ Init => MarkInv
<1> SUFFICES ASSUME Assumed, Init PROVE MarkInv
  OBVIOUS
<1>1. PICK s \in CreateIn : ticket = NewTicket(s)
  BY DEF Init
<1>2. Marked(ticket)
  BY <1>1 DEF Assumed, Marked, NewTicket
<1>3. \A w \in Worker : worker[w].pc = "idle"
  BY DEF Init, Idle, Busy
<1> QED
  BY <1>2, <1>3 DEF MarkInv, Sound

\* One process moves; the others keep what they hold.
LEMMA GotoSound ==
    ASSUME TypeOK, MarkInv, NEW w \in Worker, NEW k, Goto(w, k), Sound(k),
           k.pc = "dropped" => k.op = "kanban"
    PROVE  \A v \in Worker : /\ Sound(worker'[v])
                             /\ worker'[v].pc = "dropped" => worker'[v].op = "kanban"
<1>1. \A v \in Worker : worker'[v] = IF v = w THEN k ELSE worker[v]
  BY DEF Goto, TypeOK
<1> QED
  BY <1>1 DEF MarkInv

LEMMA StillMarked ==
    ASSUME TypeOK, Marked(ticket), NEW c,
           \/ ticket' = ticket
           \/ ticket' = [ticket EXCEPT !.task = c]
           \/ ticket' = [ticket EXCEPT !.paused = c]
    PROVE  Marked(ticket')
BY DEF TypeOK, TicketRow, Marked

LEMMA AfterCommitSound ==
    ASSUME NEW k
    PROVE  Sound(AfterCommit(k)) /\ AfterCommit(k).pc # "dropped"
<1>1. CASE k.op = "autoclose"
  BY <1>1 DEF AfterCommit, Sound, Busy
<1>2. CASE k.op # "autoclose" /\ IsService(k.op) /\ k.to = "resolved"
  BY <1>2 DEF AfterCommit, Sound, Busy
<1>3. CASE k.op # "autoclose" /\ ~(IsService(k.op) /\ k.to = "resolved")
  BY <1>3 DEF AfterCommit, Sound, Busy, Idle
<1> QED
  BY <1>1, <1>2, <1>3

LEMMA MarkStep == Assumed /\ TypeInv /\ MarkInv /\ [Next]_vars => MarkInv'
<1> SUFFICES ASSUME Assumed, TypeInv, MarkInv, [Next]_vars PROVE MarkInv'
  OBVIOUS
<1> DEFINE OthersSound == \A v \in Worker :
               /\ Sound(worker'[v])
               /\ worker'[v].pc = "dropped" => worker'[v].op = "kanban"
<1>a. TypeOK /\ \A v \in Worker : StepOK(worker[v]) /\ worker[v] \in WorkerState
  BY DEF TypeInv, TypeOK
<1>b. Marked(ticket') /\ OthersSound => MarkInv'
  BY DEF MarkInv, Marked, Sound, IsService
<1>c. Sound(Idle) /\ Idle.pc # "dropped"
  BY DEF Sound, Idle, Busy
<1>1. ASSUME NEW w \in Worker, NEW op \in Handlers \ {"kanban"},
             NEW to \in Status \cup {NoStatus}, Begin(w, op, to)
      PROVE  MarkInv'
  <2>1. PICK t \in TaskFor(op, to) : Goto(w, Busy("loaded", op, to, ticket, t))
    BY <1>1 DEF Begin
  <2>2. to \in Targets(op, ticket) /\ op \notin {"won", "lost"}
    BY <1>1 DEF Begin, Assumed
  <2>3. Sound(Busy("loaded", op, to, ticket, t))
    BY <2>2, <1>a, TargetsSound DEF Sound, Busy, MarkInv, TypeOK
  <2>4. OthersSound
    BY <1>a, <2>1, <2>3, GotoSound DEF Busy
  <2> QED
    BY <1>1, <1>a, <1>b, <2>4, StillMarked DEF Begin, MarkInv
<1>2. ASSUME NEW w \in Worker, NEW s \in Status, DropCard(w, s)
      PROVE  MarkInv'
  <2>1. PICK t \in TaskFor("kanban", s) : Goto(w, Busy("dropped", "kanban", s, Blank, t))
    BY <1>2 DEF DropCard
  <2>2. OthersSound
    BY <1>a, <2>1, GotoSound DEF Busy, Sound
  <2> QED
    BY <1>2, <1>a, <1>b, <2>2, StillMarked DEF DropCard, MarkInv
<1>3. ASSUME NEW w \in Worker, PickUpDropped(w)
      PROVE  MarkInv'
  <2> DEFINE n == [worker[w] EXCEPT !.pc = "loaded", !.snap = ticket]
  <2>1. worker[w].op = "kanban"
    BY <1>3 DEF PickUpDropped, MarkInv
  <2>2. ticket.status # worker[w].to => Sound(n)
    BY <1>a, <2>1 DEF Sound, MarkInv, WorkerState
  <2>3. n.pc = "loaded"
    BY <1>a DEF WorkerState
  <2>4. OthersSound
    <3>1. CASE ticket.status = worker[w].to
      BY <1>3, <1>a, <1>c, <3>1, GotoSound DEF PickUpDropped
    <3>2. CASE ticket.status # worker[w].to
      BY <1>3, <1>a, <2>2, <2>3, <3>2, GotoSound DEF PickUpDropped
    <3> QED
      BY <3>1, <3>2
  <2> QED
    BY <1>3, <1>a, <1>b, <2>4, StillMarked DEF PickUpDropped, MarkInv
<1>4. ASSUME NEW w \in Worker, PreSave(w)
      PROVE  MarkInv'
  <2> DEFINE n == [worker[w] EXCEPT !.pc = "saving", !.prev = ticket.status]
  <2>1. Sound(n) /\ n.pc = "saving"
    BY <1>4, <1>a DEF PreSave, Sound, MarkInv, WorkerState
  <2>2. OthersSound
    <3>1. CASE worker[w].to = NoStatus
      BY <1>4, <1>a, <1>c, <3>1, GotoSound DEF PreSave
    <3>2. CASE worker[w].to # NoStatus
      BY <1>4, <1>a, <2>1, <3>2, GotoSound DEF PreSave
    <3> QED
      BY <3>1, <3>2
  <2> QED
    BY <1>4, <1>a, <1>b, <2>2, StillMarked DEF PreSave, MarkInv
<1>5. ASSUME NEW w \in Worker, Save(w)
      PROVE  MarkInv'
  <2> DEFINE k == worker[w]
  <2>1. k \in WorkerState /\ Sound(k) /\ k.pc = "saving" /\ k.to \in Status
    BY <1>5, <1>a DEF Save, MarkInv, StepOK
  <2>2. k.prev \in Status \cup {NoStatus} /\ ticket \in TicketRow
    BY <1>a, <2>1 DEF WorkerState, TypeOK
  <2>3. WriteOver(ticket, openPauses, k.op, k.snap, k.prev, k.to) /\ Goto(w, AfterCommit(k))
    BY <1>5 DEF Save
  <2>4. OthersSound
    BY <1>a, <2>3, AfterCommitSound, GotoSound
  <2> HIDE DEF k
  <2>5. Marked(ticket')
    BY <2>1, <2>2, <2>3, WriteOverMarked
  <2> QED
    BY <1>b, <2>4, <2>5
<1>6. ASSUME NEW w \in Worker, ResumeOnReply(w)
      PROVE  MarkInv'
  <2> DEFINE k == worker[w]
             row == [ticket EXCEPT !.paused = FALSE]
  <2>1. k \in WorkerState /\ Sound(k) /\ k.pc = "loaded" /\ Goto(w, AfterCommit(k))
    BY <1>6, <1>a DEF ResumeOnReply, MarkInv
  <2>2. row \in TicketRow /\ ticket.status \in Status \cup {NoStatus}
    <3>1. ticket \in TicketRow
      BY <1>a DEF TypeOK
    <3>2. row \in TicketRow
      BY <3>1 DEF TicketRow
    <3> QED
      BY <3>1, <3>2 DEF TicketRow
  <2>3. OthersSound
    BY <1>a, <2>1, AfterCommitSound, GotoSound
  <2>4. Marked(ticket')
    <3>1. CASE k.to = NoStatus
      BY <1>6, <1>a, <3>1, StillMarked DEF ResumeOnReply, MarkInv
    <3>2. CASE k.to # NoStatus
      <4>1. k.to \in Status
        BY <2>1, <3>2 DEF WorkerState
      <4>2. WriteOver(row, openPauses - 1, k.op, k.snap, ticket.status, k.to)
        BY <1>6, <3>2 DEF ResumeOnReply
      <4> HIDE DEF k, row
      <4> QED
        BY <2>1, <2>2, <4>1, <4>2, WriteOverMarked
    <3> QED
      BY <3>1, <3>2
  <2> QED
    BY <1>b, <2>3, <2>4
<1>7. ASSUME NEW w \in Worker, Merge(w)
      PROVE  MarkInv'
  <2> DEFINE k == worker[w]
  <2>1. k \in WorkerState /\ Sound(k) /\ k.pc = "loaded" /\ k.op = "merge" /\ k.to \in Status
    BY <1>7, <1>a DEF Merge, MarkInv, StepOK
  <2>2. ticket \in TicketRow /\ ticket.status \in Status \cup {NoStatus}
    BY <1>a DEF TypeOK, TicketRow
  <2>3. WriteOver(ticket, openPauses, k.op, k.snap, ticket.status, k.to) /\ Goto(w, Idle)
    BY <1>7, <2>1 DEF Merge
  <2>4. OthersSound
    BY <1>a, <1>c, <2>3, GotoSound
  <2> HIDE DEF k
  <2>5. Marked(ticket')
    BY <2>1, <2>2, <2>3, WriteOverMarked
  <2> QED
    BY <1>b, <2>4, <2>5
<1>8. ASSUME NEW w \in Worker, Publish(w)
      PROVE  MarkInv'
  <2> DEFINE n == [worker[w] EXCEPT !.pc = "record"]
  <2>1. n.pc = "record"
    BY <1>a DEF WorkerState
  <2>2. OthersSound
    BY <1>8, <1>a, <2>1, GotoSound DEF Publish, Sound
  <2> QED
    BY <1>8, <1>a, <1>b, <2>2, StillMarked DEF Publish, MarkInv
<1>9. ASSUME NEW w \in Worker, RecordTask(w)
      PROVE  MarkInv'
  <2>1. OthersSound
    BY <1>9, <1>a, <1>c, GotoSound DEF RecordTask
  <2> QED
    BY <1>9, <1>a, <1>b, <2>1, StillMarked DEF RecordTask, MarkInv
<1>10. ASSUME NEW w \in Worker, NEW t \in TaskId, BeginAutoClose(w, t)
       PROVE  MarkInv'
  <2> DEFINE k == Busy("loaded", "autoclose", FirstClosed, ticket, t)
  <2>1. OthersSound
    <3>1. CASE ticket.status = "resolved" /\ ticket.task = t
      <4>1. Sound(k)
        BY <3>1, StatusAssumption DEF Sound, Busy, MarkInv, IsService
      <4>2. k.pc # "dropped"
        BY DEF Busy
      <4>3. Goto(w, k)
        BY <1>10, <3>1 DEF BeginAutoClose
      <4> HIDE DEF k
      <4> QED
        BY <1>a, <4>1, <4>2, <4>3, GotoSound
    <3>2. CASE ~(ticket.status = "resolved" /\ ticket.task = t)
      BY <1>10, <3>2 DEF BeginAutoClose, MarkInv
    <3> QED
      BY <3>1, <3>2
  <2> QED
    BY <1>10, <1>a, <1>b, <2>1, StillMarked DEF BeginAutoClose, MarkInv
<1>11. ASSUME NEW w \in Worker, ClearTask(w)
       PROVE  MarkInv'
  <2>1. OthersSound
    BY <1>11, <1>a, <1>c, GotoSound DEF ClearTask
  <2> QED
    BY <1>11, <1>a, <1>b, <2>1, StillMarked DEF ClearTask, MarkInv
<1>12. ASSUME NEW w \in Worker, Die(w)
       PROVE  MarkInv'
  <2>1. OthersSound
    BY <1>12, <1>a, <1>c, GotoSound DEF Die
  <2> QED
    BY <1>12, <1>a, <1>b, <2>1, StillMarked DEF Die, MarkInv
<1>13. CASE UNCHANGED vars
  BY <1>13, <1>a, <1>b, StillMarked DEF vars, MarkInv
<1> QED
  BY <1>1, <1>2, <1>3, <1>4, <1>5, <1>6, <1>7, <1>8, <1>9, <1>10, <1>11, <1>12, <1>13
     DEF Next, Step

\* However the handlers overlap, crash and overwrite one another with stale rows,
\* a closed ticket carries resolved_at and closed_at.
THEOREM ClosedStaysStamped == Assumed /\ Spec => []ClosedIsStamped
<1>1. MarkInv => ClosedIsStamped
  BY DEF MarkInv, Marked, ClosedIsStamped
<1>2. ASSUME Assumed PROVE Spec => []ClosedIsStamped
  BY <1>1, <1>2, TypeInit, TypeStep, MarkInit, MarkStep, PTL DEF Spec
<1> QED
  BY <1>2

\* ... and a resolved one carries solved_at.
THEOREM ResolvedStaysSolved == Assumed /\ Spec => []ResolvedIsSolved
<1>1. MarkInv => ResolvedIsSolved
  BY DEF MarkInv, Marked, ResolvedIsSolved
<1>2. ASSUME Assumed PROVE Spec => []ResolvedIsSolved
  BY <1>1, <1>2, TypeInit, TypeStep, MarkInit, MarkStep, PTL DEF Spec
<1> QED
  BY <1>2

-----------------------------------------------------------------------------
(* One handler at a time: the row, its pauses, its card and its task agree, *)
(* and the handlers together implement StatusPromise.                       *)

\* One handler at a time: another one starts only after the first has ended.
OneAtATime == \E w : Worker = {w}

\* No merge and no pipeline stage among the handlers (they write the status and
\* leave marks of the old one), no ticket created with the marks missing, and the
\* default status one that an assignment may leave without more ado.
Ordinary ==
    /\ Handlers \cap {"merge", "won", "lost"} = {}
    /\ CreateIn \cap (Closed \cup {"resolved"}) = {}
    /\ Default \notin Pausing \cup {"resolved"}

\* What a handler holds is what the row says, and its target is one its checks
\* have chosen for that row.
Decided(k) ==
    k.pc \in {"loaded", "saving"} =>
        /\ k.snap = ticket
        /\ k.pc = "saving" => k.prev = ticket.status
        /\ k.op \in Handlers \cup {"autoclose"}
        /\ k.op \notin {"kanban", "autoclose"} => k.to \in Targets(k.op, ticket)
        /\ k.op = "kanban" => k.to # ticket.status
        /\ k.op = "autoclose" => k.to = FirstClosed /\ ticket.status = "resolved"

FreshInv ==
    \A w \in Worker : /\ Decided(worker[w])
                      /\ worker[w].pc = "dropped" => worker[w].op = "kanban"
                                                       /\ "kanban" \in Handlers

RowInv == TimestampsMatchStatus /\ PauseMatchesWait /\ PreWaitIsUsable

AloneInv == TypeInv /\ FreshInv /\ RowInv

\* What StatusPromise says of the wait's two columns after a change to status to.
RememberedAfter(to) ==
    IF to \notin Pausing THEN NoStatus
    ELSE IF ticket.status \in Pausing THEN ticket.preWait ELSE ticket.status
StoppedAfter(to, paused) == to \in Pausing /\ (ticket.status \in Pausing => paused)

\* The columns a service writes over the row it has read.
LEMMA ServiceColumns ==
    ASSUME NEW row \in TicketRow, NEW snap \in TicketRow, NEW to \in Status, to # snap.status
    PROVE  LET saved == ServiceRow(row, snap, to)
           IN /\ saved.status = to
              /\ saved.paused = row.paused
              /\ to \in Closed /\ snap.status \notin Closed => saved.stamped
              /\ to \notin Closed /\ snap.status \in Closed => ~saved.stamped
              /\ (to \in Closed <=> snap.status \in Closed) => (saved.stamped <=> row.stamped)
              /\ to = "resolved" => saved.solved
              /\ to # "resolved" /\ snap.status = "resolved" => ~saved.solved
              /\ to # "resolved" /\ snap.status # "resolved" => (saved.solved <=> row.solved)
              /\ saved.task = IF snap.status = "resolved" THEN NoTask ELSE row.task
              /\ to \in Pausing /\ snap.status \notin Pausing => saved.preWait = snap.status
              /\ to \notin Pausing /\ snap.status \in Pausing => saved.preWait = NoStatus
              /\ (to \in Pausing <=> snap.status \in Pausing) => saved.preWait = row.preWait
<1> DEFINE
      p == CASE to \in Pausing /\ snap.status \notin Pausing -> snap.status
             [] to \notin Pausing /\ snap.status \in Pausing -> NoStatus
             [] OTHER -> row.preWait
      sol == CASE to = "resolved"          -> TRUE
               [] snap.status = "resolved" -> FALSE
               [] OTHER -> row.solved
      t == IF snap.status = "resolved" THEN NoTask ELSE row.task
      b == CASE to \in Closed /\ snap.status \notin Closed -> TRUE
             [] to \notin Closed /\ snap.status \in Closed -> FALSE
             [] OTHER -> row.stamped
      saved == ServiceRow(row, snap, to)
<1>1. saved = [row EXCEPT !.status = to, !.preWait = p, !.solved = sol,
                          !.task = t, !.stamped = b]
  BY DEF ServiceRow
<1> HIDE DEF p, sol, t, b, saved
<1>2. /\ saved.status = to /\ saved.preWait = p /\ saved.solved = sol
      /\ saved.task = t /\ saved.stamped = b /\ saved.paused = row.paused
  BY <1>1 DEF TicketRow
<1>3. /\ to \in Closed /\ snap.status \notin Closed => b = TRUE
      /\ to \notin Closed /\ snap.status \in Closed => b = FALSE
      /\ (to \in Closed <=> snap.status \in Closed) => b = row.stamped
  BY DEF b
<1>4. /\ to = "resolved" => sol
      /\ to # "resolved" /\ snap.status = "resolved" => ~sol
      /\ to # "resolved" /\ snap.status # "resolved" => (sol <=> row.solved)
  BY DEF sol
<1>5. /\ to \in Pausing /\ snap.status \notin Pausing => p = snap.status
      /\ to \notin Pausing /\ snap.status \in Pausing => p = NoStatus
      /\ (to \in Pausing <=> snap.status \in Pausing) => p = row.preWait
  BY DEF p
<1>6. t = IF snap.status = "resolved" THEN NoTask ELSE row.task
  BY DEF t
<1> QED
  <2>1. /\ to \in Closed /\ snap.status \notin Closed => saved.stamped
        /\ to \notin Closed /\ snap.status \in Closed => ~saved.stamped
        /\ (to \in Closed <=> snap.status \in Closed) => (saved.stamped <=> row.stamped)
    BY <1>2, <1>3
  <2>2. /\ to = "resolved" => saved.solved
        /\ to # "resolved" /\ snap.status = "resolved" => ~saved.solved
        /\ to # "resolved" /\ snap.status # "resolved" => (saved.solved <=> row.solved)
    BY <1>2, <1>4
  <2>3. /\ to \in Pausing /\ snap.status \notin Pausing => saved.preWait = snap.status
        /\ to \notin Pausing /\ snap.status \in Pausing => saved.preWait = NoStatus
        /\ (to \in Pausing <=> snap.status \in Pausing) => saved.preWait = row.preWait
    BY <1>2, <1>5
  <2>4. saved.task = IF snap.status = "resolved" THEN NoTask ELSE row.task
    BY <1>2, <1>6
  <2> QED
    BY <1>2, <2>1, <2>2, <2>3, <2>4 DEF saved

\* A row written by a handler whose snapshot is the row carries the marks of its
\* status, and of the wait it is in.
LEMMA AloneColumns ==
    ASSUME Ordinary, NEW k \in WorkerState, k.pc \in {"loaded", "saving"}, k.to \in Status,
           ticket \in TicketRow, RowInv, Decided(k),
           NEW paused \in BOOLEAN,
           NEW saved, saved = SavedRow(k.op, [ticket EXCEPT !.paused = paused], k.snap,
                                       ticket.status, k.to),
           k.op = "edit" => paused = ticket.paused
    PROVE  /\ saved.status = k.to
           /\ saved.paused = paused
           /\ saved.stamped <=> k.to \in Closed
           /\ saved.solved <=> k.to = "resolved"
           /\ saved.preWait # NoStatus => k.to \in Pausing /\ saved.preWait \notin Pausing
           /\ saved.preWait = RememberedAfter(k.to)
           /\ saved.task = IF IsService(k.op) /\ ticket.status = "resolved"
                           THEN NoTask ELSE ticket.task
<1> DEFINE row == [ticket EXCEPT !.paused = paused]
<1>0. k.snap = ticket
  BY DEF Decided
<1>1. /\ row \in TicketRow /\ row.status = ticket.status /\ row.stamped = ticket.stamped
      /\ row.solved = ticket.solved /\ row.preWait = ticket.preWait /\ row.task = ticket.task
      /\ row.paused = paused
  BY DEF TicketRow
<1> HIDE DEF row
<1>2. CASE k.op = "edit"
  <2>1. saved = EditedRow(ticket, ticket.status) /\ k.to = ticket.status
    BY <1>0, <1>2 DEF SavedRow, Decided, Targets, row
  <2>2. saved = ticket
    BY <2>1 DEF EditedRow, TicketRow
  <2>3. ~IsService(k.op)
    BY <1>2 DEF IsService
  <2> QED
    BY <1>2, <2>1, <2>2, <2>3 DEF RowInv, TimestampsMatchStatus, PreWaitIsUsable, RememberedAfter
<1>3. CASE k.op = "assign"
  <2>1. saved = [row EXCEPT !.status = k.to]
    BY <1>3 DEF SavedRow, row
  <2>2. k.to = "in-progress" /\ ticket.status = Default
    BY <1>3 DEF Decided, Targets
  <2>3. ~IsService(k.op)
    BY <1>3 DEF IsService
  <2>4. ticket.status \notin Closed \cup Pausing \cup {"resolved"}
    BY <2>2, StatusAssumption DEF Ordinary
  <2>5. k.to \notin Closed \cup Pausing \cup {"resolved"}
    BY <2>2, StatusAssumption
  <2>6. /\ saved.status = k.to /\ saved.paused = paused /\ saved.stamped = ticket.stamped
        /\ saved.solved = ticket.solved /\ saved.preWait = ticket.preWait
        /\ saved.task = ticket.task
    BY <1>1, <2>1 DEF TicketRow
  <2> QED
    BY <2>3, <2>4, <2>5, <2>6 DEF RowInv, TimestampsMatchStatus, PreWaitIsUsable, RememberedAfter
<1>4. CASE IsService(k.op)
  <2>1. saved = ServiceRow(row, ticket, k.to)
    BY <1>0, <1>4 DEF SavedRow, IsService, row
  <2>2. /\ saved.status = k.to
        /\ saved.paused = paused
        /\ k.to \in Closed /\ ticket.status \notin Closed => saved.stamped
        /\ k.to \notin Closed /\ ticket.status \in Closed => ~saved.stamped
        /\ (k.to \in Closed <=> ticket.status \in Closed) => (saved.stamped <=> ticket.stamped)
        /\ k.to = "resolved" => saved.solved
        /\ k.to # "resolved" /\ ticket.status = "resolved" => ~saved.solved
        /\ k.to # "resolved" /\ ticket.status # "resolved" => (saved.solved <=> ticket.solved)
        /\ saved.task = IF ticket.status = "resolved" THEN NoTask ELSE ticket.task
        /\ k.to \in Pausing /\ ticket.status \notin Pausing => saved.preWait = ticket.status
        /\ k.to \notin Pausing /\ ticket.status \in Pausing => saved.preWait = NoStatus
        /\ (k.to \in Pausing <=> ticket.status \in Pausing) => saved.preWait = ticket.preWait
    <3>1. k.to # ticket.status
      BY <1>0, <1>4, TargetsSound, StatusAssumption DEF Decided, IsService
    <3> QED
      BY <1>1, <2>1, <3>1, ServiceColumns
  <2>3. (saved.stamped <=> k.to \in Closed) /\ (saved.solved <=> k.to = "resolved")
    BY <2>2 DEF RowInv, TimestampsMatchStatus
  <2>4. saved.preWait # NoStatus => k.to \in Pausing /\ saved.preWait \notin Pausing
    BY <2>2 DEF RowInv, PreWaitIsUsable
  <2>5. saved.preWait = RememberedAfter(k.to)
    BY <2>2 DEF RowInv, PreWaitIsUsable, RememberedAfter
  <2> QED
    BY <1>4, <2>2, <2>3, <2>4, <2>5
<1>5. k.op \in AllHandlers \cup {"autoclose"} /\ k.op \notin {"merge", "won", "lost"}
  BY HandlerAssumption DEF Decided, Ordinary, AllHandlers
<1> QED
  BY <1>2, <1>3, <1>4, <1>5 DEF IsService, AllHandlers

\* The UPDATE and the pause receiver, from an agreeing row to an agreeing row.
LEMMA AloneWriteOver ==
    ASSUME Ordinary, NEW k \in WorkerState, k.pc \in {"loaded", "saving"}, k.to \in Status,
           TypeOK, RowInv, Decided(k),
           NEW paused \in BOOLEAN, NEW open \in Nat,
           open = 1 <=> paused,
           open > 0 => open = 1 /\ ticket.status \in Pausing,
           k.op = "edit" => paused = ticket.paused,
           WriteOver([ticket EXCEPT !.paused = paused], open, k.op, k.snap,
                     ticket.status, k.to)
    PROVE  /\ RowInv'
           /\ ticket'.status = k.to
           /\ ticket'.preWait = RememberedAfter(k.to)
           /\ ticket'.paused = StoppedAfter(k.to, paused)
           /\ ticket'.task = IF IsService(k.op) /\ ticket.status = "resolved"
                             THEN NoTask ELSE ticket.task
           /\ card' = k.to
<1> DEFINE row == [ticket EXCEPT !.paused = paused]
           saved == SavedRow(k.op, row, k.snap, ticket.status, k.to)
           after == PausedAfter(saved.paused, open, ticket.status, k.to)
<1>0. ticket \in TicketRow
  BY DEF TypeOK
<1>1. saved \in TicketRow
  <2>1. row \in TicketRow
    BY <1>0, ColumnTypes
  <2>2. k.snap \in TicketRow /\ ticket.status \in Status \cup {NoStatus}
    BY <1>0 DEF WorkerState, TicketRow
  <2> HIDE DEF row
  <2> QED
    BY <2>1, <2>2, SavedRowType
<1>2. /\ saved.status = k.to
      /\ saved.paused = paused
      /\ saved.stamped <=> k.to \in Closed
      /\ saved.solved <=> k.to = "resolved"
      /\ saved.preWait # NoStatus => k.to \in Pausing /\ saved.preWait \notin Pausing
      /\ saved.preWait = RememberedAfter(k.to)
      /\ saved.task = IF IsService(k.op) /\ ticket.status = "resolved"
                      THEN NoTask ELSE ticket.task
  <2> HIDE DEF saved
  <2>1. saved = SavedRow(k.op, [ticket EXCEPT !.paused = paused], k.snap, ticket.status, k.to)
    BY DEF saved
  <2> QED
    BY <1>0, <2>1, AloneColumns
<1>3. ticket' = [saved EXCEPT !.paused = after] /\ card' = k.to
  BY DEF WriteOver
<1>4. openPauses' = PausesAfter(open, ticket.status, k.to)
  BY DEF WriteOver
<1> HIDE DEF saved
<1>5. after \in BOOLEAN
  BY <1>2, PausedType
<1>6. (openPauses' = 1 <=> after) /\ (openPauses' > 0 => openPauses' = 1 /\ k.to \in Pausing)
  <2>1. CASE EntersWait(ticket.status, k.to)
    BY <1>4, <2>1 DEF PausesAfter, PausedAfter, EntersWait
  <2>2. CASE ~EntersWait(ticket.status, k.to) /\ LeavesWait(ticket.status, k.to) /\ open > 0
    BY <1>4, <2>2 DEF PausesAfter, PausedAfter
  <2>3. CASE ~EntersWait(ticket.status, k.to) /\ ~(LeavesWait(ticket.status, k.to) /\ open > 0)
    <3>1. openPauses' = open
      BY <1>4, <2>3 DEF PausesAfter
    <3>2. after = paused
      BY <1>2, <2>3, Zenon DEF PausedAfter
    <3>3. open > 0 => k.to \in Pausing
      BY <2>3 DEF LeavesWait
    <3> HIDE DEF after
    <3> QED
      BY <3>1, <3>2, <3>3
  <2> QED
    BY <2>1, <2>2, <2>3
<1>11. after = StoppedAfter(k.to, paused)
  <2>1. CASE EntersWait(ticket.status, k.to)
    BY <2>1 DEF PausedAfter, EntersWait, StoppedAfter
  <2>2. CASE ~EntersWait(ticket.status, k.to) /\ LeavesWait(ticket.status, k.to) /\ open > 0
    BY <2>2 DEF PausedAfter, LeavesWait, StoppedAfter
  <2>3. CASE ~EntersWait(ticket.status, k.to) /\ ~(LeavesWait(ticket.status, k.to) /\ open > 0)
    <3>1. after = paused
      BY <1>2, <2>3, Zenon DEF PausedAfter
    <3>2. paused => ticket.status \in Pausing /\ k.to \in Pausing
      BY <2>3 DEF LeavesWait
    <3>3. k.to \in Pausing => ticket.status \in Pausing
      BY <2>3 DEF EntersWait
    <3> HIDE DEF after
    <3> QED
      BY <3>1, <3>2, <3>3 DEF StoppedAfter
  <2> QED
    BY <2>1, <2>2, <2>3
<1> HIDE DEF after
<1>7. /\ ticket'.status = saved.status /\ ticket'.stamped = saved.stamped
      /\ ticket'.solved = saved.solved /\ ticket'.preWait = saved.preWait
      /\ ticket'.task = saved.task /\ ticket'.paused = after
  BY <1>1, <1>3, <1>5 DEF TicketRow
<1>8. TimestampsMatchStatus'
  BY <1>2, <1>7 DEF TimestampsMatchStatus
<1>9. PauseMatchesWait'
  BY <1>2, <1>6, <1>7 DEF PauseMatchesWait
<1>10. PreWaitIsUsable'
  BY <1>2, <1>7 DEF PreWaitIsUsable
<1> QED
  BY <1>2, <1>3, <1>7, <1>8, <1>9, <1>10, <1>11 DEF RowInv

\* Only the one process moves, so what it holds is all that anyone holds.
LEMMA AloneGoto ==
    ASSUME OneAtATime, worker \in [Worker -> WorkerState], NEW w \in Worker, NEW k, Goto(w, k)
    PROVE  \A v \in Worker : worker'[v] = k
<1>1. \A v \in Worker : v = w
  BY DEF OneAtATime
<1>2. worker'[w] = k
  BY DEF Goto
<1> QED
  BY <1>1, <1>2

\* A handler that has nothing in hand that it decided on.
Undecided(k) == k.pc \notin {"loaded", "saving", "dropped"}

LEMMA AfterCommitUndecided ==
    ASSUME NEW k PROVE Undecided(AfterCommit(k))
<1>1. CASE k.op = "autoclose"
  BY <1>1 DEF AfterCommit, Undecided, Busy
<1>2. CASE k.op # "autoclose" /\ IsService(k.op) /\ k.to = "resolved"
  BY <1>2 DEF AfterCommit, Undecided, Busy
<1>3. CASE k.op # "autoclose" /\ ~(IsService(k.op) /\ k.to = "resolved")
  BY <1>3 DEF AfterCommit, Undecided, Busy, Idle
<1> QED
  BY <1>1, <1>2, <1>3

LEMMA UndecidedFresh ==
    ASSUME OneAtATime, TypeOK, NEW w \in Worker, NEW k, Goto(w, k), Undecided(k)
    PROVE  FreshInv'
BY AloneGoto DEF TypeOK, FreshInv, Decided, Undecided

LEMMA SameRow ==
    ASSUME RowInv, ticket \in TicketRow, UNCHANGED openPauses, NEW t,
           ticket' = ticket \/ ticket' = [ticket EXCEPT !.task = t]
    PROVE  RowInv' /\ ticket'.status = ticket.status
<1>1. /\ ticket'.status = ticket.status /\ ticket'.stamped = ticket.stamped
      /\ ticket'.solved = ticket.solved /\ ticket'.preWait = ticket.preWait
      /\ ticket'.paused = ticket.paused
  BY DEF TicketRow
<1> QED
  BY <1>1 DEF RowInv, TimestampsMatchStatus, PauseMatchesWait, PreWaitIsUsable

LEMMA AloneInit == Ordinary /\ Init => AloneInv
<1> SUFFICES ASSUME Ordinary, Init PROVE AloneInv
  OBVIOUS
<1>1. PICK s \in CreateIn : ticket = NewTicket(s)
  BY DEF Init
<1>2. \A w \in Worker : worker[w].pc = "idle"
  BY DEF Init, Idle, Busy
<1>3. s \notin Closed \cup {"resolved"} /\ openPauses = 0
  BY DEF Ordinary, Init
<1>4. RowInv
  BY <1>1, <1>3 DEF RowInv, TimestampsMatchStatus, PauseMatchesWait, PreWaitIsUsable, NewTicket
<1> QED
  BY <1>2, <1>4, TypeInit DEF AloneInv, FreshInv, Decided

\* The row's status changes only as a handler has decided.
MovesAsDecided ==
    \/ ticket'.status = ticket.status
    \/ \E w \in Worker : /\ worker[w].pc \in {"loaded", "saving"}
                         /\ worker[w].to \in Status
                         /\ ticket'.status = worker[w].to

\* A save, of either form, does to the row what its handler has decided.
LEMMA SaveEffect ==
    ASSUME Ordinary, AloneInv, NEW w \in Worker, Save(w) \/ ResumeOnReply(w)
    PROVE  /\ RowInv'
           /\ worker[w].pc \in {"loaded", "saving"} /\ worker[w].to \in Status
           /\ ticket'.status = worker[w].to
           /\ ticket'.preWait = RememberedAfter(worker[w].to)
           /\ ticket'.paused = StoppedAfter(worker[w].to, ticket.paused)
           /\ ticket'.task = IF IsService(worker[w].op) /\ ticket.status = "resolved"
                             THEN NoTask ELSE ticket.task
           /\ card' = worker[w].to
<1> DEFINE k == worker[w]
<1>a. /\ TypeOK /\ RowInv /\ ticket \in TicketRow
      /\ k \in WorkerState /\ StepOK(k) /\ Decided(k)
  BY DEF AloneInv, FreshInv, TypeInv, TypeOK
<1>1. CASE Save(w)
  <2>1. k.pc = "saving" /\ k.to \in Status /\ k.prev = ticket.status
    BY <1>1, <1>a DEF Save, StepOK, Decided
  <2>2. ticket.paused \in BOOLEAN /\ ticket = [ticket EXCEPT !.paused = ticket.paused]
    BY <1>a DEF TicketRow
  <2>3. WriteOver([ticket EXCEPT !.paused = ticket.paused], openPauses, k.op, k.snap,
                  ticket.status, k.to)
    BY <1>1, <2>1, <2>2 DEF Save
  <2>4. /\ openPauses \in Nat
        /\ openPauses = 1 <=> ticket.paused
        /\ openPauses > 0 => openPauses = 1 /\ ticket.status \in Pausing
    BY <1>a DEF TypeOK, RowInv, PauseMatchesWait
  <2> HIDE DEF k
  <2> QED
    BY <1>a, <2>1, <2>2, <2>3, <2>4, AloneWriteOver DEF k
<1>2. CASE ResumeOnReply(w)
  <2>1. /\ k.pc = "loaded" /\ k.op = "reply"
        /\ openPauses = 1 /\ ticket.status \in Pausing
    BY <1>2, <1>a DEF ResumeOnReply, RowInv, PauseMatchesWait
  <2>2. k.to \in Status
    <3>1. k.to = ReplyTarget(ticket)
      BY <1>a, <2>1 DEF Decided, Targets
    <3>2. k.to = ResumeTarget(ticket)
      BY <2>1, <3>1, StatusAssumption DEF ReplyTarget
    <3> QED
      BY <3>2, StatusAssumption DEF ResumeTarget
  <2>3. WriteOver([ticket EXCEPT !.paused = FALSE], 0, k.op, k.snap, ticket.status, k.to)
    BY <1>2, <2>1, <2>2, StatusAssumption DEF ResumeOnReply
  <2>4. /\ 0 \in Nat /\ (0 = 1 <=> FALSE) /\ ~(0 > 0) /\ FALSE \in BOOLEAN
        /\ k.pc \in {"loaded", "saving"} /\ k.op # "edit"
    BY <2>1
  <2>5. k.op = "edit" => FALSE = ticket.paused
    BY <2>4
  <2>6. StoppedAfter(k.to, FALSE) = StoppedAfter(k.to, ticket.paused)
    <3>1. k.to = ResumeTarget(ticket)
      BY <1>a, <2>1, StatusAssumption DEF Decided, Targets, ReplyTarget
    <3>2. k.to \notin Pausing
      BY <3>1, StatusAssumption DEF ResumeTarget
    <3> QED
      BY <3>2 DEF StoppedAfter
  <2> HIDE DEF k
  <2> QED
    BY <1>a, <2>1, <2>2, <2>3, <2>4, <2>5, <2>6, AloneWriteOver DEF k
<1> QED
  BY <1>1, <1>2

LEMMA AloneStep ==
    OneAtATime /\ Ordinary /\ AloneInv /\ [Next]_vars => AloneInv' /\ MovesAsDecided
<1> SUFFICES ASSUME OneAtATime, Ordinary, AloneInv, [Next]_vars
             PROVE  FreshInv' /\ RowInv' /\ MovesAsDecided
  BY TypeStep DEF AloneInv
<1>a. /\ TypeOK /\ RowInv /\ ticket \in TicketRow
      /\ \A v \in Worker : /\ worker[v] \in WorkerState /\ StepOK(worker[v])
                           /\ Decided(worker[v])
  BY DEF AloneInv, FreshInv, TypeInv, TypeOK
\* A step that leaves the row alone, or changes the stored task id only.
<1>b. ASSUME UNCHANGED openPauses, NEW t,
             ticket' = ticket \/ ticket' = [ticket EXCEPT !.task = t]
      PROVE  RowInv' /\ MovesAsDecided
  BY <1>a, <1>b, SameRow DEF MovesAsDecided
<1>c. Undecided(Idle)
  BY DEF Undecided, Idle, Busy
<1>1. ASSUME NEW w \in Worker, NEW op \in Handlers \ {"kanban"},
             NEW to \in Status \cup {NoStatus}, Begin(w, op, to)
      PROVE  FreshInv' /\ RowInv' /\ MovesAsDecided
  <2>1. PICK t \in TaskFor(op, to) : Goto(w, Busy("loaded", op, to, ticket, t))
    BY <1>1 DEF Begin
  <2>2. \A v \in Worker : worker'[v] = Busy("loaded", op, to, ticket, t)
    BY <1>a, <2>1, AloneGoto DEF TypeOK
  <2>3. to \in Targets(op, ticket) /\ UNCHANGED <<ticket, openPauses>>
    BY <1>1 DEF Begin
  <2>4. op \notin {"kanban", "autoclose"}
    BY HandlerAssumption DEF AllHandlers
  <2>5. FreshInv'
    BY <2>2, <2>3, <2>4 DEF FreshInv, Decided, Busy, Targets, Transitions, ReplyTarget, ResumeTarget
  <2> QED
    BY <1>b, <2>3, <2>5
<1>2. ASSUME NEW w \in Worker, NEW s \in Status, "kanban" \in Handlers, DropCard(w, s)
      PROVE  FreshInv' /\ RowInv' /\ MovesAsDecided
  <2>1. PICK t \in TaskFor("kanban", s) : Goto(w, Busy("dropped", "kanban", s, Blank, t))
    BY <1>2 DEF DropCard
  <2>2. \A v \in Worker : worker'[v] = Busy("dropped", "kanban", s, Blank, t)
    BY <1>a, <2>1, AloneGoto DEF TypeOK
  <2>3. FreshInv'
    BY <1>2, <2>2 DEF FreshInv, Decided, Busy
  <2> QED
    BY <1>2, <1>b, <2>3 DEF DropCard
<1>3. ASSUME NEW w \in Worker, PickUpDropped(w)
      PROVE  FreshInv' /\ RowInv' /\ MovesAsDecided
  <2> DEFINE n == [worker[w] EXCEPT !.pc = "loaded", !.snap = ticket]
  <2>1. worker[w].op = "kanban" /\ "kanban" \in Handlers /\ UNCHANGED <<ticket, openPauses>>
    BY <1>3 DEF PickUpDropped, AloneInv, FreshInv
  <2>2. /\ n.pc = "loaded" /\ n.snap = ticket /\ n.op = "kanban" /\ n.to = worker[w].to
    BY <1>a, <2>1 DEF WorkerState
  <2>3. FreshInv'
    <3>1. CASE ticket.status = worker[w].to
      BY <1>3, <1>a, <1>c, <3>1, UndecidedFresh DEF PickUpDropped
    <3>2. CASE ticket.status # worker[w].to
      <4>1. Goto(w, n)
        BY <1>3, <3>2 DEF PickUpDropped
      <4> HIDE DEF n
      <4>2. \A v \in Worker : worker'[v] = n
        BY <1>a, <4>1, AloneGoto DEF TypeOK
      <4> QED
        BY <2>1, <2>2, <3>2, <4>2 DEF FreshInv, Decided
    <3> QED
      BY <3>1, <3>2
  <2> QED
    BY <1>b, <2>1, <2>3
<1>4. ASSUME NEW w \in Worker, PreSave(w)
      PROVE  FreshInv' /\ RowInv' /\ MovesAsDecided
  <2> DEFINE n == [worker[w] EXCEPT !.pc = "saving", !.prev = ticket.status]
  <2>1. worker[w].pc = "loaded" /\ Decided(worker[w]) /\ UNCHANGED <<ticket, openPauses>>
    BY <1>4, <1>a DEF PreSave
  <2>2. /\ n.pc = "saving" /\ n.prev = ticket.status /\ n.snap = worker[w].snap
        /\ n.op = worker[w].op /\ n.to = worker[w].to
    BY <1>a DEF WorkerState
  <2>3. FreshInv'
    <3>1. CASE worker[w].to = NoStatus
      BY <1>4, <1>a, <1>c, <3>1, UndecidedFresh DEF PreSave
    <3>2. CASE worker[w].to # NoStatus
      <4>1. Goto(w, n)
        BY <1>4, <3>2 DEF PreSave
      <4> HIDE DEF n
      <4>2. \A v \in Worker : worker'[v] = n
        BY <1>a, <4>1, AloneGoto DEF TypeOK
      <4>3. n.op \notin {"kanban", "autoclose"} => n.to \in Targets(n.op, ticket)
        BY <2>1, <2>2 DEF Decided
      <4> QED
        BY <2>1, <2>2, <4>2, <4>3
           DEF FreshInv, Decided, Targets, Transitions, ReplyTarget, ResumeTarget
    <3> QED
      BY <3>1, <3>2
  <2> QED
    BY <1>b, <2>1, <2>3
<1>5. ASSUME NEW w \in Worker, Save(w) \/ ResumeOnReply(w)
      PROVE  FreshInv' /\ RowInv' /\ MovesAsDecided
  <2>1. Goto(w, AfterCommit(worker[w]))
    BY <1>5 DEF Save, ResumeOnReply
  <2>2. FreshInv'
    BY <1>a, <2>1, AfterCommitUndecided, UndecidedFresh
  <2>3. /\ RowInv' /\ worker[w].pc \in {"loaded", "saving"} /\ worker[w].to \in Status
        /\ ticket'.status = worker[w].to
    BY <1>5, SaveEffect
  <2> QED
    BY <2>2, <2>3 DEF MovesAsDecided
<1>7. ASSUME NEW w \in Worker, Merge(w)
      PROVE  FALSE
  BY <1>7, <1>a DEF Merge, Decided, Ordinary
<1>8. ASSUME NEW w \in Worker, Publish(w)
      PROVE  FreshInv' /\ RowInv' /\ MovesAsDecided
  <2>1. Undecided([worker[w] EXCEPT !.pc = "record"])
    BY <1>a DEF Undecided, WorkerState
  <2>2. FreshInv'
    BY <1>8, <1>a, <2>1, UndecidedFresh DEF Publish
  <2> QED
    BY <1>8, <1>b, <2>2 DEF Publish
<1>9. ASSUME NEW w \in Worker, RecordTask(w)
      PROVE  FreshInv' /\ RowInv' /\ MovesAsDecided
  <2>1. FreshInv'
    BY <1>9, <1>a, <1>c, UndecidedFresh DEF RecordTask
  <2> QED
    BY <1>9, <1>b, <2>1 DEF RecordTask
<1>10. ASSUME NEW w \in Worker, NEW t \in TaskId, BeginAutoClose(w, t)
       PROVE  FreshInv' /\ RowInv' /\ MovesAsDecided
  <2>1. UNCHANGED <<ticket, openPauses>>
    BY <1>10 DEF BeginAutoClose
  <2>2. CASE ticket.status = "resolved" /\ ticket.task = t
    <3> DEFINE n == Busy("loaded", "autoclose", FirstClosed, ticket, t)
    <3>1. Goto(w, n)
      BY <1>10, <2>2 DEF BeginAutoClose
    <3>2. /\ n.pc = "loaded" /\ n.op = "autoclose" /\ n.to = FirstClosed
          /\ n.snap = ticket
      BY DEF Busy
    <3> HIDE DEF n
    <3>3. \A v \in Worker : worker'[v] = n
      BY <1>a, <3>1, AloneGoto DEF TypeOK
    <3>4. FreshInv'
      BY <2>1, <2>2, <3>2, <3>3 DEF FreshInv, Decided
    <3> QED
      BY <1>b, <2>1, <3>4
  <2>3. CASE ~(ticket.status = "resolved" /\ ticket.task = t)
    <3>1. UNCHANGED worker
      BY <1>10, <2>3 DEF BeginAutoClose
    <3>2. FreshInv'
      BY <2>1, <3>1 DEF AloneInv, FreshInv, Decided, Targets, Transitions, ReplyTarget, ResumeTarget
    <3> QED
      BY <1>b, <2>1, <3>2
  <2> QED
    BY <2>2, <2>3
<1>11. ASSUME NEW w \in Worker, ClearTask(w)
       PROVE  FreshInv' /\ RowInv' /\ MovesAsDecided
  <2>1. FreshInv'
    BY <1>11, <1>a, <1>c, UndecidedFresh DEF ClearTask
  <2> QED
    BY <1>11, <1>b, <2>1 DEF ClearTask
<1>12. ASSUME NEW w \in Worker, Die(w)
       PROVE  FreshInv' /\ RowInv' /\ MovesAsDecided
  <2>1. FreshInv'
    BY <1>12, <1>a, <1>c, UndecidedFresh DEF Die
  <2> QED
    BY <1>12, <1>b, <2>1 DEF Die
<1>13. CASE UNCHANGED vars
  <2>1. FreshInv'
    BY <1>13 DEF vars, AloneInv, FreshInv, Decided, Targets, Transitions, ReplyTarget, ResumeTarget
  <2> QED
    BY <1>13, <1>b, <2>1 DEF vars
<1> QED
  BY <1>1, <1>2, <1>3, <1>4, <1>5, <1>7, <1>8, <1>9, <1>10, <1>11, <1>12, <1>13
     DEF Next, Step

\* signals.handle_ticket_status_change, change_ticket_status: with one handler at a
\* time, also one that dies half way, every change of status leaves the closure and
\* resolution marks that the new status calls for.
THEOREM TimestampsStayMatched == OneAtATime /\ Ordinary /\ Spec => []TimestampsMatchStatus
<1>1. AloneInv => TimestampsMatchStatus
  BY DEF AloneInv, RowInv
<1>2. ASSUME OneAtATime, Ordinary PROVE Spec => []TimestampsMatchStatus
  BY <1>1, <1>2, AloneInit, AloneStep, PTL DEF Spec
<1> QED
  BY <1>2

\* handle_sla_pause_on_status_change and resume_from_wait: the open SLAPause row, sla_paused_at and
\* the waiting status come and go together, however the wait ends.
THEOREM PausesStayMatched == OneAtATime /\ Ordinary /\ Spec => []PauseMatchesWait
<1>1. AloneInv => PauseMatchesWait
  BY DEF AloneInv, RowInv
<1>2. ASSUME OneAtATime, Ordinary PROVE Spec => []PauseMatchesWait
  BY <1>1, <1>2, AloneInit, AloneStep, PTL DEF Spec
<1> QED
  BY <1>2

\* pre_wait_status: what is remembered belongs to the wait the ticket is in, and
\* going back to it ends that wait.
THEOREM PreWaitStaysUsable == OneAtATime /\ Ordinary /\ Spec => []PreWaitIsUsable
<1>1. AloneInv => PreWaitIsUsable
  BY DEF AloneInv, RowInv
<1>2. ASSUME OneAtATime, Ordinary PROVE Spec => []PreWaitIsUsable
  BY <1>1, <1>2, AloneInit, AloneStep, PTL DEF Spec
<1> QED
  BY <1>2

-----------------------------------------------------------------------------
(* The transition map and the refinement.                                   *)

\* Where the statuses a tenant adds do not get in the way of the map: the service
\* itself goes to the first closed status and back to the remembered one without
\* consulting it.
MapCoversService ==
    /\ FirstClosed = "closed" /\ "closed" \notin Pausing
    /\ Status \ (Closed \cup Pausing) = {"open", "in-progress", "resolved"}

\* What a handler of the service path has decided, the map allows.
LEMMA DecisionsAreLegal ==
    ASSUME Ordinary, MapCoversService, NEW k, Decided(k), k.pc \in {"loaded", "saving"},
           ticket \in TicketRow, RowInv, k.to \in Status, k.op \in ServicePath \cup {"edit"}
    PROVE  k.to \in AllowedFrom(ticket.status) \cup {ticket.status}
<1> DEFINE s == ticket.status
<1>0. s \in Status
  BY DEF TicketRow
<1>1. CASE k.op \in {"transition", "close"}
  BY <1>1 DEF Decided, Targets, Transitions
<1>2. CASE k.op = "edit"
  BY <1>2 DEF Decided, Targets
<1>3. CASE k.op \in {"reply", "agentReply"}
  <2>1. k.to = ReplyTarget(ticket)
    BY <1>3 DEF Decided, Targets
  <2>2. CASE s = "resolved"
    BY <2>1, <2>2, StatusAssumption DEF ReplyTarget, AllowedFrom
  <2>3. CASE s # "resolved" /\ s \in Pausing
    <3>1. k.to \in {"open", "in-progress", "resolved"}
      BY <2>1, <2>3 DEF ReplyTarget, ResumeTarget, MapCoversService
    <3>2. s \notin {"open", "in-progress", "closed"}
      BY <2>3, StatusAssumption DEF MapCoversService
    <3>3. AllowedFrom(s) = {"open", "in-progress", "resolved", "closed"} \/ AllowedFrom(s) = Status
      BY <2>3, <3>2 DEF AllowedFrom
    <3> QED
      BY <3>1, <3>3
  <2>4. CASE s # "resolved" /\ s \notin Pausing
    BY <2>1, <2>4, StatusAssumption DEF ReplyTarget
  <2> QED
    BY <2>2, <2>3, <2>4
<1>4. CASE k.op = "assign"
  <2>1. k.to = "in-progress" /\ s = Default
    BY <1>4 DEF Decided, Targets
  <2>2. s \notin {"resolved", "closed"}
    BY <2>1, StatusAssumption DEF Ordinary
  <2> QED
    BY <2>1, <2>2, StatusAssumption DEF AllowedFrom
<1>5. CASE k.op = "autoclose"
  BY <1>5 DEF Decided, AllowedFrom, MapCoversService
<1> QED
  BY <1>1, <1>2, <1>3, <1>4, <1>5 DEF ServicePath

\* What the next status may be, for the process that holds a decision.
LEMMA MovesAreLegal ==
    ASSUME OneAtATime, Ordinary, MapCoversService, AloneInv, MovesAsDecided,
           NEW w \in Worker, worker[w].op \in ServicePath \cup {"edit"}
    PROVE  ticket.status' \in AllowedFrom(ticket.status) \cup {ticket.status}
<1>1. CASE ticket'.status = ticket.status
  BY <1>1
<1>2. CASE \E v \in Worker : /\ worker[v].pc \in {"loaded", "saving"}
                            /\ worker[v].to \in Status
                            /\ ticket'.status = worker[v].to
  <2>1. /\ worker[w].pc \in {"loaded", "saving"} /\ worker[w].to \in Status
        /\ ticket'.status = worker[w].to
    BY <1>2 DEF OneAtATime
  <2>2. Decided(worker[w]) /\ ticket \in TicketRow /\ RowInv
    BY DEF AloneInv, FreshInv, TypeInv, TypeOK
  <2> QED
    BY <2>1, <2>2, DecisionsAreLegal
<1> QED
  BY <1>1, <1>2 DEF MovesAsDecided

\* change_ticket_status behind its validated callers, resume_from_wait and the
\* auto-close task: no legal sequence of requests takes a closed ticket out of closed,
\* or any ticket off the map, by way of the service.
THEOREM ServiceKeepsToMap ==
    OneAtATime /\ Ordinary /\ MapCoversService /\ Spec => ServiceMovesAreLegal
<1>1. ASSUME OneAtATime, Ordinary, MapCoversService, AloneInv, [Next]_vars
      PROVE  [\A w \in Worker :
                 worker[w].op \in ServicePath /\ worker'[w] # worker[w] =>
                    ticket.status' \in AllowedFrom(ticket.status) \cup {ticket.status}]_vars
  BY <1>1, AloneStep, MovesAreLegal
<1>2. ASSUME OneAtATime, Ordinary, MapCoversService PROVE Spec => ServiceMovesAreLegal
  BY <1>1, <1>2, AloneInit, AloneStep, PTL DEF Spec, ServiceMovesAreLegal
<1> QED
  BY <1>2

\* The abstract service begins with the marks of its first status ...
LEMMA PromiseInit == Ordinary /\ Init => Promise!Init
<1> SUFFICES ASSUME Ordinary, Init PROVE Promise!Init
  OBVIOUS
<1>1. PICK s \in CreateIn : ticket = NewTicket(s)
  BY DEF Init
<1>2. s \notin Closed \cup {"resolved"}
  BY DEF Ordinary
<1>3. /\ ticket.status = s /\ ticket.stamped = FALSE /\ ticket.solved = FALSE
      /\ ticket.preWait = NoStatus /\ ticket.paused = FALSE
      /\ (s \in Closed) = FALSE /\ (s = "resolved") = FALSE
  BY <1>1, <1>2 DEF NewTicket
<1>4. DecidedBy = "nobody"
  BY DEF Init, Idle, Busy, DecidedBy
<1> QED
  BY <1>3, <1>4, Zenon DEF Promise!Init, Promise!Marks

\* What a reader of the row sees.
Columns == <<ticket.status, ticket.stamped, ticket.solved, ticket.preWait, ticket.paused>>

\* ... only a save writes the columns that readers look at ...
LEMMA OnlySavesWrite ==
    ASSUME Ordinary, AloneInv, [Next]_vars
    PROVE  UNCHANGED Columns \/ \E w \in Worker : Save(w) \/ ResumeOnReply(w)
<1>1. ticket \in TicketRow
  BY DEF AloneInv, TypeInv, TypeOK
<1>2. ASSUME NEW t, ticket' = ticket \/ ticket' = [ticket EXCEPT !.task = t]
      PROVE  UNCHANGED Columns
  BY <1>1, <1>2 DEF TicketRow, Columns
<1>3. ASSUME NEW w \in Worker, Merge(w)
      PROVE  FALSE
  BY <1>3 DEF Merge, AloneInv, FreshInv, Decided, Ordinary
<1>4. ASSUME NEW w \in Worker, RecordTask(w) \/ ClearTask(w)
      PROVE  UNCHANGED Columns
  BY <1>2, <1>4 DEF RecordTask, ClearTask
<1>5. ASSUME NEW w \in Worker, PickUpDropped(w) \/ PreSave(w) \/ Publish(w) \/ Die(w)
      PROVE  UNCHANGED Columns
  BY <1>2, <1>5 DEF PickUpDropped, PreSave, Publish, Die
<1>6. ASSUME NEW w \in Worker, NEW op, NEW to, Begin(w, op, to)
      PROVE  UNCHANGED Columns
  BY <1>2, <1>6 DEF Begin
<1>7. ASSUME NEW w \in Worker, NEW s, DropCard(w, s)
      PROVE  UNCHANGED Columns
  BY <1>2, <1>7 DEF DropCard
<1>8. ASSUME NEW w \in Worker, NEW t, BeginAutoClose(w, t)
      PROVE  UNCHANGED Columns
  BY <1>2, <1>8 DEF BeginAutoClose
<1>9. CASE UNCHANGED vars
  BY <1>2, <1>9 DEF vars
<1> QED
  BY <1>3, <1>4, <1>5, <1>6, <1>7, <1>8, <1>9 DEF Next, Step

\* ... and every step of the handlers is one of its moves, a decision, or nothing.
LEMMA PromiseStep ==
    ASSUME OneAtATime, Ordinary, MapCoversService, AloneInv, [Next]_vars
    PROVE  [Promise!Next]_<<Promise!ticket, DecidedBy>>
<1> DEFINE s == ticket.status
           t == ticket'.status
<1>1. AloneInv' /\ MovesAsDecided
  BY AloneStep
<1>2. /\ ticket.stamped <=> s \in Closed
      /\ ticket.solved <=> s = "resolved"
      /\ ticket'.stamped <=> t \in Closed
      /\ ticket'.solved <=> t = "resolved"
      /\ PreWaitIsUsable /\ PauseMatchesWait
  BY <1>1 DEF AloneInv, RowInv, TimestampsMatchStatus
<1>3. ticket \in TicketRow /\ ticket' \in TicketRow /\ openPauses \in Nat
  BY <1>1 DEF AloneInv, TypeInv, TypeOK
<1>4. /\ {ticket.stamped, ticket.solved, ticket'.stamped, ticket'.solved} \subseteq BOOLEAN
      /\ ticket.paused \in BOOLEAN
      /\ s \in Status /\ t \in Status
  BY <1>3 DEF TicketRow
<1>5. DecidedBy' \in {"nobody", "byMap", "atWill"}
  BY DEF DecidedBy
<1>6. ASSUME UNCHANGED Columns PROVE Promise!Next
  BY <1>5, <1>6 DEF Columns, Promise!Next, Promise!Decide, Promise!ticket
<1>7. ASSUME NEW w \in Worker, Save(w) \/ ResumeOnReply(w)
      PROVE  Promise!Next
  <2>1. /\ worker[w].pc \in {"loaded", "saving"}
        /\ t = worker[w].to
        /\ ticket'.preWait = RememberedAfter(t)
        /\ ticket'.paused = StoppedAfter(t, ticket.paused)
    BY <1>7, SaveEffect
  <2>2. CASE t = s
    <3>1. ticket'.stamped = ticket.stamped /\ ticket'.solved = ticket.solved
      BY <1>2, <1>4, <2>2
    <3>2. ticket'.preWait = ticket.preWait
      BY <1>2, <2>1, <2>2 DEF RememberedAfter, PreWaitIsUsable
    <3>3. ticket.paused => s \in Pausing
      BY <1>2, <1>3 DEF PauseMatchesWait
    <3>4. ticket'.paused = ticket.paused
      BY <1>4, <2>1, <2>2, <3>3 DEF StoppedAfter
    <3> QED
      BY <1>6, <2>2, <3>1, <3>2, <3>4 DEF Columns
  <2>3. CASE t # s
    <3>1. DecidedBy # "nobody" /\ DecidedBy' = "nobody"
      <4>1. Goto(w, AfterCommit(worker[w]))
        BY <1>7 DEF Save, ResumeOnReply
      <4>2. \A v \in Worker : worker'[v] = AfterCommit(worker[w])
        BY <4>1, AloneGoto DEF AloneInv, TypeInv, TypeOK
      <4> QED
        BY <2>1, <4>2, AfterCommitUndecided DEF DecidedBy, Undecided
    <3>2. DecidedBy = "byMap" => <<s, t>> \in TransitionMap
      <4>1. SUFFICES ASSUME DecidedBy = "byMap" PROVE t \in AllowedFrom(s)
        BY <1>4, <2>3 DEF TransitionMap
      <4>2. PICK v \in Worker : worker[v].op \in ServicePath
        BY <4>1 DEF DecidedBy
      <4> QED
        BY <1>1, <2>3, <4>2, MovesAreLegal
    <3>3. Promise!Marks(t, ticket'.stamped, ticket'.solved)
      BY <1>2, <1>4 DEF Promise!Marks
    <3>4. ticket'.preWait = Promise!Remembered(s, t)
      BY <2>1 DEF RememberedAfter, Promise!Remembered
    <3>5. ticket'.paused = Promise!Stopped(s, t)
      BY <2>1 DEF StoppedAfter, Promise!Stopped
    <3>6. Promise!Move(t)
      BY <3>1, <3>2, <3>3, <3>4, <3>5 DEF Promise!Move, Promise!Marks
    <3> QED
      BY <1>4, <2>3, <3>6 DEF Promise!Next
  <2> QED
    BY <2>2, <2>3
<1> QED
  BY <1>6, <1>7, OnlySavesWrite

\* The ticket service implements StatusPromise: what its readers see is one atomic move
\* for each handler, whatever steps and receivers it takes, along the map where the
\* handler consults it, with the marks and the wait's columns that belong to it.
THEOREM PromiseIsKept ==
    OneAtATime /\ Ordinary /\ MapCoversService /\ Spec => PromiseKept
<1>1. ASSUME OneAtATime, Ordinary, MapCoversService PROVE Spec => PromiseKept
  BY <1>1, AloneInit, AloneStep, PromiseInit, PromiseStep, PTL
     DEF Spec, PromiseKept, Promise!Spec
<1> QED
  BY <1>1

-----------------------------------------------------------------------------
(* The card and the auto-close task, where processes live and the broker    *)
(* takes every task.                                                        *)

\* While a board request runs, the card lies where it was dropped.
OnBoard(k) == k.op = "kanban" /\ k.pc \in {"dropped", "loaded", "saving"}

CardInv ==
    \A w \in Worker : card = IF OnBoard(worker[w]) THEN worker[w].to ELSE ticket.status

Scheduled ==
    /\ ticket.status = "resolved" => ticket.task \in pending
    /\ ticket.status # "resolved" => ticket.task = NoTask

\* How far a handler has come in revoking the old task and publishing the new one.
OnSchedule(k) ==
    /\ k.pc \in {"idle", "dropped"} => Scheduled
    /\ k.pc = "loaded" /\ k.op # "autoclose" => Scheduled
    /\ k.pc = "saving" /\ k.op # "autoclose" =>
          /\ ticket.status # "resolved" => ticket.task = NoTask
          /\ ticket.status = "resolved" /\ ~IsService(k.op) => ticket.task \in pending
    /\ k.pc = "publish" => ticket.status = "resolved"
    /\ k.pc = "record" => ticket.status = "resolved" /\ k.task \in pending
    /\ k.pc = "clear" => ticket.status # "resolved"

QuietInv == AloneInv /\ CardInv /\ \A w \in Worker : OnSchedule(worker[w])

LEMMA QuietInit == Ordinary /\ Init => QuietInv
<1> SUFFICES ASSUME Ordinary, Init PROVE CardInv /\ \A w \in Worker : OnSchedule(worker[w])
  BY AloneInit DEF QuietInv
<1>1. PICK s \in CreateIn : ticket = NewTicket(s) /\ card = s
  BY DEF Init
<1>2. \A w \in Worker : worker[w].pc = "idle" /\ worker[w].op = "none"
  BY DEF Init, Idle, Busy
<1>3. s # "resolved"
  BY DEF Ordinary
<1> QED
  BY <1>1, <1>2, <1>3 DEF CardInv, OnBoard, OnSchedule, Scheduled, NewTicket

\* Revoking takes away the task of a resolved ticket that a service moves on, or none.
LEMMA RevokeSpares ==
    ASSUME NEW k, Revoke(k), k.snap = ticket,
           ~(IsService(k.op) /\ ticket.status = "resolved" /\ k.to # "resolved")
    PROVE  pending' = pending
BY DEF Revoke

LEMMA QuietStep ==
    ~Faulty /\ OneAtATime /\ Ordinary /\ QuietInv /\ [Next]_vars => QuietInv'
<1> DEFINE Quiet == CardInv /\ \A w \in Worker : OnSchedule(worker[w])
<1> SUFFICES ASSUME ~Faulty, OneAtATime, Ordinary, QuietInv, [Next]_vars
             PROVE  CardInv' /\ \A w \in Worker : OnSchedule(worker[w])'
  BY AloneStep DEF QuietInv
<1>a. /\ AloneInv /\ RowInv /\ ticket \in TicketRow /\ worker \in [Worker -> WorkerState]
      /\ \A v \in Worker : /\ worker[v] \in WorkerState /\ StepOK(worker[v])
                           /\ Decided(worker[v]) /\ OnSchedule(worker[v])
                           /\ worker[v].pc = "dropped" => worker[v].op = "kanban"
                           /\ card = IF OnBoard(worker[v])
                                     THEN worker[v].to ELSE ticket.status
  BY DEF QuietInv, CardInv, AloneInv, FreshInv, TypeInv, TypeOK
\* What suffices, given what the one process goes on to do.
<1>b. ASSUME NEW w \in Worker, NEW k, Goto(w, k),
             card' = IF OnBoard(k) THEN k.to ELSE ticket'.status,
             \A v \in Worker : worker'[v] = k => OnSchedule(worker[v])'
      PROVE  CardInv' /\ \A v \in Worker : OnSchedule(worker[v])'
  <2>1. \A v \in Worker : worker'[v] = k
    BY <1>a, <1>b, AloneGoto
  <2> QED
    BY <1>b, <2>1 DEF CardInv, OnBoard
<1>c. Idle.pc = "idle" /\ ~OnBoard(Idle)
  BY DEF Idle, Busy, OnBoard
<1>1. ASSUME NEW w \in Worker, NEW op \in Handlers \ {"kanban"},
             NEW to \in Status \cup {NoStatus}, Begin(w, op, to)
      PROVE  Quiet'
  <2>1. PICK t \in TaskFor(op, to) : Goto(w, Busy("loaded", op, to, ticket, t))
    BY <1>1 DEF Begin
  <2>2. UNCHANGED <<ticket, card, pending>> /\ worker[w].pc = "idle"
    BY <1>1 DEF Begin
  <2> DEFINE k == Busy("loaded", op, to, ticket, t)
  <2>3. k.pc = "loaded" /\ k.op = op
    BY DEF Busy
  <2> HIDE DEF k
  <2>4. Scheduled /\ card = ticket.status
    BY <1>a, <2>2 DEF OnSchedule, OnBoard
  <2>5. Scheduled' /\ card' = ticket'.status
    BY <2>2, <2>4 DEF Scheduled
  <2> QED
    BY <1>b, <2>1, <2>3, <2>5 DEF OnSchedule, OnBoard, k
<1>2. ASSUME NEW w \in Worker, NEW s \in Status, DropCard(w, s)
      PROVE  Quiet'
  <2>1. PICK t \in TaskFor("kanban", s) : Goto(w, Busy("dropped", "kanban", s, Blank, t))
    BY <1>2 DEF DropCard
  <2>2. UNCHANGED <<ticket, pending>> /\ card' = s /\ worker[w].pc = "idle"
    BY <1>2 DEF DropCard
  <2> DEFINE k == Busy("dropped", "kanban", s, Blank, t)
  <2>3. k.pc = "dropped" /\ k.op = "kanban" /\ k.to = s
    BY DEF Busy
  <2> HIDE DEF k
  <2>4. Scheduled'
    BY <1>a, <2>2 DEF OnSchedule, Scheduled
  <2> QED
    BY <1>b, <2>1, <2>2, <2>3, <2>4 DEF OnSchedule, OnBoard, k
<1>3. ASSUME NEW w \in Worker, PickUpDropped(w)
      PROVE  Quiet'
  <2> DEFINE n == [worker[w] EXCEPT !.pc = "loaded", !.snap = ticket]
  <2>1. /\ UNCHANGED <<ticket, card, pending>> /\ worker[w].pc = "dropped"
        /\ worker[w].op = "kanban" /\ card = worker[w].to
    BY <1>3, <1>a DEF PickUpDropped, OnBoard
  <2>2. Scheduled'
    BY <1>a, <2>1 DEF OnSchedule, Scheduled
  <2>3. n.pc = "loaded" /\ n.op = "kanban" /\ n.to = worker[w].to
    BY <1>a, <2>1 DEF WorkerState
  <2> HIDE DEF n
  <2>4. CASE ticket.status = worker[w].to
    <3>1. Goto(w, Idle)
      BY <1>3, <2>4 DEF PickUpDropped
    <3> QED
      BY <1>b, <1>c, <2>1, <2>2, <2>4, <3>1 DEF OnSchedule
  <2>5. CASE ticket.status # worker[w].to
    <3>1. Goto(w, n)
      BY <1>3, <2>5 DEF PickUpDropped, n
    <3> QED
      BY <1>b, <2>1, <2>2, <2>3, <3>1 DEF OnSchedule, OnBoard
  <2> QED
    BY <2>4, <2>5
<1>4. ASSUME NEW w \in Worker, PreSave(w)
      PROVE  Quiet'
  <2> DEFINE n == [worker[w] EXCEPT !.pc = "saving", !.prev = ticket.status]
  <2>1. /\ UNCHANGED <<ticket, card>> /\ worker[w].pc = "loaded" /\ worker[w].snap = ticket
    BY <1>4, <1>a DEF PreSave, Decided
  <2>2. /\ n.pc = "saving" /\ n.op = worker[w].op /\ n.to = worker[w].to
    BY <1>a DEF WorkerState
  <2> HIDE DEF n
  <2>3. CASE worker[w].to = NoStatus
    <3>1. Goto(w, Idle) /\ UNCHANGED pending
      BY <1>4, <2>3 DEF PreSave
    <3>2. worker[w].op = "reply"
      BY <1>a, <2>1, <2>3, StatusAssumption DEF StepOK
    <3>3. Scheduled' /\ card = ticket.status
      BY <1>a, <2>1, <3>1, <3>2 DEF OnSchedule, Scheduled, OnBoard
    <3> QED
      BY <1>b, <1>c, <2>1, <3>1, <3>3 DEF OnSchedule
  <2>4. CASE worker[w].to # NoStatus
    <3>1. Goto(w, n) /\ Revoke(worker[w])
      BY <1>4, <2>4 DEF PreSave, n
    <3>2. card' = IF OnBoard(n) THEN n.to ELSE ticket'.status
      BY <1>a, <2>1, <2>2 DEF OnBoard
    <3>3. ASSUME n.op # "autoclose"
          PROVE  /\ ticket.status # "resolved" => ticket.task = NoTask
                 /\ ticket.status = "resolved" /\ ~IsService(n.op) => ticket.task \in pending'
      <4>1. Scheduled
        BY <1>a, <2>1, <2>2, <3>3 DEF OnSchedule
      <4>2. ~IsService(n.op) => pending' = pending
        BY <2>1, <2>2, <3>1, RevokeSpares
      <4> QED
        BY <4>1, <4>2 DEF Scheduled
    <3>4. \A v \in Worker : worker'[v] = n => OnSchedule(worker[v])'
      BY <2>1, <2>2, <3>3 DEF OnSchedule
    <3> QED
      BY <1>b, <3>1, <3>2, <3>4
  <2> QED
    BY <2>3, <2>4
<1>5. ASSUME NEW w \in Worker, Save(w) \/ ResumeOnReply(w)
      PROVE  Quiet'
  <2> DEFINE k == worker[w]
  <2>1. /\ k.pc \in {"loaded", "saving"} /\ k.to \in Status
        /\ ticket'.status = k.to
        /\ ticket'.task = IF IsService(k.op) /\ ticket.status = "resolved"
                          THEN NoTask ELSE ticket.task
        /\ card' = k.to
    BY <1>5, <1>a, SaveEffect
  <2>2. Goto(w, AfterCommit(k))
    BY <1>5 DEF Save, ResumeOnReply
  <2>3. /\ OnSchedule(k) /\ Decided(k) /\ k.snap = ticket
        /\ k.pc = "loaded" => k.op = "reply"
        /\ k.op # "reply" => pending' = pending
    BY <1>5, <1>a DEF Save, ResumeOnReply, Decided
  <2> HIDE DEF k
  <2>4. CASE k.op = "autoclose"
    <3> DEFINE n == Busy("clear", "autoclose", NoStatus, Blank, k.task)
    <3>1. Goto(w, n)
      BY <2>2, <2>4 DEF AfterCommit
    <3>2. n.pc = "clear" /\ ~OnBoard(n)
      BY DEF Busy, OnBoard
    <3>3. ticket'.status # "resolved"
      BY <2>1, <2>3, <2>4, StatusAssumption DEF Decided
    <3> HIDE DEF n
    <3> QED
      BY <1>b, <2>1, <3>1, <3>2, <3>3 DEF OnSchedule
  <2>5. CASE k.op # "autoclose" /\ IsService(k.op) /\ k.to = "resolved"
    <3> DEFINE n == Busy("publish", "none", NoStatus, Blank, k.task)
    <3>1. Goto(w, n)
      BY <2>2, <2>5 DEF AfterCommit
    <3>2. n.pc = "publish" /\ ~OnBoard(n)
      BY DEF Busy, OnBoard
    <3> HIDE DEF n
    <3> QED
      BY <1>b, <2>1, <2>5, <3>1, <3>2 DEF OnSchedule
  <2>6. CASE k.op # "autoclose" /\ ~(IsService(k.op) /\ k.to = "resolved")
    <3>1. Goto(w, Idle)
      BY <2>2, <2>6 DEF AfterCommit
    <3>2. ticket.status # "resolved" => ticket.task = NoTask
      BY <2>1, <2>3, <2>6 DEF OnSchedule, Scheduled
    <3>3. ~IsService(k.op) =>
             \/ k.op = "edit" /\ k.to = ticket.status
             \/ k.op = "assign" /\ k.to = "in-progress" /\ ticket.status = Default
      <4>1. ASSUME ~IsService(k.op) PROVE k.op \in {"edit", "assign"} /\ k.to \in Targets(k.op, ticket)
        BY <2>1, <2>3, <4>1 DEF IsService, Decided, Ordinary
      <4>2. ASSUME k.op = "edit", k.to \in Targets(k.op, ticket) PROVE k.to = ticket.status
        BY <4>2 DEF Targets
      <4>3. ASSUME k.op = "assign", k.to \in Targets(k.op, ticket)
            PROVE  k.to = "in-progress" /\ ticket.status = Default
        BY <4>3 DEF Targets
      <4> QED
        BY <4>1, <4>2, <4>3
    <3>4. CASE k.to = "resolved"
      <4>1. k.op = "edit" /\ ticket.status = "resolved" /\ ~IsService(k.op) /\ k.pc = "saving"
        BY <2>1, <2>3, <2>6, <3>3, <3>4
      <4>2. ticket'.task \in pending'
        BY <2>1, <2>3, <2>6, <4>1 DEF OnSchedule
      <4> QED
        BY <1>b, <1>c, <2>1, <3>1, <3>4, <4>2 DEF OnSchedule, Scheduled
    <3>5. CASE k.to # "resolved"
      <4>1. ticket'.task = NoTask
        BY <2>1, <3>2, <3>3, <3>5 DEF Ordinary
      <4> QED
        BY <1>b, <1>c, <2>1, <3>1, <3>5, <4>1 DEF OnSchedule, Scheduled
    <3> QED
      BY <3>4, <3>5
  <2> QED
    BY <2>4, <2>5, <2>6
<1>6. ASSUME NEW w \in Worker, Merge(w)
      PROVE  FALSE
  BY <1>6, <1>a DEF Merge, Decided, Ordinary
<1>7. ASSUME NEW w \in Worker, Publish(w)
      PROVE  Quiet'
  <2> DEFINE n == [worker[w] EXCEPT !.pc = "record"]
  <2>1. /\ UNCHANGED <<ticket, card>> /\ pending' = pending \cup {worker[w].task}
        /\ worker[w].pc = "publish" /\ Goto(w, n)
    BY <1>7 DEF Publish
  <2>2. n.pc = "record" /\ n.task = worker[w].task
    BY <1>a DEF WorkerState
  <2> HIDE DEF n
  <2>3. ticket.status = "resolved" /\ card = ticket.status
    BY <1>a, <2>1 DEF OnSchedule, OnBoard
  <2> QED
    BY <1>b, <2>1, <2>2, <2>3 DEF OnSchedule, OnBoard
<1>8. ASSUME NEW w \in Worker, RecordTask(w)
      PROVE  Quiet'
  <2>1. /\ UNCHANGED <<card, pending>> /\ ticket' = [ticket EXCEPT !.task = worker[w].task]
        /\ worker[w].pc = "record" /\ Goto(w, Idle)
    BY <1>8 DEF RecordTask
  <2>2. ticket.status = "resolved" /\ worker[w].task \in pending /\ card = ticket.status
    BY <1>a, <2>1 DEF OnSchedule, OnBoard
  <2>3. ticket'.status = ticket.status /\ ticket'.task = worker[w].task
    BY <1>a, <2>1 DEF TicketRow
  <2> QED
    BY <1>b, <1>c, <2>1, <2>2, <2>3 DEF OnSchedule, Scheduled
<1>9. ASSUME NEW w \in Worker, NEW t \in TaskId, BeginAutoClose(w, t)
      PROVE  Quiet'
  <2>1. /\ UNCHANGED <<ticket, card>> /\ pending' = pending \ {t} /\ worker[w].pc = "idle"
    BY <1>9 DEF BeginAutoClose
  <2>2. Scheduled /\ card = ticket.status
    BY <1>a, <2>1 DEF OnSchedule, OnBoard
  <2>3. CASE ticket.status = "resolved" /\ ticket.task = t
    <3> DEFINE n == Busy("loaded", "autoclose", FirstClosed, ticket, t)
    <3>1. Goto(w, n)
      BY <1>9, <2>3 DEF BeginAutoClose
    <3>2. n.pc = "loaded" /\ n.op = "autoclose"
      BY DEF Busy
    <3> HIDE DEF n
    <3> QED
      BY <1>b, <2>1, <2>2, <3>1, <3>2 DEF OnSchedule, OnBoard
  <2>4. CASE ~(ticket.status = "resolved" /\ ticket.task = t)
    <3>1. UNCHANGED worker
      BY <1>9, <2>4 DEF BeginAutoClose
    <3>2. Scheduled'
      BY <2>1, <2>2, <2>4 DEF Scheduled
    <3>3. \A v \in Worker : v = w
      BY DEF OneAtATime
    <3>4. \A v \in Worker : worker'[v].pc = "idle"
      BY <2>1, <3>1, <3>3
    <3> QED
      BY <2>1, <2>2, <3>2, <3>4 DEF CardInv, OnBoard, OnSchedule
  <2> QED
    BY <2>3, <2>4
<1>10. ASSUME NEW w \in Worker, ClearTask(w)
       PROVE  Quiet'
  <2>1. /\ UNCHANGED <<card, pending>> /\ ticket' = [ticket EXCEPT !.task = NoTask]
        /\ worker[w].pc = "clear" /\ Goto(w, Idle)
    BY <1>10 DEF ClearTask
  <2>2. ticket.status # "resolved" /\ card = ticket.status
    BY <1>a, <2>1 DEF OnSchedule, OnBoard
  <2>3. ticket'.status = ticket.status /\ ticket'.task = NoTask
    BY <1>a, <2>1 DEF TicketRow
  <2> QED
    BY <1>b, <1>c, <2>1, <2>2, <2>3 DEF OnSchedule, Scheduled
<1>11. ASSUME NEW w \in Worker, Die(w)
       PROVE  FALSE
  BY <1>11 DEF Die
<1>12. CASE UNCHANGED vars
  BY <1>12, <1>a DEF vars, CardInv, OnBoard, OnSchedule, Scheduled
<1> QED
  BY <1>1, <1>2, <1>3, <1>4, <1>5, <1>6, <1>7, <1>8, <1>9, <1>10, <1>11, <1>12
     DEF Next, Step

\* kanban move_card and sync_kanban_card_on_status_change: when no request runs, the
\* card lies in the column of the ticket's status, whichever of them moved first.
THEOREM CardStaysWithStatus ==
    ~Faulty /\ OneAtATime /\ Ordinary /\ Spec => []CardFollowsStatus
<1>1. OneAtATime /\ QuietInv => CardFollowsStatus
  BY DEF OneAtATime, QuietInv, CardInv, OnBoard, CardFollowsStatus, Quiescent
<1>2. ASSUME ~Faulty, OneAtATime, Ordinary PROVE Spec => []CardFollowsStatus
  BY <1>1, <1>2, QuietInit, QuietStep, PTL DEF Spec
<1> QED
  BY <1>2

\* _schedule_auto_close and _cancel_auto_close_task: when no request runs, a resolved
\* ticket's auto-close waits at the broker under the id on the row, and no other
\* ticket names one.
THEOREM ResolvedStaysScheduled ==
    ~Faulty /\ OneAtATime /\ Ordinary /\ Spec => []ResolvedIsScheduled
<1>1. OneAtATime /\ QuietInv => ResolvedIsScheduled
  BY DEF OneAtATime, QuietInv, OnSchedule, Scheduled, ResolvedIsScheduled, Quiescent
<1>2. ASSUME ~Faulty, OneAtATime, Ordinary PROVE Spec => []ResolvedIsScheduled
  BY <1>1, <1>2, QuietInit, QuietStep, PTL DEF Spec
<1> QED
  BY <1>2
=============================================================================
