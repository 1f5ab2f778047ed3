------------------------- MODULE InboundEmail_proofs -------------------------
(***************************************************************************)
(* For every number of rows, workers, agents and retries, and all faults:  *)
(* no worker makes something of a row that an agent has used, and the      *)
(* workers together make one thing at most of a message.                   *)
(***************************************************************************)
EXTENDS InboundEmail, TLAPS

AnyTask == [row : Row, attempt : Nat]

TypeInv ==
    /\ row \in [Row -> RowState]
    /\ made \in Nat
    /\ worker \in [Worker -> {Idle} \cup [pc : Busy, task : AnyTask]]
    /\ tasks \subseteq AnyTask
    /\ agent \in [Agent -> Row \cup {NoRow}]

\* No two transactions hold the lock of one row.
LockInv ==
    \A v, w \in Worker :
        InTransaction(v) /\ InTransaction(w) /\ RowOf(v) = RowOf(w) => v = w

\* A locked row is pending: nobody else writes it.
PendingInv == \A w \in Worker : InTransaction(w) => row[RowOf(w)].status = "pending"

\* A row that has the key, or has made something, is never pending again.
SpentInv ==
    \A r \in Row : row[r].key \/ row[r].used => row[r].status \notin {"none", "pending"}

RowInv == TypeInv /\ LockInv /\ PendingInv /\ SpentInv

\* The key is claimed by one transaction, and only while nobody has it.
ClaimInv ==
    \A w \in Worker : worker[w].pc = "claimed" =>
        /\ \A r \in Row : ~row[r].key
        /\ \A v \in Worker : worker[v].pc = "claimed" => v = w

MadeInv == made = 0 \/ (made = 1 /\ \E r \in Row : row[r].key)

-----------------------------------------------------------------------------
LEMMA InitRowInv == Init => RowInv
<1> SUFFICES ASSUME Init PROVE RowInv
  OBVIOUS
<1>1. \A w \in Worker : ~InTransaction(w)
  BY DEF Init, InTransaction, Idle, At
<1>2. TypeInv
  BY DEF Init, TypeInv, RowState, Record
<1>3. SpentInv
  BY DEF Init, SpentInv, Record
<1> QED BY <1>1, <1>2, <1>3 DEF RowInv, LockInv, PendingInv

\* Each handler keeps the row invariant; the state of a row changes only where
\* its lock is held or free.
LEMMA NextRowInv == RowInv /\ [Next]_vars => RowInv'
<1> SUFFICES ASSUME RowInv, [Next]_vars PROVE RowInv'
  OBVIOUS
<1> USE DEF RowInv, TypeInv, LockInv, PendingInv, SpentInv, RowState, Record, Attempt,
            InTransaction, RowOf, Unlocked, Write, Goto, Set, At, Idle, Busy, AnyTask
<1>1. ASSUME NEW r \in Row, Arrive(r) PROVE RowInv'
  BY <1>1 DEF Arrive
<1>17. ASSUME NEW r \in Row, Publish(r) \/ FailToPublish(r) PROVE RowInv'
  BY <1>17 DEF Publish, FailToPublish
<1>2. ASSUME NEW w \in Worker, Lock(w) PROVE RowInv'
  <2>1. PICK t \in tasks :
            /\ Takes(t)
            /\ Set(w, At(IF row[t.row].status = "pending" THEN "locked" ELSE "ending", t))
    BY <1>2 DEF Lock
  <2>2. t \in AnyTask
    BY <2>1
  <2>3. CASE row[t.row].status = "pending"
    BY <1>2, <2>1, <2>2, <2>3 DEF Lock, Takes
  <2>4. CASE row[t.row].status # "pending"
    BY <1>2, <2>1, <2>2, <2>4 DEF Lock, Takes
  <2> QED BY <2>3, <2>4
<1>4. ASSUME NEW w \in Worker, Filter(w) PROVE RowInv'
  BY <1>4 DEF Filter, Rejects
<1>5. ASSUME NEW w \in Worker, CheckDuplicate(w) PROVE RowInv'
  <2>1. ASSUME Rejects(w) PROVE RowInv'
    BY <1>5, <2>1 DEF CheckDuplicate, Rejects
  <2>2. ASSUME Goto(w, "checked"), UNCHANGED row PROVE RowInv'
    BY <1>5, <2>2 DEF CheckDuplicate
  <2> QED BY <1>5, <2>1, <2>2, Zenon DEF CheckDuplicate
<1>6. ASSUME NEW w \in Worker, Claim(w) PROVE RowInv'
  <2>1. CASE KeyTaken(RowOf(w))
    BY <1>6, <2>1 DEF Claim
  <2>2. CASE ~KeyTaken(RowOf(w))
    BY <1>6, <2>2 DEF Claim
  <2> QED BY <2>1, <2>2
<1>7. ASSUME NEW w \in Worker, Commit(w) PROVE RowInv'
  BY <1>7 DEF Commit
<1>8. ASSUME NEW w \in Worker, RejectEmptyReply(w) PROVE RowInv'
  BY <1>8 DEF RejectEmptyReply
<1>9. ASSUME NEW w \in Worker, Fail(w) PROVE RowInv'
  BY <1>9 DEF Fail
<1>10. ASSUME NEW w \in Worker, Retry(w) PROVE RowInv'
  BY <1>10 DEF Retry
<1>18. ASSUME NEW w \in Worker, FailToRetry(w) PROVE RowInv'
  BY <1>18 DEF FailToRetry
<1>11. ASSUME NEW w \in Worker, MarkFailed(w) PROVE RowInv'
  BY <1>11 DEF MarkFailed
<1>12. ASSUME NEW w \in Worker, Acknowledge(w) PROVE RowInv'
  BY <1>12 DEF Acknowledge
<1>13. ASSUME NEW w \in Worker, Die(w) PROVE RowInv'
  BY <1>13 DEF Die
<1>14. ASSUME NEW a \in Agent, CreateTicket(a) PROVE RowInv'
  BY <1>14 DEF CreateTicket
<1>15. ASSUME NEW a \in Agent, NEW r \in Row, OpenForm(a, r) PROVE RowInv'
  BY <1>15 DEF OpenForm
<1>16. ASSUME UNCHANGED vars PROVE RowInv'
  BY <1>16 DEF vars
<1> QED
  BY <1>1, <1>2, <1>4, <1>5, <1>6, <1>7, <1>8, <1>9, <1>10, <1>11, <1>12, <1>13,
     <1>14, <1>15, <1>16, <1>17, <1>18 DEF Next

\* The row invariant holds throughout.
THEOREM RowsAreLocked == Spec => []RowInv
BY InitRowInv, NextRowInv, PTL DEF Spec

\* A worker's COMMIT finds its row unused, whatever agents do meanwhile
\* (inbound_email/services.py: the locked row and the status guard).
THEOREM UsedRowsStay == Spec => UsedRowsAreLeft
<1>1. RowInv => (\A w \in Worker : Commit(w) => ~row[RowOf(w)].used)
  BY DEF RowInv, TypeInv, PendingInv, SpentInv, RowState, InTransaction, RowOf, Commit,
         Idle, At, Busy, AnyTask, Attempt
<1> QED BY <1>1, RowsAreLocked, PTL DEF UsedRowsAreLeft

-----------------------------------------------------------------------------
\* What holds besides: the holder of the key has made it.
KeyInv == RowInv /\ ClaimInv /\ MadeInv

LEMMA InitKeyInv == Init => KeyInv
<1> SUFFICES ASSUME Init PROVE ClaimInv /\ MadeInv
  BY InitRowInv DEF KeyInv
<1>1. \A w \in Worker : worker[w].pc = "idle"
  BY DEF Init, Idle, At
<1> QED BY <1>1 DEF Init, ClaimInv, MadeInv

LEMMA NextKeyInv == KeyInv /\ [Next]_vars => KeyInv'
<1> SUFFICES ASSUME KeyInv, [Next]_vars PROVE ClaimInv' /\ MadeInv'
  BY NextRowInv DEF KeyInv
<1> RowInv /\ ClaimInv /\ MadeInv
  BY DEF KeyInv
<1> USE DEF RowInv, TypeInv, PendingInv, SpentInv, ClaimInv, MadeInv, RowState, Record,
            Attempt, InTransaction, RowOf, Unlocked, Write, Goto, Set, At, Idle, Busy, AnyTask
<1>1. ASSUME NEW r \in Row, Arrive(r) PROVE ClaimInv' /\ MadeInv'
  BY <1>1 DEF Arrive
<1>17. ASSUME NEW r \in Row, Publish(r) \/ FailToPublish(r) PROVE ClaimInv' /\ MadeInv'
  BY <1>17 DEF Publish, FailToPublish
<1>2. ASSUME NEW w \in Worker, Lock(w) PROVE ClaimInv' /\ MadeInv'
  <2>1. PICK t \in tasks :
            Set(w, At(IF row[t.row].status = "pending" THEN "locked" ELSE "ending", t))
    BY <1>2 DEF Lock
  <2>2. UNCHANGED <<row, made>>
    BY <1>2 DEF Lock
  <2>3. worker'[w].pc # "claimed"
    BY <2>1
  <2>4. \A v \in Worker : v # w => worker'[v] = worker[v]
    BY <2>1
  <2> QED BY <2>2, <2>3, <2>4
<1>4. ASSUME NEW w \in Worker, Filter(w) PROVE ClaimInv' /\ MadeInv'
  BY <1>4 DEF Filter, Rejects
<1>5. ASSUME NEW w \in Worker, CheckDuplicate(w) PROVE ClaimInv' /\ MadeInv'
  <2>1. ASSUME Rejects(w) PROVE ClaimInv' /\ MadeInv'
    BY <1>5, <2>1 DEF CheckDuplicate, Rejects
  <2>2. ASSUME Goto(w, "checked"), UNCHANGED row PROVE ClaimInv' /\ MadeInv'
    BY <1>5, <2>2 DEF CheckDuplicate
  <2> QED BY <1>5, <2>1, <2>2, Zenon DEF CheckDuplicate
\* The row is pending, so it has no key, and the index says no other has one.
<1>6. ASSUME NEW w \in Worker, Claim(w) PROVE ClaimInv' /\ MadeInv'
  <2>1. CASE KeyTaken(RowOf(w))
    BY <1>6, <2>1 DEF Claim, KeyTaken
  <2>2. CASE ~KeyTaken(RowOf(w))
    BY <1>6, <2>2 DEF Claim, KeyTaken
  <2> QED BY <2>1, <2>2
\* Nobody has the key, so nothing has been made.
<1>7. ASSUME NEW w \in Worker, Commit(w) PROVE ClaimInv' /\ MadeInv'
  <2>1. made = 0 /\ worker[w].task.row \in Row
    BY <1>7 DEF Commit
  <2>2. row'[worker[w].task.row].key /\ made' = 1
    BY <1>7, <2>1 DEF Commit
  <2>3. \A v \in Worker : worker'[v].pc # "claimed"
    BY <1>7 DEF Commit
  <2> QED BY <2>1, <2>2, <2>3
<1>8. ASSUME NEW w \in Worker, RejectEmptyReply(w) PROVE ClaimInv' /\ MadeInv'
  <2>1. \A v \in Worker : worker'[v].pc # "claimed"
    BY <1>8 DEF RejectEmptyReply
  <2>2. made' = 0
    BY <1>8 DEF RejectEmptyReply
  <2> QED BY <2>1, <2>2
<1>9. ASSUME NEW w \in Worker, Fail(w) PROVE ClaimInv' /\ MadeInv'
  BY <1>9 DEF Fail
<1>10. ASSUME NEW w \in Worker, Retry(w) \/ FailToRetry(w) PROVE ClaimInv' /\ MadeInv'
  BY <1>10 DEF Retry, FailToRetry
<1>11. ASSUME NEW w \in Worker, MarkFailed(w) PROVE ClaimInv' /\ MadeInv'
  BY <1>11 DEF MarkFailed
<1>12. ASSUME NEW w \in Worker, Acknowledge(w) PROVE ClaimInv' /\ MadeInv'
  BY <1>12 DEF Acknowledge
<1>13. ASSUME NEW w \in Worker, Die(w) PROVE ClaimInv' /\ MadeInv'
  BY <1>13 DEF Die
<1>14. ASSUME NEW a \in Agent, CreateTicket(a) PROVE ClaimInv' /\ MadeInv'
  <2>1. UNCHANGED made /\ \A r \in Row : row'[r].key = row[r].key
    BY <1>14 DEF CreateTicket
  <2> QED BY <1>14, <2>1 DEF CreateTicket
<1>15. ASSUME NEW a \in Agent, NEW r \in Row, OpenForm(a, r) PROVE ClaimInv' /\ MadeInv'
  BY <1>15 DEF OpenForm
<1>16. ASSUME UNCHANGED vars PROVE ClaimInv' /\ MadeInv'
  BY <1>16 DEF vars
<1> QED
  BY <1>1, <1>2, <1>4, <1>5, <1>6, <1>7, <1>8, <1>9, <1>10, <1>11, <1>12, <1>13,
     <1>14, <1>15, <1>16, <1>17 DEF Next

\* The workers make one ticket, reply or hub e-mail at most of a message, although
\* attempts fail, overlap and are lost: the unique idempotency key decides.
THEOREM OneTicketOnly == Spec => []OneTicketPerMessage
<1>1. KeyInv => OneTicketPerMessage
  BY DEF KeyInv, RowInv, TypeInv, MadeInv, OneTicketPerMessage
<1> QED BY <1>1, InitKeyInv, NextKeyInv, PTL DEF Spec

-----------------------------------------------------------------------------
(* Types, and with them the number of attempts (max_retries of the task).    *)

\* A worker that is not idle has a task of the broker's in hand.
LEMMA HandsHoldTasks ==
    ASSUME TypeOK, NEW w \in Worker, worker[w] # Idle
    PROVE  /\ worker[w].task \in Task
           /\ RowOf(w) \in Row
           /\ \A pc \in Busy : At(pc, worker[w].task) \in WorkerState
<1>1. worker[w] \in [pc : Busy, task : Task]
  BY DEF TypeOK, WorkerState
<1>2. worker[w].task \in Task
  BY <1>1
<1> QED BY <1>2 DEF WorkerState, At, Task, RowOf

\* Only an idle worker has the step "idle".
LEMMA AtWorkIsNotIdle ==
    ASSUME NEW w \in Worker, worker[w].pc \in Busy
    PROVE  worker[w] # Idle
BY DEF Idle, At, Busy

LEMMA SetKeepsTypes ==
    ASSUME TypeOK, NEW w \in Worker, NEW s \in WorkerState, Set(w, s)
    PROVE  worker' \in [Worker -> WorkerState]
BY DEF TypeOK, Set

\* A step that ends or goes on with the task in hand, and writes rows if any.
LEMMA GotoKeepsTypes ==
    ASSUME TypeOK, NEW w \in Worker, worker[w].pc \in Busy, NEW pc \in Busy, Goto(w, pc)
    PROVE  worker' \in [Worker -> WorkerState]
<1>1. worker[w] # Idle
  BY AtWorkIsNotIdle
<1>2. At(pc, worker[w].task) \in WorkerState
  BY <1>1, HandsHoldTasks
<1> QED BY <1>2, SetKeepsTypes DEF Goto

LEMMA WriteKeepsTypes ==
    ASSUME TypeOK, NEW r \in Row, NEW x \in RowState, Write(r, x)
    PROVE  row' \in [Row -> RowState]
BY DEF TypeOK, Write

LEMMA TypeStep == TypeOK /\ [Next]_vars => TypeOK'
<1> SUFFICES ASSUME TypeOK, [Next]_vars PROVE TypeOK'
  OBVIOUS
<1> USE PipelineAssumption
<1>0. /\ \A w \in Worker : worker[w].pc \in Busy => RowOf(w) \in Row /\ worker[w].task \in Task
      /\ \A r \in Row : row[r].key \in BOOLEAN /\ row[r].used \in BOOLEAN
      /\ \A s \in {"none", "pending", "rejected", "done", "failed"}, k, u \in BOOLEAN :
            Record(s, k, u) \in RowState
  <2>1. \A r \in Row : row[r] \in RowState
    BY DEF TypeOK
  <2> QED BY <2>1, HandsHoldTasks, AtWorkIsNotIdle DEF RowState, Record
<1>1. ASSUME NEW r \in Row, Arrive(r) PROVE TypeOK'
  <2>1. row' \in [Row -> RowState]
    BY <1>1, <1>0, WriteKeepsTypes DEF Arrive
  <2> QED BY <1>1, <2>1 DEF TypeOK, Arrive
<1>14. ASSUME NEW r \in Row, Publish(r) \/ FailToPublish(r) PROVE TypeOK'
  <2>1. Attempt(r, 0) \in Task
    BY DEF Attempt, Task
  <2> QED BY <1>14, <2>1 DEF TypeOK, Publish, FailToPublish
<1>2. ASSUME NEW w \in Worker, Lock(w) PROVE TypeOK'
  <2>1. PICK t \in tasks :
            Set(w, At(IF row[t.row].status = "pending" THEN "locked" ELSE "ending", t))
    BY <1>2 DEF Lock
  <2>2. At("locked", t) \in WorkerState /\ At("ending", t) \in WorkerState
    BY <2>1 DEF TypeOK, At, WorkerState, Busy
  <2>3. worker' \in [Worker -> WorkerState]
    BY <2>1, <2>2, SetKeepsTypes
  <2> QED BY <1>2, <2>3 DEF TypeOK, Lock
<1>3. ASSUME NEW w \in Worker, Filter(w) PROVE TypeOK'
  <2>1. worker' \in [Worker -> WorkerState]
    BY <1>3, GotoKeepsTypes DEF Filter, Rejects, Busy
  <2>2. row' \in [Row -> RowState]
    BY <1>3, <1>0, WriteKeepsTypes DEF Filter, Rejects, Busy
  <2> QED BY <1>3, <2>1, <2>2 DEF TypeOK, Filter
<1>4. ASSUME NEW w \in Worker, CheckDuplicate(w) PROVE TypeOK'
  <2>0. worker[w].pc \in Busy
    BY <1>4 DEF CheckDuplicate, Busy
  <2>1. worker' \in [Worker -> WorkerState]
    <3>1. Goto(w, "ending") \/ Goto(w, "checked")
      BY <1>4 DEF CheckDuplicate, Rejects
    <3> QED BY <2>0, <3>1, GotoKeepsTypes DEF Busy
  <2>2. row' \in [Row -> RowState]
    <3>1. CASE Rejects(w)
      BY <2>0, <3>1, <1>0, WriteKeepsTypes DEF Rejects
    <3>2. CASE UNCHANGED row
      BY <3>2 DEF TypeOK
    <3> QED BY <1>4, <3>1, <3>2 DEF CheckDuplicate
  <2> QED BY <1>4, <2>1, <2>2 DEF TypeOK, CheckDuplicate
<1>5. ASSUME NEW w \in Worker, Claim(w) PROVE TypeOK'
  <2>1. worker' \in [Worker -> WorkerState]
    <3>1. Goto(w, "broken") \/ Goto(w, "claimed")
      BY <1>5 DEF Claim
    <3> QED BY <1>5, <3>1, GotoKeepsTypes DEF Claim, Busy
  <2> QED BY <1>5, <2>1 DEF TypeOK, Claim
<1>6. ASSUME NEW w \in Worker, Commit(w) \/ RejectEmptyReply(w) PROVE TypeOK'
  <2>1. worker' \in [Worker -> WorkerState]
    BY <1>6, GotoKeepsTypes DEF Commit, RejectEmptyReply, Busy
  <2>2. row' \in [Row -> RowState]
    BY <1>6, <1>0, WriteKeepsTypes DEF Commit, RejectEmptyReply, Busy
  <2>3. made' \in Nat
    <3>1. made' = made + 1 \/ made' = made
      BY <1>6, Zenon DEF Commit, RejectEmptyReply
    <3>2. made \in Nat
      BY DEF TypeOK
    <3> QED BY <3>1, <3>2
  <2> QED BY <1>6, <2>1, <2>2, <2>3 DEF TypeOK, Commit, RejectEmptyReply
<1>7. ASSUME NEW w \in Worker, Fail(w) PROVE TypeOK'
  <2>1. worker' \in [Worker -> WorkerState]
    BY <1>7, GotoKeepsTypes DEF Fail, InTransaction, Busy
  <2> QED BY <1>7, <2>1 DEF TypeOK, Fail
<1>8. ASSUME NEW w \in Worker, Retry(w) PROVE TypeOK'
  <2>1. worker' \in [Worker -> WorkerState]
    BY <1>8, GotoKeepsTypes DEF Retry, Busy
  <2>2. RowOf(w) \in Row /\ worker[w].task \in Task
    BY <1>8, <1>0 DEF Retry, Busy
  <2>3. worker[w].task.attempt \in 0..MaxRetries
    BY <2>2 DEF Task
  <2>4. worker[w].task.attempt + 1 \in 0..MaxRetries
    BY <1>8, <2>3 DEF Retry
  <2>5. Attempt(RowOf(w), worker[w].task.attempt + 1) \in Task
    BY <2>2, <2>4 DEF Attempt, Task
  <2> QED BY <1>8, <2>1, <2>5 DEF TypeOK, Retry
<1>15. ASSUME NEW w \in Worker, FailToRetry(w) PROVE TypeOK'
  <2>1. worker' \in [Worker -> WorkerState]
    BY <1>15, GotoKeepsTypes DEF FailToRetry, Busy
  <2>2. RowOf(w) \in Row
    BY <1>15, <1>0 DEF FailToRetry, Busy
  <2> QED BY <1>15, <2>1, <2>2 DEF TypeOK, FailToRetry
<1>9. ASSUME NEW w \in Worker, MarkFailed(w) PROVE TypeOK'
  <2>1. worker' \in [Worker -> WorkerState]
    BY <1>9, GotoKeepsTypes DEF MarkFailed, Busy
  <2>2. RowOf(w) \in Row
    BY <1>9, <1>0 DEF MarkFailed, Busy
  <2>3. row' \in [Row -> RowState]
    BY <1>9, <1>0, <2>2, WriteKeepsTypes DEF MarkFailed
  <2> QED BY <1>9, <2>1, <2>3 DEF TypeOK, MarkFailed
<1>10. ASSUME NEW w \in Worker, Acknowledge(w) \/ Die(w) PROVE TypeOK'
  <2>1. worker' \in [Worker -> WorkerState]
    BY <1>10, SetKeepsTypes DEF Acknowledge, Die, WorkerState
  <2>2. tasks' \subseteq Task
    BY <1>10 DEF Acknowledge, Die, TypeOK
  <2>3. lost' \subseteq Row
    BY <1>10, HandsHoldTasks DEF Acknowledge, Die, TypeOK
  <2> QED BY <1>10, <2>1, <2>2, <2>3 DEF TypeOK, Acknowledge, Die
<1>11. ASSUME NEW a \in Agent, CreateTicket(a) PROVE TypeOK'
  <2>1. agent[a] \in Row
    BY <1>11 DEF CreateTicket, TypeOK
  <2>2. row' \in [Row -> RowState]
    BY <1>11, <1>0, <2>1, WriteKeepsTypes DEF CreateTicket
  <2> QED BY <1>11, <2>2 DEF TypeOK, CreateTicket
<1>12. ASSUME NEW a \in Agent, NEW r \in Row, OpenForm(a, r) PROVE TypeOK'
  BY <1>12 DEF TypeOK, OpenForm
<1>13. CASE UNCHANGED vars
  BY <1>13 DEF TypeOK, vars
<1> QED
  BY <1>1, <1>2, <1>3, <1>4, <1>5, <1>6, <1>7, <1>8, <1>9, <1>10, <1>11, <1>12, <1>13,
     <1>14, <1>15 DEF Next

\* TypeCorrect: no task is ever attempted more than max_retries times after the
\* first, however often it is redelivered, and every variable keeps its type.
THEOREM TypeCorrect == Spec => []TypeOK
<1>1. Init => TypeOK
  BY PipelineAssumption DEF Init, TypeOK, RowState, Record, WorkerState
<1> QED BY <1>1, TypeStep, PTL DEF Spec
=============================================================================
