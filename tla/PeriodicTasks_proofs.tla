------------------------ MODULE PeriodicTasks_proofs ------------------------
(***************************************************************************)
(* Proofs about the two tasks that Celery beat starts over and over.       *)
(* ImapPoller: types, and, for a mailbox that is not empty when polling    *)
(* begins, that no old mail is ingested and no new mail passed over,       *)
(* however runs overlap, die and overwrite the watermark.  Reminders:      *)
(* types, no repeated alert without a race, and a stamp that tells of an   *)
(* alert, for any number of reminders, workers and requests.               *)
(* Spec, Next and TypeOK are ImapPoller's; those of Reminders have its     *)
(* name before them.                                                       *)
(***************************************************************************)
EXTENDS ImapPoller, Reminders, TLAPS

-----------------------------------------------------------------------------
(* ImapPoller: types, and a row has its task.                              *)

\* A run that has fetched a message has one in hand.
HasMessage ==
    \A p \in Poller : poller[p].pc \in {"new", "created", "advance"} => poller[p].uid \in Uid

TypeInv == TypeOK /\ HasMessage

\* Every step keeps the variables, and the message in hand, well typed.
LEMMA TypeStep == TypeInv /\ [Next]_vars => TypeInv'
<1> SUFFICES ASSUME TypeInv, [Next]_vars PROVE TypeInv'
  OBVIOUS
<1> USE PollerAssumption DEF TypeInv, TypeOK, HasMessage, PollerState, Set, At, Batch,
        InHand, Uid, Idle
<1>1. CASE Deliver
  BY <1>1 DEF Deliver
<1>2. ASSUME NEW p \in Poller, Select(p) PROVE TypeInv'
  BY <1>2 DEF Select
<1>3. ASSUME NEW p \in Poller, LoadState(p) PROVE TypeInv'
  BY <1>3 DEF LoadState
<1>4. ASSUME NEW p \in Poller, AnchorAndSearch(p) PROVE TypeInv'
  <2>1. \A mark : Above(mark) \in SUBSET Uid
    BY DEF Above
  <2>2. poller[p].next - 1 \in 0..MaxUid /\ poller[p].mark \in 0..MaxUid
    OBVIOUS
  <2>3. CASE poller[p].mark = 0 /\ poller[p].next > 1
    BY <1>4, <2>1, <2>2, <2>3 DEF AnchorAndSearch
  <2>4. CASE ~(poller[p].mark = 0 /\ poller[p].next > 1)
    BY <1>4, <2>1, <2>2, <2>4 DEF AnchorAndSearch
  <2> QED BY <2>3, <2>4
<1>5. ASSUME NEW p \in Poller, Fetch(p) PROVE TypeInv'
  BY <1>5 DEF Fetch
<1>6. ASSUME NEW p \in Poller, CreateRow(p) PROVE TypeInv'
  BY <1>6 DEF CreateRow
<1>7. ASSUME NEW p \in Poller, Queue(p) PROVE TypeInv'
  BY <1>7 DEF Queue
<1>8. ASSUME NEW p \in Poller, Advance(p) PROVE TypeInv'
  BY <1>8 DEF Advance
<1>9. ASSUME NEW p \in Poller, Finish(p) PROVE TypeInv'
  BY <1>9 DEF Finish
<1>10. ASSUME NEW p \in Poller, FetchFails(p) PROVE TypeInv'
  BY <1>10 DEF FetchFails
<1>11. ASSUME NEW p \in Poller, QueueFails(p) PROVE TypeInv'
  BY <1>11 DEF QueueFails
<1>12. ASSUME NEW p \in Poller, Die(p) PROVE TypeInv'
  <2>1. hit' \subseteq Uid
    BY <1>12 DEF Die
  <2>2. Idle \in PollerState
    OBVIOUS
  <2> QED BY <1>12, <2>1, <2>2 DEF Die
<1>13. CASE UNCHANGED vars
  BY <1>13 DEF vars
<1> QED BY <1>1, <1>2, <1>3, <1>4, <1>5, <1>6, <1>7, <1>8, <1>9, <1>10, <1>11, <1>12, <1>13 DEF Next, Work

\* The first state is well typed.
LEMMA InitTyped == Init => TypeInv
<1> SUFFICES ASSUME Init PROVE TypeInv
  OBVIOUS
<1>1. Idle \in PollerState
  BY PollerAssumption DEF Idle, At, PollerState, Uid
<1>2. poller \in [Poller -> PollerState] /\ HasMessage
  BY <1>1 DEF Init, HasMessage, Idle, At
<1>3. uidNext \in 1..MaxUid + 1 /\ watermark \in 0..MaxUid
  BY PollerAssumption DEF Init
<1> QED BY <1>2, <1>3 DEF Init, TypeInv, TypeOK

\* PollerTyped: the watermark and every run's copy of it stay within the UIDs
\* the mailbox may assign.
THEOREM PollerTyped == Spec => []TypeOK
<1>2. TypeInv => TypeOK
  BY DEF TypeInv
<1> QED BY InitTyped, <1>2, TypeStep, PTL DEF Spec

-----------------------------------------------------------------------------
(* Old and new mail. The mark of a run that has anchored, like the          *)
(* watermark, lies past the history and past no new message that has not    *)
(* been fetched; of what SEARCH returned, a run skips nothing.              *)

Working(p) == poller[p].pc \in {"batch", "new", "created", "advance"}

\* Nothing new up to m is unfetched.
Covered(m) == \A u \in fresh : u <= m => u \in tried

AnchorInv ==
    /\ uidNext > History
    /\ watermark # 0 => watermark >= History
    /\ watermark < uidNext
    /\ ended => watermark # 0
    /\ fresh # {} => ended
    /\ \A u \in fresh : u < uidNext
    /\ Covered(watermark)

RunInv(p) ==
    /\ poller[p].pc \in {"selected", "loaded"} =>
           poller[p].next > History /\ poller[p].next <= uidNext
    /\ poller[p].mark # 0 => poller[p].mark >= History /\ watermark # 0
    /\ poller[p].mark < uidNext
    /\ Covered(poller[p].mark)
    /\ poller[p].pc = "loaded" /\ poller[p].mark = 0 =>
           \A u \in fresh : u >= poller[p].next
    /\ Working(p) => poller[p].mark # 0

BatchInv(p) ==
    Working(p) =>
        /\ \A v \in poller[p].uids : v > History /\ v < uidNext
        /\ \A u \in fresh :
              u \in tried \/ u \in poller[p].uids \/ \A v \in poller[p].uids : v < u
        /\ poller[p].pc # "batch" =>
              /\ poller[p].uid > History /\ poller[p].uid < uidNext
              /\ Covered(poller[p].uid)

MailInv ==
    /\ TypeInv
    /\ AnchorInv
    /\ \A p \in Poller : RunInv(p) /\ BatchInv(p)
    /\ NoBackfill

\* Every step keeps old mail out and new mail in reach.
LEMMA MailStep == MailInv /\ TypeInv' /\ [Next]_vars /\ History > 0 => MailInv'
<1> SUFFICES ASSUME MailInv, TypeInv', [Next]_vars, History > 0 PROVE MailInv'
  OBVIOUS
<1> USE PollerAssumption DEF MailInv, TypeInv, TypeOK, HasMessage, PollerState, Set, At, Batch,
        InHand, Uid, Idle, AnchorInv, Covered, RunInv, BatchInv, Working, NoBackfill
<1>1. CASE Deliver
  BY <1>1 DEF Deliver
<1>2. ASSUME NEW p \in Poller, Select(p) PROVE MailInv'
  <2>1. AnchorInv' /\ NoBackfill'
    BY <1>2 DEF Select
  <2>2. \A q \in Poller \ {p} : RunInv(q)' /\ BatchInv(q)'
    BY <1>2 DEF Select
  <2>3. RunInv(p)'
    BY <1>2 DEF Select
  <2>4. BatchInv(p)'
    BY <1>2 DEF Select
  <2> QED BY <2>1, <2>2, <2>3, <2>4
<1>3. ASSUME NEW p \in Poller, LoadState(p) PROVE MailInv'
  <2>1. AnchorInv' /\ NoBackfill'
    BY <1>3 DEF LoadState
  <2>2. \A q \in Poller \ {p} : RunInv(q)' /\ BatchInv(q)'
    BY <1>3 DEF LoadState
  <2>3. RunInv(p)'
    BY <1>3 DEF LoadState
  <2>4. BatchInv(p)'
    BY <1>3 DEF LoadState
  <2> QED BY <2>1, <2>2, <2>3, <2>4
<1>4. ASSUME NEW p \in Poller, AnchorAndSearch(p) PROVE MailInv'
  <2>1. AnchorInv' /\ NoBackfill'
    BY <1>4 DEF AnchorAndSearch
  <2>2. \A q \in Poller \ {p} : RunInv(q)' /\ BatchInv(q)'
    BY <1>4 DEF AnchorAndSearch
  <2>3. RunInv(p)'
    BY <1>4 DEF AnchorAndSearch
  <2>4. BatchInv(p)'
    <3>1. CASE poller[p].mark = 0 /\ poller[p].next > 1
      BY <1>4, <3>1 DEF AnchorAndSearch, Above
    <3>2. CASE ~(poller[p].mark = 0 /\ poller[p].next > 1)
      BY <1>4, <3>2 DEF AnchorAndSearch, Above
    <3> QED BY <3>1, <3>2
  <2> QED BY <2>1, <2>2, <2>3, <2>4
<1>5. ASSUME NEW p \in Poller, Fetch(p) PROVE MailInv'
  <2>1. AnchorInv' /\ NoBackfill'
    BY <1>5 DEF Fetch
  <2>2. \A q \in Poller \ {p} : RunInv(q)' /\ BatchInv(q)'
    BY <1>5 DEF Fetch
  <2>3. RunInv(p)'
    BY <1>5 DEF Fetch
  <2>4. BatchInv(p)'
    <3>1. PICK u \in Uid :
              /\ NextInLine(p, u) /\ tried' = tried \cup {u}
              /\ InHand(p, "advance", u) \/ InHand(p, "new", u)
      BY <1>5 DEF Fetch
    <3>2. /\ poller'[p].pc \in {"advance", "new"} /\ poller'[p].uid = u
          /\ poller'[p].uids = poller[p].uids \ {u}
      BY <3>1
    <3>3. poller[p].pc = "batch" /\ UNCHANGED <<uidNext, fresh>>
      BY <1>5 DEF Fetch
    <3>4. \A w \in fresh : w <= u => w \in tried \cup {u}
      BY <3>1, <3>3 DEF NextInLine
    <3>5. \A w \in fresh : w \in tried \cup {u} \/ w \in poller[p].uids \ {u}
                          \/ \A v \in poller[p].uids \ {u} : v < w
      BY <3>3
    <3>6. u > History /\ u < uidNext /\ \A v \in poller[p].uids : v > History /\ v < uidNext
      BY <3>1, <3>3 DEF NextInLine
    <3> QED BY <3>1, <3>2, <3>3, <3>4, <3>5, <3>6
  <2> QED BY <2>1, <2>2, <2>3, <2>4
<1>6. ASSUME NEW p \in Poller, CreateRow(p) PROVE MailInv'
  <2>1. AnchorInv' /\ NoBackfill'
    BY <1>6 DEF CreateRow
  <2>2. \A q \in Poller \ {p} : RunInv(q)' /\ BatchInv(q)'
    BY <1>6 DEF CreateRow
  <2>3. RunInv(p)'
    BY <1>6 DEF CreateRow
  <2>4. BatchInv(p)'
    BY <1>6 DEF CreateRow
  <2> QED BY <2>1, <2>2, <2>3, <2>4
<1>7. ASSUME NEW p \in Poller, Queue(p) PROVE MailInv'
  <2>1. AnchorInv' /\ NoBackfill'
    BY <1>7 DEF Queue
  <2>2. \A q \in Poller \ {p} : RunInv(q)' /\ BatchInv(q)'
    BY <1>7 DEF Queue
  <2>3. RunInv(p)'
    BY <1>7 DEF Queue
  <2>4. BatchInv(p)'
    BY <1>7 DEF Queue
  <2> QED BY <2>1, <2>2, <2>3, <2>4
<1>8. ASSUME NEW p \in Poller, Advance(p) PROVE MailInv'
  <2>1. AnchorInv' /\ NoBackfill'
    BY <1>8 DEF Advance
  <2>2. \A q \in Poller \ {p} : RunInv(q)' /\ BatchInv(q)'
    BY <1>8 DEF Advance
  <2>3. RunInv(p)'
    BY <1>8 DEF Advance
  <2>4. BatchInv(p)'
    BY <1>8 DEF Advance
  <2> QED BY <2>1, <2>2, <2>3, <2>4
<1>9. ASSUME NEW p \in Poller, Finish(p) PROVE MailInv'
  <2>1. AnchorInv' /\ NoBackfill'
    BY <1>9 DEF Finish
  <2>2. \A q \in Poller \ {p} : RunInv(q)' /\ BatchInv(q)'
    BY <1>9 DEF Finish
  <2>3. RunInv(p)'
    BY <1>9 DEF Finish
  <2>4. BatchInv(p)'
    BY <1>9 DEF Finish
  <2> QED BY <2>1, <2>2, <2>3, <2>4
<1>10. ASSUME NEW p \in Poller, FetchFails(p) PROVE MailInv'
  <2>1. AnchorInv' /\ NoBackfill'
    BY <1>10 DEF FetchFails
  <2>2. \A q \in Poller \ {p} : RunInv(q)' /\ BatchInv(q)'
    BY <1>10 DEF FetchFails
  <2>3. RunInv(p)'
    BY <1>10 DEF FetchFails
  <2>4. BatchInv(p)'
    <3>1. PICK u \in Uid :
              /\ NextInLine(p, u) /\ tried' = tried \cup {u}
              /\ InHand(p, "advance", u) \/ InHand(p, "new", u)
      BY <1>10 DEF FetchFails
    <3>2. /\ poller'[p].pc \in {"advance", "new"} /\ poller'[p].uid = u
          /\ poller'[p].uids = poller[p].uids \ {u}
      BY <3>1
    <3>3. poller[p].pc = "batch" /\ UNCHANGED <<uidNext, fresh>>
      BY <1>10 DEF FetchFails
    <3>4. \A w \in fresh : w <= u => w \in tried \cup {u}
      BY <3>1, <3>3 DEF NextInLine
    <3>5. \A w \in fresh : w \in tried \cup {u} \/ w \in poller[p].uids \ {u}
                          \/ \A v \in poller[p].uids \ {u} : v < w
      BY <3>3
    <3>6. u > History /\ u < uidNext /\ \A v \in poller[p].uids : v > History /\ v < uidNext
      BY <3>1, <3>3 DEF NextInLine
    <3> QED BY <3>1, <3>2, <3>3, <3>4, <3>5, <3>6
  <2> QED BY <2>1, <2>2, <2>3, <2>4
<1>11. ASSUME NEW p \in Poller, QueueFails(p) PROVE MailInv'
  <2>1. AnchorInv' /\ NoBackfill'
    BY <1>11 DEF QueueFails
  <2>2. \A q \in Poller \ {p} : RunInv(q)' /\ BatchInv(q)'
    BY <1>11 DEF QueueFails
  <2>3. RunInv(p)'
    BY <1>11 DEF QueueFails
  <2>4. BatchInv(p)'
    BY <1>11 DEF QueueFails
  <2> QED BY <2>1, <2>2, <2>3, <2>4
<1>12. ASSUME NEW p \in Poller, Die(p) PROVE MailInv'
  <2>1. AnchorInv' /\ NoBackfill'
    BY <1>12 DEF Die
  <2>2. \A q \in Poller \ {p} : RunInv(q)' /\ BatchInv(q)'
    BY <1>12 DEF Die
  <2>3. RunInv(p)'
    BY <1>12 DEF Die
  <2>4. BatchInv(p)'
    BY <1>12 DEF Die
  <2> QED BY <2>1, <2>2, <2>3, <2>4
<1>13. CASE UNCHANGED vars
  BY <1>13 DEF vars
<1> QED BY <1>1, <1>2, <1>3, <1>4, <1>5, <1>6, <1>7, <1>8, <1>9, <1>10, <1>11, <1>12, <1>13 DEF Next, Work

\* MailIsSafe: if the mailbox holds mail when polling begins, none of it is ever
\* ingested, and no later message is left below the watermark unfetched, for any
\* number of overlapping runs that are killed at any point.
THEOREM MailIsSafe == History > 0 /\ Spec => [](NoBackfill /\ NothingSkipped)
<1>1. Init => MailInv
  <2> SUFFICES ASSUME Init PROVE MailInv
    OBVIOUS
  <2>1. TypeInv
    BY InitTyped
  <2>2. AnchorInv /\ NoBackfill
    BY PollerAssumption DEF Init, AnchorInv, NoBackfill, Covered
  <2>3. \A p \in Poller : RunInv(p) /\ BatchInv(p)
    BY PollerAssumption DEF Init, RunInv, BatchInv, Covered, Working, Idle, At
  <2> QED BY <2>1, <2>2, <2>3 DEF MailInv
<1>2. MailInv => TypeInv /\ NoBackfill /\ NothingSkipped
  BY DEF MailInv, AnchorInv, Covered, NothingSkipped
<1>3. ASSUME History > 0 PROVE MailInv /\ [Next]_vars => MailInv'
  BY <1>2, <1>3, TypeStep, MailStep
<1>4. ASSUME History > 0 PROVE Spec => [](NoBackfill /\ NothingSkipped)
  BY <1>1, <1>2, <1>3, <1>4, PTL DEF Spec
<1> QED BY <1>4

-----------------------------------------------------------------------------
\* A row waits for its task in the hands of the run that made it, and leaves them
\* queued or struck by a fault.
LEMMA QueueStep == TypeInv /\ RowsAreQueued /\ [Next]_vars => RowsAreQueued'
<1> SUFFICES ASSUME TypeInv, RowsAreQueued, [Next]_vars PROVE RowsAreQueued'
  OBVIOUS
<1> USE DEF TypeInv, TypeOK, HasMessage, PollerState, RowsAreQueued, Set, At, Batch, InHand, Idle
<1>1. CASE Deliver
  BY <1>1 DEF Deliver
<1>2. ASSUME NEW p \in Poller, Select(p) PROVE RowsAreQueued'
  BY <1>2 DEF Select
<1>3. ASSUME NEW p \in Poller, LoadState(p) PROVE RowsAreQueued'
  BY <1>3 DEF LoadState
<1>4. ASSUME NEW p \in Poller, AnchorAndSearch(p) PROVE RowsAreQueued'
  BY <1>4 DEF AnchorAndSearch
<1>5. ASSUME NEW p \in Poller, Fetch(p) PROVE RowsAreQueued'
  BY <1>5 DEF Fetch
<1>6. ASSUME NEW p \in Poller, CreateRow(p) PROVE RowsAreQueued'
  BY <1>6 DEF CreateRow
<1>7. ASSUME NEW p \in Poller, Queue(p) PROVE RowsAreQueued'
  BY <1>7 DEF Queue
<1>8. ASSUME NEW p \in Poller, Advance(p) PROVE RowsAreQueued'
  BY <1>8 DEF Advance
<1>9. ASSUME NEW p \in Poller, Finish(p) PROVE RowsAreQueued'
  BY <1>9 DEF Finish
<1>10. ASSUME NEW p \in Poller, FetchFails(p) PROVE RowsAreQueued'
  BY <1>10 DEF FetchFails
<1>11. ASSUME NEW p \in Poller, QueueFails(p) PROVE RowsAreQueued'
  BY <1>11 DEF QueueFails
<1>12. ASSUME NEW p \in Poller, Die(p) PROVE RowsAreQueued'
  <2>1. CASE poller[p].pc = "created"
    BY <1>12, <2>1 DEF Die
  <2>2. CASE poller[p].pc # "created"
    BY <1>12, <2>2 DEF Die
  <2> QED BY <2>1, <2>2
<1>13. CASE UNCHANGED vars
  BY <1>13 DEF vars
<1> QED BY <1>1, <1>2, <1>3, <1>4, <1>5, <1>6, <1>7, <1>8, <1>9, <1>10, <1>11, <1>12, <1>13 DEF Next, Work

\* NewMailIsFetched: the part of MailIsSafe about new mail. A watermark written
\* back by a slow run never passes a message that no run has fetched.
THEOREM NewMailIsFetched == History > 0 /\ Spec => []NothingSkipped
BY MailIsSafe, PTL

\* RowsFindTheirTask: whatever runs overlap on a message, its row has its task
\* sent unless a fault came between the two, for any number of runs and messages.
THEOREM RowsFindTheirTask == Spec => []RowsAreQueued
<1>1. Init => RowsAreQueued
  BY DEF Init, RowsAreQueued
<1> QED BY <1>1, InitTyped, TypeStep, QueueStep, PTL DEF Spec


-----------------------------------------------------------------------------
(* Reminders: types.                                                       *)

\* What a request in hand will save: an operation on a row that was there.
RequestsInHand ==
    \A q \in Request : \A r \in request[q].of :
        request[q].op # "none" /\ Kept(request[q].copy)

\* A run is about to announce the one reminder that it has claimed.
SendingIsClaimed ==
    \A w \in Worker :
        /\ run[w].step # "claimed" => run[w].sending = {}
        /\ \A r, d \in run[w].sending : r = d

ReminderInv == ReminderTypeOK /\ RequestsInHand /\ SendingIsClaimed

LEMMA TimeIsInt == Time \subseteq Int /\ 0 \in Time /\ Null \in Int /\ Null \notin Time
BY ReminderAssumption DEF Time, Null

\* The columns of a row that a step writes keep their types.
LEMMA RowColumns ==
    ASSUME NEW x \in Row
    PROVE  /\ x.due \in Time /\ x.stamp \in Time \cup {Null}
           /\ \A t \in Time : [x EXCEPT !.due = t] \in Row /\ Watermark(x, t) \in Row
           /\ [x EXCEPT !.completed = TRUE] \in Row
           /\ [x EXCEPT !.cancelled = TRUE] \in Row
BY DEF Row, Watermark

LEMMA NoRowIsRow == NoRow \in Row /\ [NoRow EXCEPT !.life = "deleted"] \in Row
BY TimeIsInt DEF NoRow, Row

LEMMA FreshIsRow == \A t \in Time : Fresh(t) \in Row
BY NoRowIsRow DEF NoRow, Row, Fresh

LEMMA SavedIsRow ==
    ASSUME NEW x \in Row, NEW j, j.op \in Op \ {"none"}, j.op = "patch" => j.copy \in Row,
           j.op \in {"patch", "reschedule"} => j.to \in Time
    PROVE  Saved(x, j) \in Row
BY RowColumns DEF Saved, Op

LEMMA RestingIsRun == Resting \in Run
BY NoRowIsRow, TimeIsInt DEF Resting, Run

\* The steps of the task write columns of its state.
LEMMA RunColumns ==
    ASSUME NEW x \in Run
    PROVE  /\ x.now \in Time /\ x.list \subseteq Reminder /\ x.sending \subseteq Reminder
           /\ x.read \in [Reminder -> Row]
           /\ [x EXCEPT !.step = "listed", !.sending = {}] \in Run
           /\ \A r \in Reminder :
                 [x EXCEPT !.step = "claimed", !.list = @ \ {r}, !.sending = {r}] \in Run
           /\ \A list \in SUBSET Reminder, read \in [Reminder -> Row] :
                 [x EXCEPT !.step = "listed", !.list = list, !.read = read] \in Run
BY DEF Run

LEMMA QuietIsAsked == Quiet \in Asked /\ Quiet.of = {}
BY NoRowIsRow, TimeIsInt DEF Quiet, Asked, Op

LEMMA InitReminders == ReminderInit => ReminderInv
<1> SUFFICES ASSUME ReminderInit PROVE ReminderInv
  OBVIOUS
<1>1. row \in [Reminder -> Row] /\ run \in [Worker -> Run] /\ request \in [Request -> Asked]
  BY NoRowIsRow, RestingIsRun, QuietIsAsked DEF ReminderInit
<1>2. RequestsInHand
  BY QuietIsAsked DEF ReminderInit, RequestsInHand
<1>4. SendingIsClaimed
  BY DEF ReminderInit, SendingIsClaimed, Resting
<1>3. clock \in Time /\ edits \in 0 .. MaxEdits
  BY TimeIsInt, ReminderAssumption DEF ReminderInit
<1> QED BY <1>1, <1>2, <1>3, <1>4 DEF ReminderInit, ReminderInv, ReminderTypeOK

LEMMA GoOnTyped ==
    ASSUME NEW w \in Worker, run \in [Worker -> Run], GoOn(w)
    PROVE  /\ run' \in [Worker -> Run]
           /\ SendingIsClaimed => SendingIsClaimed'
<1>1. run' \in [Worker -> Run]
  BY RestingIsRun, RunColumns DEF GoOn
<1>2. \A v \in Worker \ {w} : run'[v] = run[v]
  BY DEF GoOn
<1>3. run'[w].sending = {}
  BY DEF GoOn, Resting, Run
<1> QED BY <1>1, <1>2, <1>3 DEF SendingIsClaimed

LEMMA NextReminders == ReminderInv /\ [ReminderNext]_reminderVars => ReminderInv'
<1> SUFFICES ASSUME ReminderInv, [ReminderNext]_reminderVars PROVE ReminderInv'
  OBVIOUS
<1>t. ReminderTypeOK /\ RequestsInHand /\ SendingIsClaimed
  BY DEF ReminderInv
<1>e. Edit => edits' \in 0 .. MaxEdits
  BY <1>t, ReminderAssumption DEF Edit, ReminderTypeOK
<1>1. ASSUME NEW r \in Reminder, NEW t \in Time, Create(r, t) PROVE ReminderInv'
  BY <1>1, <1>t, FreshIsRow DEF Create, history, ReminderInv, ReminderTypeOK, RequestsInHand, SendingIsClaimed
<1>2. ASSUME NEW q \in Request, NEW r \in Reminder, NEW op \in Op \ {"none"}, NEW t \in Time,
             Read(q, r, op, t)
      PROVE  ReminderInv'
  <2> DEFINE j == [op |-> op, of |-> {r}, copy |-> row[r], to |-> t]
  <2>1. j \in Asked
    BY <1>t DEF Asked, ReminderTypeOK
  <2>2. request' = [request EXCEPT ![q] = j] /\ Kept(row[r])
    BY <1>2 DEF Read
  <2>3. RequestsInHand'
    BY <1>t, <2>2 DEF RequestsInHand, ReminderTypeOK, Kept
  <2>4. request' \in [Request -> Asked]
    BY <1>t, <2>1, <2>2 DEF ReminderTypeOK
  <2>5. edits' \in 0 .. MaxEdits /\ UNCHANGED <<row, clock, run, history>>
    BY <1>2, <1>e DEF Read
  <2> QED BY <1>t, <2>3, <2>4, <2>5 DEF ReminderInv, ReminderTypeOK, SendingIsClaimed, history
<1>3. ASSUME NEW q \in Request, Save(q) PROVE ReminderInv'
  <2>1. PICK r \in request[q].of :
          IF Kept(row[r]) \/ request[q].op = "patch"
          THEN /\ row' = [row EXCEPT ![r] = Saved(row[r], request[q])]
               /\ raced' = IF request[q].op = "patch"
                              /\ (~Kept(row[r]) \/ row[r].stamp # request[q].copy.stamp)
                           THEN raced \cup {r} ELSE raced
          ELSE UNCHANGED <<row, raced>>
    BY <1>3 DEF Save
  <2>2. r \in Reminder /\ request[q] \in Asked /\ request[q].op \in Op \ {"none"}
        /\ request[q].copy \in Row /\ request[q].to \in Time
    BY <1>t DEF ReminderTypeOK, Asked, RequestsInHand
  <2>3. Saved(row[r], request[q]) \in Row
    BY <1>t, <2>2, SavedIsRow DEF ReminderTypeOK
  <2>4. row' \in [Reminder -> Row] /\ raced' \subseteq Reminder
    BY <1>t, <2>1, <2>2, <2>3 DEF ReminderTypeOK
  <2>5. request' = [request EXCEPT ![q] = Quiet]
        /\ UNCHANGED <<clock, run, edits, told, last, repeated, failed>>
    BY <1>3 DEF Save
  <2>6. request' \in [Request -> Asked] /\ RequestsInHand'
    BY <1>t, <2>5, QuietIsAsked DEF ReminderTypeOK, RequestsInHand
  <2> QED BY <1>t, <2>4, <2>5, <2>6 DEF ReminderInv, ReminderTypeOK, SendingIsClaimed
<1>4. ASSUME NEW r \in Reminder, NEW op \in {"complete", "cancel", "reschedule"}, NEW t \in Time,
             Bulk(r, op, t)
      PROVE  ReminderInv'
  <2> DEFINE j == [op |-> op, to |-> t]
  <2>1. Saved(row[r], j) \in Row
    BY <1>t, SavedIsRow DEF ReminderTypeOK, Op
  <2>2. row' = [row EXCEPT ![r] = Saved(row[r], j)] /\ edits' \in 0 .. MaxEdits
        /\ UNCHANGED <<clock, run, request, history>>
    BY <1>4, <1>e DEF Bulk
  <2>3. row' \in [Reminder -> Row]
    BY <1>t, <2>1, <2>2 DEF ReminderTypeOK
  <2> QED BY <1>t, <2>2, <2>3 DEF ReminderInv, ReminderTypeOK, RequestsInHand, SendingIsClaimed, history
<1>5. ASSUME NEW r \in Reminder, Delete(r) PROVE ReminderInv'
  BY <1>5, <1>t, <1>e, NoRowIsRow DEF Delete, history, ReminderInv, ReminderTypeOK, RequestsInHand, SendingIsClaimed
<1>6. ASSUME NEW w \in Worker, Begin(w) PROVE ReminderInv'
  <2>1. [Resting EXCEPT !.step = "begun", !.now = clock] \in Run
    BY <1>t, RestingIsRun DEF Run, ReminderTypeOK
  <2>2. [Resting EXCEPT !.step = "begun", !.now = clock].sending = {}
    BY DEF Resting
  <2> QED BY <1>6, <1>t, <2>1, <2>2 DEF Begin, history, ReminderInv, ReminderTypeOK, RequestsInHand, SendingIsClaimed
<1>7. ASSUME NEW w \in Worker, List(w) PROVE ReminderInv'
  <2> DEFINE due == {r \in Reminder : DueAt(row[r], run[w].now)}
             read == [r \in Reminder |-> IF r \in due THEN row[r] ELSE NoRow]
             y == [run[w] EXCEPT !.step = "listed", !.list = due, !.read = read]
  <2>1. read \in [Reminder -> Row] /\ due \in SUBSET Reminder
    BY <1>t, NoRowIsRow DEF ReminderTypeOK
  <2>2. y \in Run
    <3> HIDE DEF due, read
    <3> QED BY <1>t, <2>1, RunColumns DEF ReminderTypeOK
  <2>3. run' = [run EXCEPT ![w] = IF due = {} THEN Resting ELSE y]
        /\ UNCHANGED <<row, clock, request, edits, history>>
    BY <1>7 DEF List
  <2>5. y.sending = {} /\ Resting.sending = {}
    BY <1>t, <1>7 DEF List, SendingIsClaimed, ReminderTypeOK, Run, Resting
  <2> HIDE DEF y, due
  <2>4. run' \in [Worker -> Run]
    BY <1>t, <2>2, <2>3, RestingIsRun DEF ReminderTypeOK
  <2> QED BY <1>t, <2>3, <2>4, <2>5 DEF ReminderInv, ReminderTypeOK, RequestsInHand, SendingIsClaimed, history
<1>8. ASSUME NEW w \in Worker, NEW r \in Reminder, Claim(w, r) PROVE ReminderInv'
  <2>1. [run[w] EXCEPT !.step = "claimed", !.list = @ \ {r}, !.sending = {r}] \in Run
        /\ run[w].now \in Time
    BY <1>t, RunColumns DEF ReminderTypeOK
  <2>2. run' \in [Worker -> Run]
    BY <1>t, <1>8, <2>1 DEF ReminderTypeOK, Claim
  <2>3. row' \in [Reminder -> Row]
    BY <1>t, <1>8, <2>1, RowColumns DEF ReminderTypeOK, Claim
  <2>4. raced' \subseteq Reminder /\ UNCHANGED <<clock, request, edits, told, last, repeated, failed>>
    BY <1>t, <1>8 DEF ReminderTypeOK, Claim
  <2>5. [run[w] EXCEPT !.step = "claimed", !.list = @ \ {r}, !.sending = {r}].step = "claimed"
        /\ [run[w] EXCEPT !.step = "claimed", !.list = @ \ {r}, !.sending = {r}].sending = {r}
    BY <1>t DEF ReminderTypeOK, Run
  <2>6. SendingIsClaimed'
    BY <1>t, <1>8, <2>1, <2>5 DEF Claim, SendingIsClaimed, ReminderTypeOK
  <2> QED BY <1>t, <2>2, <2>3, <2>4, <2>6 DEF ReminderInv, ReminderTypeOK, RequestsInHand
<1>9. ASSUME NEW w \in Worker, Send(w) PROVE ReminderInv'
  <2>1. PICK r \in run[w].sending :
          /\ told' = [told EXCEPT ![r] = @ \cup {run[w].read[r].due}]
          /\ last' = [last EXCEPT ![r] = clock]
          /\ repeated' = IF run[w].read[r].due \in told[r] THEN repeated \cup {r} ELSE repeated
    BY <1>9 DEF Send
  <2>2. r \in Reminder /\ run[w].read[r].due \in Time
    BY <1>t, RunColumns, RowColumns DEF ReminderTypeOK
  <2>3. run' \in [Worker -> Run] /\ SendingIsClaimed'
    BY <1>9, <1>t, GoOnTyped DEF Send, ReminderTypeOK
  <2>4. told' \in [Reminder -> SUBSET Time]
    BY <1>t, <2>1, <2>2 DEF ReminderTypeOK
  <2>5. last' \in [Reminder -> Time \cup {Null}] /\ repeated' \subseteq Reminder
    BY <1>t, <2>1, <2>2 DEF ReminderTypeOK
  <2>6. UNCHANGED <<row, clock, request, edits, raced, failed>>
    BY <1>9 DEF Send
  <2> QED BY <1>t, <2>3, <2>4, <2>5, <2>6 DEF ReminderInv, ReminderTypeOK, RequestsInHand, SendingIsClaimed
<1>10. ASSUME NEW w \in Worker, Fail(w) \/ LoseWorker(w) PROVE ReminderInv'
  <2>1. run' \in [Worker -> Run] /\ SendingIsClaimed'
    <3>1. CASE Fail(w)
      BY <3>1, <1>t, GoOnTyped DEF Fail, ReminderTypeOK
    <3>2. CASE LoseWorker(w)
      BY <3>2, <1>t, RestingIsRun DEF LoseWorker, ReminderTypeOK, SendingIsClaimed, Resting
    <3> QED BY <1>10, <3>1, <3>2
  <2>2. failed' \subseteq Reminder
    BY <1>10, <1>t, RunColumns DEF Fail, LoseWorker, ReminderTypeOK
  <2> QED BY <1>t, <1>10, <2>1, <2>2 DEF ReminderInv, ReminderTypeOK, RequestsInHand, SendingIsClaimed, Fail, LoseWorker
<1>11. ASSUME Tick PROVE ReminderInv'
  <2>1. clock' \in Time
    BY <1>t, <1>11, ReminderAssumption DEF Tick, ReminderTypeOK, Time
  <2> QED BY <1>t, <1>11, <2>1 DEF Tick, ReminderInv, ReminderTypeOK, RequestsInHand, SendingIsClaimed, history
<1>12. ASSUME UNCHANGED reminderVars PROVE ReminderInv'
  BY <1>t, <1>12 DEF reminderVars, ReminderInv, ReminderTypeOK, RequestsInHand, SendingIsClaimed, history
<1> QED
  BY <1>1, <1>2, <1>3, <1>4, <1>5, <1>6, <1>7, <1>8, <1>9, <1>10, <1>11, <1>12, TimeIsInt
     DEF ReminderNext, Op

\* crm/tasks.py, crm/views.py: rows, runs of fire_due_reminders and requests in hand
\* keep their types, though a PATCH saves the whole row that it read.
THEOREM RemindersTyped == ReminderSpec => []ReminderTypeOK
<1>1. ReminderInv => ReminderTypeOK
  BY DEF ReminderInv
<1> QED BY <1>1, InitReminders, NextReminders, PTL DEF ReminderSpec

-----------------------------------------------------------------------------
(* Reminders: no due time is announced twice without a race.               *)

\* A reminder in a run's hands exists or existed; nothing is said of one not made yet.
RowsExist ==
    /\ \A w \in Worker : \A r \in run[w].list \cup run[w].sending : row[r].life # "unborn"
    /\ \A r \in Reminder : row[r].life = "unborn" => told[r] = {}

\* What is still to be claimed was due by the run's time, and its stamp was older.
ListedWereDue ==
    \A w \in Worker : \A r \in run[w].list :
        run[w].read[r].stamp < run[w].read[r].due /\ run[w].read[r].due <= run[w].now

\* The due times announced and about to be announced are below the stamp, and no two
\* runs are about to announce the same one.
StampCovers ==
    \A r \in Reminder \ raced :
        /\ Kept(row[r]) => \A d \in told[r] : d <= row[r].stamp
        /\ \A w \in Worker : r \in run[w].sending =>
              /\ Kept(row[r]) => run[w].read[r].due <= row[r].stamp
              /\ run[w].read[r].due \notin told[r]
              /\ \A v \in Worker \ {w} :
                    r \in run[v].sending => run[v].read[r].due # run[w].read[r].due

OnceInv == ReminderInv /\ RowsExist /\ ListedWereDue /\ StampCovers /\ RepeatedOnlyByRaces

LEMMA InitOnce == ReminderInit => OnceInv
<1> SUFFICES ASSUME ReminderInit PROVE OnceInv
  OBVIOUS
<1>1. \A w \in Worker : run[w].list = {} /\ run[w].sending = {}
  BY DEF ReminderInit, Resting
<1> QED
  BY <1>1, InitReminders DEF ReminderInit, OnceInv, RowsExist, ListedWereDue, StampCovers, RepeatedOnlyByRaces

\* The numbers that the proofs compare.
LEMMA Numbers ==
    ASSUME ReminderTypeOK
    PROVE  /\ clock \in Int
           /\ \A r \in Reminder : /\ row[r] \in Row /\ row[r].stamp \in Int /\ row[r].due \in Time
                                  /\ told[r] \subseteq Int /\ last[r] \in Int
           /\ \A w \in Worker : /\ run[w] \in Run /\ run[w].now \in Int
                                /\ run[w].list \subseteq Reminder /\ run[w].sending \subseteq Reminder
                                /\ \A r \in Reminder : /\ run[w].read[r].stamp \in Int
                                                       /\ run[w].read[r].due \in Int
           /\ \A q \in Request : /\ request[q] \in Asked /\ request[q].of \subseteq Reminder
                                 /\ request[q].copy.stamp \in Int
<1>1. \A x \in Row : x.stamp \in Int /\ x.due \in Time /\ x.due \in Int
  BY TimeIsInt DEF Row
<1>2. clock \in Int /\ \A r \in Reminder : told[r] \subseteq Int /\ last[r] \in Int
  BY TimeIsInt DEF ReminderTypeOK
<1>3. \A r \in Reminder : row[r] \in Row /\ row[r].stamp \in Int /\ row[r].due \in Time
  BY <1>1 DEF ReminderTypeOK
<1>4. ASSUME NEW w \in Worker
      PROVE  /\ run[w] \in Run /\ run[w].now \in Int
             /\ run[w].list \subseteq Reminder /\ run[w].sending \subseteq Reminder
             /\ run[w].read \in [Reminder -> Row]
  BY TimeIsInt, RunColumns DEF ReminderTypeOK
<1>5. ASSUME NEW q \in Request
      PROVE  request[q] \in Asked /\ request[q].of \subseteq Reminder /\ request[q].copy \in Row
  BY DEF ReminderTypeOK, Asked
<1> QED BY <1>1, <1>2, <1>3, <1>4, <1>5

\* What saving a request does to a row that is there, if nobody has raced it.
LEMMA SavedKeepsStamp ==
    ASSUME NEW x \in Row, NEW j, j.op \in Op \ {"none"}, j.op = "patch" => j.copy \in Row,
           j.op \in {"patch", "reschedule"} => j.to \in Time
    PROVE  /\ Saved(x, j).stamp = IF j.op = "patch" THEN j.copy.stamp ELSE x.stamp
           /\ Saved(x, j).life = IF j.op = "patch" THEN j.copy.life ELSE x.life
BY DEF Saved, Op, Row

\* A write that keeps the stamp of every row kept, and makes or deletes rows no run has
\* in hand, leaves the invariant alone.
LEMMA StampsStand ==
    ASSUME OnceInv, ReminderInv', UNCHANGED <<run, told, repeated>>, raced \subseteq raced',
           \A r \in Reminder :
              /\ row'[r].life = "unborn" => row[r].life = "unborn"
              /\ r \notin raced' /\ Kept(row'[r]) =>
                    \/ Kept(row[r]) /\ row'[r].stamp = row[r].stamp
                    \/ row[r].life = "unborn"
    PROVE  OnceInv'
<1>t. ReminderTypeOK
  BY DEF OnceInv, ReminderInv
<1>r. RowsExist'
  BY <1>t, Numbers DEF OnceInv, RowsExist
<1>1. ListedWereDue' /\ RepeatedOnlyByRaces'
  BY DEF OnceInv, ListedWereDue, RepeatedOnlyByRaces
<1>2. ASSUME NEW r \in Reminder \ raced'
      PROVE  /\ Kept(row'[r]) => \A d \in told[r] : d <= row'[r].stamp
             /\ \A w \in Worker : r \in run[w].sending /\ Kept(row'[r]) =>
                   run[w].read[r].due <= row'[r].stamp
  BY <1>2 DEF OnceInv, RowsExist, StampCovers
<1>3. StampCovers'
  BY <1>2 DEF OnceInv, StampCovers
<1> QED BY <1>r, <1>1, <1>3 DEF OnceInv

\* A step of a run that claims and sends nothing, and lets go of some of its list.
LEMMA RunLetsGo ==
    ASSUME OnceInv, ReminderInv', NEW w \in Worker, NEW y,
           run' = [run EXCEPT ![w] = y], UNCHANGED <<row, told, repeated, raced>>,
           y.sending \subseteq run[w].sending,
           y.read = run[w].read \/ y.sending = {},
           \A r \in y.list : \/ r \in run[w].list /\ y.now = run[w].now /\ y.read = run[w].read
                             \/ y.read[r] = row[r] /\ DueAt(row[r], y.now)
    PROVE  OnceInv'
<1>t. ReminderTypeOK
  BY DEF OnceInv, ReminderInv
<1>1. run'[w] = y /\ \A v \in Worker \ {w} : run'[v] = run[v]
  BY <1>t DEF ReminderTypeOK
<1>2. RowsExist'
  BY <1>1 DEF OnceInv, RowsExist, DueAt, Open, Kept
<1>3. ListedWereDue'
  BY <1>1 DEF OnceInv, ListedWereDue, DueAt, Armed
<1>4. StampCovers'
  <2> SUFFICES ASSUME NEW r \in Reminder \ raced, NEW v \in Worker, r \in run'[v].sending
               PROVE  /\ Kept(row[r]) => run'[v].read[r].due <= row[r].stamp
                      /\ run'[v].read[r].due \notin told[r]
                      /\ \A u \in Worker \ {v} :
                            r \in run'[u].sending => run'[u].read[r].due # run'[v].read[r].due
    BY DEF OnceInv, StampCovers
  <2>1. \A u \in Worker : r \in run'[u].sending =>
           r \in run[u].sending /\ run'[u].read[r].due = run[u].read[r].due
    BY <1>1
  <2> QED BY <2>1 DEF OnceInv, StampCovers
<1> QED BY <1>2, <1>3, <1>4 DEF OnceInv, RepeatedOnlyByRaces

LEMMA NextOnce == OnceInv /\ [ReminderNext]_reminderVars => OnceInv'
<1> SUFFICES ASSUME OnceInv, [ReminderNext]_reminderVars PROVE OnceInv'
  OBVIOUS
<1>t. ReminderInv /\ ReminderTypeOK /\ RequestsInHand /\ SendingIsClaimed /\ ReminderInv'
  BY NextReminders DEF OnceInv, ReminderInv
<1>1. ASSUME NEW r \in Reminder, NEW t \in Time, Create(r, t) PROVE OnceInv'
  <2>1. \A d \in Reminder : row'[d] = IF d = r THEN Fresh(t) ELSE row[d]
    BY <1>1, <1>t DEF Create, ReminderTypeOK
  <2>2. Fresh(t).life = "kept" /\ row[r].life = "unborn"
    BY <1>1 DEF Create, Fresh, NoRow
  <2>3. UNCHANGED <<run, told, repeated, raced>>
    BY <1>1 DEF Create, history
  <2> QED BY <1>t, <2>1, <2>2, <2>3, StampsStand
<1>2. ASSUME NEW q \in Request, NEW r \in Reminder, NEW op \in Op, NEW t \in Time,
             Read(q, r, op, t)
      PROVE  OnceInv'
  BY <1>2, <1>t, StampsStand DEF Read, history
<1>3. ASSUME NEW q \in Request, Save(q) PROVE OnceInv'
  <2>1. PICK r \in request[q].of :
          IF Kept(row[r]) \/ request[q].op = "patch"
          THEN /\ row' = [row EXCEPT ![r] = Saved(row[r], request[q])]
               /\ raced' = IF request[q].op = "patch"
                              /\ (~Kept(row[r]) \/ row[r].stamp # request[q].copy.stamp)
                           THEN raced \cup {r} ELSE raced
          ELSE UNCHANGED <<row, raced>>
    BY <1>3 DEF Save
  <2>2. r \in Reminder /\ request[q] \in Asked /\ request[q].op \in Op \ {"none"}
        /\ request[q].copy \in Row /\ request[q].to \in Time /\ row[r] \in Row
    BY <1>t DEF ReminderTypeOK, Asked, RequestsInHand
  <2>3. UNCHANGED <<run, told, repeated>>
    BY <1>3 DEF Save
  <2>4. CASE ~(Kept(row[r]) \/ request[q].op = "patch")
    BY <2>1, <2>3, <2>4, <1>t, StampsStand
  <2>5. CASE Kept(row[r]) \/ request[q].op = "patch"
    <3> DEFINE y == Saved(row[r], request[q])
    <3>1. /\ y.stamp = IF request[q].op = "patch" THEN request[q].copy.stamp ELSE row[r].stamp
          /\ y.life = IF request[q].op = "patch" THEN "kept" ELSE row[r].life
      BY <2>1, <2>2, <1>t, SavedKeepsStamp DEF RequestsInHand, Kept
    <3> HIDE DEF y
    <3>2. \A d \in Reminder : row'[d] = IF d = r THEN y ELSE row[d]
      BY <2>1, <2>5, <1>t DEF ReminderTypeOK, y
    <3>3. raced \subseteq raced' /\ (r \notin raced' => Kept(row[r]) /\ y.stamp = row[r].stamp)
      BY <2>1, <2>5, <3>1
    <3> QED BY <2>3, <2>5, <1>t, <3>1, <3>2, <3>3, StampsStand DEF Kept
  <2> QED BY <2>4, <2>5
<1>4. ASSUME NEW r \in Reminder, NEW op \in {"complete", "cancel", "reschedule"}, NEW t \in Time,
             Bulk(r, op, t)
      PROVE  OnceInv'
  <2> DEFINE j == [op |-> op, to |-> t]
             y == Saved(row[r], j)
  <2>1. y.stamp = row[r].stamp /\ y.life = row[r].life
    BY <1>t, SavedKeepsStamp DEF ReminderTypeOK, Op
  <2>2. row' = [row EXCEPT ![r] = y] /\ UNCHANGED <<run, told, repeated, raced>>
    BY <1>4 DEF Bulk, history
  <2> HIDE DEF y
  <2>3. \A d \in Reminder : row'[d] = IF d = r THEN y ELSE row[d]
    BY <2>2, <1>t DEF ReminderTypeOK
  <2> QED BY <1>t, <2>1, <2>2, <2>3, StampsStand DEF Kept
<1>5. ASSUME NEW r \in Reminder, Delete(r) PROVE OnceInv'
  <2>1. \A d \in Reminder :
           row'[d] = IF d = r THEN [NoRow EXCEPT !.life = "deleted"] ELSE row[d]
    BY <1>5, <1>t DEF Delete, ReminderTypeOK
  <2>2. [NoRow EXCEPT !.life = "deleted"].life = "deleted"
    BY DEF NoRow
  <2>3. UNCHANGED <<run, told, repeated, raced>>
    BY <1>5 DEF Delete, history
  <2> QED BY <1>t, <2>1, <2>2, <2>3, StampsStand DEF Kept
<1>6. ASSUME NEW w \in Worker, Begin(w) PROVE OnceInv'
  <2> DEFINE y == [Resting EXCEPT !.step = "begun", !.now = clock]
  <2>1. y.list = {} /\ y.sending = {}
    BY DEF Resting
  <2>2. run' = [run EXCEPT ![w] = y] /\ UNCHANGED <<row, told, repeated, raced>>
    BY <1>6 DEF Begin, history
  <2> HIDE DEF y
  <2> QED BY <1>t, <2>1, <2>2, RunLetsGo
<1>7. ASSUME NEW w \in Worker, List(w) PROVE OnceInv'
  <2>0. run[w].sending = {}
    <3>1. run[w].step = "begun"
      BY <1>7 DEF List
    <3> QED BY <3>1, <1>t DEF SendingIsClaimed
  <2> DEFINE due == {r \in Reminder : DueAt(row[r], run[w].now)}
             read == [r \in Reminder |-> IF r \in due THEN row[r] ELSE NoRow]
             y == [run[w] EXCEPT !.step = "listed", !.list = due, !.read = read]
  <2>1. run' = [run EXCEPT ![w] = IF due = {} THEN Resting ELSE y]
        /\ UNCHANGED <<row, told, repeated, raced>> /\ run[w].sending = {}
    <3>1. run' = [run EXCEPT ![w] = IF due = {} THEN Resting ELSE y]
          /\ UNCHANGED <<row, clock, request, edits, history>>
      BY <1>7 DEF List
    <3> HIDE DEF y, due
    <3> QED BY <2>0, <3>1 DEF history
  <2>2. /\ y.sending = {} /\ y.list = due /\ y.read = read /\ y.now = run[w].now
        /\ Resting.sending = {} /\ Resting.list = {}
    BY <1>t, <2>1 DEF ReminderTypeOK, Run, Resting
  <2>3. \A r \in due : read[r] = row[r] /\ DueAt(row[r], run[w].now)
    OBVIOUS
  <2> HIDE DEF y, due, read
  <2>4. CASE due = {}
    BY <1>t, <2>1, <2>2, <2>4, RunLetsGo
  <2>5. CASE due # {}
    BY <1>t, <2>1, <2>2, <2>3, <2>5, RunLetsGo
  <2> QED BY <2>4, <2>5
<1>8. ASSUME NEW w \in Worker, NEW r \in Reminder, Claim(w, r) PROVE OnceInv'
  <2> DEFINE y == [run[w] EXCEPT !.step = "claimed", !.list = @ \ {r}, !.sending = {r}]
  <2>1. /\ y.sending = {r} /\ y.list = run[w].list \ {r}
        /\ y.read = run[w].read /\ y.now = run[w].now
    BY <1>t DEF ReminderTypeOK, Run
  <2>2. run' = [run EXCEPT ![w] = y] /\ r \in run[w].list /\ UNCHANGED <<told, repeated>>
    BY <1>8 DEF Claim
  <2> HIDE DEF y
  <2>3. run'[w] = y /\ \A v \in Worker \ {w} : run'[v] = run[v]
    BY <1>t, <2>2 DEF ReminderTypeOK
  <2>4. /\ row'[r].life = row[r].life /\ \A d \in Reminder \ {r} : row'[d] = row[d]
        /\ Kept(row[r]) => row'[r].stamp = run[w].now
    BY <1>8, <1>t, Numbers DEF Claim, ReminderTypeOK, Watermark, Row
  <2>5. /\ raced \subseteq raced'
        /\ r \notin raced' => Kept(row[r]) /\ row[r].stamp = run[w].read[r].stamp
    BY <1>8 DEF Claim
  <2>6. RowsExist' /\ ListedWereDue' /\ RepeatedOnlyByRaces'
    <3>1. \A d \in Reminder : row'[d].life = row[d].life
      BY <2>4
    <3>2. \A v \in Worker : run'[v].list \cup run'[v].sending \subseteq run[v].list \cup run[v].sending
      BY <2>1, <2>2, <2>3
    <3>3. RowsExist'
      BY <3>1, <3>2, <2>2, <1>t, Numbers DEF OnceInv, RowsExist
    <3>4. ListedWereDue'
      BY <2>1, <2>3 DEF OnceInv, ListedWereDue
    <3>5. RepeatedOnlyByRaces'
      BY <2>2, <2>5 DEF OnceInv, RepeatedOnlyByRaces
    <3> QED BY <3>3, <3>4, <3>5
  \* An untouched stamp is older than the due time claimed: so is all that was told.
  <2>7. ASSUME r \notin raced'
        PROVE  /\ \A d \in told[r] : d < run[w].read[r].due /\ d <= row'[r].stamp
               /\ \A v \in Worker \ {w} : r \in run[v].sending =>
                     run[v].read[r].due < run[w].read[r].due /\ run[v].read[r].due <= row'[r].stamp
               /\ run[w].read[r].due <= row'[r].stamp
    <3>1. r \notin raced /\ Kept(row[r]) /\ row[r].stamp = run[w].read[r].stamp
      BY <2>5, <2>7
    <3>2. run[w].read[r].stamp < run[w].read[r].due /\ run[w].read[r].due <= run[w].now
      BY <2>2 DEF OnceInv, ListedWereDue
    <3>3. /\ \A d \in told[r] : d <= row[r].stamp
          /\ \A v \in Worker : r \in run[v].sending => run[v].read[r].due <= row[r].stamp
      BY <3>1 DEF OnceInv, StampCovers
    <3> QED BY <2>4, <3>1, <3>2, <3>3, <1>t, Numbers
  <2>8. StampCovers'
    <3> SUFFICES ASSUME NEW d \in Reminder \ raced'
                 PROVE  /\ Kept(row'[d]) => \A t \in told[d] : t <= row'[d].stamp
                        /\ \A v \in Worker : d \in run'[v].sending =>
                              /\ Kept(row'[d]) => run'[v].read[d].due <= row'[d].stamp
                              /\ run'[v].read[d].due \notin told[d]
                              /\ \A u \in Worker \ {v} : d \in run'[u].sending =>
                                    run'[u].read[d].due # run'[v].read[d].due
      BY <2>2 DEF StampCovers
    <3>1. CASE d # r
      <4>1. row'[d] = row[d] /\ d \notin raced
        BY <3>1, <2>4, <2>5
      <4>2. \A v \in Worker : d \in run'[v].sending =>
               d \in run[v].sending /\ run'[v].read = run[v].read
        BY <3>1, <2>1, <2>3
      <4> QED BY <4>1, <4>2 DEF OnceInv, StampCovers
    <3>2. CASE d = r
      <4>1. r \notin raced /\ r \notin raced'
        BY <3>2, <2>5
      <4>2. \A t \in told[r] : t < run[w].read[r].due
        BY <4>1, <2>7
      <4>3. run[w].read[r].due \notin told[r]
        BY <4>2, <1>t, Numbers
      <4>4. \A v \in Worker \ {w} : r \in run[v].sending => run[v].read[r].due # run[w].read[r].due
        BY <4>1, <2>7, <1>t, Numbers
      <4>5. \A v \in Worker : r \in run'[v].sending =>
               v = w \/ (r \in run[v].sending /\ run'[v] = run[v])
        BY <2>3
      <4>6. run'[w].read = run[w].read
        BY <2>1, <2>3
      <4>7. ASSUME NEW v \in Worker, r \in run'[v].sending
            PROVE  /\ run'[v].read[r].due <= row'[r].stamp /\ run'[v].read[r].due \notin told[r]
                   /\ \A u \in Worker \ {v} : r \in run'[u].sending =>
                         run'[u].read[r].due # run'[v].read[r].due
        <5>1. CASE v = w
          BY <5>1, <4>1, <4>3, <4>4, <4>5, <4>6, <2>7
        <5>2. CASE v # w
          BY <5>2, <4>7, <4>1, <4>4, <4>5, <4>6, <2>7 DEF OnceInv, StampCovers
        <5> QED BY <5>1, <5>2
      <4> QED BY <3>2, <4>1, <4>7, <2>7
    <3> QED BY <3>1, <3>2
  <2> QED BY <1>t, <2>6, <2>8 DEF OnceInv
<1>9. ASSUME NEW w \in Worker, Send(w) PROVE OnceInv'
  <2>1. PICK r \in run[w].sending :
          /\ told' = [told EXCEPT ![r] = @ \cup {run[w].read[r].due}]
          /\ repeated' = IF run[w].read[r].due \in told[r] THEN repeated \cup {r} ELSE repeated
    BY <1>9 DEF Send
  <2>2. r \in Reminder
    BY <1>t, Numbers
  <2>3. /\ UNCHANGED <<row, raced>>
        /\ \A v \in Worker \ {w} : run'[v] = run[v]
        /\ run'[w].sending = {} /\ run'[w].list \subseteq run[w].list
        /\ \A d \in run'[w].list : run'[w].now = run[w].now /\ run'[w].read = run[w].read
    BY <1>9, <1>t, Numbers DEF Send, GoOn, Resting, Run, ReminderTypeOK
  <2>4. \A d \in Reminder : told'[d] = IF d = r THEN told[r] \cup {run[w].read[r].due} ELSE told[d]
    BY <1>t, <2>1, <2>2 DEF ReminderTypeOK
  <2>5. RowsExist' /\ ListedWereDue'
    BY <2>1, <2>3, <2>4 DEF OnceInv, RowsExist, ListedWereDue
  <2>6. RepeatedOnlyByRaces'
    BY <2>1, <2>2, <2>3 DEF OnceInv, StampCovers, RepeatedOnlyByRaces
  <2>7. StampCovers'
    <3> SUFFICES ASSUME NEW d \in Reminder \ raced
                 PROVE  /\ Kept(row[d]) => \A t \in told'[d] : t <= row[d].stamp
                        /\ \A v \in Worker : d \in run'[v].sending =>
                              /\ Kept(row[d]) => run'[v].read[d].due <= row[d].stamp
                              /\ run'[v].read[d].due \notin told'[d]
                              /\ \A u \in Worker \ {v} : d \in run'[u].sending =>
                                    run'[u].read[d].due # run'[v].read[d].due
      BY <2>3 DEF StampCovers
    <3>1. \A v \in Worker : d \in run'[v].sending =>
             v # w /\ d \in run[v].sending /\ run'[v] = run[v]
      BY <2>3
    <3>2. \A t \in told'[d] : t \in told[d] \/ (d = r /\ t = run[w].read[r].due)
      BY <2>4
    <3> QED BY <3>1, <3>2, <2>1 DEF OnceInv, StampCovers
  <2> QED BY <1>t, <2>5, <2>6, <2>7 DEF OnceInv
<1>10. ASSUME NEW w \in Worker, Fail(w) \/ LoseWorker(w) PROVE OnceInv'
  <2> DEFINE y == IF LoseWorker(w) \/ run[w].list = {} THEN Resting
                  ELSE [run[w] EXCEPT !.step = "listed", !.sending = {}]
  <2>1. /\ y.sending = {} /\ y.list \subseteq run[w].list
        /\ \A r \in y.list : y.now = run[w].now /\ y.read = run[w].read
    BY <1>t, Numbers DEF Resting, Run
  <2>2. run' = [run EXCEPT ![w] = IF LoseWorker(w) \/ run[w].list = {} THEN Resting
                                  ELSE [run[w] EXCEPT !.step = "listed", !.sending = {}]]
    <3>1. CASE LoseWorker(w)
      BY <3>1 DEF LoseWorker
    <3>2. CASE Fail(w) /\ ~LoseWorker(w)
      BY <3>2 DEF Fail, GoOn
    <3> QED BY <1>10, <3>1, <3>2
  <2>3. UNCHANGED <<row, told, repeated, raced>>
    BY <1>10 DEF Fail, LoseWorker
  <2>4. run' = [run EXCEPT ![w] = y]
    BY <2>2
  <2> HIDE DEF y
  <2> QED BY <1>t, <2>1, <2>3, <2>4, RunLetsGo
<1>11. ASSUME Tick \/ UNCHANGED reminderVars PROVE OnceInv'
  BY <1>11, <1>t, StampsStand DEF Tick, reminderVars, history
<1> QED
  BY <1>1, <1>2, <1>3, <1>4, <1>5, <1>6, <1>7, <1>8, <1>9, <1>10, <1>11, TimeIsInt
     DEF ReminderNext, Op

\* crm/tasks.py, "a missed alert, never a duplicate loop": however many runs overlap,
\* die and fail, and whatever requests save, delete or bring back, a due time announced
\* again means that somebody wrote over a stamp they had not read.
THEOREM RepeatsAreRaces == ReminderSpec => []RepeatedOnlyByRaces
<1>1. OnceInv => RepeatedOnlyByRaces
  BY DEF OnceInv
<1> QED BY <1>1, InitOnce, NextOnce, PTL DEF ReminderSpec

-----------------------------------------------------------------------------
(* Reminders: a stamp tells of an alert.                                   *)

\* The stamp s of r has been followed by an alert, is about to be, or lost it.
Answered(r, s) ==
    \/ s = Null
    \/ last[r] >= s
    \/ \E w \in Worker : r \in run[w].sending
    \/ r \in failed

\* Stamps are never in the future, written or in a request's copy, and each is answered.
AlertInv ==
    /\ ReminderInv
    /\ \A r \in Reminder :
          last[r] <= clock /\ row[r].stamp <= clock /\ Answered(r, row[r].stamp)
    /\ \A w \in Worker : run[w].now <= clock
    /\ \A q \in Request : \A r \in request[q].of :
          request[q].copy.stamp <= clock /\ Answered(r, request[q].copy.stamp)

LEMMA InitAlert == ReminderInit => AlertInv
<1> SUFFICES ASSUME ReminderInit PROVE AlertInv
  OBVIOUS
<1>1. \A w \in Worker : run[w].now = 0
  BY DEF ReminderInit, Resting
<1>2. \A r \in Reminder : row[r].stamp = Null /\ last[r] = Null
  BY DEF ReminderInit, NoRow
<1>3. \A q \in Request : request[q].of = {}
  BY QuietIsAsked DEF ReminderInit
<1>4. clock = 0 /\ Null <= 0
  BY DEF ReminderInit, Null
<1> QED BY <1>1, <1>2, <1>3, <1>4, InitReminders DEF AlertInv, Answered

\* What was answered stays so: the alerts of a run come, or fail for all to see.
StillAnswered ==
    /\ \A r \in Reminder : last'[r] = last[r] \/ last'[r] = clock
    /\ failed \subseteq failed'
    /\ \A r \in Reminder : (\E w \in Worker : r \in run[w].sending) =>
          \/ \E w \in Worker : r \in run'[w].sending
          \/ last'[r] = clock
          \/ r \in failed'

LEMMA AnswersStand ==
    ASSUME AlertInv, StillAnswered, NEW r \in Reminder, NEW s \in Int, s <= clock, Answered(r, s)
    PROVE  \/ s = Null
           \/ last'[r] >= s
           \/ \E w \in Worker : r \in run'[w].sending
           \/ r \in failed'
<1>1. clock \in Int /\ last[r] \in Int /\ last[r] <= clock
  BY Numbers DEF AlertInv, ReminderInv
<1>2. CASE s = Null
  BY <1>2 DEF Answered
<1>3. CASE last[r] >= s
  BY <1>1, <1>3 DEF StillAnswered, Answered
<1>4. CASE (\E w \in Worker : r \in run[w].sending) \/ r \in failed
  BY <1>4 DEF StillAnswered, Answered
<1> QED BY <1>2, <1>3, <1>4 DEF Answered

\* A step whose stamps are old ones, or none, keeps the invariant.
LEMMA OldStamps ==
    ASSUME AlertInv, ReminderInv', StillAnswered, clock' >= clock,
           \A w \in Worker : run'[w].now = run[w].now \/ run'[w].now = clock \/ run'[w].now = 0,
           \A r \in Reminder :
              \/ row'[r].stamp = Null \/ row'[r].stamp = row[r].stamp
              \/ \E q \in Request : r \in request[q].of /\ row'[r].stamp = request[q].copy.stamp
              \/ /\ \E w \in Worker : row'[r].stamp = run[w].now
                 /\ \E w \in Worker : r \in run'[w].sending,
           \A q \in Request : \/ request'[q].of = {} \/ request'[q] = request[q]
                              \/ \E r \in Reminder : /\ request'[q].of = {r}
                                                     /\ request'[q].copy = row[r]
    PROVE  AlertInv'
<1>m. ReminderTypeOK /\ ReminderTypeOK'
  BY DEF AlertInv, ReminderInv
<1>n. ReminderTypeOK /\ ReminderTypeOK' /\ clock \in Int /\ clock' \in Int
  BY <1>m, TimeIsInt DEF ReminderTypeOK
<1>0. 0 <= clock /\ Null <= clock
  BY <1>n, ReminderAssumption DEF ReminderTypeOK, Time, Null
<1>1. ASSUME NEW r \in Reminder PROVE last'[r] <= clock'
  BY <1>n, Numbers DEF AlertInv, StillAnswered
<1>2. ASSUME NEW w \in Worker PROVE run'[w].now <= clock'
  BY <1>n, <1>0, Numbers DEF AlertInv
<1>3. ASSUME NEW r \in Reminder, NEW s \in Int, s <= clock, Answered(r, s)
      PROVE  s <= clock' /\ \/ s = Null
                            \/ last'[r] >= s
                            \/ \E w \in Worker : r \in run'[w].sending
                            \/ r \in failed'
  BY <1>3, <1>n, AnswersStand
<1>4. ASSUME NEW r \in Reminder
      PROVE  row'[r].stamp <= clock' /\ Answered(r, row[r].stamp)'
  <2>1. CASE row'[r].stamp = Null
    BY <2>1, <1>n, <1>0, TimeIsInt DEF Answered
  <2>2. CASE row'[r].stamp = row[r].stamp
    <3>1. row[r].stamp \in Int /\ row[r].stamp <= clock /\ Answered(r, row[r].stamp)
      BY <1>n, Numbers DEF AlertInv
    <3> QED BY <2>2, <3>1, <1>3 DEF Answered
  <2>3. ASSUME NEW q \in Request, r \in request[q].of, row'[r].stamp = request[q].copy.stamp
        PROVE  row'[r].stamp <= clock' /\ Answered(r, row[r].stamp)'
    <3>1. request[q].copy.stamp \in Int /\ request[q].copy.stamp <= clock
          /\ Answered(r, request[q].copy.stamp)
      BY <2>3, <1>n, Numbers DEF AlertInv
    <3> QED BY <2>3, <3>1, <1>3 DEF Answered
  <2>4. ASSUME NEW w \in Worker, row'[r].stamp = run[w].now,
               \E v \in Worker : r \in run'[v].sending
        PROVE  row'[r].stamp <= clock' /\ Answered(r, row[r].stamp)'
    <3>1. run[w].now \in Int /\ run[w].now <= clock
      BY <1>n, Numbers DEF AlertInv
    <3> QED BY <2>4, <3>1, <1>n DEF Answered
  <2> QED BY <2>1, <2>2, <2>3, <2>4
<1>5. ASSUME NEW q \in Request, NEW r \in request'[q].of
      PROVE  request'[q].copy.stamp <= clock' /\ Answered(r, request[q].copy.stamp)'
  <2>1. CASE request'[q] = request[q]
    <3>1. request[q].copy.stamp \in Int /\ request[q].copy.stamp <= clock
          /\ Answered(r, request[q].copy.stamp) /\ r \in Reminder
      BY <2>1, <1>5, <1>n, Numbers DEF AlertInv
    <3> QED BY <2>1, <3>1, <1>3 DEF Answered
  <2>2. ASSUME NEW d \in Reminder, request'[q].of = {d}, request'[q].copy = row[d]
        PROVE  request'[q].copy.stamp <= clock' /\ Answered(r, request[q].copy.stamp)'
    <3>1. r = d
      BY <2>2, <1>5
    <3>2. row[r].stamp \in Int /\ row[r].stamp <= clock /\ Answered(r, row[r].stamp)
      BY <2>2, <3>1, <1>n, Numbers DEF AlertInv
    <3> QED BY <2>2, <3>1, <3>2, <1>3 DEF Answered
  <2> QED BY <1>5, <2>1, <2>2
<1> QED BY <1>1, <1>2, <1>4, <1>5 DEF AlertInv

LEMMA NextAlert == AlertInv /\ [ReminderNext]_reminderVars => AlertInv'
<1> SUFFICES ASSUME AlertInv, [ReminderNext]_reminderVars PROVE AlertInv'
  OBVIOUS
<1>t. ReminderInv /\ ReminderTypeOK /\ RequestsInHand /\ SendingIsClaimed /\ ReminderInv' /\ clock \in Int
  BY NextReminders, Numbers DEF AlertInv, ReminderInv
<1>1. ASSUME NEW r \in Reminder, NEW t \in Time, Create(r, t) PROVE AlertInv'
  <2>1. \A d \in Reminder : row'[d] = IF d = r THEN Fresh(t) ELSE row[d]
    BY <1>1, <1>t DEF Create, ReminderTypeOK
  <2>2. Fresh(t).stamp = Null
    BY DEF Fresh, NoRow
  <2>3. UNCHANGED <<clock, run, request, last, failed>>
    BY <1>1 DEF Create, history
  <2>4. StillAnswered
    BY <2>3 DEF StillAnswered
  <2> QED BY <1>t, <2>1, <2>2, <2>3, <2>4, OldStamps
<1>2. ASSUME NEW q \in Request, NEW r \in Reminder, NEW op \in Op, NEW t \in Time,
             Read(q, r, op, t)
      PROVE  AlertInv'
  <2> DEFINE j == [op |-> op, of |-> {r}, copy |-> row[r], to |-> t]
  <2>1. \A d \in Request : request'[d] = IF d = q THEN j ELSE request[d]
    BY <1>2, <1>t DEF Read, ReminderTypeOK
  <2>2. j.of = {r} /\ j.copy = row[r]
    OBVIOUS
  <2>3. UNCHANGED <<row, clock, run, last, failed>>
    BY <1>2 DEF Read, history
  <2>4. StillAnswered
    BY <2>3 DEF StillAnswered
  <2> HIDE DEF j
  <2> QED BY <1>t, <2>1, <2>2, <2>3, <2>4, OldStamps
<1>3. ASSUME NEW q \in Request, Save(q) PROVE AlertInv'
  <2>1. PICK r \in request[q].of :
          IF Kept(row[r]) \/ request[q].op = "patch"
          THEN row' = [row EXCEPT ![r] = Saved(row[r], request[q])]
          ELSE UNCHANGED row
    BY <1>3 DEF Save
  <2>2. r \in Reminder /\ request[q] \in Asked /\ request[q].op \in Op \ {"none"}
        /\ request[q].copy \in Row /\ request[q].to \in Time /\ row[r] \in Row
    BY <1>t DEF ReminderTypeOK, Asked, RequestsInHand
  <2>3. UNCHANGED <<clock, run, last, failed>> /\ request' = [request EXCEPT ![q] = Quiet]
    BY <1>3 DEF Save
  <2>4. StillAnswered
    BY <2>3 DEF StillAnswered
  <2>5. \A d \in Request : request'[d].of = {} \/ request'[d] = request[d]
    BY <2>3, <1>t, QuietIsAsked DEF ReminderTypeOK
  <2>6. \A d \in Reminder : \/ row'[d].stamp = row[d].stamp
                            \/ d = r /\ row'[d].stamp = request[q].copy.stamp
    <3> DEFINE y == Saved(row[r], request[q])
    <3>1. y.stamp = IF request[q].op = "patch" THEN request[q].copy.stamp ELSE row[r].stamp
      BY <2>2, SavedKeepsStamp
    <3> HIDE DEF y
    <3>2. row' = [row EXCEPT ![r] = y] \/ row' = row
      BY <2>1 DEF y
    <3> QED BY <3>1, <3>2, <1>t DEF ReminderTypeOK
  <2> QED BY <1>t, <2>3, <2>4, <2>5, <2>6, OldStamps
<1>4. ASSUME NEW r \in Reminder, NEW op \in {"complete", "cancel", "reschedule"}, NEW t \in Time,
             Bulk(r, op, t)
      PROVE  AlertInv'
  <2> DEFINE j == [op |-> op, to |-> t]
             y == Saved(row[r], j)
  <2>1. y.stamp = row[r].stamp
    BY <1>t, SavedKeepsStamp DEF ReminderTypeOK, Op
  <2>2. row' = [row EXCEPT ![r] = y] /\ UNCHANGED <<clock, run, request, last, failed>>
    BY <1>4 DEF Bulk, history
  <2> HIDE DEF y
  <2>3. \A d \in Reminder : row'[d].stamp = row[d].stamp
    BY <2>1, <2>2, <1>t DEF ReminderTypeOK
  <2>4. StillAnswered
    BY <2>2 DEF StillAnswered
  <2> QED BY <1>t, <2>2, <2>3, <2>4, OldStamps
<1>5. ASSUME NEW r \in Reminder, Delete(r) PROVE AlertInv'
  <2> DEFINE x == [NoRow EXCEPT !.life = "deleted"]
  <2>1. \A d \in Reminder : row'[d] = IF d = r THEN x ELSE row[d]
    BY <1>5, <1>t DEF Delete, ReminderTypeOK
  <2>2. x.stamp = Null
    BY DEF NoRow
  <2> HIDE DEF x
  <2>3. UNCHANGED <<clock, run, request, last, failed>>
    BY <1>5 DEF Delete, history
  <2>4. StillAnswered
    BY <2>3 DEF StillAnswered
  <2> QED BY <1>t, <2>1, <2>2, <2>3, <2>4, OldStamps
<1>6. ASSUME NEW w \in Worker, Begin(w) PROVE AlertInv'
  <2> DEFINE y == [Resting EXCEPT !.step = "begun", !.now = clock]
  <2>1. y.now = clock /\ run[w].sending = {}
    BY <1>6 DEF Begin, Resting
  <2>2. run' = [run EXCEPT ![w] = y] /\ UNCHANGED <<row, clock, request, last, failed>>
    BY <1>6 DEF Begin, history
  <2> HIDE DEF y
  <2>3. \A v \in Worker : run'[v] = IF v = w THEN y ELSE run[v]
    BY <2>2, <1>t DEF ReminderTypeOK
  <2>4. StillAnswered
    BY <2>1, <2>2, <2>3 DEF StillAnswered
  <2> QED BY <1>t, <2>1, <2>2, <2>3, <2>4, OldStamps
<1>7. ASSUME NEW w \in Worker, List(w) PROVE AlertInv'
  <2>0. run[w].sending = {}
    <3>1. run[w].step = "begun"
      BY <1>7 DEF List
    <3> QED BY <3>1, <1>t DEF SendingIsClaimed
  <2> DEFINE due == {r \in Reminder : DueAt(row[r], run[w].now)}
             read == [r \in Reminder |-> IF r \in due THEN row[r] ELSE NoRow]
             y == [run[w] EXCEPT !.step = "listed", !.list = due, !.read = read]
  <2>1. run' = [run EXCEPT ![w] = IF due = {} THEN Resting ELSE y]
        /\ UNCHANGED <<row, clock, request, edits, history>>
    BY <1>7 DEF List
  <2>2. y.now = run[w].now /\ Resting.now = 0
    BY <1>t DEF ReminderTypeOK, Run, Resting
  <2> HIDE DEF y, due
  <2>3. \A v \in Worker : run'[v] = IF v = w THEN IF due = {} THEN Resting ELSE y ELSE run[v]
    BY <2>1, <1>t DEF ReminderTypeOK
  <2>4. UNCHANGED <<row, clock, request, last, failed>>
    BY <2>1 DEF history
  <2>5. StillAnswered
    BY <2>0, <2>3, <2>4 DEF StillAnswered
  <2> QED BY <1>t, <2>2, <2>3, <2>4, <2>5, OldStamps
<1>8. ASSUME NEW w \in Worker, NEW r \in Reminder, Claim(w, r) PROVE AlertInv'
  <2> DEFINE y == [run[w] EXCEPT !.step = "claimed", !.list = @ \ {r}, !.sending = {r}]
  <2>0. run[w].sending = {}
    <3>1. run[w].step = "listed"
      BY <1>8 DEF Claim
    <3> QED BY <3>1, <1>t DEF SendingIsClaimed
  <2>1. y.sending = {r} /\ y.now = run[w].now
    BY <1>t DEF ReminderTypeOK, Run
  <2>2. run' = [run EXCEPT ![w] = y] /\ UNCHANGED <<clock, request, last, failed>>
    BY <1>8 DEF Claim
  <2> HIDE DEF y
  <2>3. \A v \in Worker : run'[v] = IF v = w THEN y ELSE run[v]
    BY <2>2, <1>t DEF ReminderTypeOK
  <2>4. /\ \A d \in Reminder \ {r} : row'[d] = row[d]
        /\ row'[r].stamp = row[r].stamp \/ row'[r].stamp = run[w].now
    BY <1>8, <1>t, Numbers DEF Claim, ReminderTypeOK, Watermark, Row
  <2>5. StillAnswered
    BY <2>0, <2>2, <2>3 DEF StillAnswered
  <2> QED BY <1>t, <2>1, <2>2, <2>3, <2>4, <2>5, OldStamps
<1>9. ASSUME NEW w \in Worker, Send(w) PROVE AlertInv'
  <2>1. PICK r \in run[w].sending : last' = [last EXCEPT ![r] = clock]
    BY <1>9 DEF Send
  <2>2. UNCHANGED <<row, clock, request, failed>>
    BY <1>9 DEF Send
  <2>3. /\ \A v \in Worker \ {w} : run'[v] = run[v]
        /\ run'[w].now = run[w].now \/ run'[w].now = 0
    BY <1>9, <1>t, Numbers DEF Send, GoOn, Resting, Run, ReminderTypeOK
  <2>4. r \in Reminder /\ \A d \in run[w].sending : d = r
    BY <1>t, Numbers DEF SendingIsClaimed
  <2>5. \A d \in Reminder : last'[d] = IF d = r THEN clock ELSE last[d]
    BY <1>t, <2>1, <2>4 DEF ReminderTypeOK
  <2>6. StillAnswered
    BY <2>2, <2>3, <2>4, <2>5 DEF StillAnswered
  <2> QED BY <1>t, <2>2, <2>3, <2>6, OldStamps
<1>10. ASSUME NEW w \in Worker, Fail(w) \/ LoseWorker(w) PROVE AlertInv'
  <2>1. UNCHANGED <<row, clock, request, last>> /\ failed' = failed \cup run[w].sending
    BY <1>10 DEF Fail, LoseWorker
  <2>2. /\ \A v \in Worker \ {w} : run'[v] = run[v]
        /\ run'[w].now = run[w].now \/ run'[w].now = 0
    <3>1. CASE Fail(w)
      BY <3>1, <1>t, Numbers DEF Fail, GoOn, Resting, Run, ReminderTypeOK
    <3>2. CASE LoseWorker(w)
      BY <3>2, <1>t DEF LoseWorker, Resting, ReminderTypeOK
    <3> QED BY <1>10, <3>1, <3>2
  <2>3. StillAnswered
    BY <2>1, <2>2 DEF StillAnswered
  <2> QED BY <1>t, <2>1, <2>2, <2>3, OldStamps
<1>11. ASSUME Tick PROVE AlertInv'
  <2>1. UNCHANGED <<row, run, request, last, failed>> /\ clock' = clock + 1
    BY <1>11 DEF Tick, history
  <2>2. StillAnswered
    BY <2>1 DEF StillAnswered
  <2> QED BY <1>t, <2>1, <2>2, OldStamps
<1>12. ASSUME UNCHANGED reminderVars PROVE AlertInv'
  <2>1. UNCHANGED <<row, run, request, last, failed, clock>>
    BY <1>12 DEF reminderVars, history
  <2>2. StillAnswered
    BY <2>1 DEF StillAnswered
  <2> QED BY <1>t, <2>1, <2>2, OldStamps
<1> QED
  BY <1>1, <1>2, <1>3, <1>4, <1>5, <1>6, <1>7, <1>8, <1>9, <1>10, <1>11, <1>12, TimeIsInt
     DEF ReminderNext, Op

\* crm/tasks.py, crm/models.py (due_notified_at): what the task passes over as announced
\* was announced at or after its due time, is being announced, or was lost to a failure
\* on record, whatever copies of the stamp requests save and however often it is moved.
THEOREM StampsTellTheTruth == ReminderSpec => []StampMeansAlert
<1>1. AlertInv => StampMeansAlert
  <2> SUFFICES ASSUME AlertInv, NEW r \in Reminder, ~Armed(row[r]),
                      \A w \in Worker : r \notin run[w].sending, r \notin failed
               PROVE  last[r] >= row[r].due
    BY DEF StampMeansAlert
  <2>1. ReminderTypeOK
    BY DEF AlertInv, ReminderInv
  <2>2. row[r].stamp \in Int /\ row[r].due \in Time /\ last[r] \in Int
    BY <2>1, Numbers
  <2>3. row[r].due \in Int /\ Null < row[r].due
    BY <2>2, ReminderAssumption DEF Time, Null
  <2>4. row[r].stamp >= row[r].due
    BY <2>2, <2>3 DEF Armed
  <2>5. row[r].stamp # Null
    BY <2>2, <2>3, <2>4, TimeIsInt
  <2>6. last[r] >= row[r].stamp
    BY <2>5 DEF AlertInv, Answered
  <2> QED BY <2>2, <2>3, <2>4, <2>6
<1> QED BY <1>1, InitAlert, NextAlert, PTL DEF ReminderSpec

==============================================================================
