--------------------------- MODULE TicketNumbering ---------------------------
(***************************************************************************)
(* Ticket numbers of one tenant (src/apps/tickets/models.py): the          *)
(* TicketCounter row is created on first use, locked with SELECT ... FOR   *)
(* UPDATE and incremented; the number then goes on the new ticket.         *)
(*                                                                         *)
(* Two kinds of caller differ in how long the lock lasts. An API request   *)
(* runs in autocommit: the counter commits on its own, before the INSERT.  *)
(* The inbound-email pipeline and the inbox run inside a transaction that  *)
(* commits counter and ticket together or not at all.                      *)
(***************************************************************************)
EXTENDS Integers, FiniteSets

CONSTANTS
    Creator,     \* processes that create tickets
    MaxNumber,   \* bound on the numbers a run may reach
    NoRow,       \* the counter row does not exist yet
    Nobody       \* no transaction holds the row lock

ASSUME NumberingAssumption ==
    /\ MaxNumber \in Nat
    /\ NoRow \notin Nat
    /\ Nobody \notin Creator

VARIABLES
    counter,  \* last_number as committed, or NoRow
    lock,     \* the creator whose transaction holds the counter row
    draft,    \* last_number as that transaction sees it
    tickets,  \* the numbers of committed tickets
    creator   \* where each process stands

numberVars == <<counter, lock, draft, tickets, creator>>

\* inTxn: the caller has a transaction of its own around the whole creation.
CreatorState ==
    [pc : {"idle", "get", "create", "locked", "numbered", "insert"},
     inTxn : BOOLEAN, number : Nat]

At(pc, inTxn, number) == [pc |-> pc, inTxn |-> inTxn, number |-> number]
Idle == At("idle", FALSE, 0)
Goto(c, state) == creator' = [creator EXCEPT ![c] = state]
MoveTo(c, pc) == Goto(c, At(pc, creator[c].inTxn, 0))

LastNumber == IF counter = NoRow THEN 0 ELSE counter

\* Ticket.save with no number yet; MaxNumber leaves room for those under way.
Start(c, inTxn) ==
    /\ creator[c].pc = "idle"
    /\ LastNumber + Cardinality({d \in Creator : creator[d].pc # "idle"}) < MaxNumber
    /\ Goto(c, At("get", inTxn, 0))
    /\ UNCHANGED <<counter, lock, draft, tickets>>

\* Variant: the row is read without FOR UPDATE.
UnlockedRead(c) ==
    /\ creator[c].pc = "get"
    /\ counter # NoRow
    /\ lock' = c
    /\ draft' = counter
    /\ MoveTo(c, "locked")
    /\ UNCHANGED <<counter, tickets>>

\* select_for_update().get(): waits for the lock, then reads the committed row.
LockCounter(c) ==
    /\ creator[c].pc = "get"
    /\ counter # NoRow
    /\ lock = Nobody
    /\ lock' = c
    /\ draft' = counter
    /\ MoveTo(c, "locked")
    /\ UNCHANGED <<counter, tickets>>

\* No committed row: an uncommitted INSERT of another transaction is invisible.
MissCounter(c) ==
    /\ creator[c].pc = "get"
    /\ counter = NoRow
    /\ MoveTo(c, "create")
    /\ UNCHANGED <<counter, lock, draft, tickets>>

\* get_or_create's INSERT waits for a rival's INSERT to commit or roll back.
CreateCounter(c) ==
    /\ creator[c].pc = "create"
    /\ lock = Nobody
    /\ counter = NoRow
    /\ lock' = c
    /\ draft' = 0
    /\ MoveTo(c, "locked")
    /\ UNCHANGED <<counter, tickets>>

\* Variant: the second get sees the snapshot of the first (REPEATABLE READ).
MissesAgain(c) ==
    /\ creator[c].pc = "create"
    /\ lock = Nobody
    /\ counter # NoRow
    /\ UNCHANGED numberVars

\* IntegrityError on the one-to-one tenant: get_or_create reads again.
CreateLost(c) ==
    /\ creator[c].pc = "create"
    /\ lock = Nobody
    /\ counter # NoRow
    /\ MoveTo(c, "get")
    /\ UNCHANGED <<counter, lock, draft, tickets>>

\* F("last_number") + 1, refresh_from_db; in autocommit the atomic block of
\* Ticket.save ends here and the counter is committed.
Increment(c) ==
    /\ creator[c].pc = "locked"
    /\ Goto(c, At(IF creator[c].inTxn THEN "numbered" ELSE "insert",
                  creator[c].inTxn, draft + 1))
    /\ IF creator[c].inTxn
       THEN draft' = draft + 1 /\ UNCHANGED <<counter, lock>>
       ELSE counter' = draft + 1 /\ draft' = 0 /\ lock' = Nobody
    /\ UNCHANGED tickets

\* Variant: the ticket commits, the counter's change does not.
InsertWithoutCounter(c) ==
    /\ creator[c].pc \in {"numbered", "insert"}
    /\ creator[c].number \notin tickets
    /\ tickets' = tickets \cup {creator[c].number}
    /\ Goto(c, Idle)
    /\ IF creator[c].pc = "numbered"
       THEN draft' = 0 /\ lock' = Nobody
       ELSE UNCHANGED <<lock, draft>>
    /\ UNCHANGED counter

\* The INSERT of the ticket; unique_together (tenant, number) would refuse a
\* number in use. Inside a transaction the counter commits with it.
Insert(c) ==
    /\ creator[c].pc \in {"numbered", "insert"}
    /\ creator[c].number \notin tickets
    /\ tickets' = tickets \cup {creator[c].number}
    /\ Goto(c, Idle)
    /\ IF creator[c].pc = "numbered"
       THEN counter' = draft /\ draft' = 0 /\ lock' = Nobody
       ELSE UNCHANGED <<counter, lock, draft>>

\* A refused number, a later error in the caller's transaction, or the death of
\* the process: what is not committed is rolled back.
Abort(c) ==
    /\ creator[c].pc # "idle"
    /\ Goto(c, Idle)
    /\ IF lock = c THEN lock' = Nobody /\ draft' = 0 ELSE UNCHANGED <<lock, draft>>
    /\ UNCHANGED <<counter, tickets>>

NumberInit ==
    /\ counter = NoRow
    /\ lock = Nobody
    /\ draft = 0
    /\ tickets = {}
    /\ creator = [c \in Creator |-> Idle]

Step(c) ==
    \/ LockCounter(c) \/ MissCounter(c)
    \/ CreateCounter(c) \/ CreateLost(c)
    \/ Increment(c) \/ Insert(c)

NumberNext ==
    \E c \in Creator :
        \/ \E inTxn \in BOOLEAN : Start(c, inTxn)
        \/ Step(c)
        \/ Abort(c)

NumberSpec == NumberInit /\ [][NumberNext]_numberVars

\* PostgreSQL queues the waiters of a row lock, so a step that is enabled again
\* and again is taken; nothing says when a caller starts or fails.
NumberFairness == \A c \in Creator : SF_numberVars(Step(c))
NumberFairSpec == NumberSpec /\ NumberFairness

-----------------------------------------------------------------------------
\* Every variable has its type: the counter row, its lock and the creators.
NumberTypeOK ==
    /\ counter \in Nat \cup {NoRow}
    /\ lock \in Creator \cup {Nobody}
    /\ draft \in Nat
    /\ tickets \subseteq Nat
    /\ creator \in [Creator -> CreatorState]

Holding == {c \in Creator : creator[c].pc \in {"numbered", "insert"}}

\* No number is handed out twice: what a process is about to insert is on no
\* ticket and in no other process's hands, so unique_together never fires.
NeverCollides ==
    /\ \A c \in Holding : creator[c].number \notin tickets
    /\ \A c, d \in Holding : c # d => creator[c].number # creator[d].number

\* The committed counter is never behind a committed ticket, or a later creation
\* would take its number.
CounterCoversTickets == \A n \in tickets : counter # NoRow /\ n <= counter

\* A process that set out gets its number or gives up: the race to create the
\* counter row locks nobody out.
CreationEnds ==
    \A c \in Creator :
        creator[c].pc = "get" ~> creator[c].pc \in {"numbered", "insert", "idle"}
=============================================================================
