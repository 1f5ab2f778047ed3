---------------------------- MODULE KanbanBoard ----------------------------
(***************************************************************************)
(* One kanban board and the cards of its tickets: kanban/services.py,      *)
(* kanban/views.py and the receivers of tickets/signals.py that place      *)
(* cards.  A move is an HTTP request that reads the card, checks the       *)
(* column's limit, locks the cards of both columns, shifts the neighbours, *)
(* saves the card and commits, and only then writes the column's status to *)
(* the ticket; the requests of several agents interleave between these     *)
(* statements.  col and ord are the rows as committed: what a transaction  *)
(* has written and not committed is in its own record.                     *)
(*                                                                         *)
(* All other handlers count the cards of a column and, later, commit a     *)
(* card behind them, under no lock on the column.                          *)
(*                                                                         *)
(* Columns are fixed.  A card row belongs to its ticket, so a ticket has   *)
(* at most one card on the board.                                          *)
(***************************************************************************)
EXTENDS Naturals, FiniteSets

CONSTANTS
    Ticket,
    Column,
    Status,      \* the tenant's ticket statuses
    StatusOf,    \* the status a column is mapped to, or NoStatus
    NoStatus,
    NoColumn,    \* where a ticket without a card lies
    NoTicket,
    Limit,       \* Column.wip_limit; 0 is no limit
    First,       \* the column with the lowest order
    Default,     \* the status of a new ticket
    Personal,    \* Board.is_personal
    Request,     \* the move and reorder requests of a behaviour
    MaxPos,      \* bound: the highest position a request asks for
    MaxOutside   \* bound: how often cards come and go by other means than moves

ASSUME BoardAssumption ==
    /\ IsFiniteSet(Ticket)
    /\ StatusOf \in [Column -> Status \union {NoStatus}]
    /\ NoStatus \notin Status /\ NoColumn \notin Column /\ NoTicket \notin Ticket
    /\ Limit \in [Column -> Nat]
    /\ First \in Column
    /\ Default \in Status
    /\ Personal \in BOOLEAN
    /\ MaxPos \in Nat /\ MaxOutside \in Nat

VARIABLES
    status,   \* the ticket's status; NoStatus: there is no such ticket
    col,      \* the column its card lies in, or NoColumn
    ord,      \* CardPosition.order
    req,      \* what each request has read and how far it is
    placing,  \* the transactions that have counted a column and not committed
    outside   \* how often cards came and went by other means (bounded)

vars == <<status, col, ord, req, placing, outside>>

Phase == {"new", "read", "lock", "lockTarget", "locked", "closed", "shifted", "placed", "done"}

-----------------------------------------------------------------------------
(* Columns and their cards.                                                *)

Cards(c) == {t \in Ticket : col[t] = c}

Full(c) == Limit[c] > 0 /\ Cardinality(Cards(c)) >= Limit[c]

\* Column.objects.filter(board=board, status=s): the columns mapped to s.
ColumnsFor(s) == {c \in Column : StatusOf[c] = s}

\* The first of these.
MappedTo(s) == CHOOSE c \in ColumnsFor(s) : TRUE

-----------------------------------------------------------------------------
(* The cards a move shifts, by what the request k read of its card.        *)

\* The rows it lowers and those it raises. Across columns the gap at the old
\* order closes and one at the position opens; within a column the cards between
\* the two shift, up or down.
Lowered(k) ==
    {u \in Ticket : IF k.from = k.to THEN col[u] = k.to /\ k.at < ord[u] /\ ord[u] <= k.pos
                                    ELSE col[u] = k.from /\ k.at < ord[u]}

\* Variant: the gap opens behind the card that lies at the position.
RaisedBehind(k) ==
    {u \in Ticket : col[u] = k.to /\ k.pos < ord[u] /\ (k.from = k.to => ord[u] < k.at)}

Raised(k) ==
    {u \in Ticket : col[u] = k.to /\ k.pos <= ord[u] /\ (k.from = k.to => ord[u] < k.at)}

-----------------------------------------------------------------------------
(* Row locks: a request holds the rows it selected for update until its    *)
(* transaction ends.                                                       *)

Free(r, rows) == \A q \in Request \ {r} : req[q].held \intersect rows = {}

Untouched(rows) == \A q \in Request : req[q].held \intersect rows = {}

\* The rows the next statement of r needs.
Wanted(r) ==
    LET k == req[r] IN
    CASE k.pc = "lock"       -> Cards(k.from)
      [] k.pc = "lockTarget" -> Cards(k.to)
      [] k.pc = "locked"     -> Lowered(k) \union IF k.from = k.to THEN Raised(k) ELSE {}
      [] k.pc = "closed"     -> Raised(k)
      [] k.pc = "shifted"    -> {k.card}
      [] OTHER               -> {}

\* Requests that wait for one another in a ring.
Deadlocked(r) ==
    \E S \in SUBSET Request :
        /\ r \in S
        /\ \A q \in S : \E p \in S \ {q} : req[p].held \intersect Wanted(q) # {}

-----------------------------------------------------------------------------
(* Cards that are put behind the others of a column: order =               *)
(* target_column.cards.count(), then the row.  An INSERT waits for         *)
(* nothing, the UPDATE of a card until no move holds its row.              *)

\* No such transaction is under way for ticket t. The ticket's row, which all but
\* add_ticket save, allows one at a time.
Idle(t) == \A p \in placing : p.to[t] = NoColumn

\* The count for a card of t in column c; the transaction also saves the status s
\* to the ticket, if there is one to save.
Count(t, c, s, new) ==
    placing' = placing \union
        {[to    |-> [u \in Ticket |-> IF u = t THEN c ELSE NoColumn],
          at    |-> [u \in Ticket |-> IF u = t THEN Cardinality(Cards(c)) ELSE 0],
          saves |-> [u \in Ticket |-> IF u = t THEN s ELSE NoStatus],
          new   |-> new]}

\* A save of ticket t with status s, which brings its card to column c.
Save(t, s, c, new) ==
    /\ Idle(t)
    /\ IF c = NoColumn
       THEN status' = [status EXCEPT ![t] = s] /\ UNCHANGED placing
       ELSE Count(t, c, s, new) /\ UNCHANGED status

Placed(p) == {t \in Ticket : p.to[t] # NoColumn}

\* The row and the commit. save(update_fields=[...]) raises for a card that is gone,
\* and the transaction rolls back.
Land(p) ==
    /\ p.new \/ Untouched(Placed(p))
    /\ placing' = placing \ {p}
    /\ IF \E t \in Placed(p) : p.new # (col[t] = NoColumn)
       THEN UNCHANGED <<status, col, ord>>
       ELSE /\ status' = [t \in Ticket |-> IF p.saves[t] = NoStatus THEN status[t] ELSE p.saves[t]]
            /\ col' = [t \in Ticket |-> IF t \in Placed(p) THEN p.to[t] ELSE col[t]]
            /\ ord' = [t \in Ticket |-> IF t \in Placed(p) THEN p.at[t] ELSE ord[t]]
    /\ UNCHANGED req

-----------------------------------------------------------------------------
(* A move: CardMoveSerializer, then move_card.                             *)

Blank(pc) == [pc |-> pc, card |-> NoTicket, from |-> NoColumn, at |-> 0,
              to |-> NoColumn, pos |-> 0, held |-> {}, down |-> {}, up |-> {}]

\* The next statement: pc, the rows held after this one and those written so far.
Proceed(r, pc, held, down, up) ==
    req' = [req EXCEPT ![r] = [@ EXCEPT !.pc = pc, !.held = held, !.down = down, !.up = up]]

Finish(r) == req' = [req EXCEPT ![r] = Blank("done")]

\* validate_card_id, validate_target_column_id: the row is copied here and not
\* read again before it is written.
Read(r, t, c, pos) ==
    /\ req[r].pc = "new"
    /\ col[t] \in Column
    /\ req' = [req EXCEPT ![r] = [pc |-> "read", card |-> t, from |-> col[t], at |-> ord[t],
                                  to |-> c, pos |-> pos, held |-> {}, down |-> {}, up |-> {}]]
    /\ UNCHANGED <<status, col, ord, placing>>

\* The limit of another column, or the early return of a reorder to the place
\* the card was read at.
Check(r) ==
    LET k == req[r] IN
    /\ k.pc = "read"
    /\ IF k.from # k.to /\ Full(k.to)
       THEN Finish(r)
       ELSE Proceed(r, IF k.from = k.to /\ k.at = k.pos THEN "placed" ELSE "lock", {}, {}, {})
    /\ UNCHANGED <<status, col, ord, placing>>

\* select_for_update on the cards of the source column.
LockSource(r) ==
    LET k == req[r] IN
    /\ k.pc = "lock"
    /\ Free(r, Cards(k.from))
    /\ Proceed(r, IF k.from = k.to THEN "locked" ELSE "lockTarget", Cards(k.from), {}, {})
    /\ UNCHANGED <<status, col, ord, placing>>

\* select_for_update on the cards of the target column.
LockTarget(r) ==
    LET k == req[r] IN
    /\ k.pc = "lockTarget"
    /\ Free(r, Cards(k.to))
    /\ Proceed(r, "locked", k.held \union Cards(k.to), {}, {})
    /\ UNCHANGED <<status, col, ord, placing>>

\* The UPDATE that closes the gap in the source column.
CloseGap(r) ==
    LET k == req[r] IN
    /\ k.pc = "locked" /\ k.from # k.to
    /\ Free(r, Lowered(k))
    /\ Proceed(r, "closed", k.held \union Lowered(k), Lowered(k), {})
    /\ UNCHANGED <<status, col, ord, placing>>

\* The UPDATE that opens one in the target column.
OpenGap(r) ==
    LET k == req[r] IN
    /\ k.pc = "closed"
    /\ Free(r, Raised(k))
    /\ Proceed(r, "shifted", k.held \union Raised(k), k.down, Raised(k))
    /\ UNCHANGED <<status, col, ord, placing>>

\* The one UPDATE of a reorder.
ShiftBetween(r) ==
    LET k == req[r]
        rows == Lowered(k) \union Raised(k)
    IN
    /\ k.pc = "locked" /\ k.from = k.to
    /\ Free(r, rows)
    /\ Proceed(r, "shifted", k.held \union rows, Lowered(k), Raised(k))
    /\ UNCHANGED <<status, col, ord, placing>>

\* The orders the transaction of k commits.
OrdersAfter(k) ==
    [u \in Ticket |-> IF u = k.card THEN k.pos
                     ELSE IF u \in k.down THEN ord[u] - 1
                     ELSE IF u \in k.up THEN ord[u] + 1 ELSE ord[u]]

\* card.save(update_fields=[...]) and the commit. A reorder saves the order only.
\* save() raises for a row that is gone and the transaction rolls back.
Commit(r) ==
    LET k == req[r] IN
    /\ k.pc = "shifted"
    /\ Free(r, {k.card})
    /\ IF col[k.card] = NoColumn
       THEN Finish(r) /\ UNCHANGED <<col, ord>>
       ELSE /\ ord' = OrdersAfter(k)
            /\ col' = [col EXCEPT ![k.card] = IF k.from = k.to THEN @ ELSE k.to]
            /\ Proceed(r, "placed", {}, {}, {})
    /\ UNCHANGED <<status, placing>>

\* PostgreSQL ends a ring of waiting transactions by aborting one of them.
Abort(r) ==
    /\ Deadlocked(r)
    /\ Finish(r)
    /\ UNCHANGED <<status, col, ord, placing>>

\* sync_kanban_card_on_status_change: where the card of t goes when the ticket is
\* saved with status s, if it has one and does not lie there.
FollowTo(t, s) ==
    IF col[t] = NoColumn \/ ColumnsFor(s) = {} \/ col[t] = MappedTo(s) THEN NoColumn ELSE MappedTo(s)

\* The write-back of a drop, after the commit; a personal board and a column
\* without a status write nothing.
SyncStatus(r) ==
    LET k == req[r]
        s == StatusOf[k.to]
    IN
    /\ k.pc = "placed"
    /\ Finish(r)
    /\ IF Personal \/ s = NoStatus \/ status[k.card] \in {NoStatus, s} \/ col[k.card] = NoColumn
       THEN UNCHANGED <<status, placing>>
       ELSE Save(k.card, s, FollowTo(k.card, s), FALSE)
    /\ UNCHANGED <<col, ord>>

-----------------------------------------------------------------------------
(* Cards that come and go by other means.                                  *)

\* create_kanban_card_on_ticket_save: the column of the status, or the first one.
HomeOf(s) == IF ColumnsFor(s) = {} THEN First ELSE MappedTo(s)

CreateTicket(t) ==
    /\ status[t] = NoStatus /\ col[t] = NoColumn
    /\ Save(t, Default, IF Personal THEN NoColumn ELSE HomeOf(Default), TRUE)
    /\ UNCHANGED <<col, ord, req>>

\* A save with a new assignee gives the ticket a card if it has none.
AssignTicket(t) ==
    /\ status[t] # NoStatus
    /\ col[t] = NoColumn
    /\ ~Personal
    /\ Save(t, status[t], HomeOf(status[t]), TRUE)
    /\ UNCHANGED <<col, ord, req>>

\* Any handler of the ticket side whose save carries the status, a new one or not.
ChangeStatus(t, s) ==
    /\ status[t] # NoStatus
    /\ Save(t, s, FollowTo(t, s), FALSE)
    /\ UNCHANGED <<col, ord, req>>

\* sync_kanban_card_on_pipeline_stage_change: the card goes behind the cards of
\* the column c that has the new stage's name, whatever the ticket's status.
ChangeStage(t, c) ==
    /\ status[t] # NoStatus
    /\ col[t] \notin {NoColumn, c}
    /\ Save(t, status[t], c, FALSE)
    /\ UNCHANGED <<col, ord, req>>

\* CardPositionViewSet.add_ticket.
AddTicket(t, c) ==
    /\ status[t] # NoStatus
    /\ col[t] = NoColumn
    /\ ~Full(c)
    /\ Idle(t)
    /\ Count(t, c, NoStatus, TRUE)
    /\ UNCHANGED <<status, col, ord, req>>

\* CardPositionViewSet.create and update: column and order are what the request
\* says, and no other card makes room.
WriteCard(t, c, n) ==
    /\ Idle(t)
    /\ Untouched({t})
    /\ col' = [col EXCEPT ![t] = c]
    /\ ord' = [ord EXCEPT ![t] = n]
    /\ UNCHANGED <<status, req, placing>>

\* CardPositionViewSet.destroy: the neighbours keep their orders.
RemoveCard(t) ==
    /\ col[t] # NoColumn
    /\ Untouched({t})
    /\ col' = [col EXCEPT ![t] = NoColumn]
    /\ ord' = [ord EXCEPT ![t] = 0]
    /\ UNCHANGED <<status, req, placing>>

\* remove_kanban_cards_on_ticket_delete: a hard delete takes the card along.
DeleteTicket(t) ==
    /\ status[t] # NoStatus
    /\ \A p \in placing : p.saves[t] = NoStatus
    /\ Untouched({t})
    /\ status' = [status EXCEPT ![t] = NoStatus]
    /\ col' = [col EXCEPT ![t] = NoColumn]
    /\ ord' = [ord EXCEPT ![t] = 0]
    /\ UNCHANGED <<req, placing>>

\* The tickets populate_board_from_tickets puts into c: those of its status that
\* have no card.
Missing(c) == {t \in Ticket : status[t] # NoStatus /\ status[t] = StatusOf[c] /\ col[t] = NoColumn}

\* populate_board_from_tickets, where no status has two columns: in every mapped
\* column the missing tickets follow the cards it has, in any order. The counts of
\* the columns are taken together.
Populate ==
    /\ \E c \in Column : Missing(c) # {}
    /\ \A c \in Column : \A t \in Missing(c) : Idle(t)
    /\ \E rank \in [Ticket -> 0..(Cardinality(Ticket) - 1)] :
        LET to == [t \in Ticket |-> IF \E c \in Column : t \in Missing(c)
                                   THEN CHOOSE c \in Column : t \in Missing(c) ELSE NoColumn]
        IN
        /\ \A c \in Column : {rank[t] : t \in Missing(c)} = 0..(Cardinality(Missing(c)) - 1)
        /\ placing' = placing \union
              {[to    |-> to,
                at    |-> [t \in Ticket |-> IF to[t] = NoColumn THEN 0
                                           ELSE Cardinality(Cards(to[t])) + rank[t]],
                saves |-> [t \in Ticket |-> NoStatus],
                new   |-> TRUE]}
    /\ UNCHANGED <<status, col, ord, req>>

-----------------------------------------------------------------------------
Dense(c) ==
    /\ \A t, u \in Cards(c) : ord[t] = ord[u] => t = u
    /\ \A t \in Cards(c) : \A n \in 0..ord[t] : \E u \in Cards(c) : ord[u] = n

\* A board whose cards are numbered without gaps, each in a column of its
\* ticket's status; some tickets do not exist yet and some have no card.
Init ==
    /\ status \in [Ticket -> Status \union {NoStatus}]
    /\ col \in [Ticket -> Column \union {NoColumn}]
    /\ \A t \in Ticket : col[t] # NoColumn =>
          status[t] # NoStatus /\ (~Personal => StatusOf[col[t]] = status[t])
    /\ ord \in [Ticket -> 0..(Cardinality(Ticket) - 1)]
    /\ \A t \in Ticket : col[t] = NoColumn => ord[t] = 0
    /\ \A c \in Column : Dense(c)
    /\ req = [r \in Request |-> Blank("new")]
    /\ placing = {}
    /\ outside = 0

Move(r) ==
    /\ outside' = outside
    /\ \/ \E t \in Ticket, c \in Column, pos \in 0..MaxPos : Read(r, t, c, pos)
       \/ Check(r)
       \/ LockSource(r)
       \/ LockTarget(r)
       \/ CloseGap(r)
       \/ OpenGap(r)
       \/ ShiftBetween(r)
       \/ Commit(r)
       \/ SyncStatus(r)
       \/ Abort(r)

Outside ==
    /\ outside < MaxOutside
    /\ outside' = outside + 1
    /\ \/ \E t \in Ticket : CreateTicket(t)
       \/ \E t \in Ticket : AssignTicket(t)
       \/ \E t \in Ticket, s \in Status : ChangeStatus(t, s)
       \/ \E t \in Ticket, c \in Column : ChangeStage(t, c)
       \/ \E t \in Ticket, c \in Column : AddTicket(t, c)
       \/ \E t \in Ticket, c \in Column, n \in 0..MaxPos : WriteCard(t, c, n)
       \/ \E t \in Ticket : RemoveCard(t)
       \/ \E t \in Ticket : DeleteTicket(t)
       \/ Populate

Landing ==
    /\ outside' = outside
    /\ \E p \in placing : Land(p)

Next == (\E r \in Request : Move(r)) \/ Outside \/ Landing

Spec == Init /\ [][Next]_vars

-----------------------------------------------------------------------------
(* Properties.                                                             *)

\* Every variable has its type.
TypeOK ==
    /\ status \in [Ticket -> Status \union {NoStatus}]
    /\ col \in [Ticket -> Column \union {NoColumn}]
    /\ ord \in [Ticket -> Nat]
    /\ outside \in 0..MaxOutside
    /\ req \in [Request -> [pc: Phase, card: Ticket \union {NoTicket},
                            from: Column \union {NoColumn}, at: Nat,
                            to: Column \union {NoColumn}, pos: Nat,
                            held: SUBSET Ticket, down: SUBSET Ticket, up: SUBSET Ticket]]
    /\ \A r \in Request : req[r].pc \notin {"new", "done"} =>
          req[r].card \in Ticket /\ req[r].from \in Column /\ req[r].to \in Column
    /\ placing \subseteq [to: [Ticket -> Column \union {NoColumn}], at: [Ticket -> Nat],
                          saves: [Ticket -> Status \union {NoStatus}], new: BOOLEAN]

\* What the request read of its card still holds.
Fresh(k) == col[k.card] = k.from /\ ord[k.card] = k.at

\* The position asked for is one of the column's own, or, for a card that comes
\* from another column, the one behind its last card.
InRange(k) ==
    k.pos > 0 => \E u \in Cards(k.to) :
                    ord[u] = IF k.from = k.to THEN k.pos ELSE k.pos - 1

\* Every card of the two columns is a row the request holds: none has come in
\* since it locked them, which no lock on rows prevents.
Alone(k) == Cards(k.from) \union Cards(k.to) \subseteq k.held

\* move_card keeps the numbering through its statements: when nobody has touched the
\* card since the request read it, no card has come in since the columns were
\* locked, both columns have no gap as committed and the position lies within the
\* target, then after the commit both have no gap, the card has the place asked for,
\* and all other cards of a column stand in the order they had.
MoveKeepsOrder ==
    [][\A r \in Request :
          LET k == req[r] IN
          k.pc = "shifted" /\ req'[r].pc = "placed" /\ Fresh(k) /\ InRange(k) /\ Alone(k)
             /\ Dense(k.from) /\ Dense(k.to)
          => /\ Dense(k.from)' /\ Dense(k.to)'
             /\ col'[k.card] = k.to /\ ord'[k.card] = k.pos
             /\ \A t, u \in Ticket \ {k.card} :
                   /\ col'[t] = col[t]
                   /\ col[t] = col[u] /\ ord[t] < ord[u] => ord'[t] < ord'[u]]_vars

\* The comments of move_card and its helpers: order values remain contiguous, and
\* the locks prevent that overlapping moves corrupt them. The code breaks this (README, section 6).
ColumnsStayDense ==
    (\A r \in Request : req[r].pc \in {"new", "done"}) /\ placing = {} => \A c \in Column : Dense(c)
=============================================================================
