------------------------- MODULE KanbanBoard_proofs -------------------------
(***************************************************************************)
(* KanbanBoard proved for every set of tickets, columns and requests: the  *)
(* types, and that a move whose copy of the card is still true when it     *)
(* commits, and into whose columns no card has come in between, keeps the  *)
(* numbering of both columns and the order of all other cards.  Both rest  *)
(* on what the row locks keep: until a transaction commits, nobody changes *)
(* a row it has locked or updated.                                         *)
(***************************************************************************)
EXTENDS KanbanBoard, FiniteSetTheorems, TLAPS

\* The number of a column's cards is a natural number.
LEMMA CountIsNat ==
    ASSUME NEW c
    PROVE  Cardinality(Cards(c)) \in Nat
<1>1. IsFiniteSet(Cards(c))
  BY FS_Subset, BoardAssumption DEF Cards
<1>2. QED
  BY <1>1, FS_CardinalityType

\* The type of a request's record and of a transaction that has counted.
RequestType == [pc: Phase, card: Ticket \union {NoTicket}, from: Column \union {NoColumn}, at: Nat,
                to: Column \union {NoColumn}, pos: Nat,
                held: SUBSET Ticket, down: SUBSET Ticket, up: SUBSET Ticket]

PlacingType == [to: [Ticket -> Column \union {NoColumn}], at: [Ticket -> Nat],
                saves: [Ticket -> Status \union {NoStatus}], new: BOOLEAN]

\* The receivers choose a column of the board.
LEMMA ColumnsAreColumns ==
    ASSUME NEW s, NEW t
    PROVE  /\ HomeOf(s) \in Column
           /\ FollowTo(t, s) \in Column \union {NoColumn}
<1>1. ColumnsFor(s) # {} => MappedTo(s) \in Column
  BY DEF ColumnsFor, MappedTo
<1>2. QED
  BY <1>1, BoardAssumption DEF HomeOf, FollowTo

\* A count keeps the type of the transactions under way.
LEMMA CountKeepsType ==
    ASSUME TypeOK, NEW t \in Ticket, NEW c \in Column, NEW s \in Status \union {NoStatus},
           NEW new \in BOOLEAN, Count(t, c, s, new)
    PROVE  placing' \subseteq PlacingType
<1> DEFINE to == [u \in Ticket |-> IF u = t THEN c ELSE NoColumn]
           at == [u \in Ticket |-> IF u = t THEN Cardinality(Cards(c)) ELSE 0]
           saves == [u \in Ticket |-> IF u = t THEN s ELSE NoStatus]
<1>1. to \in [Ticket -> Column \union {NoColumn}]
  OBVIOUS
<1>2. at \in [Ticket -> Nat]
  BY CountIsNat
<1>3. saves \in [Ticket -> Status \union {NoStatus}]
  OBVIOUS
<1>4. placing' = placing \union {[to |-> to, at |-> at, saves |-> saves, new |-> new]}
  BY DEF Count
<1> HIDE DEF to, at, saves
<1>5. [to |-> to, at |-> at, saves |-> saves, new |-> new] \in PlacingType
  BY <1>1, <1>2, <1>3 DEF PlacingType
<1>6. QED
  BY <1>4, <1>5 DEF TypeOK, PlacingType

\* So does a save, which keeps the statuses' type as well.
LEMMA SaveKeepsTypes ==
    ASSUME TypeOK, NEW t \in Ticket, NEW c \in Column \union {NoColumn}, NEW s \in Status,
           NEW new \in BOOLEAN, Save(t, s, c, new)
    PROVE  /\ placing' \subseteq PlacingType
           /\ status' \in [Ticket -> Status \union {NoStatus}]
<1>1. CASE c = NoColumn
  BY <1>1 DEF Save, TypeOK, PlacingType
<1>2. CASE c # NoColumn
  <2>1. Count(t, c, s, new) /\ status' = status
    BY <1>2 DEF Save
  <2>2. QED
    BY <1>2, <2>1, CountKeepsType DEF TypeOK
<1>3. QED
  BY <1>1, <1>2

\* A blank request is well typed.
LEMMA FinishKeepsTypes ==
    ASSUME TypeOK, NEW r \in Request, Finish(r)
    PROVE  /\ req' \in [Request -> RequestType]
           /\ \A q \in Request : req'[q].pc \notin {"new", "done"} =>
                 req'[q].card \in Ticket /\ req'[q].from \in Column /\ req'[q].to \in Column
BY DEF Finish, Blank, TypeOK, Phase, RequestType

\* What a request that goes on writes in its own record, and in no other.
LEMMA ProceedWrites ==
    ASSUME TypeOK, NEW r \in Request, NEW pc, NEW held, NEW down, NEW up, Proceed(r, pc, held, down, up)
    PROVE  /\ req'[r].pc = pc /\ req'[r].held = held /\ req'[r].down = down /\ req'[r].up = up
           /\ req'[r].card = req[r].card /\ req'[r].from = req[r].from /\ req'[r].at = req[r].at
           /\ req'[r].to = req[r].to /\ req'[r].pos = req[r].pos
           /\ \A q \in Request \ {r} : req'[q] = req[q]
<1> DEFINE n == [req[r] EXCEPT !.pc = pc, !.held = held, !.down = down, !.up = up]
<1>1. /\ n.pc = pc /\ n.held = held /\ n.down = down /\ n.up = up
      /\ n.card = req[r].card /\ n.from = req[r].from /\ n.at = req[r].at
      /\ n.to = req[r].to /\ n.pos = req[r].pos
  BY DEF TypeOK
<1>2. req' = [req EXCEPT ![r] = n]
  BY DEF Proceed
<1> HIDE DEF n
<1>3. req'[r] = n /\ \A q \in Request \ {r} : req'[q] = req[q]
  BY <1>2 DEF TypeOK
<1>4. QED
  BY <1>1, <1>3

\* Its record stays well typed.
LEMMA ProceedKeepsTypes ==
    ASSUME TypeOK, NEW r \in Request, req[r].pc \notin {"new", "done"}, NEW pc \in Phase,
           NEW held, held \subseteq Ticket, NEW down, down \subseteq Ticket, NEW up, up \subseteq Ticket,
           Proceed(r, pc, held, down, up)
    PROVE  /\ req' \in [Request -> RequestType]
           /\ \A q \in Request : req'[q].pc \notin {"new", "done"} =>
                 req'[q].card \in Ticket /\ req'[q].from \in Column /\ req'[q].to \in Column
<1> DEFINE n == [req[r] EXCEPT !.pc = pc, !.held = held, !.down = down, !.up = up]
<1>1. n \in RequestType
  <2>1. req[r] \in RequestType
    BY DEF TypeOK, RequestType
  <2>2. held \in SUBSET Ticket /\ down \in SUBSET Ticket /\ up \in SUBSET Ticket
    OBVIOUS
  <2>3. QED
    BY <2>1, <2>2 DEF RequestType
<1>2. req' = [req EXCEPT ![r] = n]
  BY DEF Proceed
<1> HIDE DEF n
<1>3. req' \in [Request -> RequestType]
  BY <1>1, <1>2 DEF TypeOK, RequestType
<1>4. req[r].card \in Ticket /\ req[r].from \in Column /\ req[r].to \in Column
  BY DEF TypeOK
<1>5. \A q \in Request : req'[q].pc \notin {"new", "done"} =>
        req'[q].card \in Ticket /\ req'[q].from \in Column /\ req'[q].to \in Column
  BY <1>4, ProceedWrites DEF TypeOK
<1>6. QED
  BY <1>3, <1>5

-----------------------------------------------------------------------------
(* The locks.                                                              *)

\* What request r holds are cards, and what its transaction has written so far is
\* right for all rows it holds: nobody has changed these since.
Ready(r) ==
    LET k == req[r] IN
    /\ \A u \in k.held : col[u] # NoColumn
    /\ k.pc = "closed" => k.from # k.to
    /\ k.pc \in {"closed", "shifted"} => k.down = Lowered(k) \intersect k.held
    /\ k.pc = "shifted" => k.up = Raised(k) \intersect k.held

\* No row is held twice.
Apart == \A r, q \in Request : r # q => req[r].held \intersect req[q].held = {}

LockInv == Apart /\ \A r \in Request : Ready(r)

\* A request stays ready through what others do to rows it does not hold.
LEMMA ReadyStays ==
    ASSUME TypeOK, NEW q \in Request, Ready(q), req'[q] = req[q], NEW S,
           \A u \in Ticket \ S : col'[u] = col[u] /\ ord'[u] = ord[u],
           req[q].held \intersect S = {}
    PROVE  Ready(q)'
<1> PICK k \in RequestType : k = req[q] /\ k = req'[q]
  BY DEF TypeOK, RequestType
<1>1. \A u \in k.held : u \in Ticket /\ col'[u] = col[u] /\ ord'[u] = ord[u]
  BY DEF RequestType
<1>2. Lowered(k)' \intersect k.held = Lowered(k) \intersect k.held
  BY <1>1 DEF Lowered
<1>3. Raised(k)' \intersect k.held = Raised(k) \intersect k.held
  BY <1>1 DEF Raised
<1>4. /\ Lowered(req[q])' = Lowered(k)' /\ Lowered(req[q]) = Lowered(k)
      /\ Raised(req[q])' = Raised(k)' /\ Raised(req[q]) = Raised(k)
  BY DEF Lowered, Raised
<1>5. QED
  BY <1>1, <1>2, <1>3, <1>4 DEF Ready

\* What is not a move disturbs nobody if it keeps off the rows that are held.
LEMMA ElsewhereKeepsLocks ==
    ASSUME TypeOK, LockInv, req' = req, NEW S, Untouched(S),
           \A u \in Ticket \ S : col'[u] = col[u] /\ ord'[u] = ord[u]
    PROVE  LockInv'
<1>1. \A q \in Request : req[q].held \intersect S = {} /\ req'[q] = req[q] /\ Ready(q)
  BY DEF Untouched, LockInv
<1>2. \A q \in Request : Ready(q)'
  BY <1>1, ReadyStays
<1>3. Apart'
  BY DEF LockInv, Apart
<1>4. QED
  BY <1>2, <1>3 DEF LockInv

\* A step of request r disturbs no other if the rows it changes and those it takes
\* are held by no other.
LEMMA MoverKeepsLocks ==
    ASSUME TypeOK, LockInv, NEW r \in Request, NEW S, Free(r, S),
           \A q \in Request \ {r} : req'[q] = req[q],
           \A u \in Ticket \ S : col'[u] = col[u] /\ ord'[u] = ord[u],
           NEW G, Free(r, G), req'[r].held \subseteq req[r].held \union G,
           Ready(r)'
    PROVE  LockInv'
<1>1. \A q \in Request \ {r} :
         req[q].held \intersect S = {} /\ req[q].held \intersect G = {} /\ Ready(q)
  BY DEF Free, LockInv
<1>2. \A q \in Request \ {r} : Ready(q)'
  BY <1>1, ReadyStays
<1>3. ASSUME NEW q \in Request, NEW p \in Request, q # p
      PROVE  req'[q].held \intersect req'[p].held = {}
  BY <1>1, <1>3 DEF LockInv, Apart
<1>4. Apart'
  BY <1>3 DEF Apart
<1>5. QED
  BY <1>2, <1>4 DEF LockInv

\* A request that ends lets its rows go.
LEMMA FinishKeepsLocks ==
    ASSUME TypeOK, LockInv, NEW r \in Request, Finish(r), UNCHANGED <<col, ord>>
    PROVE  LockInv'
<1>1. req'[r] = Blank("done") /\ \A q \in Request \ {r} : req'[q] = req[q]
  BY DEF Finish, TypeOK
<1>2. Ready(r)'
  BY <1>1 DEF Ready, Blank
<1>3. Free(r, {})
  BY DEF Free
<1>4. req'[r].held \subseteq req[r].held \union {}
  BY <1>1 DEF Blank
<1>5. QED
  BY <1>1, <1>2, <1>3, <1>4, MoverKeepsLocks

\* So does one that goes on and changes no committed row.
LEMMA ProceedKeepsLocks ==
    ASSUME TypeOK, LockInv, NEW r \in Request, NEW pc, NEW held, NEW down, NEW up,
           Proceed(r, pc, held, down, up), UNCHANGED <<col, ord>>,
           NEW G, Free(r, G), held \subseteq req[r].held \union G,
           Ready(r)'
    PROVE  LockInv'
<1>1. req'[r].held = held /\ \A q \in Request \ {r} : req'[q] = req[q]
  BY ProceedWrites
<1>2. Free(r, {})
  BY DEF Free
<1>3. QED
  BY <1>1, <1>2, MoverKeepsLocks

\* The orders a move commits are natural numbers: only an order above another one
\* is lowered.
LEMMA OrdersAreNat ==
    ASSUME TypeOK, NEW r \in Request, Ready(r), req[r].pc = "shifted"
    PROVE  OrdersAfter(req[r]) \in [Ticket -> Nat]
<1> PICK k \in RequestType : k = req[r]
  BY DEF TypeOK, RequestType
<1>1. k.down = Lowered(k) \intersect k.held
  BY DEF Ready, Lowered
<1>2. k.at \in Nat /\ k.pos \in Nat
  BY DEF RequestType
<1>3. ASSUME NEW u \in Ticket PROVE OrdersAfter(k)[u] \in Nat
  <2>1. ord[u] \in Nat
    BY DEF TypeOK
  <2>2. u \in k.down => ord[u] > k.at
    BY <1>1 DEF Lowered
  <2>3. QED
    BY <1>2, <2>1, <2>2 DEF OrdersAfter
<1>4. QED
  BY <1>3 DEF OrdersAfter

-----------------------------------------------------------------------------
(* The invariant.                                                          *)

Inv == TypeOK /\ LockInv

\* Init gives every variable its type and nobody holds a row.
LEMMA InitInv == Init => Inv
<1> SUFFICES ASSUME Init PROVE Inv
  OBVIOUS
<1>1. TypeOK
  BY BoardAssumption DEF Init, TypeOK, Blank, Phase
<1>2. \A r \in Request : req[r] = Blank("new")
  BY DEF Init
<1>3. LockInv
  BY <1>2 DEF LockInv, Apart, Ready, Blank
<1>4. QED
  BY <1>1, <1>3 DEF Inv

\* Every step of a move keeps the types and the locks.
LEMMA MoveKeepsInv ==
    ASSUME Inv, NEW r \in Request, Move(r)
    PROVE  Inv'
<1> USE DEF Inv
<1> DEFINE ReqTyped == /\ req' \in [Request -> RequestType]
                       /\ \A q \in Request : req'[q].pc \notin {"new", "done"} =>
                             req'[q].card \in Ticket /\ req'[q].from \in Column /\ req'[q].to \in Column
<1> PICK k \in RequestType : k = req[r]
  BY DEF TypeOK, RequestType
<1>a. outside' \in 0..MaxOutside
  BY DEF Move, TypeOK
<1>b. ASSUME ReqTyped, UNCHANGED <<status, col, ord, placing>> PROVE TypeOK'
  BY <1>a, <1>b DEF TypeOK, RequestType
<1>c. ASSUME Finish(r), UNCHANGED <<status, col, ord, placing>> PROVE Inv'
  BY <1>b, <1>c, FinishKeepsTypes, FinishKeepsLocks
<1>d. ASSUME NEW pc \in Phase, NEW held, held \subseteq Ticket, NEW down, down \subseteq Ticket,
             NEW up, up \subseteq Ticket, NEW G, Free(r, G), held \subseteq k.held \union G,
             k.pc \notin {"new", "done"}, Proceed(r, pc, held, down, up),
             UNCHANGED <<status, col, ord, placing>>,
             Ready(r)'
      PROVE  Inv'
  BY <1>b, <1>d, ProceedKeepsTypes, ProceedKeepsLocks
<1>e. ASSUME NEW pc, NEW held, NEW down, NEW up, Proceed(r, pc, held, down, up)
      PROVE  /\ req'[r].pc = pc /\ req'[r].held = held /\ req'[r].down = down /\ req'[r].up = up
             /\ req'[r].from = k.from /\ req'[r].at = k.at /\ req'[r].to = k.to /\ req'[r].pos = k.pos
  BY <1>e, ProceedWrites
<1>f. /\ Cards(k.from) \subseteq Ticket /\ Cards(k.to) \subseteq Ticket
      /\ Lowered(k) \subseteq Ticket /\ Raised(k) \subseteq Ticket
      /\ k.held \subseteq Ticket /\ k.down \subseteq Ticket /\ k.up \subseteq Ticket
  BY DEF Cards, Lowered, Raised, RequestType
<1>g. k.pc \notin {"new", "done"} => k.from # NoColumn /\ k.to # NoColumn
  BY BoardAssumption DEF TypeOK
<1>h. Ready(r) /\ Free(r, {})
  BY DEF LockInv, Free
<1>1. CASE \E t \in Ticket, c \in Column, pos \in 0..MaxPos : Read(r, t, c, pos)
  <2>1. PICK t \in Ticket, c \in Column, pos \in 0..MaxPos : Read(r, t, c, pos)
    BY <1>1
  <2>2. pos \in Nat /\ ord[t] \in Nat /\ col[t] \in Column
    BY <2>1, BoardAssumption DEF TypeOK, Read
  <2> DEFINE n == [pc |-> "read", card |-> t, from |-> col[t], at |-> ord[t],
                   to |-> c, pos |-> pos, held |-> {}, down |-> {}, up |-> {}]
  <2>3. n \in RequestType
    BY <2>2 DEF RequestType, Phase
  <2>4. req' = [req EXCEPT ![r] = n] /\ UNCHANGED <<status, col, ord, placing>>
    BY <2>1 DEF Read
  <2>5. n.card \in Ticket /\ n.from \in Column /\ n.to \in Column /\ n.held = {} /\ n.pc = "read"
    BY <2>2
  <2> HIDE DEF n
  <2>6. req'[r] = n /\ \A q \in Request \ {r} : req'[q] = req[q]
    BY <2>4 DEF TypeOK
  <2>7. ReqTyped
    BY <2>3, <2>4, <2>5, <2>6 DEF TypeOK, RequestType
  <2>8. Ready(r)'
    BY <2>5, <2>6 DEF Ready
  <2>9. LockInv'
    BY <1>h, <2>4, <2>5, <2>6, <2>8, MoverKeepsLocks
  <2>10. QED
    BY <1>b, <2>4, <2>7, <2>9
<1>2. CASE Check(r)
  <2>1. CASE k.from # k.to /\ Full(k.to)
    BY <1>2, <1>c, <2>1 DEF Check
  <2>2. CASE ~(k.from # k.to /\ Full(k.to))
    <3> DEFINE pc == IF k.from = k.to /\ k.at = k.pos THEN "placed" ELSE "lock"
    <3>1. /\ Proceed(r, pc, {}, {}, {}) /\ UNCHANGED <<status, col, ord, placing>>
          /\ k.pc \notin {"new", "done"} /\ pc \in Phase
      BY <1>2, <2>2 DEF Check, Phase
    <3>2. Ready(r)'
      BY <1>e, <3>1 DEF Ready
    <3> HIDE DEF pc
    <3>3. QED
      BY <1>d, <1>h, <3>1, <3>2
  <2>3. QED
    BY <2>1, <2>2
<1>3. CASE LockSource(r)
  <2> DEFINE pc == IF k.from = k.to THEN "locked" ELSE "lockTarget"
  <2>1. /\ Proceed(r, pc, Cards(k.from), {}, {}) /\ UNCHANGED <<status, col, ord, placing>>
        /\ k.pc \notin {"new", "done"} /\ pc \in Phase /\ Free(r, Cards(k.from))
    BY <1>3 DEF LockSource, Phase
  <2>2. Ready(r)'
    BY <1>e, <1>f, <1>g, <2>1 DEF Ready, Cards
  <2> HIDE DEF pc
  <2>3. QED
    BY <1>d, <1>f, <2>1, <2>2
<1>4. CASE LockTarget(r)
  <2>1. /\ Proceed(r, "locked", k.held \union Cards(k.to), {}, {})
        /\ UNCHANGED <<status, col, ord, placing>>
        /\ k.pc \notin {"new", "done"} /\ "locked" \in Phase /\ Free(r, Cards(k.to))
    BY <1>4 DEF LockTarget, Phase
  <2>2. Ready(r)'
    <3>1. req'[r].held = k.held \union Cards(k.to) /\ req'[r].pc = "locked"
      BY <1>e, <2>1
    <3>2. \A u \in k.held \union Cards(k.to) : col'[u] # NoColumn
      BY <1>g, <1>h, <2>1 DEF Ready, Cards
    <3>3. QED
      BY <3>1, <3>2 DEF Ready
  <2>3. QED
    BY <1>d, <1>f, <2>1, <2>2
<1>5. CASE CloseGap(r)
  <2>1. /\ Proceed(r, "closed", k.held \union Lowered(k), Lowered(k), {})
        /\ UNCHANGED <<status, col, ord, placing>>
        /\ k.pc \notin {"new", "done"} /\ "closed" \in Phase /\ Free(r, Lowered(k)) /\ k.from # k.to
    BY <1>5 DEF CloseGap, Phase
  <2>2. Ready(r)'
    <3>1. /\ req'[r].held = k.held \union Lowered(k) /\ req'[r].pc = "closed"
          /\ req'[r].down = Lowered(k) /\ req'[r].from = k.from /\ req'[r].to = k.to
          /\ req'[r].at = k.at /\ req'[r].pos = k.pos
      BY <1>e, <2>1
    <3>2. \A u \in k.held \union Lowered(k) : col'[u] # NoColumn
      BY <1>g, <1>h, <2>1 DEF Ready, Lowered
    <3>3. Lowered(req[r])' = Lowered(k)
      BY <2>1, <3>1 DEF Lowered
    <3>4. QED
      BY <2>1, <3>1, <3>2, <3>3 DEF Ready
  <2>3. QED
    BY <1>d, <1>f, <2>1, <2>2
<1>6. CASE OpenGap(r)
  <2>1. /\ Proceed(r, "shifted", k.held \union Raised(k), k.down, Raised(k))
        /\ UNCHANGED <<status, col, ord, placing>>
        /\ k.pc = "closed" /\ "shifted" \in Phase /\ Free(r, Raised(k))
    BY <1>6 DEF OpenGap, Phase
  <2>2. Ready(r)'
    <3>1. /\ req'[r].held = k.held \union Raised(k) /\ req'[r].pc = "shifted"
          /\ req'[r].down = k.down /\ req'[r].up = Raised(k)
          /\ req'[r].from = k.from /\ req'[r].to = k.to /\ req'[r].at = k.at /\ req'[r].pos = k.pos
      BY <1>e, <2>1
    <3>2. \A u \in k.held \union Raised(k) : col'[u] # NoColumn
      BY <1>g, <1>h, <2>1 DEF Ready, Raised
    <3>3. Lowered(req[r])' = Lowered(k) /\ Raised(req[r])' = Raised(k)
      BY <2>1, <3>1 DEF Lowered, Raised
    <3>4. k.from # k.to /\ k.down = Lowered(k) \intersect k.held
      BY <1>h, <2>1 DEF Ready, Lowered
    <3>5. Lowered(k) \intersect Raised(k) = {}
      BY <3>4 DEF Lowered, Raised
    <3>6. QED
      BY <3>1, <3>2, <3>3, <3>4, <3>5 DEF Ready
  <2>3. QED
    BY <1>d, <1>f, <2>1, <2>2
<1>7. CASE ShiftBetween(r)
  <2> DEFINE rows == Lowered(k) \union Raised(k)
  <2>1. /\ Proceed(r, "shifted", k.held \union rows, Lowered(k), Raised(k))
        /\ UNCHANGED <<status, col, ord, placing>>
        /\ k.pc = "locked" /\ "shifted" \in Phase /\ Free(r, rows)
    BY <1>7 DEF ShiftBetween, Phase
  <2>2. rows \subseteq Ticket
    BY <1>f
  <2>a. rows = Lowered(k) \union Raised(k)
    OBVIOUS
  <2> HIDE DEF rows
  <2>3. Ready(r)'
    <3>1. /\ req'[r].held = k.held \union rows /\ req'[r].pc = "shifted"
          /\ req'[r].down = Lowered(k) /\ req'[r].up = Raised(k)
          /\ req'[r].from = k.from /\ req'[r].to = k.to /\ req'[r].at = k.at /\ req'[r].pos = k.pos
      BY <1>e, <2>1
    <3>2. \A u \in k.held \union rows : col'[u] # NoColumn
      BY <1>g, <1>h, <2>1, <2>a DEF Ready, Raised, Lowered
    <3>3. Lowered(req[r])' = Lowered(k) /\ Raised(req[r])' = Raised(k)
      BY <2>1, <3>1 DEF Lowered, Raised
    <3>4. /\ Lowered(k) = Lowered(k) \intersect (k.held \union rows)
          /\ Raised(k) = Raised(k) \intersect (k.held \union rows)
      BY <2>a
    <3>5. /\ req'[r].down = Lowered(req[r])' \intersect req'[r].held
          /\ req'[r].up = Raised(req[r])' \intersect req'[r].held
      BY <3>1, <3>3, <3>4
    <3>6. \A u \in req'[r].held : col'[u] # NoColumn
      BY <3>1, <3>2
    <3>7. req'[r].pc = "shifted"
      BY <3>1
    <3>8. QED
      BY <3>5, <3>6, <3>7 DEF Ready
  <2>4. QED
    BY <1>d, <1>f, <2>1, <2>2, <2>3
<1>8. CASE Commit(r)
  <2>1. CASE col[k.card] = NoColumn
    BY <1>8, <1>c, <2>1 DEF Commit
  <2>2. CASE col[k.card] # NoColumn
    <3>1. /\ ord' = OrdersAfter(k) /\ UNCHANGED <<status, placing>>
          /\ col' = [col EXCEPT ![k.card] = IF k.from = k.to THEN @ ELSE k.to]
          /\ Proceed(r, "placed", {}, {}, {}) /\ k.pc = "shifted" /\ Free(r, {k.card})
      BY <1>8, <2>2 DEF Commit
    <3>2. ReqTyped
      <4>1. "placed" \in Phase /\ {} \subseteq Ticket /\ req[r].pc \notin {"new", "done"}
        BY <3>1 DEF Phase
      <4> HIDE DEF ReqTyped
      <4>2. QED
        BY <3>1, <4>1, ProceedKeepsTypes DEF ReqTyped
    <3>3. /\ req'[r].pc = "placed" /\ req'[r].held = {}
          /\ \A q \in Request \ {r} : req'[q] = req[q]
      BY <3>1, ProceedWrites
    <3>4. ord' \in [Ticket -> Nat]
      BY <1>h, <3>1, OrdersAreNat
    <3>5. col' \in [Ticket -> Column \union {NoColumn}]
      BY <3>1 DEF TypeOK, RequestType
    <3>6. TypeOK'
      BY <1>a, <3>1, <3>2, <3>4, <3>5 DEF TypeOK, RequestType
    <3> DEFINE S == k.held \union {k.card}
    <3>7. \A q \in Request \ {r} : req[q].held \intersect k.held = {}
      BY DEF LockInv, Apart
    <3>8. Free(r, S)
      BY <3>1, <3>7 DEF Free
    <3>9. k.down \subseteq k.held /\ k.up \subseteq k.held
      BY <1>h, <3>1 DEF Ready
    <3>10. \A u \in Ticket \ S : ord'[u] = ord[u]
      BY <3>1, <3>9 DEF OrdersAfter, TypeOK
    <3>11. \A u \in Ticket \ S : col'[u] = col[u]
      BY <3>1 DEF TypeOK
    <3>12. Ready(r)'
      BY <3>3 DEF Ready
    <3>13. LockInv'
      BY <1>h, <3>3, <3>8, <3>10, <3>11, <3>12, MoverKeepsLocks
    <3>14. QED
      BY <3>6, <3>13
  <2>3. QED
    BY <2>1, <2>2
<1>9. CASE SyncStatus(r)
  <2> DEFINE s == StatusOf[k.to]
  <2>1. Finish(r) /\ UNCHANGED <<col, ord>> /\ k.pc = "placed"
    BY <1>9 DEF SyncStatus
  <2>2. LockInv'
    BY <2>1, FinishKeepsLocks
  <2>3. ReqTyped
    BY <2>1, FinishKeepsTypes
  <2>4. CASE Personal \/ s = NoStatus \/ status[k.card] \in {NoStatus, s} \/ col[k.card] = NoColumn
    BY <1>9, <1>c, <2>1, <2>4 DEF SyncStatus
  <2>5. CASE ~(Personal \/ s = NoStatus \/ status[k.card] \in {NoStatus, s} \/ col[k.card] = NoColumn)
    <3>1. k.card \in Ticket /\ s \in Status
      BY <2>1, <2>5, BoardAssumption DEF TypeOK
    <3>2. Save(k.card, s, FollowTo(k.card, s), FALSE)
      BY <1>9, <2>5 DEF SyncStatus
    <3>3. placing' \subseteq PlacingType /\ status' \in [Ticket -> Status \union {NoStatus}]
      BY <3>1, <3>2, ColumnsAreColumns, SaveKeepsTypes
    <3>4. TypeOK'
      BY <1>a, <2>1, <2>3, <3>3 DEF TypeOK, RequestType, PlacingType
    <3>5. QED
      BY <2>2, <3>4
  <2>6. QED
    BY <2>4, <2>5
<1>10. CASE Abort(r)
  BY <1>10, <1>c DEF Abort
<1>11. QED
  BY <1>1, <1>2, <1>3, <1>4, <1>5, <1>6, <1>7, <1>8, <1>9, <1>10 DEF Move

\* So does a transaction that commits a card behind the others it had counted.
LEMMA LandKeepsInv ==
    ASSUME Inv, Landing
    PROVE  Inv'
<1> USE DEF Inv
<1>1. PICK p \in placing : Land(p)
  BY DEF Landing
<1>2. p \in PlacingType
  BY DEF TypeOK, PlacingType
<1>3. /\ req' = req /\ outside' = outside /\ placing' \subseteq PlacingType
      /\ p.new \/ Untouched(Placed(p))
  BY <1>1 DEF Land, Landing, TypeOK, PlacingType
<1>4. CASE \E t \in Placed(p) : p.new # (col[t] = NoColumn)
  <2>1. UNCHANGED <<status, col, ord>>
    BY <1>1, <1>4 DEF Land
  <2>2. TypeOK'
    BY <1>3, <2>1 DEF TypeOK, PlacingType
  <2>3. Untouched({})
    BY DEF Untouched
  <2>4. QED
    BY <1>3, <2>1, <2>2, <2>3, ElsewhereKeepsLocks
<1>5. CASE ~\E t \in Placed(p) : p.new # (col[t] = NoColumn)
  <2>1. /\ status' = [t \in Ticket |-> IF p.saves[t] = NoStatus THEN status[t] ELSE p.saves[t]]
        /\ col' = [t \in Ticket |-> IF t \in Placed(p) THEN p.to[t] ELSE col[t]]
        /\ ord' = [t \in Ticket |-> IF t \in Placed(p) THEN p.at[t] ELSE ord[t]]
    BY <1>1, <1>5 DEF Land
  <2>2. TypeOK'
    BY <1>2, <1>3, <2>1 DEF TypeOK, PlacingType
  <2>3. Untouched(Placed(p))
    <3>1. CASE p.new
      <4>1. \A t \in Placed(p) : col[t] = NoColumn
        BY <1>2, <1>5, <3>1 DEF PlacingType
      <4>2. \A q \in Request : \A u \in req[q].held : col[u] # NoColumn
        BY DEF LockInv, Ready
      <4>3. QED
        BY <4>1, <4>2 DEF Untouched
    <3>2. QED
      BY <1>3, <3>1
  <2>4. \A u \in Ticket \ Placed(p) : col'[u] = col[u] /\ ord'[u] = ord[u]
    BY <2>1
  <2>5. QED
    BY <1>3, <2>2, <2>3, <2>4, ElsewhereKeepsLocks
<1>6. QED
  BY <1>4, <1>5

\* And everything else that happens to cards.
LEMMA OutsideKeepsInv ==
    ASSUME Inv, Outside
    PROVE  Inv'
<1> USE DEF Inv
<1>a. outside' \in 0..MaxOutside
  BY BoardAssumption DEF Outside, TypeOK
<1>b. ASSUME UNCHANGED <<col, ord, req>> PROVE LockInv'
  <2>1. Untouched({})
    BY DEF Untouched
  <2>2. QED
    BY <1>b, <2>1, ElsewhereKeepsLocks
<1>c. ASSUME NEW t \in Ticket, NEW s \in Status, NEW c \in Column \union {NoColumn},
             NEW new \in BOOLEAN, Save(t, s, c, new), UNCHANGED <<col, ord, req>>
      PROVE  Inv'
  <2>1. placing' \subseteq PlacingType /\ status' \in [Ticket -> Status \union {NoStatus}]
    BY <1>c, SaveKeepsTypes
  <2>2. TypeOK'
    BY <1>a, <1>c, <2>1 DEF TypeOK, PlacingType
  <2>3. QED
    BY <1>b, <1>c, <2>2
<1>d. ASSUME NEW t \in Ticket, NEW c \in Column \union {NoColumn}, NEW n \in Nat,
             Untouched({t}), UNCHANGED <<req, placing>>,
             col' = [col EXCEPT ![t] = c], ord' = [ord EXCEPT ![t] = n],
             status' \in [Ticket -> Status \union {NoStatus}]
      PROVE  Inv'
  <2>1. TypeOK'
    BY <1>a, <1>d DEF TypeOK
  <2>2. \A u \in Ticket \ {t} : col'[u] = col[u] /\ ord'[u] = ord[u]
    BY <1>d DEF TypeOK
  <2>3. QED
    BY <1>d, <2>1, <2>2, ElsewhereKeepsLocks
<1>1. CASE \E t \in Ticket : CreateTicket(t)
  <2>1. PICK t \in Ticket : CreateTicket(t)
    BY <1>1
  <2>2. (IF Personal THEN NoColumn ELSE HomeOf(Default)) \in Column \union {NoColumn}
    BY ColumnsAreColumns
  <2>3. QED
    BY <1>c, <2>1, <2>2, BoardAssumption DEF CreateTicket
<1>2. CASE \E t \in Ticket : AssignTicket(t)
  <2>1. PICK t \in Ticket : AssignTicket(t)
    BY <1>2
  <2>2. status[t] \in Status /\ HomeOf(status[t]) \in Column \union {NoColumn}
    BY <2>1, ColumnsAreColumns DEF AssignTicket, TypeOK
  <2>3. QED
    BY <1>c, <2>1, <2>2 DEF AssignTicket
<1>3. CASE \E t \in Ticket, s \in Status : ChangeStatus(t, s)
  <2>1. PICK t \in Ticket, s \in Status : ChangeStatus(t, s)
    BY <1>3
  <2>2. FollowTo(t, s) \in Column \union {NoColumn}
    BY ColumnsAreColumns
  <2>3. QED
    BY <1>c, <2>1, <2>2 DEF ChangeStatus
<1>4. CASE \E t \in Ticket, c \in Column : ChangeStage(t, c)
  <2>1. PICK t \in Ticket, c \in Column : ChangeStage(t, c)
    BY <1>4
  <2>2. status[t] \in Status
    BY <2>1 DEF ChangeStage, TypeOK
  <2>3. QED
    BY <1>c, <2>1, <2>2 DEF ChangeStage
<1>5. CASE \E t \in Ticket, c \in Column : AddTicket(t, c)
  <2>1. PICK t \in Ticket, c \in Column : AddTicket(t, c)
    BY <1>5
  <2>2. Count(t, c, NoStatus, TRUE) /\ UNCHANGED <<status, col, ord, req>>
    BY <2>1 DEF AddTicket
  <2>3. placing' \subseteq PlacingType
    BY <2>2, CountKeepsType
  <2>4. TypeOK'
    BY <1>a, <2>2, <2>3 DEF TypeOK, PlacingType
  <2>5. QED
    BY <1>b, <2>2, <2>4
<1>6. CASE \E t \in Ticket, c \in Column, n \in 0..MaxPos : WriteCard(t, c, n)
  <2>1. PICK t \in Ticket, c \in Column, n \in 0..MaxPos : WriteCard(t, c, n)
    BY <1>6
  <2>2. n \in Nat /\ c \in Column \union {NoColumn} /\ status' \in [Ticket -> Status \union {NoStatus}]
    BY <2>1, BoardAssumption DEF WriteCard, TypeOK
  <2>3. QED
    BY <1>d, <2>1, <2>2 DEF WriteCard
<1>7. CASE \E t \in Ticket : RemoveCard(t)
  <2>1. PICK t \in Ticket : RemoveCard(t)
    BY <1>7
  <2>2. status' \in [Ticket -> Status \union {NoStatus}]
    BY <2>1 DEF RemoveCard, TypeOK
  <2>3. QED
    BY <1>d, <2>1, <2>2 DEF RemoveCard
<1>8. CASE \E t \in Ticket : DeleteTicket(t)
  <2>1. PICK t \in Ticket : DeleteTicket(t)
    BY <1>8
  <2>2. status' \in [Ticket -> Status \union {NoStatus}]
    BY <2>1 DEF DeleteTicket, TypeOK
  <2>3. QED
    BY <1>d, <2>1, <2>2 DEF DeleteTicket
<1>9. CASE Populate
  <2> DEFINE to == [t \in Ticket |-> IF \E c \in Column : t \in Missing(c)
                                    THEN CHOOSE c \in Column : t \in Missing(c) ELSE NoColumn]
  <2>1. PICK rank \in [Ticket -> 0..(Cardinality(Ticket) - 1)] :
          placing' = placing \union
              {[to    |-> to,
                at    |-> [t \in Ticket |-> IF to[t] = NoColumn THEN 0
                                           ELSE Cardinality(Cards(to[t])) + rank[t]],
                saves |-> [t \in Ticket |-> NoStatus],
                new   |-> TRUE]}
    BY <1>9 DEF Populate
  <2> DEFINE at == [t \in Ticket |-> IF to[t] = NoColumn THEN 0
                                    ELSE Cardinality(Cards(to[t])) + rank[t]]
             saves == [t \in Ticket |-> NoStatus]
  <2>2. to \in [Ticket -> Column \union {NoColumn}]
    OBVIOUS
  <2>3. saves \in [Ticket -> Status \union {NoStatus}]
    OBVIOUS
  <2> HIDE DEF to
  <2>4. ASSUME NEW t \in Ticket PROVE at[t] \in Nat
    <3>1. rank[t] \in Nat
      BY <2>1
    <3>2. Cardinality(Cards(to[t])) \in Nat
      BY CountIsNat
    <3>3. QED
      BY <3>1, <3>2
  <2>5. at \in [Ticket -> Nat]
    BY <2>4
  <2>6. placing' = placing \union {[to |-> to, at |-> at, saves |-> saves, new |-> TRUE]}
    BY <2>1
  <2> HIDE DEF at, saves
  <2>7. [to |-> to, at |-> at, saves |-> saves, new |-> TRUE] \in PlacingType
    BY <2>2, <2>3, <2>5 DEF PlacingType
  <2>8. UNCHANGED <<status, col, ord, req>>
    BY <1>9 DEF Populate
  <2>9. TypeOK'
    BY <1>a, <2>6, <2>7, <2>8 DEF TypeOK, PlacingType
  <2>10. QED
    BY <1>b, <2>8, <2>9
<1>10. QED
  BY <1>1, <1>2, <1>3, <1>4, <1>5, <1>6, <1>7, <1>8, <1>9 DEF Outside

\* The types and the locks are inductive.
LEMMA NextKeepsInv == Inv /\ [Next]_vars => Inv'
<1> SUFFICES ASSUME Inv, [Next]_vars PROVE Inv'
  OBVIOUS
<1>1. CASE UNCHANGED vars
  <2>1. TypeOK'
    BY <1>1 DEF vars, TypeOK, Inv
  <2>2. Untouched({})
    BY DEF Untouched
  <2>3. QED
    BY <1>1, <2>1, <2>2, ElsewhereKeepsLocks DEF vars, Inv
<1>2. CASE Next
  BY <1>2, MoveKeepsInv, OutsideKeepsInv, LandKeepsInv DEF Next
<1>3. QED
  BY <1>1, <1>2

LEMMA InvHolds == Spec => []Inv
BY InitInv, NextKeepsInv, PTL DEF Spec

\* Whatever overlaps, cards keep their types: above all no order falls below zero,
\* which the column's PositiveIntegerField would refuse. The locks are what it rests
\* on: the UPDATE lowers an order above another one, and until the commit nobody
\* else changes it.
THEOREM TypeCorrect == Spec => []TypeOK
<1>1. Inv => TypeOK
  BY DEF Inv
<1>2. QED
  BY <1>1, InvHolds, PTL

-----------------------------------------------------------------------------
(* The numbering.                                                          *)

\* The orders after both shifts of a reorder and of a move of card t, whose order
\* was at, to position pos.
Reordered(t, c, at, pos) ==
    [u \in Ticket |->
        CASE u = t -> pos
          [] u # t /\ col[u] = c /\ pos <= ord[u] /\ ord[u] < at -> ord[u] + 1
          [] u # t /\ col[u] = c /\ at < ord[u] /\ ord[u] <= pos -> ord[u] - 1
          [] OTHER -> ord[u]]

Shifted(t, from, at, to, pos) ==
    [u \in Ticket |->
        CASE u = t -> pos
          [] u # t /\ col[u] = from /\ ord[u] > at  -> ord[u] - 1
          [] u # t /\ col[u] = to   /\ ord[u] >= pos -> ord[u] + 1
          [] OTHER -> ord[u]]

\* What the statements wrote one after the other comes to these, if the request
\* holds all cards of its columns when it commits.
LEMMA StatementsAddUp ==
    ASSUME TypeOK, NEW r \in Request, Ready(r), req[r].pc = "shifted",
           Alone(req[r]), req[r].from \in Column, req[r].to \in Column
    PROVE  OrdersAfter(req[r]) =
              IF req[r].from = req[r].to
              THEN Reordered(req[r].card, req[r].to, req[r].at, req[r].pos)
              ELSE Shifted(req[r].card, req[r].from, req[r].at, req[r].to, req[r].pos)
<1> PICK k \in RequestType : k = req[r]
  BY DEF TypeOK, RequestType
<1>1. k.down = Lowered(k) \intersect k.held /\ k.up = Raised(k) \intersect k.held
  BY DEF Ready, Lowered, Raised
<1>2. Lowered(k) \subseteq k.held /\ Raised(k) \subseteq k.held
  BY DEF Alone, Cards, Lowered, Raised
<1>3. k.down = Lowered(k) /\ k.up = Raised(k)
  BY <1>1, <1>2
<1>4. k.at \in Nat /\ k.pos \in Nat
  BY DEF RequestType
<1>5. CASE k.from = k.to
  <2>1. ASSUME NEW u \in Ticket
        PROVE  OrdersAfter(k)[u] = Reordered(k.card, k.to, k.at, k.pos)[u]
    <3>1. ord[u] \in Nat
      BY DEF TypeOK
    <3>2. u \in k.down <=> col[u] = k.to /\ k.at < ord[u] /\ ord[u] <= k.pos
      BY <1>3, <1>5 DEF Lowered
    <3>3. u \in k.up <=> col[u] = k.to /\ k.pos <= ord[u] /\ ord[u] < k.at
      BY <1>3, <1>5 DEF Raised
    <3>4. ~(u \in k.down /\ u \in k.up)
      BY <1>4, <3>1, <3>2, <3>3
    <3>5. OrdersAfter(k)[u] = IF u = k.card THEN k.pos
                              ELSE IF u \in k.down THEN ord[u] - 1
                              ELSE IF u \in k.up THEN ord[u] + 1 ELSE ord[u]
      BY DEF OrdersAfter
    <3>6. Reordered(k.card, k.to, k.at, k.pos)[u] =
            IF u = k.card THEN k.pos
            ELSE IF u \in k.up THEN ord[u] + 1
            ELSE IF u \in k.down THEN ord[u] - 1 ELSE ord[u]
      BY <3>2, <3>3, <3>4 DEF Reordered
    <3>7. QED
      BY <3>4, <3>5, <3>6
  <2>2. QED
    BY <1>5, <2>1 DEF OrdersAfter, Reordered
<1>6. CASE k.from # k.to
  <2>1. ASSUME NEW u \in Ticket
        PROVE  OrdersAfter(k)[u] = Shifted(k.card, k.from, k.at, k.to, k.pos)[u]
    <3>1. ord[u] \in Nat
      BY DEF TypeOK
    <3>2. u \in k.down <=> col[u] = k.from /\ ord[u] > k.at
      BY <1>3, <1>4, <1>6, <3>1 DEF Lowered
    <3>3. u \in k.up <=> col[u] = k.to /\ ord[u] >= k.pos
      BY <1>3, <1>4, <1>6, <3>1 DEF Raised
    <3>4. ~(u \in k.down /\ u \in k.up)
      BY <1>6, <3>2, <3>3
    <3>5. OrdersAfter(k)[u] = IF u = k.card THEN k.pos
                              ELSE IF u \in k.down THEN ord[u] - 1
                              ELSE IF u \in k.up THEN ord[u] + 1 ELSE ord[u]
      BY DEF OrdersAfter
    <3>6. Shifted(k.card, k.from, k.at, k.to, k.pos)[u] =
            IF u = k.card THEN k.pos
            ELSE IF u \in k.down THEN ord[u] - 1
            ELSE IF u \in k.up THEN ord[u] + 1 ELSE ord[u]
      BY <3>2, <3>3, <3>4 DEF Shifted
    <3>7. QED
      BY <3>5, <3>6
  <2>2. QED
    BY <1>6, <2>1 DEF OrdersAfter, Shifted
<1>7. QED
  BY <1>5, <1>6

\* _reorder_within_column on a column without a gap.
LEMMA ReorderKeepsOrder ==
    ASSUME TypeOK,
           NEW t \in Ticket, NEW c \in Column, NEW at \in Nat, NEW pos \in Nat,
           col[t] = c, ord[t] = at, Dense(c),
           pos > 0 => \E u \in Cards(c) : ord[u] = pos,
           col' = col, ord' = Reordered(t, c, at, pos)
    PROVE  /\ Dense(c)'
           /\ ord'[t] = pos
           /\ \A u, v \in Ticket \ {t} :
                 col[u] = col[v] /\ ord[u] < ord[v] => ord'[u] < ord'[v]
<1>1. \A u \in Ticket : ord[u] \in Nat
  BY DEF TypeOK
<1>2. \A u \in Ticket \ {t} :
        ord'[u] = CASE col[u] = c /\ pos <= ord[u] /\ ord[u] < at -> ord[u] + 1
                    [] col[u] = c /\ at < ord[u] /\ ord[u] <= pos -> ord[u] - 1
                    [] OTHER -> ord[u]
  BY <1>1 DEF Reordered
<1>3. ord'[t] = pos
  BY DEF Reordered
<1>4. \A u, v \in Cards(c) : ord[u] = ord[v] => u = v
  BY DEF Dense
<1>5. \A u \in Ticket \ {t} : col[u] = c => ord[u] # at
  BY <1>4 DEF Cards
<1>6. \A u, v \in Ticket \ {t} : col[u] = col[v] /\ ord[u] < ord[v] => ord'[u] < ord'[v]
  <2> SUFFICES ASSUME NEW u \in Ticket \ {t}, NEW v \in Ticket \ {t},
                      col[u] = col[v], ord[u] < ord[v]
               PROVE  ord'[u] < ord'[v]
    OBVIOUS
  <2>1. ord[u] \in Nat /\ ord[v] \in Nat
    BY <1>1
  <2>2. CASE col[u] # c
    <3>1. ord'[u] = ord[u] /\ ord'[v] = ord[v]
      BY <1>2, <2>2
    <3>2. QED
      BY <3>1
  <2>3. CASE col[u] = c
    <3>1. ord[u] # at /\ ord[v] # at /\ col[v] = c
      BY <1>5, <2>3
    <3>2. ord'[u] = IF pos <= ord[u] /\ ord[u] < at THEN ord[u] + 1
                    ELSE IF at < ord[u] /\ ord[u] <= pos THEN ord[u] - 1 ELSE ord[u]
      BY <1>2, <2>1, <2>3
    <3>3. ord'[v] = IF pos <= ord[v] /\ ord[v] < at THEN ord[v] + 1
                    ELSE IF at < ord[v] /\ ord[v] <= pos THEN ord[v] - 1 ELSE ord[v]
      BY <1>2, <2>1, <3>1
    <3>4. QED
      BY <2>1, <3>1, <3>2, <3>3
  <2>4. QED
    BY <2>2, <2>3
<1>7. \A u \in Cards(c) : \A n \in 0..ord'[u] : \E v \in Cards(c) : ord'[v] = n
  <2> SUFFICES ASSUME NEW u \in Cards(c), NEW n \in 0..ord'[u]
               PROVE  \E v \in Cards(c) : ord'[v] = n
    OBVIOUS
  <2>1. t \in Cards(c) /\ u \in Ticket /\ col[u] = c
    BY DEF Cards
  <2>2. \A w \in Cards(c) : \A m \in Nat : m <= ord[w] =>
           \E v \in Cards(c) : v \in Ticket /\ col[v] = c /\ ord[v] = m
    BY <1>1 DEF Dense, Cards
  <2>3. n \in Nat /\ n <= ord'[u]
    BY <1>1, <1>2, <1>3, <2>1
  <2>4. CASE n = pos
    BY <1>3, <2>1, <2>4
  <2>5. CASE pos < at /\ n # pos
    <3>1. n > pos /\ n <= at => \E v \in Cards(c) : v \in Ticket /\ col[v] = c /\ ord[v] = n - 1
      BY <2>1, <2>2, <2>3
    <3>2. ~(n > pos /\ n <= at) => \E v \in Cards(c) : v \in Ticket /\ col[v] = c /\ ord[v] = n
      <4>1. CASE u = t
        BY <1>3, <2>1, <2>2, <2>3, <2>5, <4>1
      <4>2. CASE u # t
        BY <1>1, <1>2, <1>5, <2>1, <2>2, <2>3, <2>5, <4>2
      <4>3. QED
        BY <4>1, <4>2
    <3>3. CASE n > pos /\ n <= at
      <4>1. PICK v \in Cards(c) : v \in Ticket /\ col[v] = c /\ ord[v] = n - 1
        BY <3>1, <3>3
      <4>2. ord'[v] = n
        BY <1>2, <2>3, <2>5, <3>3, <4>1
      <4>3. QED
        BY <4>2
    <3>4. CASE ~(n > pos /\ n <= at)
      <4>1. PICK v \in Cards(c) : v \in Ticket /\ col[v] = c /\ ord[v] = n
        BY <3>2, <3>4
      <4>2. v # t
        BY <2>5, <3>4, <4>1
      <4>3. ord'[v] = n
        BY <1>2, <2>3, <2>5, <3>4, <4>1, <4>2
      <4>4. QED
        BY <4>3
    <3>5. QED
      BY <3>3, <3>4
  <2>6. CASE at < pos /\ n # pos
    <3>1. PICK last \in Cards(c) : ord[last] = pos
      BY <2>6
    <3>2. CASE at <= n /\ n < pos
      <4>1. PICK v \in Cards(c) : v \in Ticket /\ col[v] = c /\ ord[v] = n + 1
        BY <2>2, <2>3, <3>1, <3>2
      <4>2. ord'[v] = n
        BY <1>2, <2>3, <2>6, <3>2, <4>1
      <4>3. QED
        BY <4>2
    <3>3. CASE ~(at <= n /\ n < pos)
      <4>1. \E v \in Cards(c) : v \in Ticket /\ col[v] = c /\ ord[v] = n
        <5>1. CASE n < pos
          BY <2>2, <2>3, <3>1, <5>1
        <5>2. CASE n > pos
          BY <1>1, <1>2, <1>3, <2>1, <2>2, <2>3, <2>6, <5>2
        <5>3. QED
          BY <2>3, <2>6, <5>1, <5>2
      <4>2. PICK v \in Cards(c) : v \in Ticket /\ col[v] = c /\ ord[v] = n
        BY <4>1
      <4>3. v # t
        BY <2>6, <3>3, <4>2
      <4>4. ord'[v] = n
        BY <1>2, <2>3, <2>6, <3>3, <4>2, <4>3
      <4>5. QED
        BY <4>4
    <3>4. QED
      BY <3>2, <3>3
  <2>7. CASE at = pos /\ n # pos
    <3>1. ord'[u] = ord[u]
      BY <1>1, <1>2, <1>3, <2>1, <2>7
    <3>2. PICK v \in Cards(c) : v \in Ticket /\ col[v] = c /\ ord[v] = n
      BY <2>2, <2>3, <3>1
    <3>3. ord'[v] = n
      BY <1>2, <2>3, <2>7, <3>2
    <3>4. QED
      BY <3>3
  <2>8. QED
    BY <2>4, <2>5, <2>6, <2>7
<1>8. \A u, v \in Cards(c) : ord'[u] = ord'[v] => u = v
  <2> SUFFICES ASSUME NEW u \in Cards(c), NEW v \in Cards(c), ord'[u] = ord'[v], u # v
               PROVE  FALSE
    OBVIOUS
  <2>1. /\ u \in Ticket /\ v \in Ticket /\ col[u] = c /\ col[v] = c
        /\ ord[u] \in Nat /\ ord[v] \in Nat /\ ord[u] # ord[v]
    BY <1>1, <1>4 DEF Cards
  <2>2. CASE u # t /\ v # t
    BY <1>6, <2>1, <2>2, <1>2
  <2>3. CASE u = t
    BY <1>2, <1>3, <2>1, <2>3
  <2>4. CASE v = t
    BY <1>2, <1>3, <2>1, <2>4
  <2>5. QED
    BY <2>2, <2>3, <2>4
<1>9. Cards(c)' = Cards(c)
  BY DEF Cards
<1>10. Dense(c)'
  BY <1>7, <1>8, <1>9 DEF Dense
<1>11. QED
  BY <1>3, <1>6, <1>10

\* _move_across_columns from one column without a gap to another.
LEMMA ShiftKeepsOrder ==
    ASSUME TypeOK,
           NEW t \in Ticket, NEW c \in Column, NEW d \in Column,
           NEW at \in Nat, NEW pos \in Nat,
           c # d, col[t] = c, ord[t] = at, Dense(c), Dense(d),
           pos > 0 => \E u \in Cards(d) : ord[u] = pos - 1,
           col'[t] = d, \A u \in Ticket \ {t} : col'[u] = col[u],
           ord' = Shifted(t, c, at, d, pos)
    PROVE  /\ Dense(c)' /\ Dense(d)'
           /\ ord'[t] = pos
           /\ \A u, v \in Ticket \ {t} :
                 col[u] = col[v] /\ ord[u] < ord[v] => ord'[u] < ord'[v]
<1>1. \A u \in Ticket : ord[u] \in Nat
  BY DEF TypeOK
<1>2. \A u \in Ticket \ {t} :
        /\ col'[u] = col[u]
        /\ ord'[u] = IF col[u] = c /\ ord[u] > at THEN ord[u] - 1
                     ELSE IF col[u] = d /\ ord[u] >= pos THEN ord[u] + 1 ELSE ord[u]
  BY <1>1 DEF Shifted, TypeOK
<1>3. col'[t] = d /\ ord'[t] = pos
  BY DEF Shifted, TypeOK
<1>4. /\ \A u, v \in Ticket : col[u] = c /\ col[v] = c /\ ord[u] = ord[v] => u = v
      /\ \A u, v \in Ticket : col[u] = d /\ col[v] = d /\ ord[u] = ord[v] => u = v
  BY DEF Dense, Cards
<1>5. \A u \in Ticket \ {t} : col[u] = c => ord[u] # at
  BY <1>4
<1>6. \A u, v \in Ticket \ {t} : col[u] = col[v] /\ ord[u] < ord[v] => ord'[u] < ord'[v]
  <2> SUFFICES ASSUME NEW u \in Ticket \ {t}, NEW v \in Ticket \ {t},
                      col[u] = col[v], ord[u] < ord[v]
               PROVE  ord'[u] < ord'[v]
    OBVIOUS
  <2>1. ord[u] \in Nat /\ ord[v] \in Nat
    BY <1>1
  <2>2. CASE col[u] = c
    <3>1. /\ ord'[u] = IF ord[u] > at THEN ord[u] - 1 ELSE ord[u]
          /\ ord'[v] = IF ord[v] > at THEN ord[v] - 1 ELSE ord[v]
          /\ ord[u] # at /\ ord[v] # at
      BY <1>2, <1>5, <2>2
    <3>2. QED
      BY <2>1, <3>1
  <2>3. CASE col[u] = d
    <3>1. /\ ord'[u] = IF ord[u] >= pos THEN ord[u] + 1 ELSE ord[u]
          /\ ord'[v] = IF ord[v] >= pos THEN ord[v] + 1 ELSE ord[v]
      BY <1>2, <2>3
    <3>2. QED
      BY <2>1, <3>1
  <2>4. CASE col[u] \notin {c, d}
    <3>1. ord'[u] = ord[u] /\ ord'[v] = ord[v]
      BY <1>2, <2>4
    <3>2. QED
      BY <3>1
  <2>5. QED
    BY <2>2, <2>3, <2>4
<1>7. Dense(c)'
  <2>1. \A u \in Ticket : col'[u] = c => u # t /\ col[u] = c
    BY <1>2, <1>3
  <2>2. ASSUME NEW u \in Ticket, NEW v \in Ticket, col'[u] = c, col'[v] = c, ord'[u] = ord'[v]
        PROVE  u = v
    <3>1. u # t /\ v # t /\ col[u] = c /\ col[v] = c
      BY <2>1, <2>2
    <3>2. ord[u] \in Nat /\ ord[v] \in Nat /\ ord'[u] \in Int /\ ord'[v] \in Int
      BY <1>1, <1>2, <3>1
    <3>3. ~(ord[u] < ord[v]) /\ ~(ord[v] < ord[u])
      BY <1>6, <2>2, <3>1, <3>2
    <3>4. QED
      BY <1>4, <3>1, <3>2, <3>3
  <2>3. ASSUME NEW u \in Ticket, col'[u] = c, NEW n \in 0..ord'[u]
        PROVE  \E v \in Ticket : col'[v] = c /\ ord'[v] = n
    <3>1. u # t /\ col[u] = c /\ ord[u] \in Nat /\ ord[u] # at
      BY <1>1, <1>5, <2>1, <2>3
    <3>2. ord'[u] = IF ord[u] > at THEN ord[u] - 1 ELSE ord[u]
      BY <1>2, <3>1
    <3>3. \A m \in 0..ord[u] : \E v \in Ticket : col[v] = c /\ ord[v] = m
      BY <3>1 DEF Dense, Cards
    <3>4. CASE n < at
      <4>1. PICK v \in Ticket : col[v] = c /\ ord[v] = n
        BY <3>1, <3>2, <3>3
      <4>2. col'[v] = c /\ ord'[v] = n
        BY <1>2, <3>4, <4>1
      <4>3. QED
        BY <4>2
    <3>5. CASE n >= at
      <4>1. n + 1 \in 0..ord[u]
        BY <3>1, <3>2, <3>5
      <4>2. PICK v \in Ticket : col[v] = c /\ ord[v] = n + 1
        BY <3>3, <4>1
      <4>3. v # t
        BY <3>5, <4>2
      <4>4. col'[v] = c /\ ord'[v] = n
        BY <1>2, <3>5, <4>2, <4>3
      <4>5. QED
        BY <4>4
    <3>6. QED
      BY <3>1, <3>2, <3>4, <3>5
  <2>4. QED
    BY <2>2, <2>3 DEF Dense, Cards
<1>8. Dense(d)'
  <2>1. \A u \in Ticket : col'[u] = d <=> u = t \/ col[u] = d
    BY <1>2, <1>3
  <2>2. \A u \in Ticket : col[u] = d =>
           u # t /\ ord[u] \in Nat /\ ord'[u] = IF ord[u] >= pos THEN ord[u] + 1 ELSE ord[u]
    BY <1>1, <1>2
  <2>3. ASSUME NEW u \in Ticket, NEW v \in Ticket, col'[u] = d, col'[v] = d, ord'[u] = ord'[v]
        PROVE  u = v
    <3>1. CASE col[u] = d /\ col[v] = d
      <4>1. ord[u] = ord[v]
        BY <2>2, <2>3, <3>1
      <4>2. QED
        BY <1>4, <3>1, <4>1
    <3>2. CASE u = t \/ v = t
      BY <1>3, <2>1, <2>2, <2>3, <3>2
    <3>3. QED
      BY <2>1, <2>3, <3>1, <3>2
  <2>4. ASSUME NEW u \in Ticket, col'[u] = d, NEW n \in 0..ord'[u]
        PROVE  \E v \in Ticket : col'[v] = d /\ ord'[v] = n
    <3>1. ord'[u] \in Nat /\ n \in Nat
      BY <1>3, <2>1, <2>2, <2>4
    <3>2. \A w \in Ticket : col[w] = d =>
             \A m \in 0..ord[w] : \E v \in Ticket : col[v] = d /\ ord[v] = m
      BY DEF Dense, Cards
    <3>3. CASE n = pos
      BY <1>3, <3>3
    <3>4. CASE n < pos
      <4>1. PICK w \in Ticket : col[w] = d /\ ord[w] = pos - 1
        BY <3>1, <3>4 DEF Cards
      <4>2. n \in 0..ord[w]
        BY <3>1, <3>4, <4>1
      <4>3. PICK v \in Ticket : col[v] = d /\ ord[v] = n
        BY <3>2, <4>1, <4>2
      <4>4. col'[v] = d /\ ord'[v] = n
        BY <2>1, <2>2, <3>4, <4>3
      <4>5. QED
        BY <4>4
    <3>5. CASE n > pos
      <4>1. u # t /\ col[u] = d
        BY <1>3, <2>1, <2>4, <3>1, <3>5
      <4>2. n - 1 \in 0..ord[u]
        BY <2>2, <3>1, <3>5, <4>1
      <4>3. PICK v \in Ticket : col[v] = d /\ ord[v] = n - 1
        BY <3>2, <4>1, <4>2
      <4>4. col'[v] = d /\ ord'[v] = n
        BY <2>1, <2>2, <3>1, <3>5, <4>3
      <4>5. QED
        BY <4>4
    <3>6. QED
      BY <3>1, <3>3, <3>4, <3>5
  <2>5. QED
    BY <2>3, <2>4 DEF Dense, Cards
<1>9. QED
  BY <1>2, <1>3, <1>6, <1>7, <1>8

\* Only Commit ends the shifted phase with a placed card.
LEMMA OnlyCommitPlaces ==
    ASSUME Inv, [Next]_vars, NEW r \in Request,
           req[r].pc = "shifted", req'[r].pc = "placed"
    PROVE  Commit(r)
<1> USE DEF Inv
<1>1. req' # req
  OBVIOUS
<1>2. PICK q \in Request : Move(q)
  BY <1>1 DEF Next, vars, Outside, CreateTicket, AssignTicket, ChangeStatus, ChangeStage,
             AddTicket, WriteCard, RemoveCard, DeleteTicket, Populate, Landing, Land
<1>3. ASSUME NEW pc, NEW held, NEW down, NEW up, Proceed(q, pc, held, down, up), q # r
      PROVE  FALSE
  BY <1>3 DEF Proceed, TypeOK
<1>4. ASSUME Finish(q) PROVE FALSE
  BY <1>4 DEF Finish, Blank, TypeOK
<1>5. ASSUME NEW t \in Ticket, NEW c \in Column, NEW pos \in 0..MaxPos, Read(q, t, c, pos)
      PROVE  FALSE
  BY <1>5 DEF Read, TypeOK
<1>6. q = r
  BY <1>2, <1>3, <1>4, <1>5 DEF Move, Check, LockSource, LockTarget, CloseGap, OpenGap, ShiftBetween,
             Commit, SyncStatus, Abort
<1>7. QED
  BY <1>2, <1>4, <1>5, <1>6 DEF Move, Check, LockSource, LockTarget, CloseGap, OpenGap, ShiftBetween,
             SyncStatus, Abort

\* Whatever the other requests and handlers do between its statements, a move whose
\* copy of the card is still true when it commits, and into whose columns no card
\* has come since it locked them, keeps both columns without a gap, puts the card
\* where it was asked to and every other card in the order it had: the locks of
\* _reorder_within_column and _move_across_columns keep what their UPDATEs wrote
\* right until the commit, for columns of every length.
THEOREM MovesKeepOrder == Spec => MoveKeepsOrder
<1>1. ASSUME Inv, [Next]_vars, NEW r \in Request,
             req[r].pc = "shifted", req'[r].pc = "placed",
             Fresh(req[r]), InRange(req[r]), Alone(req[r]), Dense(req[r].from), Dense(req[r].to)
      PROVE  /\ Dense(req[r].from)' /\ Dense(req[r].to)'
             /\ col'[req[r].card] = req[r].to /\ ord'[req[r].card] = req[r].pos
             /\ \A t, u \in Ticket \ {req[r].card} :
                   /\ col'[t] = col[t]
                   /\ col[t] = col[u] /\ ord[t] < ord[u] => ord'[t] < ord'[u]
  <2> USE DEF Inv
  <2>1. PICK k \in RequestType : k = req[r]
    BY <1>1 DEF TypeOK, RequestType
  <2>2. k.card \in Ticket /\ k.from \in Column /\ k.to \in Column /\ k.at \in Nat /\ k.pos \in Nat
    BY <1>1, <2>1 DEF TypeOK, RequestType
  <2>3. Commit(r)
    BY <1>1, OnlyCommitPlaces
  <2>4. col[k.card] = k.from /\ ord[k.card] = k.at
    BY <1>1, <2>1 DEF Fresh
  <2>5. /\ ord' = OrdersAfter(k)
        /\ col' = [col EXCEPT ![k.card] = IF k.from = k.to THEN @ ELSE k.to]
        /\ Proceed(r, "placed", {}, {}, {})
    BY <2>1, <2>2, <2>3, <2>4, BoardAssumption DEF Commit
  <2>6. ord' = IF k.from = k.to THEN Reordered(k.card, k.to, k.at, k.pos)
                                ELSE Shifted(k.card, k.from, k.at, k.to, k.pos)
    BY <1>1, <2>1, <2>2, <2>5, StatementsAddUp DEF LockInv
  <2>7. req'[r].from = k.from /\ req'[r].to = k.to
    BY <1>1, <2>1, <2>5, ProceedWrites
  <2>8. k.pos > 0 => \E u \in Cards(k.to) : ord[u] = IF k.from = k.to THEN k.pos ELSE k.pos - 1
    BY <1>1, <2>1 DEF InRange
  <2>9. Dense(k.from) /\ Dense(k.to)
    BY <1>1, <2>1
  <2>10. /\ Dense(k.from)' /\ Dense(k.to)'
         /\ col'[k.card] = k.to /\ ord'[k.card] = k.pos
         /\ \A t, u \in Ticket \ {k.card} :
               /\ col'[t] = col[t]
               /\ col[t] = col[u] /\ ord[t] < ord[u] => ord'[t] < ord'[u]
    <3>1. CASE k.from = k.to
      <4>1. col' = col /\ ord' = Reordered(k.card, k.to, k.at, k.pos)
        BY <2>2, <2>5, <2>6, <3>1, <1>1 DEF TypeOK
      <4>2. k.pos > 0 => \E u \in Cards(k.to) : ord[u] = k.pos
        BY <2>8, <3>1
      <4>3. /\ Dense(k.to)'
            /\ ord'[k.card] = k.pos
            /\ \A u, v \in Ticket \ {k.card} :
                  col[u] = col[v] /\ ord[u] < ord[v] => ord'[u] < ord'[v]
        BY <1>1, <2>1, <2>2, <2>4, <2>9, <3>1, <4>1, <4>2, ReorderKeepsOrder
      <4>4. QED
        BY <2>4, <3>1, <4>1, <4>3
    <3>2. ASSUME NEW t \in Ticket, NEW c \in Column, NEW d \in Column, NEW at \in Nat, NEW pos \in Nat,
                 t = k.card, c = k.from, d = k.to, at = k.at, pos = k.pos, c # d
          PROVE  /\ Dense(c)' /\ Dense(d)'
                 /\ col'[t] = d /\ ord'[t] = pos
                 /\ \A u, v \in Ticket \ {t} :
                       /\ col'[u] = col[u]
                       /\ col[u] = col[v] /\ ord[u] < ord[v] => ord'[u] < ord'[v]
      <4>1. /\ col'[t] = d /\ \A u \in Ticket \ {t} : col'[u] = col[u]
            /\ ord' = Shifted(t, c, at, d, pos)
        BY <1>1, <2>5, <2>6, <3>2 DEF TypeOK
      <4>2. pos > 0 => \E u \in Cards(d) : ord[u] = pos - 1
        BY <2>8, <3>2
      <4>3. TypeOK /\ col[t] = c /\ ord[t] = at /\ Dense(c) /\ Dense(d)
        BY <1>1, <2>4, <2>9, <3>2
      <4>4. c # d
        BY <3>2
      <4>5. QED
        BY <4>1, <4>2, <4>3, <4>4, ShiftKeepsOrder
    <3>3. QED
      BY <2>1, <2>2, <3>1, <3>2
  <2>11. Dense(req[r].from)' /\ Dense(req[r].to)'
    BY <2>7, <2>10 DEF Dense, Cards
  <2>12. QED
    BY <2>1, <2>10, <2>11
<1>2. Inv /\ [Next]_vars =>
        [\A r \in Request :
          LET k == req[r] IN
          k.pc = "shifted" /\ req'[r].pc = "placed" /\ Fresh(k) /\ InRange(k) /\ Alone(k)
             /\ Dense(k.from) /\ Dense(k.to)
          => /\ Dense(k.from)' /\ Dense(k.to)'
             /\ col'[k.card] = k.to /\ ord'[k.card] = k.pos
             /\ \A t, u \in Ticket \ {k.card} :
                   /\ col'[t] = col[t]
                   /\ col[t] = col[u] /\ ord[t] < ord[u] => ord'[t] < ord'[u]]_vars
  BY <1>1
<1>3. QED
  BY <1>2, InvHolds, PTL DEF Spec, MoveKeepsOrder
=============================================================================
