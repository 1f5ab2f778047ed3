------------------------ MODULE TicketServices_proofs ------------------------
(***************************************************************************)
(* Proofs about two parts of src/apps/tickets.  TicketNumbering: its type  *)
(* invariant, and that no ticket number is handed out twice, for any       *)
(* number of processes.  SlaClock, for any policies, rules, calendar and   *)
(* clock, any number of sweeps at once, killed and delivered again, and    *)
(* requests that save instances loaded long before: a breach is announced  *)
(* and a rule executed once, and once more only for what the tally counts; *)
(* a ticket has at most one open pause, and only while it waits; only a    *)
(* policy edit or a late save moves a deadline towards the present; the    *)
(* elapsed time of the sweep and the stored deadlines agree through all    *)
(* pauses; a breach flag tells the truth about when the ticket was answered*)
(* and closed.  Spec and Next are SlaClock's; those of TicketNumbering have*)
(* its name before them.                                                   *)
(***************************************************************************)
EXTENDS TicketNumbering, SlaClock, FiniteSetTheorems, WellFoundedInduction, TLAPS

-----------------------------------------------------------------------------
(* TicketNumbering: the counter and its lock.                              *)

\* A process owns the row lock exactly while it works on the counter.
LockOwned ==
    \A c \in Creator : lock = c <=> creator[c].pc \in {"locked", "numbered"}

\* What the lock holder sees: the committed counter, then its successor.
DraftFollows ==
    \A c \in Creator :
        /\ creator[c].pc = "locked" => draft = LastNumber
        /\ creator[c].pc = "numbered" =>
               draft = LastNumber + 1 /\ creator[c].number = draft

\* A number outside any transaction has been committed by the counter.
InsertCovered ==
    \A c \in Creator :
        creator[c].pc = "insert" => counter # NoRow /\ creator[c].number <= counter

NumberInv ==
    /\ NumberTypeOK
    /\ LockOwned
    /\ DraftFollows
    /\ InsertCovered
    /\ CounterCoversTickets
    /\ NeverCollides

\* NumbersTyped: every reachable state of Ticket.save and next_number is
\* well typed; the draft of the lock holder is never the missing row.
THEOREM NumbersTyped == NumberSpec => []NumberTypeOK
<1>1. NumberInit => NumberTypeOK
  BY NumberingAssumption DEF NumberInit, NumberTypeOK, Idle, At, CreatorState
<1>2. NumberTypeOK /\ [NumberNext]_numberVars => NumberTypeOK'
  <2> SUFFICES ASSUME NumberTypeOK, [NumberNext]_numberVars PROVE NumberTypeOK'
    OBVIOUS
  <2> USE NumberingAssumption DEF NumberTypeOK, CreatorState, Goto, MoveTo, At, Idle
  <2>1. ASSUME NEW c \in Creator, NEW inTxn \in BOOLEAN, Start(c, inTxn) PROVE NumberTypeOK'
    BY <2>1 DEF Start
  <2>2. ASSUME NEW c \in Creator, LockCounter(c) PROVE NumberTypeOK'
    BY <2>2 DEF LockCounter
  <2>3. ASSUME NEW c \in Creator, MissCounter(c) PROVE NumberTypeOK'
    BY <2>3 DEF MissCounter
  <2>4. ASSUME NEW c \in Creator, CreateCounter(c) PROVE NumberTypeOK'
    BY <2>4 DEF CreateCounter
  <2>5. ASSUME NEW c \in Creator, CreateLost(c) PROVE NumberTypeOK'
    BY <2>5 DEF CreateLost
  <2>6. ASSUME NEW c \in Creator, Increment(c) PROVE NumberTypeOK'
    BY <2>6 DEF Increment
  <2>7. ASSUME NEW c \in Creator, Insert(c) PROVE NumberTypeOK'
    <3>1. creator[c].number \in Nat /\ tickets' \subseteq Nat
      BY <2>7 DEF Insert
    <3>2. creator' \in [Creator -> CreatorState]
      BY <2>7 DEF Insert
    <3>3. counter' \in Nat \cup {NoRow} /\ lock' \in Creator \cup {Nobody} /\ draft' \in Nat
      BY <2>7 DEF Insert
    <3> QED BY <3>1, <3>2, <3>3
  <2>8. ASSUME NEW c \in Creator, Abort(c) PROVE NumberTypeOK'
    BY <2>8 DEF Abort
  <2>9. CASE UNCHANGED numberVars
    BY <2>9 DEF numberVars
  <2> QED BY <2>1, <2>2, <2>3, <2>4, <2>5, <2>6, <2>7, <2>8, <2>9 DEF NumberNext, Step
<1> QED BY <1>1, <1>2, PTL DEF NumberSpec

\* What the lock, the draft and the numbers in hand have to do with each other
\* is kept by every step.
LEMMA NumberInvStep == NumberInv /\ NumberTypeOK' /\ [NumberNext]_numberVars => NumberInv'
<1> SUFFICES ASSUME NumberInv, NumberTypeOK', [NumberNext]_numberVars PROVE NumberInv'
  OBVIOUS
<1> USE NumberingAssumption DEF NumberInv, NumberTypeOK, CreatorState, Goto, MoveTo, At, Idle,
        LockOwned, DraftFollows, InsertCovered, CounterCoversTickets, NeverCollides,
        Holding, LastNumber
<1>1. ASSUME NEW c \in Creator, NEW inTxn \in BOOLEAN, Start(c, inTxn) PROVE NumberInv'
  BY <1>1 DEF Start
<1>2. ASSUME NEW c \in Creator, LockCounter(c) PROVE NumberInv'
  BY <1>2 DEF LockCounter
<1>3. ASSUME NEW c \in Creator, MissCounter(c) PROVE NumberInv'
  BY <1>3 DEF MissCounter
<1>4. ASSUME NEW c \in Creator, CreateCounter(c) PROVE NumberInv'
  BY <1>4 DEF CreateCounter
<1>5. ASSUME NEW c \in Creator, CreateLost(c) PROVE NumberInv'
  BY <1>5 DEF CreateLost
<1>6. ASSUME NEW c \in Creator, Increment(c) PROVE NumberInv'
  <2>1. LockOwned'
    BY <1>6 DEF Increment
  <2>2. DraftFollows'
    <3>1. \A d \in Creator \ {c} :
              creator'[d] = creator[d] /\ creator[d].pc \notin {"locked", "numbered"}
      BY <1>6 DEF Increment
    <3>2. CASE creator[c].inTxn
      BY <1>6, <3>1, <3>2 DEF Increment
    <3>3. CASE ~creator[c].inTxn
      BY <1>6, <3>1, <3>3 DEF Increment
    <3> QED BY <3>2, <3>3
  <2>3. InsertCovered'
    BY <1>6 DEF Increment
  <2>4. CounterCoversTickets'
    BY <1>6 DEF Increment
  <2>5. (\A d \in Holding : creator[d].number \notin tickets)'
    BY <1>6 DEF Increment
  <2>6. (\A d, e \in Holding : d # e => creator[d].number # creator[e].number)'
    BY <1>6 DEF Increment
  <2> QED BY <2>1, <2>2, <2>3, <2>4, <2>5, <2>6
<1>7. ASSUME NEW c \in Creator, Insert(c) PROVE NumberInv'
  <2>1. LockOwned'
    BY <1>7 DEF Insert
  <2>2. DraftFollows'
    BY <1>7 DEF Insert
  <2>3. InsertCovered'
    BY <1>7 DEF Insert
  <2>4. CounterCoversTickets'
    <3>1. CASE creator[c].pc = "numbered"
      BY <1>7, <3>1 DEF Insert
    <3>2. CASE creator[c].pc = "insert"
      BY <1>7, <3>2 DEF Insert
    <3> QED BY <1>7, <3>1, <3>2 DEF Insert
  <2>5. (\A d \in Holding : creator[d].number \notin tickets)'
    BY <1>7 DEF Insert
  <2>6. (\A d, e \in Holding : d # e => creator[d].number # creator[e].number)'
    BY <1>7 DEF Insert
  <2> QED BY <2>1, <2>2, <2>3, <2>4, <2>5, <2>6
<1>8. ASSUME NEW c \in Creator, Abort(c) PROVE NumberInv'
  BY <1>8 DEF Abort
<1>9. CASE UNCHANGED numberVars
  BY <1>9 DEF numberVars
<1> QED BY <1>1, <1>2, <1>3, <1>4, <1>5, <1>6, <1>7, <1>8, <1>9 DEF NumberNext, Step

\* NumbersAreUnique: no ticket number is handed out twice, however many requests
\* and pipelines create tickets at once and whoever dies on the way.
THEOREM NumbersAreUnique == NumberSpec => [](NeverCollides /\ CounterCoversTickets)
<1>1. NumberInit => NumberInv
  BY NumbersTyped, NumberingAssumption DEF NumberInit, NumberInv, NumberTypeOK, Idle,
     At, CreatorState,
     LockOwned, DraftFollows, InsertCovered, CounterCoversTickets, NeverCollides, Holding
<1>2. NumberSpec => []NumberTypeOK
  BY NumbersTyped
<1>3. NumberInv => NeverCollides /\ CounterCoversTickets
  BY DEF NumberInv
<1> QED BY <1>1, <1>2, <1>3, NumberInvStep, PTL DEF NumberSpec

\* CounterIsAhead: the committed counter covers the number of every ticket, so the
\* next draw (TicketCounter.next_number) is a new one, also after rollbacks.
THEOREM CounterIsAhead == NumberSpec => []CounterCoversTickets
BY NumbersAreUnique, PTL


-----------------------------------------------------------------------------
(* SlaClock: the columns of rows, sweeps and tallies, and how a write of   *)
(* some of them leaves the others.                                         *)

AsRow(p, q, x, y, r, z, s, f) ==
    [prio |-> p, policy |-> q, respDue |-> x, resDue |-> y, responded |-> r,
     closed |-> z, status |-> s, flags |-> f]

AsSweep(l, a, q, w, p, c, b, u) ==
    [pc |-> l, at |-> a, policy |-> q, todo |-> w, prio |-> p, copy |-> c,
     breaches |-> b, rules |-> u]

AsTally(e, c, o, f, b, k) ==
    [edits |-> e, crashes |-> c, overlaps |-> o, cleared |-> f, touched |-> b,
     inPause |-> k]

\* t has the columns of a ticket row, whatever times they hold; s and y those of a
\* sweep and of a tally.
IsRow(t) ==
    t = AsRow(t.prio, t.policy, t.respDue, t.resDue, t.responded, t.closed, t.status,
              t.flags)
IsSweep(s) ==
    s = AsSweep(s.pc, s.at, s.policy, s.todo, s.prio, s.copy, s.breaches, s.rules)
IsTally(y) ==
    y = AsTally(y.edits, y.crashes, y.overlaps, y.cleared, y.touched, y.inPause)

\* The writes of rows.
LEMMA SetPrio ==
    ASSUME NEW t, IsRow(t), NEW p
    PROVE  [t EXCEPT !.prio = p]
           = AsRow(p, t.policy, t.respDue, t.resDue, t.responded, t.closed,
                   t.status, t.flags)
BY DEF IsRow, AsRow

LEMMA SetFlags ==
    ASSUME NEW t, IsRow(t), NEW f
    PROVE  [t EXCEPT !.flags = f]
           = AsRow(t.prio, t.policy, t.respDue, t.resDue, t.responded,
                   t.closed, t.status, f)
BY DEF IsRow, AsRow

LEMMA SetStatus ==
    ASSUME NEW t, IsRow(t), NEW s
    PROVE  [t EXCEPT !.status = s]
           = AsRow(t.prio, t.policy, t.respDue, t.resDue, t.responded,
                   t.closed, s, t.flags)
BY DEF IsRow, AsRow

LEMMA SetClosed ==
    ASSUME NEW t, IsRow(t), NEW z
    PROVE  [t EXCEPT !.closed = z]
           = AsRow(t.prio, t.policy, t.respDue, t.resDue, t.responded, z,
                   t.status, t.flags)
BY DEF IsRow, AsRow

LEMMA SetDues ==
    ASSUME NEW t, IsRow(t), NEW x, NEW y
    PROVE  [t EXCEPT !.respDue = x, !.resDue = y]
           = AsRow(t.prio, t.policy, x, y, t.responded, t.closed, t.status,
                   t.flags)
<1> DEFINE a1 == [t EXCEPT !.respDue = x]
<1>1. a1 = AsRow(t.prio, t.policy, x, t.resDue, t.responded, t.closed,
               t.status, t.flags)
  BY DEF IsRow, AsRow
<1> HIDE DEF a1
<1>2. [a1 EXCEPT !.resDue = y] = AsRow(t.prio, t.policy, x, y, t.responded,
                                     t.closed, t.status, t.flags)
  BY <1>1 DEF IsRow, AsRow
<1> QED BY <1>2 DEF a1

LEMMA SetEnd ==
    ASSUME NEW t, IsRow(t), NEW z, NEW f
    PROVE  [t EXCEPT !.closed = z, !.flags = f]
           = AsRow(t.prio, t.policy, t.respDue, t.resDue, t.responded, z,
                   t.status, f)
<1> DEFINE a1 == [t EXCEPT !.closed = z]
<1>1. a1 = AsRow(t.prio, t.policy, t.respDue, t.resDue, t.responded, z,
               t.status, t.flags)
  BY DEF IsRow, AsRow
<1> HIDE DEF a1
<1>2. [a1 EXCEPT !.flags = f] = AsRow(t.prio, t.policy, t.respDue, t.resDue,
                                    t.responded, z, t.status, f)
  BY <1>1 DEF IsRow, AsRow
<1> QED BY <1>2 DEF a1

LEMMA SetAnswer ==
    ASSUME NEW t, IsRow(t), NEW r, NEW f
    PROVE  [t EXCEPT !.responded = r, !.flags = f]
           = AsRow(t.prio, t.policy, t.respDue, t.resDue, r, t.closed,
                   t.status, f)
<1> DEFINE a1 == [t EXCEPT !.responded = r]
<1>1. a1 = AsRow(t.prio, t.policy, t.respDue, t.resDue, r, t.closed, t.status,
               t.flags)
  BY DEF IsRow, AsRow
<1> HIDE DEF a1
<1>2. [a1 EXCEPT !.flags = f] = AsRow(t.prio, t.policy, t.respDue, t.resDue, r,
                                    t.closed, t.status, f)
  BY <1>1 DEF IsRow, AsRow
<1> QED BY <1>2 DEF a1

LEMMA SetPromise ==
    ASSUME NEW t, IsRow(t), NEW q, NEW x, NEW y
    PROVE  [t EXCEPT !.policy = q, !.respDue = x, !.resDue = y]
           = AsRow(t.prio, q, x, y, t.responded, t.closed, t.status,
                   t.flags)
<1> DEFINE a1 == [t EXCEPT !.policy = q]
           b1 == [a1 EXCEPT !.respDue = x]
<1>1. a1 = AsRow(t.prio, q, t.respDue, t.resDue, t.responded, t.closed,
               t.status, t.flags)
  BY DEF IsRow, AsRow
<1> HIDE DEF a1
<1>2. b1 = AsRow(t.prio, q, x, t.resDue, t.responded, t.closed, t.status,
               t.flags)
  BY <1>1 DEF IsRow, AsRow
<1> HIDE DEF b1
<1>3. [b1 EXCEPT !.resDue = y] = AsRow(t.prio, q, x, y, t.responded, t.closed,
                                     t.status, t.flags)
  BY <1>2 DEF IsRow, AsRow
<1> QED BY <1>3 DEF a1, b1

\* The writes of sweeps.
LEMMA ToScan ==
    ASSUME NEW s, IsSweep(s), NEW l, NEW a, NEW q, NEW w
    PROVE  [s EXCEPT !.pc = l, !.at = a, !.policy = q, !.todo = w]
           = AsSweep(l, a, q, w, s.prio, s.copy, s.breaches, s.rules)
<1> DEFINE a1 == [s EXCEPT !.pc = l]
           b1 == [a1 EXCEPT !.at = a]
           c1 == [b1 EXCEPT !.policy = q]
<1>1. a1 = AsSweep(l, s.at, s.policy, s.todo, s.prio, s.copy, s.breaches,
                 s.rules)
  BY DEF IsSweep, AsSweep
<1> HIDE DEF a1
<1>2. b1 = AsSweep(l, a, s.policy, s.todo, s.prio, s.copy, s.breaches,
                 s.rules)
  BY <1>1 DEF IsSweep, AsSweep
<1> HIDE DEF b1
<1>3. c1 = AsSweep(l, a, q, s.todo, s.prio, s.copy, s.breaches, s.rules)
  BY <1>2 DEF IsSweep, AsSweep
<1> HIDE DEF c1
<1>4. [c1 EXCEPT !.todo = w] = AsSweep(l, a, q, w, s.prio, s.copy,
                                     s.breaches, s.rules)
  BY <1>3 DEF IsSweep, AsSweep
<1> QED BY <1>4 DEF a1, b1, c1

LEMMA ToTodo ==
    ASSUME NEW s, IsSweep(s), NEW w
    PROVE  [s EXCEPT !.todo = w]
           = AsSweep(s.pc, s.at, s.policy, w, s.prio, s.copy, s.breaches,
                     s.rules)
BY DEF IsSweep, AsSweep

LEMMA ToTicket ==
    ASSUME NEW s, IsSweep(s), NEW l, NEW w, NEW p, NEW c
    PROVE  [s EXCEPT !.pc = l, !.todo = w, !.prio = p, !.copy = c]
           = AsSweep(l, s.at, s.policy, w, p, c, s.breaches, s.rules)
<1> DEFINE a1 == [s EXCEPT !.pc = l]
           b1 == [a1 EXCEPT !.todo = w]
           c1 == [b1 EXCEPT !.prio = p]
<1>1. a1 = AsSweep(l, s.at, s.policy, s.todo, s.prio, s.copy, s.breaches,
                 s.rules)
  BY DEF IsSweep, AsSweep
<1> HIDE DEF a1
<1>2. b1 = AsSweep(l, s.at, s.policy, w, s.prio, s.copy, s.breaches,
                 s.rules)
  BY <1>1 DEF IsSweep, AsSweep
<1> HIDE DEF b1
<1>3. c1 = AsSweep(l, s.at, s.policy, w, p, s.copy, s.breaches, s.rules)
  BY <1>2 DEF IsSweep, AsSweep
<1> HIDE DEF c1
<1>4. [c1 EXCEPT !.copy = c] = AsSweep(l, s.at, s.policy, w, p, c,
                                     s.breaches, s.rules)
  BY <1>3 DEF IsSweep, AsSweep
<1> QED BY <1>4 DEF a1, b1, c1

LEMMA ToAnnounce ==
    ASSUME NEW s, IsSweep(s), NEW l, NEW c, NEW b
    PROVE  [s EXCEPT !.pc = l, !.copy = c, !.breaches = b]
           = AsSweep(l, s.at, s.policy, s.todo, s.prio, c, b, s.rules)
<1> DEFINE a1 == [s EXCEPT !.pc = l]
           b1 == [a1 EXCEPT !.copy = c]
<1>1. a1 = AsSweep(l, s.at, s.policy, s.todo, s.prio, s.copy, s.breaches,
                 s.rules)
  BY DEF IsSweep, AsSweep
<1> HIDE DEF a1
<1>2. b1 = AsSweep(l, s.at, s.policy, s.todo, s.prio, c, s.breaches,
                 s.rules)
  BY <1>1 DEF IsSweep, AsSweep
<1> HIDE DEF b1
<1>3. [b1 EXCEPT !.breaches = b] = AsSweep(l, s.at, s.policy, s.todo, s.prio,
                                         c, b, s.rules)
  BY <1>2 DEF IsSweep, AsSweep
<1> QED BY <1>3 DEF a1, b1

LEMMA ToBreaches ==
    ASSUME NEW s, IsSweep(s), NEW b
    PROVE  [s EXCEPT !.breaches = b]
           = AsSweep(s.pc, s.at, s.policy, s.todo, s.prio, s.copy, b,
                     s.rules)
BY DEF IsSweep, AsSweep

LEMMA ToRules ==
    ASSUME NEW s, IsSweep(s), NEW l, NEW u
    PROVE  [s EXCEPT !.pc = l, !.rules = u]
           = AsSweep(l, s.at, s.policy, s.todo, s.prio, s.copy, s.breaches,
                     u)
<1> DEFINE a1 == [s EXCEPT !.pc = l]
<1>1. a1 = AsSweep(l, s.at, s.policy, s.todo, s.prio, s.copy, s.breaches,
                 s.rules)
  BY DEF IsSweep, AsSweep
<1> HIDE DEF a1
<1>2. [a1 EXCEPT !.rules = u] = AsSweep(l, s.at, s.policy, s.todo, s.prio,
                                      s.copy, s.breaches, u)
  BY <1>1 DEF IsSweep, AsSweep
<1> QED BY <1>2 DEF a1

LEMMA ToCopy ==
    ASSUME NEW s, IsSweep(s), NEW l, NEW c
    PROVE  [s EXCEPT !.pc = l, !.copy = c]
           = AsSweep(l, s.at, s.policy, s.todo, s.prio, c, s.breaches,
                     s.rules)
<1> DEFINE a1 == [s EXCEPT !.pc = l]
<1>1. a1 = AsSweep(l, s.at, s.policy, s.todo, s.prio, s.copy, s.breaches,
                 s.rules)
  BY DEF IsSweep, AsSweep
<1> HIDE DEF a1
<1>2. [a1 EXCEPT !.copy = c] = AsSweep(l, s.at, s.policy, s.todo, s.prio, c,
                                     s.breaches, s.rules)
  BY <1>1 DEF IsSweep, AsSweep
<1> QED BY <1>2 DEF a1

\* The writes of tallies.
LEMMA SetEdits ==
    ASSUME NEW y, IsTally(y), NEW e
    PROVE  [y EXCEPT !.edits = e]
           = AsTally(e, y.crashes, y.overlaps, y.cleared, y.touched,
                     y.inPause)
BY DEF IsTally, AsTally

LEMMA SetCrashes ==
    ASSUME NEW y, IsTally(y), NEW c
    PROVE  [y EXCEPT !.crashes = c]
           = AsTally(y.edits, c, y.overlaps, y.cleared, y.touched,
                     y.inPause)
BY DEF IsTally, AsTally

LEMMA SetOverlaps ==
    ASSUME NEW y, IsTally(y), NEW o
    PROVE  [y EXCEPT !.overlaps = o]
           = AsTally(y.edits, y.crashes, o, y.cleared, y.touched,
                     y.inPause)
BY DEF IsTally, AsTally

LEMMA SetCleared ==
    ASSUME NEW y, IsTally(y), NEW f
    PROVE  [y EXCEPT !.cleared = f]
           = AsTally(y.edits, y.crashes, y.overlaps, f, y.touched,
                     y.inPause)
BY DEF IsTally, AsTally

LEMMA SetInPause ==
    ASSUME NEW y, IsTally(y), NEW k
    PROVE  [y EXCEPT !.inPause = k]
           = AsTally(y.edits, y.crashes, y.overlaps, y.cleared, y.touched,
                     k)
BY DEF IsTally, AsTally

LEMMA SetTouched ==
    ASSUME NEW y, IsTally(y), NEW b, NEW k
    PROVE  [y EXCEPT !.touched = b, !.inPause = k]
           = AsTally(y.edits, y.crashes, y.overlaps, y.cleared, b, k)
<1> DEFINE a1 == [y EXCEPT !.touched = b]
<1>1. a1 = AsTally(y.edits, y.crashes, y.overlaps, y.cleared, b, y.inPause)
  BY DEF IsTally, AsTally
<1> HIDE DEF a1
<1>2. [a1 EXCEPT !.inPause = k] = AsTally(y.edits, y.crashes, y.overlaps,
                                        y.cleared, b, k)
  BY <1>1 DEF IsTally, AsTally
<1> QED BY <1>2 DEF a1

-----------------------------------------------------------------------------
(* SlaClock: what the operations make of a row.                            *)

LEMMA ResumedIs ==
    ASSUME NEW c, IsRow(c), NEW ps
    PROVE  LET u == Resumed(c, ps)
           IN  /\ u = AsRow(c.prio, c.policy, u.respDue, u.resDue, c.responded, c.closed,
                            c.status, c.flags)
               /\ OpenPauses(ps) = {} => u = c
               /\ OpenPauses(ps) # {} =>
                    LET n == Business(ps[LastOpen(ps)].from, now)
                    IN  u.respDue = Shift(c.respDue, n) /\ u.resDue = Shift(c.resDue, n)
<1>1. CASE OpenPauses(ps) = {}
  BY <1>1 DEF Resumed, IsRow
<1>2. CASE OpenPauses(ps) # {}
  <2> DEFINE n == Business(ps[LastOpen(ps)].from, now)
             x == Shift(c.respDue, n)
             y == Shift(c.resDue, n)
  <2>1. Resumed(c, ps) = [c EXCEPT !.respDue = x, !.resDue = y]
    BY <1>2 DEF Resumed
  <2> HIDE DEF x, y
  <2>2. Resumed(c, ps) = AsRow(c.prio, c.policy, x, y, c.responded, c.closed, c.status,
                               c.flags)
    BY <2>1, SetDues
  <2> QED BY <1>2, <2>2 DEF AsRow, x, y
<1> QED BY <1>1, <1>2

LEMMA ResumedRowIs ==
    ASSUME NEW t, IsRow(t), NEW c, NEW ps
    PROVE  LET u == ResumedRow(t, c, ps)
           IN  /\ u = AsRow(t.prio, t.policy, u.respDue, u.resDue, t.responded, t.closed,
                            t.status, t.flags)
               /\ IF OpenPauses(ps) # {} /\ Business(ps[LastOpen(ps)].from, now) > 0
                  THEN /\ u.respDue = Resumed(c, ps).respDue
                       /\ u.resDue = Resumed(c, ps).resDue
                  ELSE u = t
<1> DEFINE x == Resumed(c, ps).respDue
           y == Resumed(c, ps).resDue
           moves == OpenPauses(ps) # {} /\ Business(ps[LastOpen(ps)].from, now) > 0
<1>1. CASE moves
  <2>1. ResumedRow(t, c, ps) = [t EXCEPT !.respDue = x, !.resDue = y]
    BY <1>1 DEF ResumedRow
  <2> HIDE DEF x, y
  <2>2. ResumedRow(t, c, ps) = AsRow(t.prio, t.policy, x, y, t.responded, t.closed, t.status,
                                     t.flags)
    BY <2>1, SetDues
  <2> HIDE DEF moves
  <2>3. ResumedRow(t, c, ps).respDue = x /\ ResumedRow(t, c, ps).resDue = y
    BY <2>2 DEF AsRow
  <2> QED BY <1>1, <2>2, <2>3 DEF x, y, moves
<1>2. CASE ~moves
  BY <1>2 DEF ResumedRow, IsRow
<1> QED BY <1>1, <1>2

\* When the closing of c is, and what it adds to the flags.
EndOf(c) == IF c.closed = NoTime THEN now ELSE c.closed
FlagsOf(c) ==
    IF c.resDue # NoTime /\ EndOf(c) > c.resDue THEN c.flags \cup {"resolution"} ELSE c.flags

LEMMA ClosedIs ==
    ASSUME NEW c, IsRow(c)
    PROVE  Closed(c) = AsRow(c.prio, c.policy, c.respDue, c.resDue, c.responded, EndOf(c),
                             c.status, FlagsOf(c))
<1> DEFINE z == EndOf(c)
           f == FlagsOf(c)
<1>1. Closed(c) = [c EXCEPT !.closed = z, !.flags = f]
  BY DEF Closed, EndOf, FlagsOf
<1> HIDE DEF z, f
<1>2. Closed(c) = AsRow(c.prio, c.policy, c.respDue, c.resDue, c.responded, z, c.status, f)
  BY <1>1, SetEnd
<1> QED BY <1>2 DEF z, f

LEMMA EnteredIs ==
    ASSUME NEW c, IsRow(c), NEW to
    PROVE  Entered(c, to)
           = AsRow(c.prio, c.policy, c.respDue, c.resDue, c.responded,
                   IF to = "closed" THEN EndOf(c) ELSE NoTime, to,
                   IF to = "closed" THEN FlagsOf(c) ELSE c.flags)
<1> DEFINE d == IF to = "closed" THEN Closed(c) ELSE [c EXCEPT !.closed = NoTime]
<1>1. IsRow(d) /\ d = AsRow(c.prio, c.policy, c.respDue, c.resDue, c.responded,
                            IF to = "closed" THEN EndOf(c) ELSE NoTime, c.status,
                            IF to = "closed" THEN FlagsOf(c) ELSE c.flags)
  <2>1. CASE to = "closed"
    BY <2>1, ClosedIs DEF AsRow, IsRow
  <2>2. CASE to # "closed"
    BY <2>2, SetClosed DEF AsRow, IsRow
  <2> QED BY <2>1, <2>2
<1>2. Entered(c, to) = [d EXCEPT !.status = to]
  BY DEF Entered
<1> HIDE DEF d
<1>3. [d EXCEPT !.status = to]
      = AsRow(d.prio, d.policy, d.respDue, d.resDue, d.responded, d.closed, to, d.flags)
  BY <1>1, SetStatus
<1> QED BY <1>1, <1>2, <1>3 DEF AsRow

LEMMA RecomputedIs ==
    ASSUME IsRow(ticket), NEW target
    PROVE  Recomputed(target)
           = AsRow(ticket.prio, ticket.policy, AddBusiness(0, target.resp),
                   AddBusiness(0, target.res), ticket.responded, ticket.closed, ticket.status,
                   ticket.flags)
<1> DEFINE x == AddBusiness(0, target.resp)
           y == AddBusiness(0, target.res)
<1>1. Recomputed(target) = [ticket EXCEPT !.respDue = x, !.resDue = y]
  BY DEF Recomputed
<1> HIDE DEF x, y
<1>2. Recomputed(target) = AsRow(ticket.prio, ticket.policy, x, y, ticket.responded,
                                 ticket.closed, ticket.status, ticket.flags)
  BY <1>1, SetDues
<1> QED BY <1>2 DEF x, y

\* The save of a copy writes the row t; it may move the deadlines.
LEMMA SavedRow ==
    ASSUME NEW c, NEW t, IsRow(t), SaveCopy(c, t)
    PROVE  /\ ticket' = AsRow(t.prio, t.policy, ticket'.respDue, ticket'.resDue, t.responded,
                              t.closed, t.status, t.flags)
           /\ ticket' = IF ~Overflows(c) /\ Resumes(c) THEN ResumedRow(t, c, pauses) ELSE t
<1>1. ticket' = IF ~Overflows(c) /\ Resumes(c) THEN ResumedRow(t, c, pauses) ELSE t
  BY DEF SaveCopy, Overflows, Resumes
<1> DEFINE u == ResumedRow(t, c, pauses)
<1>2. u = AsRow(t.prio, t.policy, u.respDue, u.resDue, t.responded, t.closed, t.status,
                t.flags)
  BY ResumedRowIs
<1>3. ticket' = t \/ ticket' = u
  BY <1>1
<1> HIDE DEF u
<1> QED BY <1>1, <1>2, <1>3 DEF IsRow

-----------------------------------------------------------------------------
(* SlaClock: the requests.                                                 *)

\* A function of the workers, which a step of one of them changes in one place.
Swept == sweep = [j \in Sweeper |-> sweep[j]]

Counts(y) == {y.edits, y.crashes, y.overlaps, y.cleared} \subseteq Nat

Shapes ==
    /\ IsRow(ticket) /\ \A c \in held : IsRow(c)
    /\ Swept /\ \A i \in Sweeper : IsSweep(sweep[i]) /\ IsRow(sweep[i].copy)
    /\ IsTally(tally) /\ Counts(tally)

\* Everything that others than the clock and the sweeps do.
Asked ==
    \/ Load
    \/ \E c \in held \cup {ticket} : Request(c)
    \/ \E p \in Priority :
         \/ Propagate(p)
         \/ \E target \in Targets : EditPolicy(p, target)

LEMMA TouchedIs ==
    ASSUME IsTally(tally)
    PROVE  Touched = AsTally(tally.edits, tally.crashes, tally.overlaps, tally.cleared, TRUE, {})
BY SetTouched DEF Touched

LEMMA EditedIs ==
    ASSUME IsTally(tally), NEW c
    PROVE  Edited(c) = AsTally(IF c = ticket THEN tally.edits + 1 ELSE tally.edits,
                               tally.crashes, tally.overlaps, tally.cleared, TRUE, {})
<1> DEFINE y == Touched
           e == IF c = ticket THEN tally.edits + 1 ELSE tally.edits
<1>1. y = AsTally(tally.edits, tally.crashes, tally.overlaps, tally.cleared, TRUE, {})
  BY TouchedIs
<1>2. IsTally(y) /\ y.edits = tally.edits
  BY <1>1 DEF IsTally, AsTally
<1>3. Edited(c) = [y EXCEPT !.edits = e]
  BY <1>2 DEF Edited
<1> HIDE DEF y, e
<1>4. [y EXCEPT !.edits = e]
      = AsTally(e, y.crashes, y.overlaps, y.cleared, y.touched, y.inPause)
  BY <1>2, SetEdits
<1> QED BY <1>1, <1>3, <1>4 DEF AsTally, e

LEMMA PausedIs ==
    ASSUME IsTally(tally), NEW kind
    PROVE  LET k == IF tally.touched \/ OpenPauses(pauses) = {} THEN tally.inPause
                    ELSE tally.inPause \cup {kind}
           IN  EndsInPause(kind) = AsTally(tally.edits, tally.crashes, tally.overlaps,
                                           tally.cleared, tally.touched, k)
<1> DEFINE k == tally.inPause \cup {kind}
<1>1. [tally EXCEPT !.inPause = k] = AsTally(tally.edits, tally.crashes, tally.overlaps,
                                             tally.cleared, tally.touched, k)
  <2> HIDE DEF k
  <2> QED BY SetInPause
<1>2. tally = AsTally(tally.edits, tally.crashes, tally.overlaps, tally.cleared,
                      tally.touched, tally.inPause)
  BY DEF IsTally
<1> QED BY <1>1, <1>2 DEF EndsInPause

\* The end of the present pause moves the deadlines by its business minutes.
Length == Business(pauses[LastOpen(pauses)].from, now)
Ends   == OpenPauses(pauses) # {} /\ Length > 0

\* u has the deadlines that the ticket has when a save of c has ended its pause.
DuesBy(u, c) ==
    /\ u.respDue = IF Ends THEN Shift(c.respDue, Length) ELSE ticket.respDue
    /\ u.resDue  = IF Ends THEN Shift(c.resDue, Length) ELSE ticket.resDue

LEMMA ResumedDues ==
    ASSUME NEW t, IsRow(t), NEW c, IsRow(c),
           t.respDue = ticket.respDue, t.resDue = ticket.resDue
    PROVE  DuesBy(ResumedRow(t, c, pauses), c)
BY ResumedIs, ResumedRowIs DEF DuesBy, Ends, Length

\* An instance that a request may have is a row.
LEMMA InstanceIsRow ==
    ASSUME Shapes, NEW c, Save(c)
    PROVE  /\ IsRow(c) /\ IsRow(ticket) /\ IsTally(tally) /\ c \in held \cup {ticket}
           /\ held' \subseteq held /\ Served /\ UNCHANGED <<policy, queued, Aside>>
BY DEF Shapes, Save, Instance

LEMMA StatusRow ==
    ASSUME Shapes, NEW c, NEW to, ChangeStatus(c, to)
    PROVE  /\ ticket' = AsRow(ticket.prio, ticket.policy, ticket'.respDue, ticket'.resDue,
                 ticket.responded,
                 CASE (c.status = "closed") = (to = "closed") -> ticket.closed
                   [] c.status # "closed" /\ to = "closed" -> EndOf(c)
                   [] OTHER -> NoTime,
                 to,
                 IF to = "closed" THEN ticket.flags \cup (FlagsOf(c) \cap {"resolution"})
                 ELSE ticket.flags)
           /\ IF ticket.status = "waiting" /\ to # "waiting" THEN DuesBy(ticket', c)
              ELSE ticket'.respDue = ticket.respDue /\ ticket'.resDue = ticket.resDue
<1> DEFINE d == Entered(c, to)
           z == IF (c.status = "closed") = (to = "closed") THEN ticket.closed ELSE d.closed
           f == IF to = "closed" THEN ticket.flags \cup (d.flags \cap {"resolution"})
                ELSE ticket.flags
           t == [ticket EXCEPT !.status = to, !.closed = z, !.flags = f]
           u == ResumedRow(t, d, pauses)
<1>1. IsRow(c) /\ IsRow(ticket)
  BY InstanceIsRow DEF ChangeStatus
<1>2. d = AsRow(c.prio, c.policy, c.respDue, c.resDue, c.responded,
                IF to = "closed" THEN EndOf(c) ELSE NoTime, to,
                IF to = "closed" THEN FlagsOf(c) ELSE c.flags)
  BY <1>1, EnteredIs
<1>3. ticket' = IF ticket.status = "waiting" /\ to # "waiting" THEN u ELSE t
  BY DEF ChangeStatus
<1>4. t = AsRow(ticket.prio, ticket.policy, ticket.respDue, ticket.resDue, ticket.responded,
                z, to, f)
  <2>1. t = [ticket EXCEPT !.status = to, !.closed = z, !.flags = f]
    OBVIOUS
  <2> HIDE DEF d, t, u, z, f
  <2> DEFINE a1 == [ticket EXCEPT !.status = to]
             b1 == [a1 EXCEPT !.closed = z]
             c1 == [b1 EXCEPT !.flags = f]
  <2>2. IsRow(a1) /\ a1 = AsRow(ticket.prio, ticket.policy, ticket.respDue, ticket.resDue,
                   ticket.responded, ticket.closed, to, ticket.flags)
    BY <1>1, SetStatus DEF IsRow, AsRow
  <2>3. t = c1
    BY <2>1
  <2> HIDE DEF a1
  <2>4. IsRow(b1) /\ b1 = AsRow(ticket.prio, ticket.policy, ticket.respDue, ticket.resDue,
                   ticket.responded, z, to, ticket.flags)
    BY <2>2, SetClosed DEF IsRow, AsRow
  <2> HIDE DEF b1
  <2>5. c1 = AsRow(ticket.prio, ticket.policy, ticket.respDue, ticket.resDue,
                   ticket.responded, z, to, f)
    BY <2>4, SetFlags DEF IsRow, AsRow
  <2> QED BY <2>3, <2>5
<1> HIDE DEF t
<1>5. IsRow(t) /\ t.respDue = ticket.respDue /\ t.resDue = ticket.resDue
  BY <1>4 DEF IsRow, AsRow
<1>6. IsRow(d) /\ d.respDue = c.respDue /\ d.resDue = c.resDue
  BY <1>2 DEF IsRow, AsRow
<1>7. z = CASE (c.status = "closed") = (to = "closed") -> ticket.closed
            [] c.status # "closed" /\ to = "closed" -> EndOf(c)
            [] OTHER -> NoTime
  BY <1>2 DEF AsRow
<1>8. f = IF to = "closed" THEN ticket.flags \cup (FlagsOf(c) \cap {"resolution"})
          ELSE ticket.flags
  BY <1>2 DEF AsRow
<1> HIDE DEF d, z, f
<1>9. /\ u = AsRow(t.prio, t.policy, u.respDue, u.resDue, t.responded, t.closed, t.status,
                   t.flags)
      /\ DuesBy(u, d)
  BY <1>5, <1>6, ResumedRowIs, ResumedDues
<1> HIDE DEF u
<1>10. DuesBy(u, c)
  BY <1>6, <1>9 DEF DuesBy
<1>11. ticket' = AsRow(ticket.prio, ticket.policy, ticket'.respDue, ticket'.resDue,
                       ticket.responded, z, to, f)
  BY <1>3, <1>4, <1>9 DEF AsRow
<1>12. IF ticket.status = "waiting" /\ to # "waiting" THEN DuesBy(ticket', c)
       ELSE ticket'.respDue = ticket.respDue /\ ticket'.resDue = ticket.resDue
  BY <1>3, <1>5, <1>10
<1> QED BY <1>7, <1>8, <1>11, <1>12

LEMMA ReplyRow ==
    ASSUME Shapes, NEW c, CustomerReply(c)
    PROVE  /\ ticket' = AsRow(ticket.prio, ticket.policy, ticket'.respDue, ticket'.resDue,
                 ticket.responded, ticket.closed,
                 IF c.status = "waiting" THEN "active" ELSE ticket.status, ticket.flags)
           /\ DuesBy(ticket', c)
<1> DEFINE t == ResumedRow(ticket, c, pauses)
<1>1. IsRow(c) /\ IsRow(ticket)
  BY InstanceIsRow DEF CustomerReply
<1>2. ticket' = IF c.status = "waiting" THEN [t EXCEPT !.status = "active"] ELSE t
  BY DEF CustomerReply
<1>3. /\ t = AsRow(ticket.prio, ticket.policy, t.respDue, t.resDue, ticket.responded,
                   ticket.closed, ticket.status, ticket.flags)
      /\ DuesBy(t, c)
  BY <1>1, ResumedRowIs, ResumedDues
<1> HIDE DEF t
<1>4. IsRow(t)
  BY <1>3 DEF IsRow, AsRow
<1>5. [t EXCEPT !.status = "active"]
      = AsRow(t.prio, t.policy, t.respDue, t.resDue, t.responded, t.closed, "active", t.flags)
  BY <1>4, SetStatus
<1> QED BY <1>2, <1>3, <1>5 DEF AsRow, DuesBy

LEMMA RespondRow ==
    ASSUME Shapes, NEW c, Respond(c)
    PROVE  ticket' = AsRow(ticket.prio, ticket.policy, ticket.respDue, ticket.resDue, now,
                 ticket.closed, ticket.status,
                 IF /\ "response" \notin c.flags
                    /\ c.respDue # NoTime /\ now > c.respDue
                 THEN ticket.flags \cup {"response"} ELSE ticket.flags)
<1> DEFINE f == IF /\ "response" \notin c.flags
                   /\ c.respDue # NoTime /\ now > c.respDue
                THEN ticket.flags \cup {"response"} ELSE ticket.flags
<1>1. IsRow(ticket)
  BY DEF Shapes
<1>2. ticket' = [ticket EXCEPT !.responded = now, !.flags = f]
  BY DEF Respond
<1> HIDE DEF f
<1>3. ticket' = AsRow(ticket.prio, ticket.policy, ticket.respDue, ticket.resDue, now,
                      ticket.closed, ticket.status, f)
  BY <1>1, <1>2, SetAnswer
<1> QED BY <1>3 DEF f

\* The instance of an escalation, once its save has ended the pause.
Fresh(c) == IF Resumes(c) THEN Resumed(c, pauses) ELSE c

LEMMA EscalateRow ==
    ASSUME Shapes, NEW c, Escalate(c)
    PROVE  /\ ticket' = AsRow(ticket.prio,
                 IF c.policy = c.prio THEN ticket.policy ELSE c.prio,
                 Extended(Fresh(c).respDue, policy[c.prio].resp),
                 Extended(Fresh(c).resDue, policy[c.prio].res),
                 ticket.responded, ticket.closed, ticket.status, ticket.flags)
<1> DEFINE q == IF c.policy = c.prio THEN ticket.policy ELSE c.prio
           x == Extended(Fresh(c).respDue, policy[c.prio].resp)
           y == Extended(Fresh(c).resDue, policy[c.prio].res)
<1>1. IsRow(ticket)
  BY DEF Shapes
<1>2. ticket' = [ticket EXCEPT !.policy = q, !.respDue = x, !.resDue = y]
  BY DEF Escalate, Fresh
<1> HIDE DEF q, x, y
<1>3. ticket' = AsRow(ticket.prio, q, x, y, ticket.responded, ticket.closed, ticket.status,
                      ticket.flags)
  BY <1>1, <1>2, SetPromise
<1> QED BY <1>3 DEF q, x, y

LEMMA PriorityRow ==
    ASSUME Shapes, NEW c, NEW p, ChangePriority(c, p)
    PROVE  /\ ticket' = AsRow(p, ticket.policy, ticket'.respDue, ticket'.resDue,
                 ticket.responded, ticket.closed, ticket.status, ticket.flags)
           /\ IF Resumes(c) THEN DuesBy(ticket', c)
              ELSE ticket'.respDue = ticket.respDue /\ ticket'.resDue = ticket.resDue
<1> DEFINE t == [ticket EXCEPT !.prio = p]
<1>1. IsRow(c) /\ IsRow(ticket)
  BY InstanceIsRow DEF ChangePriority
<1>2. t = AsRow(p, ticket.policy, ticket.respDue, ticket.resDue, ticket.responded,
                ticket.closed, ticket.status, ticket.flags)
  BY <1>1, SetPrio
<1>3. SaveCopy(c, t) /\ ~Overflows(c)
  BY DEF ChangePriority
<1> HIDE DEF t
<1>4. IsRow(t) /\ t.respDue = ticket.respDue /\ t.resDue = ticket.resDue
  BY <1>2 DEF IsRow, AsRow
<1>5. /\ ticket' = AsRow(t.prio, t.policy, ticket'.respDue, ticket'.resDue, t.responded,
                         t.closed, t.status, t.flags)
      /\ ticket' = IF ~Overflows(c) /\ Resumes(c) THEN ResumedRow(t, c, pauses) ELSE t
  BY <1>3, <1>4, SavedRow
<1>6. DuesBy(ResumedRow(t, c, pauses), c)
  BY <1>1, <1>4, ResumedDues
<1>7. IF Resumes(c) THEN DuesBy(ticket', c)
      ELSE ticket'.respDue = ticket.respDue /\ ticket'.resDue = ticket.resDue
  BY <1>3, <1>4, <1>5, <1>6
<1> QED BY <1>2, <1>5, <1>7 DEF AsRow

LEMMA PatchRow ==
    ASSUME Shapes, NEW c, Patch(c)
    PROVE  /\ ticket' = AsRow(c.prio, c.policy, Fresh(c).respDue, Fresh(c).resDue, c.responded,
                 ticket'.closed, c.status, ticket'.flags)
           /\ c.status = ticket.status => ticket'.closed = c.closed /\ ticket'.flags = c.flags
           /\ c.status # ticket.status =>
                /\ ticket'.closed = IF c.status = "closed" THEN EndOf(c) ELSE NoTime
                /\ ticket'.flags = IF c.status = "closed" THEN FlagsOf(c) ELSE c.flags
<1> DEFINE e == Entered(c, c.status)
           d == IF c.status = ticket.status THEN c ELSE e
           u == Resumed(d, pauses)
           v == Resumed(c, pauses)
<1>1. IsRow(c) /\ IsRow(ticket)
  BY InstanceIsRow DEF Patch
<1>2. e = AsRow(c.prio, c.policy, c.respDue, c.resDue, c.responded,
                IF c.status = "closed" THEN EndOf(c) ELSE NoTime, c.status,
                IF c.status = "closed" THEN FlagsOf(c) ELSE c.flags)
  BY <1>1, EnteredIs
<1>3. ticket' = IF Resumes(c) THEN u ELSE d
  BY DEF Patch
<1> HIDE DEF e
<1>4. /\ d = AsRow(c.prio, c.policy, c.respDue, c.resDue, c.responded, d.closed, c.status,
                   d.flags)
      /\ c.status = ticket.status => d.closed = c.closed /\ d.flags = c.flags
      /\ c.status # ticket.status =>
           /\ d.closed = IF c.status = "closed" THEN EndOf(c) ELSE NoTime
           /\ d.flags = IF c.status = "closed" THEN FlagsOf(c) ELSE c.flags
  BY <1>1, <1>2 DEF IsRow, AsRow
<1> HIDE DEF d
<1>5. IsRow(d) /\ d.respDue = c.respDue /\ d.resDue = c.resDue
  BY <1>4 DEF IsRow, AsRow
<1>6. u = AsRow(d.prio, d.policy, u.respDue, u.resDue, d.responded, d.closed, d.status,
                d.flags)
  BY <1>5, ResumedIs
<1>7. u.respDue = v.respDue /\ u.resDue = v.resDue
  BY <1>1, <1>5, ResumedIs
<1>8. Fresh(c) = IF Resumes(c) THEN v ELSE c
  BY DEF Fresh
<1> HIDE DEF u, v
<1>9. /\ ticket' = AsRow(c.prio, c.policy, Fresh(c).respDue, Fresh(c).resDue, c.responded,
                        d.closed, c.status, d.flags)
  BY <1>3, <1>4, <1>6, <1>7, <1>8 DEF AsRow
<1>10. ticket'.closed = d.closed /\ ticket'.flags = d.flags
  BY <1>9 DEF AsRow
<1> QED BY <1>4, <1>9, <1>10

\* y is the tally, but for the clearings and the ghosts of the two clocks; requests count
\* neither lost workers nor sweeps.
Same(y) ==
    /\ IsTally(y) /\ y.crashes = tally.crashes /\ y.overlaps = tally.overlaps
    /\ y.edits \in {tally.edits, tally.edits + 1}

LEMMA TalliesAreSame ==
    ASSUME IsTally(tally)
    PROVE  /\ Same(tally) /\ Same(Touched) /\ \A c : Same(Edited(c))
           /\ \A kind : Same(EndsInPause(kind))
           /\ Touched.cleared = tally.cleared /\ \A c : Edited(c).cleared = tally.cleared
           /\ \A kind : EndsInPause(kind).cleared = tally.cleared
<1>1. Same(tally)
  BY DEF Same
<1>2. Same(Touched) /\ Touched.cleared = tally.cleared
  BY TouchedIs DEF Same, AsTally, IsTally
<1>3. ASSUME NEW c PROVE Same(Edited(c)) /\ Edited(c).cleared = tally.cleared
  BY EditedIs DEF Same, AsTally, IsTally
<1>4. ASSUME NEW kind PROVE Same(EndsInPause(kind)) /\ EndsInPause(kind).cleared = tally.cleared
  <2> DEFINE k == IF tally.touched \/ OpenPauses(pauses) = {} THEN tally.inPause
                  ELSE tally.inPause \cup {kind}
  <2>1. EndsInPause(kind) = AsTally(tally.edits, tally.crashes, tally.overlaps,
                                    tally.cleared, tally.touched, k)
    BY PausedIs
  <2> HIDE DEF k
  <2> QED BY <2>1 DEF Same, AsTally, IsTally
<1> QED BY <1>1, <1>2, <1>3, <1>4

LEMMA PatchTally ==
    ASSUME Shapes, NEW c, Patch(c)
    PROVE  /\ Same(tally') /\ tally'.edits = tally.edits /\ tally'.touched
           /\ \/ ticket.flags \subseteq ticket'.flags /\ tally'.cleared = tally.cleared
              \/ tally'.cleared = tally.cleared + 1
<1> DEFINE d == IF c.status = ticket.status THEN c ELSE Entered(c, c.status)
           f == IF ticket.flags \subseteq d.flags THEN tally.cleared ELSE tally.cleared + 1
           y == Touched
<1>0. IsTally(tally) /\ IsRow(c)
  BY InstanceIsRow DEF Patch
<1>1. y = AsTally(tally.edits, tally.crashes, tally.overlaps, tally.cleared, TRUE, {})
  BY <1>0, TouchedIs
<1>2. IsTally(y) /\ y.cleared = tally.cleared
  BY <1>1 DEF IsTally, AsTally
<1>3. tally' = [y EXCEPT !.cleared = f]
  BY <1>2 DEF Patch
<1>4. f = tally.cleared + 1 \/ (f = tally.cleared /\ ticket.flags \subseteq d.flags)
  OBVIOUS
<1>5. ticket'.flags = d.flags
  BY <1>0, PatchRow, EnteredIs DEF AsRow
<1> HIDE DEF y, f, d
<1>6. tally' = AsTally(y.edits, y.crashes, y.overlaps, f, y.touched, y.inPause)
  BY <1>2, <1>3, SetCleared
<1>7. Same(tally') /\ tally'.edits = tally.edits /\ tally'.touched /\ tally'.cleared = f
  BY <1>1, <1>6 DEF AsTally, IsTally, Same
<1> QED BY <1>4, <1>5, <1>7

\* A request leaves rows and tallies, and only a PATCH takes flags off, which it counts.
LEMMA RequestsKeep ==
    ASSUME Shapes, NEW c \in held \cup {ticket}, Request(c)
    PROVE  /\ IsRow(ticket') /\ held' \subseteq held /\ Same(tally')
           /\ Served /\ UNCHANGED <<policy, queued, Aside>>
           /\ \/ ticket.flags \subseteq ticket'.flags /\ tally'.cleared = tally.cleared
              \/ tally'.cleared = tally.cleared + 1
<1>0. IsTally(tally) /\ IsRow(ticket)
  BY DEF Shapes
<1>1. ASSUME NEW s \in Status, ChangeStatus(c, s)
      PROVE  /\ IsRow(ticket') /\ Same(tally') /\ Save(c)
             /\ ticket.flags \subseteq ticket'.flags /\ tally'.cleared = tally.cleared
  <2>1. IsRow(ticket') /\ ticket.flags \subseteq ticket'.flags
    BY <1>1, StatusRow DEF AsRow, IsRow
  <2>2. tally' \in {Touched, EndsInPause("resolution"), tally} /\ Save(c)
    BY <1>1 DEF ChangeStatus
  <2> QED BY <1>0, <2>1, <2>2, TalliesAreSame
<1>2. ASSUME CustomerReply(c)
      PROVE  /\ IsRow(ticket') /\ Same(tally') /\ Save(c)
             /\ ticket.flags \subseteq ticket'.flags /\ tally'.cleared = tally.cleared
  <2>1. IsRow(ticket') /\ ticket.flags \subseteq ticket'.flags
    BY <1>2, ReplyRow DEF AsRow, IsRow
  <2>2. tally' \in {Touched, tally} /\ Save(c)
    BY <1>2 DEF CustomerReply
  <2> QED BY <1>0, <2>1, <2>2, TalliesAreSame
<1>3. ASSUME Respond(c)
      PROVE  /\ IsRow(ticket') /\ Same(tally') /\ Save(c)
             /\ ticket.flags \subseteq ticket'.flags /\ tally'.cleared = tally.cleared
  <2>1. IsRow(ticket') /\ ticket.flags \subseteq ticket'.flags
    BY <1>3, RespondRow DEF AsRow, IsRow
  <2>2. tally' \in {Touched, EndsInPause("response")} /\ Save(c)
    BY <1>3 DEF Respond
  <2> QED BY <1>0, <2>1, <2>2, TalliesAreSame
<1>4. ASSUME Escalate(c)
      PROVE  /\ IsRow(ticket') /\ Same(tally') /\ Save(c)
             /\ ticket.flags \subseteq ticket'.flags /\ tally'.cleared = tally.cleared
  <2>1. IsRow(ticket') /\ ticket.flags \subseteq ticket'.flags
    BY <1>4, EscalateRow DEF AsRow, IsRow
  <2>2. tally' = Edited(c) /\ Save(c)
    BY <1>4 DEF Escalate
  <2> QED BY <1>0, <2>1, <2>2, TalliesAreSame
<1>5. ASSUME NEW p \in Priority, ChangePriority(c, p)
      PROVE  /\ IsRow(ticket') /\ Same(tally') /\ Save(c)
             /\ ticket.flags \subseteq ticket'.flags /\ tally'.cleared = tally.cleared
  <2>1. IsRow(ticket') /\ ticket.flags \subseteq ticket'.flags
    BY <1>5, PriorityRow DEF AsRow, IsRow
  <2>2. tally' = Edited(c) /\ Save(c)
    BY <1>5 DEF ChangePriority
  <2> QED BY <1>0, <2>1, <2>2, TalliesAreSame
<1>6. ASSUME Patch(c)
      PROVE  /\ IsRow(ticket') /\ Same(tally') /\ Save(c)
             /\ \/ ticket.flags \subseteq ticket'.flags /\ tally'.cleared = tally.cleared
                \/ tally'.cleared = tally.cleared + 1
  <2>1. IsRow(ticket')
    BY <1>6, PatchRow DEF AsRow, IsRow
  <2>2. Save(c)
    BY <1>6 DEF Patch
  <2> QED BY <1>6, <2>1, <2>2, PatchTally
<1>7. Save(c) => held' \subseteq held /\ Served /\ UNCHANGED <<policy, queued, Aside>>
  BY DEF Save
<1> QED BY <1>1, <1>2, <1>3, <1>4, <1>5, <1>6, <1>7 DEF Request

LEMMA AskedKeeps ==
    ASSUME Shapes, Asked
    PROVE  /\ Shapes' /\ Served /\ UNCHANGED Aside
           /\ Same(tally')
           /\ \/ ticket.flags \subseteq ticket'.flags /\ tally'.cleared = tally.cleared
              \/ tally'.cleared = tally.cleared + 1
<1>0. IsTally(tally) /\ IsRow(ticket) /\ Counts(tally)
  BY DEF Shapes
<1>1. CASE Load
  <2> DEFINE e == tally.edits + 1
  <2>1. /\ held' = held \cup {ticket} /\ UNCHANGED <<ticket, Aside>> /\ Served
        /\ tally' = [tally EXCEPT !.edits = e]
    BY <1>1 DEF Load
  <2> HIDE DEF e
  <2>2. tally' = AsTally(e, tally.crashes, tally.overlaps, tally.cleared, tally.touched,
                         tally.inPause)
    BY <1>0, <2>1, SetEdits
  <2>3. IsTally(tally') /\ tally'.edits = e /\ tally'.crashes = tally.crashes
        /\ tally'.overlaps = tally.overlaps /\ tally'.cleared = tally.cleared
    BY <2>2 DEF IsTally, AsTally
  <2>4. Counts(tally') /\ Same(tally')
    BY <1>0, <2>3 DEF Counts, e, Same
  <2> QED BY <2>1, <2>3, <2>4 DEF Shapes, Aside, Swept
<1>2. ASSUME NEW c \in held \cup {ticket}, Request(c)
      PROVE  /\ Shapes' /\ Served /\ UNCHANGED Aside /\ Same(tally')
             /\ \/ ticket.flags \subseteq ticket'.flags /\ tally'.cleared = tally.cleared
                \/ tally'.cleared = tally.cleared + 1
  <2>1. /\ IsRow(ticket') /\ held' \subseteq held /\ Same(tally')
        /\ Served /\ UNCHANGED <<policy, queued, Aside>>
        /\ \/ ticket.flags \subseteq ticket'.flags /\ tally'.cleared = tally.cleared
           \/ tally'.cleared = tally.cleared + 1
    BY <1>2, RequestsKeep
  <2>2. Counts(tally')
    BY <1>0, <2>1 DEF Counts, Same
  <2> QED BY <2>1, <2>2 DEF Shapes, Aside, Swept, Same
<1>3. ASSUME NEW p \in Priority, \/ Propagate(p)
                                 \/ \E target \in Targets : EditPolicy(p, target)
      PROVE  /\ Shapes' /\ Served /\ UNCHANGED Aside /\ Same(tally')
             /\ ticket.flags \subseteq ticket'.flags /\ tally'.cleared = tally.cleared
  <2>1. /\ tally' \in {tally, Edited(ticket)} /\ Served /\ UNCHANGED <<held, Aside>>
        /\ ticket' = ticket \/ \E target : ticket' = Recomputed(target)
    BY <1>3 DEF Propagate, EditPolicy
  <2>2. IsRow(ticket') /\ ticket.flags \subseteq ticket'.flags
    BY <1>0, <2>1, RecomputedIs DEF AsRow, IsRow
  <2>3. Same(tally') /\ tally'.cleared = tally.cleared
    BY <1>0, <2>1, TalliesAreSame
  <2>4. Counts(tally')
    BY <1>0, <2>3 DEF Counts, Same
  <2> QED BY <2>1, <2>2, <2>3, <2>4 DEF Shapes, Aside, Swept, Same
<1> QED BY <1>1, <1>2, <1>3 DEF Asked

-----------------------------------------------------------------------------
(* SlaClock: the steps of a worker.                                        *)

LEMMA BecomesOne ==
    ASSUME Swept, NEW i \in Sweeper, NEW s, Becomes(i, s)
    PROVE  /\ Swept' /\ sweep'[i] = s
           /\ \A j \in Sweeper \ {i} : sweep'[j] = sweep[j]
BY DEF Swept, Becomes

\* A sweep with no ticket in hand.
Empty(s) ==
    /\ IsSweep(s) /\ s.pc \in {"idle", "scan"} /\ s.copy = NoCopy
    /\ s.breaches = {} /\ s.rules = {}

LEMMA NoSweepIsEmpty ==
    IsRow(NoCopy) /\ Empty(NoSweep) /\ NoSweep.pc = "idle"
BY DEF NoCopy, NoSweep, IsRow, AsRow, IsSweep, AsSweep, Empty

\* A sweep that scans, begun at a, with the promises q and the policies w to visit.
Begun(a, q, w) == [NoSweep EXCEPT !.pc = "scan", !.at = a, !.policy = q, !.todo = w]

LEMMA BegunIsEmpty ==
    ASSUME NEW a, NEW q, NEW w
    PROVE  /\ Empty(Begun(a, q, w)) /\ Begun(a, q, w).pc = "scan"
           /\ Begun(a, q, w).at = a /\ Begun(a, q, w).policy = q
<1> DEFINE u == [NoSweep EXCEPT !.pc = "scan", !.at = a, !.policy = q, !.todo = w]
<1>1. IsSweep(NoSweep) /\ NoSweep.copy = NoCopy /\ NoSweep.breaches = {} /\ NoSweep.rules = {}
  BY NoSweepIsEmpty DEF Empty
<1>2. u = AsSweep("scan", a, q, w, NoSweep.prio, NoSweep.copy, NoSweep.breaches, NoSweep.rules)
  BY <1>1, ToScan
<1> HIDE DEF u
<1>3. Empty(u) /\ u.pc = "scan" /\ u.at = a /\ u.policy = q
  BY <1>1, <1>2 DEF AsSweep, IsSweep, Empty
<1> QED BY <1>3 DEF u, Begun

LEMMA RestIsEmpty ==
    ASSUME NEW s
    PROVE  /\ Empty(Rest(s))
           /\ Rest(s).pc = "scan" => Rest(s).at = s.at /\ Rest(s).policy = s.policy
<1>1. CASE s.todo = <<>>
  BY <1>1, NoSweepIsEmpty DEF Rest
<1>2. CASE s.todo # <<>>
  <2>1. Rest(s) = Begun(s.at, s.policy, s.todo)
    BY <1>2 DEF Rest, Begun
  <2> QED BY <2>1, BegunIsEmpty
<1> QED BY <1>1, <1>2

\* What the steps of the worker i leave alone: the other workers, and the requests.
Others(i) ==
    /\ Swept' /\ \A j \in Sweeper \ {i} : sweep'[j] = sweep[j]
    /\ UNCHANGED <<now, policy, queued, held>>

LEMMA StartStep ==
    ASSUME Shapes, NEW i \in Sweeper, StartSweep(i)
    PROVE  /\ Others(i) /\ UNCHANGED <<ticket, pauses, fired, logged, announced>>
           /\ sweep[i].pc = "idle"
           /\ Empty(sweep'[i]) /\ sweep'[i].pc = "scan"
           /\ sweep'[i].at = now /\ sweep'[i].policy = policy
           /\ tally' = AsTally(tally.edits, tally.crashes,
                               IF Running = {} THEN tally.overlaps ELSE tally.overlaps + 1,
                               tally.cleared, tally.touched, tally.inPause)
<1> DEFINE o == IF Running = {} THEN tally.overlaps ELSE tally.overlaps + 1
           u == Begun(now, policy, SweepOrder)
<1>0. Swept /\ IsTally(tally)
  BY DEF Shapes
<1>1. Becomes(i, u) /\ UNCHANGED <<now, policy, queued, held>>
  BY DEF StartSweep, Begun
<1>2. tally' = [tally EXCEPT !.overlaps = o]
  BY <1>0 DEF StartSweep, IsTally, AsTally
<1>3. Empty(u) /\ u.pc = "scan" /\ u.at = now /\ u.policy = policy
  BY BegunIsEmpty
<1> HIDE DEF u, o
<1>4. sweep'[i] = u /\ Others(i)
  BY <1>0, <1>1, BecomesOne DEF Others
<1>5. tally' = AsTally(tally.edits, tally.crashes, o, tally.cleared, tally.touched,
                       tally.inPause)
  BY <1>0, <1>2, SetOverlaps
<1>6. UNCHANGED <<ticket, pauses, fired, logged, announced>> /\ sweep[i].pc = "idle"
  BY DEF StartSweep
<1> QED BY <1>3, <1>4, <1>5, <1>6 DEF o

LEMMA VisitStep ==
    ASSUME Shapes, NEW i \in Sweeper, Visit(i)
    PROVE  /\ Others(i) /\ UNCHANGED <<ticket, pauses, fired, logged, announced, tally>>
           /\ sweep[i].pc = "scan"
           /\ \/ /\ Empty(sweep'[i])
                 /\ sweep'[i].pc = "scan" => sweep'[i].at = sweep[i].at
                                             /\ sweep'[i].policy = sweep[i].policy
              \/ /\ ticket.status # "closed"
                 /\ sweep'[i] = AsSweep("check", sweep[i].at, sweep[i].policy,
                                        Tail(sweep[i].todo), ticket.prio, ticket,
                                        sweep[i].breaches, sweep[i].rules)
<1> DEFINE s == sweep[i]
           w == Tail(s.todo)
           u == [s EXCEPT !.pc = "check", !.todo = w, !.prio = ticket.prio, !.copy = ticket]
           v == [s EXCEPT !.todo = w]
<1>0. Swept /\ IsSweep(s)
  BY DEF Shapes
<1>1. /\ UNCHANGED <<now, policy, queued, held>>
      /\ UNCHANGED <<ticket, pauses, fired, logged, announced, tally>> /\ s.pc = "scan"
  BY DEF Visit
<1>2. (Becomes(i, u) /\ ticket.status # "closed") \/ Becomes(i, Rest(v))
  <2>1. u = [s EXCEPT !.pc = "check", !.todo = Tail(@), !.prio = ticket.prio, !.copy = ticket]
        /\ v = [s EXCEPT !.todo = Tail(@)]
    BY <1>0 DEF IsSweep, AsSweep
  <2> QED BY <2>1 DEF Visit
<1> HIDE DEF w
<1>3. u = AsSweep("check", s.at, s.policy, w, ticket.prio, ticket, s.breaches, s.rules)
  <2> HIDE DEF s
  <2> QED BY <1>0, ToTicket
<1>4. v.at = s.at /\ v.policy = s.policy
  <2>1. v = AsSweep(s.pc, s.at, s.policy, w, s.prio, s.copy, s.breaches, s.rules)
    <3> HIDE DEF s
    <3> QED BY <1>0, ToTodo
  <2> QED BY <2>1 DEF AsSweep
<1> HIDE DEF u, v, s
<1>5. CASE Becomes(i, u) /\ ticket.status # "closed"
  <2>1. sweep'[i] = u /\ Others(i)
    BY <1>0, <1>1, <1>5, BecomesOne DEF Others
  <2> QED BY <1>1, <1>3, <1>5, <2>1 DEF s, w
<1>6. CASE Becomes(i, Rest(v))
  <2>1. sweep'[i] = Rest(v) /\ Others(i)
    BY <1>0, <1>1, <1>6, BecomesOne DEF Others
  <2>2. /\ Empty(Rest(v))
        /\ Rest(v).pc = "scan" => Rest(v).at = v.at /\ Rest(v).policy = v.policy
    BY RestIsEmpty
  <2> QED BY <1>1, <1>4, <2>1, <2>2 DEF s
<1> QED BY <1>2, <1>5, <1>6

LEMMA CheckStep ==
    ASSUME Shapes, NEW i \in Sweeper, Check(i)
    PROVE  LET s    == sweep[i]
               c    == s.copy
               late == Breached(s)
           IN  /\ Others(i) /\ UNCHANGED <<fired, logged, announced, tally>> /\ s.pc = "check"
               /\ ticket' = AsRow(ticket.prio, ticket.policy, ticket'.respDue, ticket'.resDue,
                                  ticket.responded, ticket.closed, ticket.status,
                                  ticket.flags \cup late)
               /\ c.status = ticket.status =>
                    /\ UNCHANGED pauses
                    /\ ticket'.respDue = ticket.respDue /\ ticket'.resDue = ticket.resDue
               /\ \/ sweep'[i] = NoSweep /\ Overflows(c)
                  \/ sweep'[i] = AsSweep("announce", s.at, s.policy, s.todo, s.prio,
                        AsRow(c.prio, c.policy, c.respDue, c.resDue, c.responded, c.closed,
                              c.status, c.flags \cup late),
                        late, s.rules)
<1> DEFINE s    == sweep[i]
           c    == s.copy
           late == Breached(s)
           f    == ticket.flags \cup late
           t    == [ticket EXCEPT !.flags = f]
           g    == c.flags \cup late
           d    == [c EXCEPT !.flags = g]
           u    == [s EXCEPT !.pc = "announce", !.copy = d, !.breaches = late]
<1>0. Swept /\ IsSweep(s) /\ IsRow(c) /\ IsRow(ticket)
  BY DEF Shapes
<1>1. /\ UNCHANGED <<now, policy, queued, held, fired, logged, announced, tally>>
      /\ s.pc = "check"
  BY DEF Check
<1>2. IF late = {} THEN UNCHANGED <<ticket, pauses>> ELSE SaveCopy(c, t)
  <2>1. t = [ticket EXCEPT !.flags = @ \cup late]
    BY <1>0 DEF IsRow, AsRow
  <2> QED BY <2>1 DEF Check
<1>3. \/ Becomes(i, NoSweep) /\ Overflows(c)
      \/ Becomes(i, Flagging(s, late))
  BY DEF Check
<1>4. Flagging(s, late) = u
  BY <1>0 DEF Flagging, IsSweep, AsSweep, IsRow, AsRow
<1>5. t = AsRow(ticket.prio, ticket.policy, ticket.respDue, ticket.resDue, ticket.responded,
                ticket.closed, ticket.status, f)
  <2> HIDE DEF f
  <2> QED BY <1>0, SetFlags
<1>6. d = AsRow(c.prio, c.policy, c.respDue, c.resDue, c.responded, c.closed, c.status, g)
  <2> HIDE DEF c, g
  <2> QED BY <1>0, SetFlags
<1>7. u = AsSweep("announce", s.at, s.policy, s.todo, s.prio, d, late, s.rules)
  <2> HIDE DEF s, d, late
  <2> QED BY <1>0, ToAnnounce
<1> HIDE DEF t, d, u, late
<1>8. /\ ticket' = AsRow(ticket.prio, ticket.policy, ticket'.respDue, ticket'.resDue,
                         ticket.responded, ticket.closed, ticket.status, f)
      /\ c.status = ticket.status =>
           /\ UNCHANGED pauses
           /\ ticket'.respDue = ticket.respDue /\ ticket'.resDue = ticket.resDue
  <2>1. CASE late = {}
    <3>1. ticket' = ticket /\ UNCHANGED pauses /\ f = ticket.flags
      BY <1>2, <2>1
    <3> QED BY <1>0, <3>1 DEF IsRow
  <2>2. CASE late # {}
    <3>1. SaveCopy(c, t) /\ IsRow(t) /\ t.respDue = ticket.respDue /\ t.resDue = ticket.resDue
      BY <1>2, <1>5, <2>2 DEF IsRow, AsRow
    <3>2. /\ ticket' = AsRow(t.prio, t.policy, ticket'.respDue, ticket'.resDue, t.responded,
                              t.closed, t.status, t.flags)
          /\ ticket' = IF ~Overflows(c) /\ Resumes(c) THEN ResumedRow(t, c, pauses) ELSE t
      BY <3>1, SavedRow
    <3>3. ASSUME c.status = ticket.status
          PROVE  ticket' = t /\ UNCHANGED pauses
      BY <3>1, <3>3 DEF SaveCopy, Overflows, Resumes
    <3> HIDE DEF f
    <3>4. ticket' = AsRow(ticket.prio, ticket.policy, ticket'.respDue, ticket'.resDue,
                         ticket.responded, ticket.closed, ticket.status, f)
      BY <1>5, <3>2 DEF AsRow
    <3> QED BY <3>1, <3>3, <3>4
  <2> QED BY <2>1, <2>2
<1>9. Others(i) /\ ((sweep'[i] = NoSweep /\ Overflows(c)) \/ sweep'[i] = u)
  BY <1>0, <1>1, <1>3, <1>4, BecomesOne DEF Others
<1>10. \/ sweep'[i] = NoSweep /\ Overflows(c)
       \/ sweep'[i] = AsSweep("announce", s.at, s.policy, s.todo, s.prio,
             AsRow(c.prio, c.policy, c.respDue, c.resDue, c.responded, c.closed,
                   c.status, g), late, s.rules)
  BY <1>6, <1>7, <1>9
<1> QED BY <1>1, <1>8, <1>9, <1>10 DEF late

LEMMA AnnounceStep ==
    ASSUME Shapes, NEW i \in Sweeper, Announce(i)
    PROVE  LET s == sweep[i]
           IN  /\ Others(i) /\ UNCHANGED <<ticket, pauses, fired, logged, tally>>
               /\ s.pc = "announce"
               /\ \E k \in s.breaches :
                     /\ announced' = [announced EXCEPT ![k] = @ + 1]
                     /\ sweep'[i] = AsSweep(s.pc, s.at, s.policy, s.todo, s.prio, s.copy,
                                            s.breaches \ {k}, s.rules)
<1> DEFINE s == sweep[i]
<1>0. Swept /\ IsSweep(s)
  BY DEF Shapes
<1>1. PICK k \in s.breaches :
         /\ announced' = [announced EXCEPT ![k] = @ + 1]
         /\ Becomes(i, [s EXCEPT !.breaches = @ \ {k}])
  BY DEF Announce
<1> DEFINE b == s.breaches \ {k}
           u == [s EXCEPT !.breaches = b]
<1>2. Becomes(i, u)
  BY <1>0, <1>1 DEF IsSweep, AsSweep
<1>3. u = AsSweep(s.pc, s.at, s.policy, s.todo, s.prio, s.copy, b, s.rules)
  <2> HIDE DEF s, b
  <2> QED BY <1>0, ToBreaches
<1> HIDE DEF u
<1>4. sweep'[i] = u /\ Others(i)
  BY <1>0, <1>2, BecomesOne DEF Others, Announce
<1>5. UNCHANGED <<ticket, pauses, fired, logged, tally>> /\ s.pc = "announce"
  BY DEF Announce
<1> QED BY <1>1, <1>3, <1>4, <1>5

LEMMA SelectStep ==
    ASSUME Shapes, NEW i \in Sweeper, SelectRules(i)
    PROVE  LET s == sweep[i]
           IN  /\ Others(i) /\ UNCHANGED <<ticket, pauses, fired, logged, announced, tally>>
               /\ s.pc = "announce" /\ s.breaches = {}
               /\ sweep'[i] = AsSweep("rules", s.at, s.policy, s.todo, s.prio, s.copy,
                                      s.breaches, {r \in DOMAIN Rule : Due(r, s)})
<1> DEFINE s == sweep[i]
           y == {r \in DOMAIN Rule : Due(r, s)}
           u == [s EXCEPT !.pc = "rules", !.rules = y]
<1>0. Swept /\ IsSweep(s)
  BY DEF Shapes
<1>1. /\ UNCHANGED <<now, policy, queued, held>>
      /\ UNCHANGED <<ticket, pauses, fired, logged, announced, tally>>
      /\ s.pc = "announce" /\ s.breaches = {} /\ Becomes(i, u)
  BY DEF SelectRules
<1>2. u = AsSweep("rules", s.at, s.policy, s.todo, s.prio, s.copy, s.breaches, y)
  <2> HIDE DEF s, y
  <2> QED BY <1>0, ToRules
<1> HIDE DEF u
<1>3. sweep'[i] = u /\ Others(i)
  BY <1>0, <1>1, BecomesOne DEF Others
<1> QED BY <1>1, <1>2, <1>3

LEMMA ExecuteStep ==
    ASSUME Shapes, NEW i \in Sweeper, NEW r, ExecuteRule(i, r)
    PROVE  LET s == sweep[i]
               c == s.copy
               d == AsRow(IF Rule[r].action = "change_priority" THEN Raised(c.prio) ELSE c.prio,
                          c.policy, c.respDue, c.resDue, c.responded, c.closed,
                          c.status, c.flags)
           IN  /\ Others(i) /\ UNCHANGED <<logged, announced>>
               /\ s.pc = "rules" /\ Turn(r, s) /\ fired' = [fired EXCEPT ![r] = @ + 1]
               /\ ticket' = AsRow(ticket'.prio, ticket.policy, ticket'.respDue,
                                  ticket'.resDue, ticket.responded, ticket.closed,
                                  ticket.status, ticket.flags)
               /\ ticket'.prio \in {ticket.prio, Raised(c.prio)}
               /\ tally' = Touched \/ (tally' = tally /\ ticket'.prio = ticket.prio
                                                      /\ d.prio = c.prio)
               /\ c.status = ticket.status =>
                    /\ UNCHANGED pauses
                    /\ ticket'.respDue = ticket.respDue /\ ticket'.resDue = ticket.resDue
               /\ \/ /\ sweep'[i] = NoSweep /\ Overflows(d) /\ Rule[r].action # "notify"
                  \/ sweep'[i] = AsSweep("log", s.at, s.policy, s.todo, s.prio, d, s.breaches,
                                         s.rules)
<1> DEFINE s == sweep[i]
           c == s.copy
           x == Raised(c.prio)
           up == Rule[r].action = "change_priority"
           d == IF up THEN [c EXCEPT !.prio = x] ELSE c
           e == AsRow(IF up THEN x ELSE c.prio,
                      c.policy, c.respDue, c.resDue, c.responded, c.closed,
                      c.status, c.flags)
           p == IF up THEN x ELSE ticket.prio
           t == [ticket EXCEPT !.prio = p]
           u == [s EXCEPT !.pc = "log", !.copy = d]
           saves == Rule[r].action = "assign" \/ (up /\ x # c.prio)
<1>0. Swept /\ IsSweep(s) /\ IsRow(c) /\ IsRow(ticket)
  BY DEF Shapes
<1>1. /\ UNCHANGED <<now, policy, queued, held, logged, announced>>
      /\ s.pc = "rules" /\ Turn(r, s) /\ fired' = [fired EXCEPT ![r] = @ + 1]
  BY DEF ExecuteRule
<1>2. IF saves THEN SaveCopy(d, t) ELSE UNCHANGED <<ticket, pauses>>
  <2>1. t = [ticket EXCEPT !.prio = IF up THEN x ELSE @]
    BY <1>0 DEF IsRow, AsRow
  <2> QED BY <2>1 DEF ExecuteRule
<1>3. \/ Becomes(i, NoSweep) /\ saves /\ Overflows(d)
      \/ Becomes(i, u)
  BY DEF ExecuteRule
<1>4. d = e
  <2>1. CASE up
    <3> HIDE DEF x, c
    <3> QED BY <1>0, <2>1, SetPrio
  <2>2. CASE ~up
    BY <1>0, <2>2 DEF IsRow
  <2> QED BY <2>1, <2>2
<1>5. tally' = IF d.prio = c.prio THEN tally ELSE Touched
  BY DEF ExecuteRule
<1>6. u = AsSweep("log", s.at, s.policy, s.todo, s.prio, d, s.breaches, s.rules)
  <2> HIDE DEF s, d
  <2> QED BY <1>0, ToCopy
<1>7. t = AsRow(p, ticket.policy, ticket.respDue, ticket.resDue, ticket.responded,
                ticket.closed, ticket.status, ticket.flags)
  <2> HIDE DEF p
  <2> QED BY <1>0, SetPrio
<1>8. saves => Rule[r].action # "notify"
  OBVIOUS
<1>9. d.prio = (IF up THEN x ELSE c.prio) /\ d.status = c.status /\ d = e
  BY <1>4 DEF AsRow
<1>10. tally' = Touched \/ (tally' = tally /\ (saves => p = ticket.prio) /\ d.prio = c.prio)
  BY <1>5, <1>9
<1>11. p \in {ticket.prio, x}
  OBVIOUS
<1> HIDE DEF t, u, d, e, p, saves
<1>12. /\ ticket' = AsRow(ticket'.prio, ticket.policy, ticket'.respDue, ticket'.resDue,
                          ticket.responded, ticket.closed, ticket.status, ticket.flags)
       /\ ticket'.prio = IF saves THEN p ELSE ticket.prio
       /\ c.status = ticket.status =>
            /\ UNCHANGED pauses
            /\ ticket'.respDue = ticket.respDue /\ ticket'.resDue = ticket.resDue
  <2>1. CASE ~saves
    BY <1>0, <1>2, <2>1 DEF IsRow
  <2>2. CASE saves
    <3>1. SaveCopy(d, t) /\ IsRow(t) /\ t.respDue = ticket.respDue /\ t.resDue = ticket.resDue
      BY <1>2, <1>7, <2>2 DEF IsRow, AsRow
    <3>2. ticket' = AsRow(t.prio, t.policy, ticket'.respDue, ticket'.resDue, t.responded,
                          t.closed, t.status, t.flags)
      BY <3>1, SavedRow
    <3>3. ASSUME c.status = ticket.status
          PROVE  ticket' = t /\ UNCHANGED pauses
      BY <1>9, <3>1, <3>3 DEF SaveCopy, Overflows, Resumes
    <3> QED BY <1>7, <2>2, <3>1, <3>2, <3>3 DEF AsRow
  <2> QED BY <2>1, <2>2
<1>13. Others(i) /\ ((sweep'[i] = NoSweep /\ saves /\ Overflows(d)) \/ sweep'[i] = u)
  BY <1>0, <1>1, <1>3, BecomesOne DEF Others
<1>14. tally' = Touched \/ (tally' = tally /\ ticket'.prio = ticket.prio /\ d.prio = c.prio)
  BY <1>10, <1>12
<1>15. ticket'.prio \in {ticket.prio, x}
  BY <1>11, <1>12
<1>16. \/ sweep'[i] = NoSweep /\ Overflows(e) /\ Rule[r].action # "notify"
       \/ sweep'[i] = AsSweep("log", s.at, s.policy, s.todo, s.prio, e, s.breaches, s.rules)
  BY <1>6, <1>8, <1>9, <1>13
<1> QED BY <1>1, <1>9, <1>12, <1>13, <1>14, <1>15, <1>16 DEF e

LEMMA LogStep ==
    ASSUME Shapes, NEW i \in Sweeper, NEW r, LogRule(i, r)
    PROVE  LET s == sweep[i]
           IN  /\ Others(i) /\ UNCHANGED <<ticket, pauses, fired, announced, tally>>
               /\ s.pc = "log" /\ Turn(r, s) /\ logged' = logged \cup {r}
               /\ sweep'[i] = AsSweep("rules", s.at, s.policy, s.todo, s.prio, s.copy,
                                      s.breaches, s.rules \ {r})
<1> DEFINE s == sweep[i]
           y == s.rules \ {r}
           u == [s EXCEPT !.pc = "rules", !.rules = y]
<1>0. Swept /\ IsSweep(s)
  BY DEF Shapes
<1>1. /\ UNCHANGED <<now, policy, queued, held>>
      /\ UNCHANGED <<ticket, pauses, fired, announced, tally>>
      /\ s.pc = "log" /\ Turn(r, s) /\ logged' = logged \cup {r}
  BY DEF LogRule
<1>2. Becomes(i, u)
  <2>1. u = [s EXCEPT !.pc = "rules", !.rules = @ \ {r}]
    BY <1>0 DEF IsSweep, AsSweep
  <2> QED BY <2>1 DEF LogRule
<1>3. u = AsSweep("rules", s.at, s.policy, s.todo, s.prio, s.copy, s.breaches, y)
  <2> HIDE DEF s, y
  <2> QED BY <1>0, ToRules
<1> HIDE DEF u
<1>4. sweep'[i] = u /\ Others(i)
  BY <1>0, <1>1, <1>2, BecomesOne DEF Others
<1> QED BY <1>1, <1>3, <1>4

LEMMA EndStep ==
    ASSUME Shapes, NEW i \in Sweeper, EndRules(i)
    PROVE  /\ Others(i) /\ UNCHANGED <<ticket, pauses, fired, logged, announced, tally>>
           /\ sweep[i].pc = "rules" /\ sweep[i].rules = {} /\ Empty(sweep'[i])
           /\ sweep'[i].pc = "scan" => sweep'[i].at = sweep[i].at
                                       /\ sweep'[i].policy = sweep[i].policy
<1>1. Becomes(i, Rest(sweep[i])) /\ Swept /\ UNCHANGED <<now, policy, queued, held>>
  BY DEF EndRules, Shapes
<1>2. sweep'[i] = Rest(sweep[i]) /\ Others(i)
  BY <1>1, BecomesOne DEF Others
<1>3. UNCHANGED <<ticket, pauses, fired, logged, announced, tally>>
      /\ sweep[i].pc = "rules" /\ sweep[i].rules = {}
  BY DEF EndRules
<1> QED BY <1>2, <1>3, RestIsEmpty

LEMMA CrashStep ==
    ASSUME Shapes, NEW i \in Sweeper, Crash(i)
    PROVE  /\ Others(i) /\ UNCHANGED <<ticket, pauses, fired, logged, announced>>
           /\ sweep[i].pc # "idle" /\ sweep'[i] = NoSweep
           /\ tally' = AsTally(tally.edits, tally.crashes + 1, tally.overlaps,
                               tally.cleared, tally.touched, tally.inPause)
<1> DEFINE c == tally.crashes + 1
<1>0. Swept /\ IsTally(tally) /\ Becomes(i, NoSweep) /\ UNCHANGED <<now, policy, queued, held>>
  BY DEF Shapes, Crash
<1>1. sweep'[i] = NoSweep /\ Others(i)
  BY <1>0, BecomesOne DEF Others
<1>2. tally' = [tally EXCEPT !.crashes = c]
  BY <1>0 DEF Crash, IsTally, AsTally
<1> HIDE DEF c
<1>3. tally' = AsTally(tally.edits, c, tally.overlaps, tally.cleared, tally.touched,
                       tally.inPause)
  BY <1>0, <1>2, SetCrashes
<1>4. UNCHANGED <<ticket, pauses, fired, logged, announced>> /\ sweep[i].pc # "idle"
  BY DEF Crash
<1> QED BY <1>1, <1>3, <1>4 DEF c

LEMMA SweepShapes ==
    ASSUME Shapes, NEW i \in Sweeper, Sweep(i) \/ Crash(i)
    PROVE  Shapes' /\ Others(i)
<1>0. /\ IsRow(ticket) /\ IsSweep(sweep[i]) /\ IsRow(sweep[i].copy)
      /\ IsTally(tally) /\ Counts(tally)
  BY DEF Shapes
<1>1. CASE StartSweep(i)
  <2>1. Others(i) /\ IsSweep(sweep'[i]) /\ IsRow(sweep'[i].copy) /\ UNCHANGED ticket
    BY <1>1, StartStep, NoSweepIsEmpty DEF Empty
  <2>2. tally' = AsTally(tally.edits, tally.crashes,
                         IF Running = {} THEN tally.overlaps ELSE tally.overlaps + 1,
                         tally.cleared, tally.touched, tally.inPause)
    BY <1>1, StartStep
  <2>3. IsTally(tally') /\ Counts(tally')
    BY <1>0, <2>2 DEF AsTally, IsTally, Counts
  <2> QED BY <2>1, <2>3 DEF Shapes, Others
<1>2. CASE Visit(i)
  <2>1. Others(i) /\ UNCHANGED <<ticket, tally>>
    BY <1>2, VisitStep
  <2>2. \/ IsSweep(sweep'[i]) /\ sweep'[i].copy = NoCopy
        \/ sweep'[i] = AsSweep("check", sweep[i].at, sweep[i].policy,
                               Tail(sweep[i].todo), ticket.prio, ticket,
                               sweep[i].breaches, sweep[i].rules)
    BY <1>2, VisitStep DEF Empty
  <2>3. IsSweep(sweep'[i]) /\ IsRow(sweep'[i].copy)
    BY <1>0, <2>2, NoSweepIsEmpty DEF AsSweep, IsSweep
  <2> QED BY <2>1, <2>3 DEF Shapes, Others
<1>3. CASE Check(i)
  <2> DEFINE s == sweep[i]
             c == s.copy
             late == Breached(s)
             d == AsRow(c.prio, c.policy, c.respDue, c.resDue, c.responded, c.closed,
                        c.status, c.flags \cup late)
  <2>1. /\ Others(i) /\ UNCHANGED tally
        /\ ticket' = AsRow(ticket.prio, ticket.policy, ticket'.respDue, ticket'.resDue,
                           ticket.responded, ticket.closed, ticket.status,
                           ticket.flags \cup late)
        /\ \/ sweep'[i] = NoSweep
           \/ sweep'[i] = AsSweep("announce", s.at, s.policy, s.todo, s.prio, d, late, s.rules)
    BY <1>3, CheckStep
  <2>2. IsRow(d)
    BY DEF IsRow, AsRow
  <2> HIDE DEF d, late
  <2>3. IsSweep(sweep'[i]) /\ IsRow(sweep'[i].copy)
    BY <2>1, <2>2, NoSweepIsEmpty DEF AsSweep, IsSweep, Empty
  <2>4. IsRow(ticket')
    BY <2>1 DEF IsRow, AsRow
  <2> QED BY <2>1, <2>3, <2>4 DEF Shapes, Others
<1>4. CASE Announce(i)
  <2>1. PICK k : sweep'[i] = AsSweep(sweep[i].pc, sweep[i].at, sweep[i].policy,
                                     sweep[i].todo, sweep[i].prio, sweep[i].copy,
                                     sweep[i].breaches \ {k}, sweep[i].rules)
    BY <1>4, AnnounceStep
  <2>2. Others(i) /\ UNCHANGED <<ticket, tally>>
    BY <1>4, AnnounceStep
  <2>3. IsSweep(sweep'[i]) /\ IsRow(sweep'[i].copy)
    BY <1>0, <2>1 DEF AsSweep, IsSweep
  <2> QED BY <2>2, <2>3 DEF Shapes, Others
<1>5. CASE SelectRules(i)
  <2> DEFINE y == {r \in DOMAIN Rule : Due(r, sweep[i])}
  <2>1. /\ Others(i) /\ UNCHANGED <<ticket, tally>>
        /\ sweep'[i] = AsSweep("rules", sweep[i].at, sweep[i].policy, sweep[i].todo,
                               sweep[i].prio, sweep[i].copy, sweep[i].breaches, y)
    BY <1>5, SelectStep
  <2> HIDE DEF y
  <2>2. IsSweep(sweep'[i]) /\ IsRow(sweep'[i].copy)
    BY <1>0, <2>1 DEF AsSweep, IsSweep
  <2> QED BY <2>1, <2>2 DEF Shapes, Others
<1>6. ASSUME NEW r, ExecuteRule(i, r) PROVE Shapes' /\ Others(i)
  <2> DEFINE s == sweep[i]
             c == s.copy
             p == IF Rule[r].action = "change_priority" THEN Raised(c.prio) ELSE c.prio
             d == AsRow(p, c.policy, c.respDue, c.resDue, c.responded, c.closed,
                        c.status, c.flags)
  <2>1. /\ Others(i) /\ tally' \in {tally, Touched}
        /\ ticket' = AsRow(ticket'.prio, ticket.policy, ticket'.respDue,
                           ticket'.resDue, ticket.responded, ticket.closed,
                           ticket.status, ticket.flags)
        /\ \/ sweep'[i] = NoSweep
           \/ sweep'[i] = AsSweep("log", s.at, s.policy, s.todo, s.prio, d, s.breaches,
                                  s.rules)
    BY <1>6, ExecuteStep
  <2> HIDE DEF p
  <2>2. IsRow(d)
    BY DEF IsRow, AsRow
  <2> HIDE DEF d
  <2>3. IsSweep(sweep'[i]) /\ IsRow(sweep'[i].copy)
    BY <2>1, <2>2, NoSweepIsEmpty DEF AsSweep, IsSweep, Empty
  <2>4. IsRow(ticket')
    BY <2>1 DEF IsRow, AsRow
  <2>5. IsTally(tally') /\ Counts(tally')
    BY <1>0, <2>1, TouchedIs DEF AsTally, IsTally, Counts
  <2> QED BY <2>1, <2>3, <2>4, <2>5 DEF Shapes, Others
<1>7. ASSUME NEW r, LogRule(i, r) PROVE Shapes' /\ Others(i)
  <2> DEFINE y == sweep[i].rules \ {r}
  <2>1. /\ Others(i) /\ UNCHANGED <<ticket, tally>>
        /\ sweep'[i] = AsSweep("rules", sweep[i].at, sweep[i].policy, sweep[i].todo,
                               sweep[i].prio, sweep[i].copy, sweep[i].breaches, y)
    BY <1>7, LogStep
  <2> HIDE DEF y
  <2>2. IsSweep(sweep'[i]) /\ IsRow(sweep'[i].copy)
    BY <1>0, <2>1 DEF AsSweep, IsSweep
  <2> QED BY <2>1, <2>2 DEF Shapes, Others
<1>8. CASE EndRules(i)
  <2>1. Others(i) /\ IsSweep(sweep'[i]) /\ IsRow(sweep'[i].copy) /\ UNCHANGED <<ticket, tally>>
    BY <1>8, EndStep, NoSweepIsEmpty DEF Empty
  <2> QED BY <2>1 DEF Shapes, Others
<1>9. CASE Crash(i)
  <2>1. Others(i) /\ IsSweep(sweep'[i]) /\ IsRow(sweep'[i].copy) /\ UNCHANGED ticket
    BY <1>9, CrashStep, NoSweepIsEmpty DEF Empty
  <2>2. tally' = AsTally(tally.edits, tally.crashes + 1, tally.overlaps, tally.cleared,
                         tally.touched, tally.inPause)
    BY <1>9, CrashStep
  <2>3. IsTally(tally') /\ Counts(tally')
    BY <1>0, <2>2 DEF AsTally, IsTally, Counts
  <2> QED BY <2>1, <2>3 DEF Shapes, Others
<1> QED BY <1>1, <1>2, <1>3, <1>4, <1>5, <1>6, <1>7, <1>8, <1>9 DEF Sweep

LEMMA InitShapes == Init => Shapes
<1> SUFFICES ASSUME Init PROVE Shapes
  OBVIOUS
<1>1. IsRow(ticket)
  BY DEF Init, NewTicket, NoCopy, IsRow, AsRow
<1>2. held = {} /\ Swept /\ \A i \in Sweeper : sweep[i] = NoSweep
  BY DEF Init, Swept
<1>3. IsTally(tally) /\ Counts(tally)
  BY DEF Init, IsTally, AsTally, Counts
<1> QED BY <1>1, <1>2, <1>3, NoSweepIsEmpty DEF Shapes, Empty

LEMMA NextSteps ==
    ASSUME Next
    PROVE  Tick \/ Asked \/ \E i \in Sweeper : Sweep(i) \/ Crash(i)
BY DEF Next, Asked

LEMMA NextShapes == Shapes /\ [Next]_vars => Shapes'
<1> SUFFICES ASSUME Shapes, [Next]_vars PROVE Shapes'
  OBVIOUS
<1>1. CASE Tick
  BY <1>1 DEF Tick, Shapes, Swept
<1>2. CASE UNCHANGED vars
  BY <1>2 DEF vars, Shapes, Swept
<1> QED BY <1>1, <1>2, NextSteps, AskedKeeps, SweepShapes

-----------------------------------------------------------------------------
(* SlaClock: the announcements of breaches.                                *)

\* The workers that are about to announce k; and those about to look for it with a copy
\* that does not have its flag.
Telling(k) == {i \in Sweeper : k \in sweep[i].breaches}
Unaware(k) == {i \in Sweeper : sweep[i].pc = "check" /\ k \notin sweep[i].copy.flags}

\* How often k may have been announced when it has been taken off f times and o sweeps
\* have begun before another had ended; a flag that is set may be announced by every
\* worker that has loaded the ticket without it.
Within(k, o, f) ==
    IF k \in ticket.flags
    THEN announced[k] + Cardinality(Telling(k)) + Cardinality(Unaware(k)) <= (1 + o) * (1 + f)
    ELSE announced[k] + Cardinality(Telling(k)) <= (1 + o) * f

NoticeInv ==
    /\ Shapes
    /\ announced \in [Kind -> Nat]
    /\ \A i \in Sweeper :
          /\ sweep[i].breaches \subseteq Kind
          /\ sweep[i].pc # "announce" => sweep[i].breaches = {}
    /\ Cardinality(Running) <= 1 + tally.overlaps
    /\ \A k \in Kind : Within(k, tally.overlaps, tally.cleared)

\* The sets of workers are finite.
LEMMA Workers ==
    ASSUME NEW S, S \subseteq Sweeper
    PROVE  IsFiniteSet(S) /\ Cardinality(S) \in Nat
BY FS_Subset, FS_CardinalityType, SlaAssumption DEF SlaAssumption

LEMMA FewerWorkers ==
    ASSUME NEW S, NEW T, T \subseteq Sweeper, S \subseteq T
    PROVE  Cardinality(S) <= Cardinality(T)
BY Workers, FS_Subset

LEMMA OneMore ==
    ASSUME NEW S, S \subseteq Sweeper, NEW i \in Sweeper
    PROVE  /\ i \notin S => Cardinality(S \cup {i}) = Cardinality(S) + 1
           /\ i \in S => Cardinality(S \ {i}) = Cardinality(S) - 1
BY Workers, FS_AddElement, FS_RemoveElement

\* Two sets of workers apart from one another.
LEMMA ApartWorkers ==
    ASSUME NEW S, NEW T, NEW U, U \subseteq Sweeper, S \cup T \subseteq U, S \cap T = {}
    PROVE  Cardinality(S) + Cardinality(T) <= Cardinality(U)
<1>1. IsFiniteSet(S) /\ IsFiniteSet(T)
  BY Workers
<1>2. Cardinality(S \cup T) = Cardinality(S) + Cardinality(T) - Cardinality(S \cap T)
  BY <1>1, FS_Union
<1>3. Cardinality(S \cap T) = 0
  BY FS_EmptySet
<1>4. Cardinality(S \cup T) <= Cardinality(U)
  BY FewerWorkers
<1>5. Cardinality(S) \in Nat /\ Cardinality(T) \in Nat /\ Cardinality(U) \in Nat
  BY Workers
<1> QED BY <1>2, <1>3, <1>4, <1>5

\* The workers of Telling and Unaware are at work.
LEMMA TellersRun ==
    ASSUME NoticeInv, NEW k
    PROVE  /\ Telling(k) \subseteq Running /\ Unaware(k) \subseteq Running
           /\ Running \subseteq Sweeper /\ Telling(k) \cap Unaware(k) = {}
BY DEF NoticeInv, Telling, Unaware, Running

LEMMA ProductGrows ==
    ASSUME NEW o \in Nat, NEW u \in Nat, NEW f \in Nat, NEW g \in Nat, o <= u, f <= g
    PROVE  (1 + o) * f <= (1 + u) * g /\ (1 + o) * f \in Nat
<1>1. PICK d \in Nat : u = o + d
  <2>1. u - o \in Nat /\ u = o + (u - o)
    OBVIOUS
  <2> QED BY <2>1
<1>2. PICK e \in Nat : g = f + e
  <2>1. g - f \in Nat /\ g = f + (g - f)
    OBVIOUS
  <2> QED BY <2>1
<1>3. (1 + u) * g = (1 + o) * f + (1 + o) * e + d * f + d * e
  BY <1>1, <1>2
<1>4. /\ (1 + o) * f \in Nat /\ (1 + o) * e \in Nat /\ d * f \in Nat /\ d * e \in Nat
      /\ (1 + o) * f >= 0 /\ (1 + o) * e >= 0 /\ d * f >= 0 /\ d * e >= 0
  OBVIOUS
<1> QED BY <1>3, <1>4

LEMMA OneClearing ==
    ASSUME NEW o \in Nat, NEW f \in Nat
    PROVE  (1 + o) * f \in Nat /\ (1 + o) * (1 + f) = (1 + o) * f + 1 + o
OBVIOUS

\* A step that announces nothing, and has nobody announce anything more, keeps the bound.
LEMMA QuietNotices ==
    ASSUME NoticeInv, Shapes', NEW k \in Kind, announced'[k] = announced[k],
           Telling(k)' \subseteq Telling(k),
           k \in ticket.flags => Unaware(k)' \subseteq Unaware(k),
           Unaware(k)' \subseteq Running, k \in ticket.flags => k \in ticket'.flags,
           tally.overlaps <= tally'.overlaps, tally.cleared <= tally'.cleared
    PROVE  Within(k, tally.overlaps, tally.cleared)'
<1> DEFINE n == announced[k]
           a == Cardinality(Telling(k))
           b == Cardinality(Telling(k)')
           c == Cardinality(Unaware(k))
           d == Cardinality(Unaware(k)')
           o == tally.overlaps
           f == tally.cleared
           u == tally'.overlaps
           g == tally'.cleared
<1>1. /\ Telling(k) \subseteq Sweeper /\ Unaware(k) \subseteq Sweeper /\ Running \subseteq Sweeper
      /\ Telling(k) \subseteq Running
  BY TellersRun
<1>2. b <= a /\ (k \in ticket.flags => d <= c) /\ d <= Cardinality(Running)
  BY <1>1, FewerWorkers
<1>3. a \in Nat /\ b \in Nat /\ c \in Nat /\ d \in Nat /\ Cardinality(Running) \in Nat
  BY <1>1, Workers
<1>4. o \in Nat /\ f \in Nat /\ u \in Nat /\ g \in Nat /\ n \in Nat
  BY DEF NoticeInv, Shapes, Counts
<1>5. Cardinality(Running) <= 1 + o /\ Within(k, o, f) /\ announced'[k] = n
  BY DEF NoticeInv
<1>6. /\ (1 + o) * f <= (1 + u) * g /\ (1 + o) * f \in Nat /\ (1 + u) * g \in Nat
      /\ (1 + o) * (1 + f) <= (1 + u) * (1 + g)
      /\ (1 + o) * (1 + f) = (1 + o) * f + 1 + o
      /\ (1 + u) * (1 + g) = (1 + u) * g + 1 + u
  <2>1. 1 + f \in Nat /\ 1 + g \in Nat /\ 1 + f <= 1 + g
    BY <1>4
  <2>2. (1 + o) * f <= (1 + u) * g /\ (1 + o) * f \in Nat
    BY <1>4, ProductGrows
  <2>3. (1 + o) * (1 + f) <= (1 + u) * (1 + g)
    BY <1>4, <2>1, ProductGrows
  <2>4. (1 + u) * g \in Nat
    BY <1>4, OneClearing
  <2> QED BY <1>4, <2>2, <2>3, <2>4, OneClearing
<1>7. CASE k \in ticket.flags
  <2>1. n + a + c <= (1 + o) * (1 + f)
    BY <1>5, <1>7 DEF Within
  <2> DEFINE x == (1 + o) * (1 + f)
             y == (1 + u) * (1 + g)
  <2>2. x <= y /\ x \in Nat /\ y \in Nat
    BY <1>4, <1>6
  <2>3. n + a + c <= x
    BY <2>1
  <2> HIDE DEF x, y, n, a, b, c, d
  <2>4. n + b + d <= y
    BY <1>2, <1>3, <1>4, <1>7, <2>2, <2>3
  <2> QED BY <1>5, <1>7, <2>4 DEF Within, n, b, d, y
<1>8. CASE k \notin ticket.flags /\ k \notin ticket'.flags
  <2>1. n + a <= (1 + o) * f
    BY <1>5, <1>8 DEF Within
  <2> DEFINE x == (1 + o) * f
             y == (1 + u) * g
  <2>2. x <= y /\ x \in Nat /\ y \in Nat
    BY <1>6
  <2>3. n + a <= x
    BY <2>1
  <2> HIDE DEF x, y, n, a, b, c, d
  <2>4. n + b <= y
    BY <1>2, <1>3, <1>4, <2>2, <2>3
  <2> QED BY <1>5, <1>8, <2>4 DEF Within, n, b, y
<1>9. CASE k \notin ticket.flags /\ k \in ticket'.flags
  <2>1. n + a <= (1 + o) * f
    BY <1>5, <1>9 DEF Within
  <2> DEFINE x == (1 + o) * f
             y == (1 + u) * g
             z == (1 + u) * (1 + g)
  <2>2. x <= y /\ x \in Nat /\ y \in Nat /\ z = y + 1 + u
    BY <1>6
  <2>3. n + a <= x
    BY <2>1
  <2>4. d <= 1 + o /\ o <= u
    BY <1>2, <1>3, <1>4, <1>5
  <2> HIDE DEF x, y, z, n, a, b, c, d, o, u
  <2>5. n + b + d <= z
    BY <1>2, <1>3, <1>4, <2>2, <2>3, <2>4
  <2> QED BY <1>5, <1>9, <2>5 DEF Within, n, b, d, z, u
<1> QED BY <1>7, <1>8, <1>9

\* A flag that is taken off is counted.
LEMMA ClearedNotices ==
    ASSUME NoticeInv, NEW k \in Kind, UNCHANGED <<announced, sweep>>,
           k \in ticket.flags, k \notin ticket'.flags,
           tally'.overlaps = tally.overlaps, tally'.cleared = tally.cleared + 1
    PROVE  Within(k, tally.overlaps, tally.cleared)'
<1> DEFINE n == announced[k]
           a == Cardinality(Telling(k))
           c == Cardinality(Unaware(k))
           x == (1 + tally.overlaps) * (1 + tally.cleared)
<1>1. Telling(k)' = Telling(k)
  BY DEF Telling
<1>2. Telling(k) \subseteq Sweeper /\ Unaware(k) \subseteq Sweeper
  BY DEF Telling, Unaware
<1>3. a \in Nat /\ c \in Nat
  BY <1>2, Workers
<1>4. tally.overlaps \in Nat /\ tally.cleared \in Nat /\ n \in Nat
  BY DEF NoticeInv, Shapes, Counts
<1>5. n + a + c <= x
  BY DEF NoticeInv, Within
<1>6. x \in Nat
  BY <1>4, OneClearing
<1>7. (1 + tally'.overlaps) * tally'.cleared = x
  BY <1>4
<1> HIDE DEF n, a, c, x
<1>8. n + a <= x
  BY <1>3, <1>4, <1>5, <1>6
<1> QED BY <1>1, <1>7, <1>8 DEF Within, n, a

LEMMA AskedNotices ==
    ASSUME NoticeInv, Asked
    PROVE  NoticeInv'
<1>1. /\ Shapes' /\ Served /\ UNCHANGED Aside
      /\ Same(tally')
      /\ \/ ticket.flags \subseteq ticket'.flags /\ tally'.cleared = tally.cleared
         \/ tally'.cleared = tally.cleared + 1
  BY AskedKeeps DEF NoticeInv
<1>2. UNCHANGED <<sweep, announced>> /\ tally'.overlaps = tally.overlaps
  BY <1>1 DEF Aside, Same
<1>3. tally.overlaps \in Nat /\ tally.cleared \in Nat
  BY DEF NoticeInv, Shapes, Counts
<1>4. Running' = Running
  BY <1>2 DEF Running
<1>5. ASSUME NEW k \in Kind PROVE Within(k, tally.overlaps, tally.cleared)'
  <2>1. Telling(k)' = Telling(k) /\ Unaware(k)' = Unaware(k) /\ Unaware(k) \subseteq Running
    BY <1>2, TellersRun DEF Telling, Unaware
  <2>2. CASE k \in ticket.flags /\ k \notin ticket'.flags
    BY <1>1, <1>2, <2>2, ClearedNotices
  <2>3. CASE k \in ticket.flags => k \in ticket'.flags
    <3>1. tally.overlaps <= tally'.overlaps /\ tally.cleared <= tally'.cleared
      BY <1>1, <1>2, <1>3
    <3> QED BY <1>1, <1>2, <2>1, <2>3, <3>1, QuietNotices
  <2> QED BY <2>2, <2>3
<1> QED BY <1>1, <1>2, <1>4, <1>5 DEF NoticeInv

\* A worker with a copy without the flag sets it and is going to announce it.
LEMMA FlagNotices ==
    ASSUME NoticeInv, NEW k \in Kind, NEW i \in Sweeper, i \in Unaware(k),
           UNCHANGED <<announced, tally>>, k \in ticket'.flags,
           Telling(k)' = Telling(k) \cup {i}, Unaware(k)' = Unaware(k) \ {i}
    PROVE  Within(k, tally.overlaps, tally.cleared)'
<1> DEFINE n == announced[k]
           a == Cardinality(Telling(k))
           b == Cardinality(Telling(k)')
           c == Cardinality(Unaware(k))
           d == Cardinality(Unaware(k)')
           r == Cardinality(Running)
           o == tally.overlaps
           x == (1 + tally.overlaps) * (1 + tally.cleared)
           y == (1 + tally.overlaps) * tally.cleared
<1>1. /\ Telling(k) \subseteq Sweeper /\ Unaware(k) \subseteq Sweeper /\ Running \subseteq Sweeper
      /\ Unaware(k) \subseteq Running /\ Telling(k) \cap Unaware(k) = {}
  BY TellersRun
<1>2. i \notin Telling(k)
  BY <1>1
<1>3. b = a + 1 /\ d = c - 1 /\ c <= r
  BY <1>1, <1>2, OneMore, FewerWorkers
<1>4. a \in Nat /\ c \in Nat /\ r \in Nat
  BY <1>1, Workers
<1>5. o \in Nat /\ tally.cleared \in Nat /\ n \in Nat /\ r <= 1 + o
  BY DEF NoticeInv, Shapes, Counts
<1>6. y \in Nat /\ x = y + 1 + o
  BY <1>5, OneClearing
<1>7. (n + a + c <= x) \/ (n + a <= y)
  BY DEF NoticeInv, Within
<1> HIDE DEF n, a, b, c, d, r, x, y, o
<1>8. n + b + d <= x
  BY <1>3, <1>4, <1>5, <1>6, <1>7
<1> QED BY <1>8 DEF Within, n, b, d, x

LEMMA CheckNotices ==
    ASSUME NoticeInv, NEW i \in Sweeper, Check(i)
    PROVE  NoticeInv'
<1> DEFINE s == sweep[i]
           c == s.copy
           late == Breached(s)
           d == AsRow(c.prio, c.policy, c.respDue, c.resDue, c.responded, c.closed,
                      c.status, c.flags \cup late)
<1>1. /\ Others(i) /\ UNCHANGED <<announced, tally>> /\ s.pc = "check"
      /\ ticket' = AsRow(ticket.prio, ticket.policy, ticket'.respDue, ticket'.resDue,
                         ticket.responded, ticket.closed, ticket.status,
                         ticket.flags \cup late)
      /\ \/ sweep'[i] = NoSweep
         \/ sweep'[i] = AsSweep("announce", s.at, s.policy, s.todo, s.prio, d, late, s.rules)
  BY CheckStep DEF NoticeInv
<1>2. Shapes'
  BY SweepShapes DEF NoticeInv, Sweep
<1>3. late \subseteq Kind \ c.flags
  BY DEF Breached
<1>4. ticket'.flags = ticket.flags \cup late
  BY <1>1 DEF AsRow
<1>5. s.breaches = {}
  BY <1>1 DEF NoticeInv
<1>6. \/ sweep'[i].pc = "idle" /\ sweep'[i].breaches = {}
      \/ sweep'[i].pc = "announce" /\ sweep'[i].breaches = late
  BY <1>1, NoSweepIsEmpty DEF AsSweep, Empty
<1> HIDE DEF d, late
<1>7. /\ \A j \in Sweeper \ {i} : sweep'[j] = sweep[j]
      /\ sweep'[i].pc # "check"
  BY <1>1, <1>6 DEF Others
<1>8. Running' \subseteq Running /\ Running \subseteq Sweeper
  BY <1>1, <1>7 DEF Running
<1>9. Cardinality(Running') <= 1 + tally'.overlaps
  <2>1. Cardinality(Running') <= Cardinality(Running)
    BY <1>8, FewerWorkers
  <2>2. Cardinality(Running) \in Nat /\ Cardinality(Running') \in Nat
    BY <1>8, Workers
  <2>3. Cardinality(Running) <= 1 + tally.overlaps /\ tally.overlaps \in Nat
    BY DEF NoticeInv, Shapes, Counts
  <2> QED BY <1>1, <2>1, <2>2, <2>3
<1>10. ASSUME NEW k \in Kind PROVE Within(k, tally.overlaps, tally.cleared)'
  <2>1. Unaware(k)' = Unaware(k) \ {i}
    BY <1>7 DEF Unaware
  <2>2. CASE k \in late /\ sweep'[i].breaches = late
    <3>1. i \in Unaware(k)
      BY <1>1, <1>3, <2>2 DEF Unaware
    <3>2. Telling(k)' = Telling(k) \cup {i}
      BY <1>7, <2>2 DEF Telling
    <3> QED BY <1>1, <1>4, <2>1, <2>2, <3>1, <3>2, FlagNotices
  <2>3. CASE k \notin sweep'[i].breaches
    <3>1. Telling(k)' \subseteq Telling(k)
      BY <1>7, <2>3 DEF Telling
    <3>2. Unaware(k) \subseteq Running
      BY TellersRun
    <3>3. tally.overlaps <= tally'.overlaps /\ tally.cleared <= tally'.cleared
      BY <1>1 DEF NoticeInv, Shapes, Counts
    <3> QED BY <1>1, <1>2, <1>4, <2>1, <3>1, <3>2, <3>3, QuietNotices
  <2> QED BY <1>6, <2>2, <2>3
<1>11. ASSUME NEW j \in Sweeper
       PROVE  /\ sweep'[j].breaches \subseteq Kind
              /\ sweep'[j].pc # "announce" => sweep'[j].breaches = {}
  BY <1>3, <1>6, <1>7 DEF NoticeInv
<1> QED BY <1>1, <1>2, <1>9, <1>10, <1>11 DEF NoticeInv

LEMMA AnnounceNotices ==
    ASSUME NoticeInv, NEW i \in Sweeper, Announce(i)
    PROVE  NoticeInv'
<1> DEFINE s == sweep[i]
<1>1. /\ Others(i) /\ UNCHANGED <<ticket, tally>> /\ s.pc = "announce"
  BY AnnounceStep DEF NoticeInv
<1>2. PICK h \in s.breaches :
         /\ announced' = [announced EXCEPT ![h] = @ + 1]
         /\ sweep'[i] = AsSweep(s.pc, s.at, s.policy, s.todo, s.prio, s.copy,
                                s.breaches \ {h}, s.rules)
  BY AnnounceStep DEF NoticeInv
<1>3. Shapes'
  BY SweepShapes DEF NoticeInv, Sweep
<1>4. sweep'[i].pc = "announce" /\ sweep'[i].breaches = s.breaches \ {h}
      /\ \A j \in Sweeper \ {i} : sweep'[j] = sweep[j]
  BY <1>1, <1>2 DEF AsSweep, Others
<1>5. h \in Kind /\ announced \in [Kind -> Nat]
  BY DEF NoticeInv
<1>6. announced' \in [Kind -> Nat] /\ announced'[h] = announced[h] + 1
      /\ \A k \in Kind \ {h} : announced'[k] = announced[k]
  BY <1>2, <1>5
<1>7. Running' = Running
  BY <1>1, <1>4 DEF Running
<1>8. \A k : Unaware(k)' = Unaware(k)
  BY <1>1, <1>4 DEF Unaware
<1>9. ASSUME NEW k \in Kind, k # h PROVE Within(k, tally.overlaps, tally.cleared)'
  <2>1. Telling(k)' = Telling(k)
    BY <1>4, <1>9 DEF Telling
  <2> QED BY <1>1, <1>6, <1>8, <1>9, <2>1 DEF Within, NoticeInv
<1>10. Within(h, tally.overlaps, tally.cleared)'
  <2>1. Telling(h)' = Telling(h) \ {i} /\ i \in Telling(h) /\ Telling(h) \subseteq Sweeper
        /\ Unaware(h) \subseteq Sweeper
    BY <1>4 DEF Telling, Unaware
  <2> DEFINE a == Cardinality(Telling(h))
             b == Cardinality(Telling(h)')
             c == Cardinality(Unaware(h))
             x == (1 + tally.overlaps) * (1 + tally.cleared)
             y == (1 + tally.overlaps) * tally.cleared
             n == announced[h]
  <2>2. b = a - 1
    BY <2>1, OneMore
  <2>3. a \in Nat /\ c \in Nat /\ n \in Nat
    BY <1>5, <2>1, Workers
  <2>4. x \in Nat /\ y \in Nat
    BY OneClearing DEF NoticeInv, Shapes, Counts
  <2>5. IF h \in ticket.flags THEN n + a + c <= x ELSE n + a <= y
    BY <1>5 DEF NoticeInv, Within
  <2> HIDE DEF a, b, c, x, y, n
  <2>6. IF h \in ticket.flags THEN (n + 1) + b + c <= x ELSE (n + 1) + b <= y
    BY <2>2, <2>3, <2>4, <2>5
  <2> QED BY <1>1, <1>6, <1>8, <2>6 DEF Within, b, c, n, x, y
<1>11. ASSUME NEW j \in Sweeper
       PROVE  /\ sweep'[j].breaches \subseteq Kind
              /\ sweep'[j].pc # "announce" => sweep'[j].breaches = {}
  BY <1>1, <1>4 DEF NoticeInv
<1> QED BY <1>1, <1>3, <1>6, <1>7, <1>9, <1>10, <1>11 DEF NoticeInv

\* A step of a worker that announces nothing and is not going to.
LEMMA IdleNotices ==
    ASSUME NoticeInv, Shapes', NEW i \in Sweeper, UNCHANGED announced,
           \A j \in Sweeper \ {i} : sweep'[j] = sweep[j],
           sweep'[i].breaches = {}, ticket'.flags = ticket.flags,
           sweep'[i].pc = "check" => sweep'[i].copy = ticket /\ sweep[i].pc # "idle",
           tally'.cleared = tally.cleared, tally.overlaps <= tally'.overlaps,
           Cardinality(Running') <= 1 + tally'.overlaps
    PROVE  NoticeInv'
<1>1. ASSUME NEW k \in Kind PROVE Within(k, tally.overlaps, tally.cleared)'
  <2>1. Telling(k)' \subseteq Telling(k)
    BY DEF Telling
  <2>2. k \in ticket.flags => Unaware(k)' \subseteq Unaware(k)
    BY DEF Unaware
  <2>3. Unaware(k)' \subseteq Running
    BY DEF Unaware, Running
  <2>4. tally.cleared <= tally'.cleared
    BY DEF NoticeInv, Shapes, Counts
  <2> QED BY <2>1, <2>2, <2>3, <2>4, QuietNotices
<1>2. ASSUME NEW j \in Sweeper
      PROVE  /\ sweep'[j].breaches \subseteq Kind
             /\ sweep'[j].pc # "announce" => sweep'[j].breaches = {}
  BY DEF NoticeInv
<1> QED BY <1>1, <1>2 DEF NoticeInv

\* The workers at work do not become more, unless one begins.
LEMMA RunningStays ==
    ASSUME NoticeInv, NEW i \in Sweeper, Others(i), sweep[i].pc # "idle",
           tally'.overlaps = tally.overlaps
    PROVE  Cardinality(Running') <= 1 + tally'.overlaps
<1>1. Running' \subseteq Running /\ Running \subseteq Sweeper
  BY DEF Running, Others
<1>2. Cardinality(Running') <= Cardinality(Running)
  BY <1>1, FewerWorkers
<1>3. Cardinality(Running) \in Nat /\ Cardinality(Running') \in Nat
  BY <1>1, Workers
<1>4. Cardinality(Running) <= 1 + tally.overlaps /\ tally.overlaps \in Nat
  BY DEF NoticeInv, Shapes, Counts
<1> QED BY <1>2, <1>3, <1>4

LEMMA StartNotices ==
    ASSUME NoticeInv, NEW i \in Sweeper, StartSweep(i)
    PROVE  NoticeInv'
<1>1. /\ Others(i) /\ UNCHANGED <<ticket, announced>>
      /\ sweep[i].pc = "idle" /\ sweep'[i].pc = "scan" /\ sweep'[i].breaches = {}
      /\ tally' = AsTally(tally.edits, tally.crashes,
                          IF Running = {} THEN tally.overlaps ELSE tally.overlaps + 1,
                          tally.cleared, tally.touched, tally.inPause)
  BY StartStep DEF NoticeInv, Empty
<1>2. Shapes'
  BY SweepShapes DEF NoticeInv, Sweep
<1>3. Running' = Running \cup {i} /\ i \notin Running /\ Running \subseteq Sweeper
  BY <1>1 DEF Running, Others
<1>4. Cardinality(Running') = Cardinality(Running) + 1 /\ Cardinality(Running) \in Nat
  BY <1>3, OneMore, Workers
<1>5. Cardinality(Running) <= 1 + tally.overlaps /\ tally.overlaps \in Nat
  BY DEF NoticeInv, Shapes, Counts
<1>6. /\ tally'.overlaps = IF Running = {} THEN tally.overlaps ELSE tally.overlaps + 1
      /\ tally'.cleared = tally.cleared
  BY <1>1 DEF AsTally
<1>7. Running = {} => Cardinality(Running) = 0
  BY FS_EmptySet
<1>8. Cardinality(Running') <= 1 + tally'.overlaps /\ tally.overlaps <= tally'.overlaps
  BY <1>4, <1>5, <1>6, <1>7
<1> QED BY <1>1, <1>2, <1>6, <1>8, IdleNotices DEF Others

LEMMA QuietWorkers ==
    ASSUME NoticeInv, NEW i \in Sweeper,
           \/ Visit(i) \/ SelectRules(i) \/ EndRules(i) \/ Crash(i)
           \/ \E r \in DOMAIN Rule : ExecuteRule(i, r) \/ LogRule(i, r)
    PROVE  NoticeInv'
<1> DEFINE s == sweep[i]
<1>0. Shapes /\ (s.pc # "announce" => s.breaches = {})
  BY DEF NoticeInv
<1>1. /\ Others(i) /\ UNCHANGED announced /\ s.pc # "idle" /\ ticket'.flags = ticket.flags
      /\ sweep'[i].breaches = {}
      /\ sweep'[i].pc = "check" => sweep'[i].copy = ticket
      /\ tally'.overlaps = tally.overlaps /\ tally'.cleared = tally.cleared
  <2>1. CASE Visit(i)
    <3>1. s.breaches = {} /\ s.pc = "scan" /\ Others(i) /\ UNCHANGED <<ticket, announced, tally>>
      BY <1>0, <2>1, VisitStep
    <3>2. \/ Empty(sweep'[i])
          \/ sweep'[i] = AsSweep("check", s.at, s.policy, Tail(s.todo), ticket.prio, ticket,
                                 s.breaches, s.rules)
      BY <1>0, <2>1, VisitStep
    <3>3. sweep'[i].breaches = {} /\ (sweep'[i].pc = "check" => sweep'[i].copy = ticket)
      BY <3>1, <3>2 DEF Empty, AsSweep
    <3> QED BY <3>1, <3>3
  <2>2. CASE SelectRules(i)
    <3> DEFINE y == {r \in DOMAIN Rule : Due(r, s)}
    <3>1. /\ Others(i) /\ UNCHANGED <<ticket, announced, tally>>
          /\ s.pc = "announce" /\ s.breaches = {}
          /\ sweep'[i] = AsSweep("rules", s.at, s.policy, s.todo, s.prio, s.copy,
                                 s.breaches, y)
      BY <1>0, <2>2, SelectStep
    <3> HIDE DEF y
    <3> QED BY <3>1 DEF AsSweep
  <2>3. CASE EndRules(i)
    BY <1>0, <2>3, EndStep DEF Empty
  <2>4. CASE Crash(i)
    <3>1. tally'.overlaps = tally.overlaps /\ tally'.cleared = tally.cleared
      BY <1>0, <2>4, CrashStep DEF AsTally
    <3> QED BY <1>0, <2>4, <3>1, CrashStep, NoSweepIsEmpty DEF Empty
  <2>5. ASSUME NEW r, ExecuteRule(i, r)
        PROVE  /\ Others(i) /\ UNCHANGED announced /\ s.pc # "idle"
               /\ ticket'.flags = ticket.flags
               /\ sweep'[i].breaches = {} /\ sweep'[i].pc # "check"
               /\ tally'.overlaps = tally.overlaps /\ tally'.cleared = tally.cleared
    <3> DEFINE c == s.copy
               d == AsRow(IF Rule[r].action = "change_priority" THEN Raised(c.prio) ELSE c.prio,
                          c.policy, c.respDue, c.resDue, c.responded, c.closed,
                          c.status, c.flags)
    <3>1. /\ Others(i) /\ UNCHANGED announced /\ s.pc = "rules"
          /\ ticket' = AsRow(ticket'.prio, ticket.policy, ticket'.respDue,
                             ticket'.resDue, ticket.responded, ticket.closed,
                             ticket.status, ticket.flags)
          /\ tally' \in {tally, Touched}
          /\ \/ sweep'[i] = NoSweep
             \/ sweep'[i] = AsSweep("log", s.at, s.policy, s.todo, s.prio, d, s.breaches,
                                    s.rules)
      BY <1>0, <2>5, ExecuteStep
    <3> HIDE DEF d
    <3>2. sweep'[i].breaches = {} /\ sweep'[i].pc # "check"
      BY <1>0, <3>1, NoSweepIsEmpty DEF AsSweep, Empty
    <3>3. tally'.overlaps = tally.overlaps /\ tally'.cleared = tally.cleared
      BY <1>0, <3>1, TouchedIs DEF AsTally, Shapes
    <3>4. ticket'.flags = ticket.flags
      BY <3>1 DEF AsRow
    <3> QED BY <3>1, <3>2, <3>3, <3>4
  <2>6. ASSUME NEW r, LogRule(i, r)
        PROVE  /\ Others(i) /\ UNCHANGED announced /\ s.pc # "idle"
               /\ ticket'.flags = ticket.flags
               /\ sweep'[i].breaches = {} /\ sweep'[i].pc # "check"
               /\ tally'.overlaps = tally.overlaps /\ tally'.cleared = tally.cleared
    <3> DEFINE y == s.rules \ {r}
    <3>1. /\ Others(i) /\ UNCHANGED <<ticket, announced, tally>> /\ s.pc = "log"
          /\ sweep'[i] = AsSweep("rules", s.at, s.policy, s.todo, s.prio, s.copy,
                                 s.breaches, y)
      BY <1>0, <2>6, LogStep
    <3> HIDE DEF y
    <3> QED BY <1>0, <3>1 DEF AsSweep
  <2> QED BY <2>1, <2>2, <2>3, <2>4, <2>5, <2>6
<1>2. Shapes'
  BY SweepShapes DEF NoticeInv, Sweep
<1>3. Cardinality(Running') <= 1 + tally'.overlaps
  BY <1>1, RunningStays
<1>4. tally.overlaps <= tally'.overlaps
  BY <1>1 DEF NoticeInv, Shapes, Counts
<1> QED BY <1>1, <1>2, <1>3, <1>4, IdleNotices DEF Others

LEMMA InitNotice == Init => NoticeInv
<1> SUFFICES ASSUME Init PROVE NoticeInv
  OBVIOUS
<1>1. \A i \in Sweeper : sweep[i].breaches = {} /\ sweep[i].pc = "idle"
  BY NoSweepIsEmpty DEF Init, Empty
<1>2. Running = {} /\ announced = [k \in Kind |-> 0]
  BY <1>1 DEF Running, Init
<1>3. ticket.flags = {} /\ tally.overlaps = 0 /\ tally.cleared = 0
  BY DEF Init, NewTicket, NoCopy
<1>4. Shapes /\ Cardinality({}) = 0
  BY InitShapes, FS_EmptySet
<1>5. ASSUME NEW k \in Kind PROVE Within(k, tally.overlaps, tally.cleared)
  <2>1. Telling(k) = {} /\ announced[k] = 0
    BY <1>1, <1>2 DEF Telling
  <2>2. announced[k] + Cardinality(Telling(k)) <= (1 + tally.overlaps) * tally.cleared
    BY <1>3, <1>4, <2>1
  <2> QED BY <1>3, <2>2 DEF Within
<1>6. Cardinality(Running) <= 1 + tally.overlaps
  BY <1>2, <1>3, <1>4
<1>7. announced \in [Kind -> Nat]
  BY <1>2
<1> QED BY <1>1, <1>4, <1>5, <1>6, <1>7 DEF NoticeInv

LEMMA NextNotice == NoticeInv /\ [Next]_vars => NoticeInv'
<1> SUFFICES ASSUME NoticeInv, [Next]_vars PROVE NoticeInv'
  OBVIOUS
<1>1. ASSUME UNCHANGED <<ticket, sweep, announced, tally, held>> PROVE NoticeInv'
  <2>1. Shapes'
    BY <1>1 DEF NoticeInv, Shapes, Swept
  <2>2. Running' = Running
    BY <1>1 DEF Running
  <2>3. ASSUME NEW k \in Kind PROVE Within(k, tally.overlaps, tally.cleared)'
    <3>1. Telling(k)' = Telling(k) /\ Unaware(k)' = Unaware(k)
      BY <1>1 DEF Telling, Unaware
    <3> QED BY <1>1, <3>1 DEF NoticeInv, Within
  <2> QED BY <1>1, <2>1, <2>2, <2>3 DEF NoticeInv
<1>2. CASE Tick \/ UNCHANGED vars
  BY <1>1, <1>2 DEF Tick, vars
<1>3. CASE Asked
  BY <1>3, AskedNotices
<1>4. ASSUME NEW i \in Sweeper, Sweep(i) \/ Crash(i) PROVE NoticeInv'
  <2>1. \/ StartSweep(i) \/ Check(i) \/ Announce(i) \/ Visit(i) \/ SelectRules(i)
        \/ EndRules(i) \/ Crash(i) \/ \E r \in DOMAIN Rule : ExecuteRule(i, r) \/ LogRule(i, r)
    BY <1>4 DEF Sweep
  <2> QED BY <2>1, StartNotices, CheckNotices, AnnounceNotices, QuietWorkers
<1> QED BY <1>2, <1>3, <1>4, NextSteps

\* tickets/tasks.py (check_sla_breaches, _check_ticket_sla): the flag of a breach is
\* committed before its notices, so that however often sweeps are killed and delivered
\* again, and whatever requests do between any two of their steps, only workers that had
\* all loaded the ticket before its flag was set announce one breach, one time each.  A
\* PATCH that takes the flag off (views.py) has the breach found anew.
THEOREM BreachesAreToldOnce ==
    Spec => [](\A k \in Kind : announced[k] <= (1 + tally.overlaps) * (1 + tally.cleared))
<1>1. ASSUME NoticeInv, NEW k \in Kind
      PROVE  announced[k] <= (1 + tally.overlaps) * (1 + tally.cleared)
  <2> DEFINE n == announced[k]
             a == Cardinality(Telling(k))
             c == Cardinality(Unaware(k))
             o == tally.overlaps
             x == (1 + tally.overlaps) * (1 + tally.cleared)
             y == (1 + tally.overlaps) * tally.cleared
  <2>1. a \in Nat /\ c \in Nat
    BY <1>1, TellersRun, Workers
  <2>2. n \in Nat /\ o \in Nat /\ tally.cleared \in Nat
    BY <1>1 DEF NoticeInv, Shapes, Counts
  <2>3. y \in Nat /\ x = y + 1 + o
    BY <2>2, OneClearing
  <2>4. n + a + c <= x \/ n + a <= y
    BY <1>1 DEF NoticeInv, Within
  <2> HIDE DEF n, a, c, o, x, y
  <2>5. n <= x
    BY <2>1, <2>2, <2>3, <2>4
  <2> QED BY <2>5 DEF n, x
<1>2. NoticeInv => \A k \in Kind : announced[k] <= (1 + tally.overlaps) * (1 + tally.cleared)
  BY <1>1
<1> QED BY <1>2, InitNotice, NextNotice, PTL DEF Spec

-----------------------------------------------------------------------------
(* SlaClock: the copies that the sweeps work on, and their rules.          *)

\* The worker has a ticket in hand.
Working(i) == sweep[i].pc \in {"check", "announce", "rules", "log"}

\* The copy c has the status and the times of the row t.
Agrees(c, t) ==
    /\ c.status = t.status /\ c.respDue = t.respDue /\ c.resDue = t.resDue
    /\ c.responded = t.responded /\ c.closed = t.closed

CopyInv == Shapes /\ (~Overlap => \A i \in Sweeper : Working(i) => Agrees(sweep[i].copy, ticket))

\* Where requests come between the tickets of a sweep only, a step of a worker leaves the
\* times and the status of the ticket, and its pauses.
LEMMA WorkSteps ==
    ASSUME ~Overlap, CopyInv, NEW i \in Sweeper, Sweep(i) \/ Crash(i)
    PROVE  /\ Others(i) /\ UNCHANGED pauses
           /\ ticket' = AsRow(ticket'.prio, ticket.policy, ticket.respDue, ticket.resDue,
                              ticket.responded, ticket.closed, ticket.status, ticket'.flags)
           /\ sweep'[i].pc \in {"check", "announce", "rules", "log"} =>
                Agrees(sweep'[i].copy, ticket)
           /\ tally'.edits = tally.edits
           /\ \/ tally'.touched /\ tally'.inPause = {}
              \/ /\ ticket'.prio = ticket.prio
                 /\ tally'.touched = tally.touched /\ tally'.inPause = tally.inPause
<1> DEFINE s == sweep[i]
           c == s.copy
<1>0. /\ Shapes /\ IsTally(tally) /\ IsRow(ticket) /\ IsRow(c)
      /\ s.pc \in {"check", "announce", "rules", "log"} => Agrees(c, ticket)
  BY DEF CopyInv, Shapes, Working
<1>1. ASSUME Others(i), UNCHANGED <<ticket, pauses>>,
             tally'.edits = tally.edits, tally'.touched = tally.touched,
             tally'.inPause = tally.inPause,
             \/ sweep'[i].pc \notin {"check", "announce", "rules", "log"}
             \/ Agrees(sweep'[i].copy, ticket)
      PROVE  /\ Others(i) /\ UNCHANGED pauses
             /\ ticket' = AsRow(ticket'.prio, ticket.policy, ticket.respDue, ticket.resDue,
                                ticket.responded, ticket.closed, ticket.status, ticket'.flags)
             /\ sweep'[i].pc \in {"check", "announce", "rules", "log"} =>
                  Agrees(sweep'[i].copy, ticket)
             /\ tally'.edits = tally.edits
             /\ \/ tally'.touched /\ tally'.inPause = {}
                \/ /\ ticket'.prio = ticket.prio
                   /\ tally'.touched = tally.touched /\ tally'.inPause = tally.inPause
  BY <1>0, <1>1 DEF IsRow
<1>2. CASE StartSweep(i)
  BY <1>0, <1>1, <1>2, StartStep DEF AsTally
<1>3. CASE Visit(i)
  <2>1. Others(i) /\ UNCHANGED <<ticket, pauses, tally>>
    BY <1>0, <1>3, VisitStep
  <2>2. \/ Empty(sweep'[i])
        \/ sweep'[i] = AsSweep("check", s.at, s.policy, Tail(s.todo), ticket.prio, ticket,
                               s.breaches, s.rules)
    BY <1>0, <1>3, VisitStep
  <2>3. \/ sweep'[i].pc \notin {"check", "announce", "rules", "log"}
        \/ Agrees(sweep'[i].copy, ticket)
    BY <2>2 DEF AsSweep, Empty, Agrees
  <2> QED BY <1>1, <2>1, <2>3
<1>4. CASE Check(i)
  <2> DEFINE late == Breached(s)
             d == AsRow(c.prio, c.policy, c.respDue, c.resDue, c.responded, c.closed,
                        c.status, c.flags \cup late)
  <2>1. /\ Others(i) /\ UNCHANGED tally /\ s.pc = "check"
        /\ ticket' = AsRow(ticket.prio, ticket.policy, ticket'.respDue, ticket'.resDue,
                           ticket.responded, ticket.closed, ticket.status,
                           ticket.flags \cup late)
        /\ c.status = ticket.status =>
             UNCHANGED pauses /\ ticket'.respDue = ticket.respDue
                              /\ ticket'.resDue = ticket.resDue
        /\ \/ sweep'[i] = NoSweep
           \/ sweep'[i] = AsSweep("announce", s.at, s.policy, s.todo, s.prio, d, late, s.rules)
    BY <1>0, <1>4, CheckStep
  <2>2. Agrees(c, ticket)
    BY <1>0, <2>1
  <2>3. Agrees(d, ticket)
    BY <2>2 DEF Agrees, AsRow
  <2> HIDE DEF d, late
  <2>4. sweep'[i].pc = "idle" \/ sweep'[i].copy = d
    BY <2>1, NoSweepIsEmpty DEF AsSweep
  <2>5. ticket'.prio = ticket.prio
    BY <2>1 DEF AsRow
  <2>6. UNCHANGED pauses /\ ticket'.respDue = ticket.respDue /\ ticket'.resDue = ticket.resDue
    BY <2>1, <2>2 DEF Agrees
  <2>7. ticket' = AsRow(ticket'.prio, ticket.policy, ticket.respDue, ticket.resDue,
                        ticket.responded, ticket.closed, ticket.status, ticket'.flags)
    BY <2>1, <2>6 DEF AsRow
  <2> QED BY <2>1, <2>3, <2>4, <2>5, <2>6, <2>7
<1>5. CASE Announce(i)
  <2>1. PICK k : sweep'[i] = AsSweep(s.pc, s.at, s.policy, s.todo, s.prio, s.copy,
                                     s.breaches \ {k}, s.rules)
    BY <1>0, <1>5, AnnounceStep
  <2>2. Others(i) /\ UNCHANGED <<ticket, pauses, tally>> /\ s.pc = "announce"
    BY <1>0, <1>5, AnnounceStep
  <2>3. sweep'[i].copy = c
    BY <2>1 DEF AsSweep
  <2> QED BY <1>0, <1>1, <2>2, <2>3
<1>6. CASE SelectRules(i)
  <2> DEFINE y == {r \in DOMAIN Rule : Due(r, s)}
  <2>1. /\ Others(i) /\ UNCHANGED <<ticket, pauses, tally>> /\ s.pc = "announce"
        /\ sweep'[i] = AsSweep("rules", s.at, s.policy, s.todo, s.prio, s.copy,
                               s.breaches, y)
    BY <1>0, <1>6, SelectStep
  <2> HIDE DEF y
  <2>2. sweep'[i].copy = c
    BY <2>1 DEF AsSweep
  <2> QED BY <1>0, <1>1, <2>1, <2>2
<1>7. ASSUME NEW r, ExecuteRule(i, r)
      PROVE  /\ Others(i) /\ UNCHANGED pauses
             /\ ticket' = AsRow(ticket'.prio, ticket.policy, ticket.respDue, ticket.resDue,
                                ticket.responded, ticket.closed, ticket.status, ticket'.flags)
             /\ sweep'[i].pc \in {"check", "announce", "rules", "log"} =>
                  Agrees(sweep'[i].copy, ticket)
             /\ tally'.edits = tally.edits
             /\ \/ tally'.touched /\ tally'.inPause = {}
                \/ /\ ticket'.prio = ticket.prio
                   /\ tally'.touched = tally.touched /\ tally'.inPause = tally.inPause
  <2> DEFINE d == AsRow(IF Rule[r].action = "change_priority" THEN Raised(c.prio) ELSE c.prio,
                        c.policy, c.respDue, c.resDue, c.responded, c.closed,
                        c.status, c.flags)
  <2>1. /\ Others(i) /\ s.pc = "rules"
        /\ ticket' = AsRow(ticket'.prio, ticket.policy, ticket'.respDue,
                           ticket'.resDue, ticket.responded, ticket.closed,
                           ticket.status, ticket.flags)
        /\ tally' = Touched \/ (tally' = tally /\ ticket'.prio = ticket.prio)
        /\ c.status = ticket.status =>
             UNCHANGED pauses /\ ticket'.respDue = ticket.respDue
                              /\ ticket'.resDue = ticket.resDue
        /\ \/ sweep'[i] = NoSweep
           \/ sweep'[i] = AsSweep("log", s.at, s.policy, s.todo, s.prio, d, s.breaches,
                                  s.rules)
    BY <1>0, <1>7, ExecuteStep
  <2>2. Agrees(c, ticket)
    BY <1>0, <2>1
  <2>3. Agrees(d, ticket)
    BY <2>2 DEF Agrees, AsRow
  <2> HIDE DEF d
  <2>4. sweep'[i].pc = "idle" \/ sweep'[i].copy = d
    BY <2>1, NoSweepIsEmpty DEF AsSweep
  <2>5. UNCHANGED pauses /\ ticket'.respDue = ticket.respDue /\ ticket'.resDue = ticket.resDue
    BY <2>1, <2>2 DEF Agrees
  <2>6. ticket' = AsRow(ticket'.prio, ticket.policy, ticket.respDue, ticket.resDue,
                        ticket.responded, ticket.closed, ticket.status, ticket'.flags)
    BY <2>1, <2>5 DEF AsRow
  <2>7. /\ Touched.edits = tally.edits /\ Touched.touched /\ Touched.inPause = {}
    BY <1>0, TouchedIs DEF AsTally
  <2> QED BY <2>1, <2>3, <2>4, <2>5, <2>6, <2>7
<1>8. ASSUME NEW r, LogRule(i, r)
      PROVE  /\ Others(i) /\ UNCHANGED <<ticket, pauses, tally>> /\ s.pc = "log"
             /\ sweep'[i].copy = c
  <2> DEFINE y == s.rules \ {r}
  <2>1. /\ Others(i) /\ UNCHANGED <<ticket, pauses, tally>> /\ s.pc = "log"
        /\ sweep'[i] = AsSweep("rules", s.at, s.policy, s.todo, s.prio, s.copy,
                               s.breaches, y)
    BY <1>0, <1>8, LogStep
  <2> HIDE DEF y
  <2> QED BY <2>1 DEF AsSweep
<1>9. CASE EndRules(i)
  BY <1>0, <1>1, <1>9, EndStep DEF Empty
<1>10. CASE Crash(i)
  <2>1. /\ tally'.edits = tally.edits /\ tally'.touched = tally.touched
        /\ tally'.inPause = tally.inPause
    BY <1>0, <1>10, CrashStep DEF AsTally
  <2> QED BY <1>0, <1>1, <1>10, <2>1, CrashStep, NoSweepIsEmpty
<1> QED BY <1>0, <1>1, <1>2, <1>3, <1>4, <1>5, <1>6, <1>7, <1>8, <1>9, <1>10 DEF Sweep

LEMMA InitCopy == Init => CopyInv
<1> SUFFICES ASSUME Init PROVE CopyInv
  OBVIOUS
<1>1. \A i \in Sweeper : sweep[i].pc = "idle"
  BY NoSweepIsEmpty DEF Init
<1> QED BY <1>1, InitShapes DEF CopyInv, Working

LEMMA NextCopy == CopyInv /\ [Next]_vars => CopyInv'
<1> SUFFICES ASSUME CopyInv, [Next]_vars PROVE CopyInv'
  OBVIOUS
<1>1. Shapes'
  BY NextShapes DEF CopyInv
<1> SUFFICES ASSUME ~Overlap, NEW j \in Sweeper, Working(j)' PROVE Agrees(sweep[j].copy, ticket)'
  BY <1>1 DEF CopyInv
<1>2. CASE Tick \/ UNCHANGED vars
  BY <1>2 DEF Tick, vars, CopyInv, Working, Agrees
<1>3. CASE Asked
  <2>1. Served /\ UNCHANGED sweep
    BY <1>3, AskedKeeps DEF CopyInv, Aside
  <2> QED BY <2>1 DEF Served, Working
<1>4. ASSUME NEW i \in Sweeper, Sweep(i) \/ Crash(i) PROVE Agrees(sweep[j].copy, ticket)'
  <2>1. /\ \A k \in Sweeper \ {i} : sweep'[k] = sweep[k]
        /\ ticket' = AsRow(ticket'.prio, ticket.policy, ticket.respDue, ticket.resDue,
                           ticket.responded, ticket.closed, ticket.status, ticket'.flags)
        /\ sweep'[i].pc \in {"check", "announce", "rules", "log"} =>
             Agrees(sweep'[i].copy, ticket)
    BY <1>4, WorkSteps DEF Others
  <2>2. \A t : Agrees(t, ticket) => Agrees(t, ticket')
    BY <2>1 DEF Agrees, AsRow
  <2>3. Agrees(sweep'[j].copy, ticket)
    BY <2>1 DEF CopyInv, Working
  <2> QED BY <2>2, <2>3 DEF Agrees
<1> QED BY <1>2, <1>3, <1>4, NextSteps

\* What a save of the sweep depends on: the overflow that stops it is out of the question
\* where requests come between tickets only, or where the rules save nothing.
Unbroken == ~Overlap \/ \A r \in DOMAIN Rule : Rule[r].action = "notify"

\* The workers that have executed r and not yet logged it, and those that are going to
\* execute it.
Acting(r)  == {i \in Sweeper : sweep[i].pc = "log" /\ Turn(r, sweep[i])}
Intent(r)  == {i \in Sweeper : /\ sweep[i].pc \in {"rules", "log"} /\ r \in sweep[i].rules
                               /\ ~(sweep[i].pc = "log" /\ Turn(r, sweep[i]))}

\* Until it is in the timeline, each execution of r is on its way to be logged there or
\* has lost its worker; afterwards the workers that have read the timeline before are left.
Sparing(r) ==
    IF r \in logged
    THEN fired[r] + Cardinality(Intent(r)) <= 1 + tally.crashes + tally.overlaps
    ELSE fired[r] <= tally.crashes + Cardinality(Acting(r))

RuleInv ==
    /\ fired \in [DOMAIN Rule -> Nat]
    /\ \A i \in Sweeper : sweep[i].rules \subseteq DOMAIN Rule
    /\ \A r \in DOMAIN Rule : Sparing(r)

LEMMA TurnIsOnes ==
    ASSUME NEW r \in DOMAIN Rule, NEW q \in DOMAIN Rule, NEW s, Turn(r, s), Turn(q, s)
    PROVE  r = q
<1>1. r <= q /\ q <= r
  BY DEF Turn
<1> DEFINE T == [policy : Priority, trigger : {"response", "resolution"}, after : Nat,
                 action : {"notify", "assign", "change_priority"}]
<1>2. Rule \in Seq(T)
  BY SlaAssumption DEF SlaAssumption
<1> HIDE DEF T
<1>3. DOMAIN Rule = 1 .. Len(Rule)
  BY <1>2
<1>4. r \in Nat /\ q \in Nat
  BY <1>3
<1> QED BY <1>1, <1>4

LEMMA RuleWorkers ==
    ASSUME NEW r
    PROVE  /\ Acting(r) \subseteq Running /\ Intent(r) \subseteq Running
           /\ Running \subseteq Sweeper /\ Acting(r) \cap Intent(r) = {}
           /\ Cardinality(Acting(r)) \in Nat /\ Cardinality(Intent(r)) \in Nat
           /\ Cardinality(Acting(r)) + Cardinality(Intent(r)) <= Cardinality(Running)
<1>1. /\ Acting(r) \subseteq Running /\ Intent(r) \subseteq Running
      /\ Running \subseteq Sweeper /\ Acting(r) \cap Intent(r) = {}
  BY DEF Acting, Intent, Running
<1>2. /\ Cardinality(Acting(r)) \in Nat /\ Cardinality(Intent(r)) \in Nat
  BY <1>1, Workers
<1> QED BY <1>1, <1>2, ApartWorkers

\* A step that executes and logs nothing.
LEMMA QuietRule ==
    ASSUME NoticeInv, RuleInv, NEW r \in DOMAIN Rule, UNCHANGED <<fired, logged>>,
           Counts(tally'), tally.crashes <= tally'.crashes, tally.overlaps <= tally'.overlaps,
           \/ Acting(r) \subseteq Acting(r)' /\ Acting(r)' \subseteq Sweeper
           \/ /\ tally'.crashes = tally.crashes + 1
              /\ \E i \in Sweeper : Acting(r)' = Acting(r) \ {i},
           r \in logged => Intent(r)' \subseteq Intent(r)
    PROVE  Sparing(r)'
<1> DEFINE n == fired[r]
           a == Cardinality(Acting(r))
           b == Cardinality(Acting(r)')
           c == Cardinality(Intent(r))
           d == Cardinality(Intent(r)')
           x == tally.crashes
           y == tally'.crashes
           o == tally.overlaps
           u == tally'.overlaps
<1>1. /\ Acting(r) \subseteq Sweeper /\ Intent(r) \subseteq Sweeper
      /\ Acting(r)' \subseteq Sweeper
  BY RuleWorkers DEF Running
<1>2. n \in Nat /\ x \in Nat /\ y \in Nat /\ o \in Nat /\ u \in Nat
  BY DEF RuleInv, NoticeInv, Shapes, Counts
<1>3. a \in Nat /\ b \in Nat /\ c \in Nat
  BY <1>1, Workers
<1>4. a <= b \/ (y = x + 1 /\ (b = a \/ b = a - 1))
  <2>1. CASE Acting(r) \subseteq Acting(r)'
    BY <1>1, <2>1, FewerWorkers
  <2>2. ASSUME NEW i \in Sweeper, Acting(r)' = Acting(r) \ {i} PROVE b = a \/ b = a - 1
    <3>1. CASE i \in Acting(r)
      BY <1>1, <2>2, <3>1, OneMore
    <3>2. CASE i \notin Acting(r)
      <4>1. Acting(r)' = Acting(r)
        BY <2>2, <3>2
      <4> QED BY <4>1
    <3> QED BY <3>1, <3>2
  <2> QED BY <2>1, <2>2
<1>5. r \in logged => d <= c /\ d \in Nat
  <2>1. ASSUME r \in logged PROVE Intent(r)' \subseteq Sweeper /\ Intent(r)' \subseteq Intent(r)
    BY <1>1, <2>1
  <2> QED BY <1>1, <2>1, FewerWorkers, Workers
<1>6. IF r \in logged THEN n + c <= 1 + x + o ELSE n <= x + a
  BY DEF RuleInv, Sparing
<1> HIDE DEF n, a, b, c, d, x, y, o, u
<1>7. x <= y /\ o <= u
  BY DEF x, y, o, u
<1>8. IF r \in logged THEN n + d <= 1 + y + u ELSE n <= y + b
  BY <1>2, <1>3, <1>4, <1>5, <1>6, <1>7
<1> QED BY <1>8 DEF Sparing, n, b, d, y, u

\* A step of a worker that does not touch its rules, or that begins or gives them up.
LEMMA QuietRules ==
    ASSUME NoticeInv, RuleInv, NEW i \in Sweeper, Others(i), UNCHANGED <<fired, logged>>,
           Counts(tally'), tally.crashes <= tally'.crashes, tally.overlaps <= tally'.overlaps,
           sweep'[i].rules \subseteq DOMAIN Rule, sweep'[i].pc # "log",
           sweep[i].pc # "log" \/ tally'.crashes = tally.crashes + 1,
           sweep'[i].pc = "rules" => sweep'[i].rules \cap logged = {}
    PROVE  RuleInv'
<1>1. ASSUME NEW r \in DOMAIN Rule PROVE Sparing(r)'
  <2>1. Acting(r)' = Acting(r) \ {i}
    BY DEF Acting, Others
  <2>2. sweep[i].pc # "log" => Acting(r)' = Acting(r)
    BY <2>1 DEF Acting
  <2>3. r \in logged => Intent(r)' \subseteq Intent(r)
    BY DEF Intent, Others
  <2>4. Acting(r)' \subseteq Sweeper
    BY <2>1 DEF Acting
  <2> QED BY <2>1, <2>2, <2>3, <2>4, QuietRule
<1> QED BY <1>1 DEF RuleInv, Others

LEMMA ExecuteRules ==
    ASSUME Unbroken, CopyInv, NoticeInv, RuleInv, NEW i \in Sweeper, NEW r \in DOMAIN Rule,
           ExecuteRule(i, r)
    PROVE  RuleInv'
<1> DEFINE s == sweep[i]
           c == s.copy
           d == AsRow(IF Rule[r].action = "change_priority" THEN Raised(c.prio) ELSE c.prio,
                      c.policy, c.respDue, c.resDue, c.responded, c.closed,
                      c.status, c.flags)
<1>1. /\ Others(i) /\ UNCHANGED logged
      /\ s.pc = "rules" /\ Turn(r, s) /\ fired' = [fired EXCEPT ![r] = @ + 1]
      /\ tally' \in {tally, Touched}
      /\ \/ sweep'[i] = NoSweep /\ Overflows(d) /\ Rule[r].action # "notify"
         \/ sweep'[i] = AsSweep("log", s.at, s.policy, s.todo, s.prio, d, s.breaches,
                                s.rules)
  BY ExecuteStep DEF NoticeInv
<1>2. d.status = c.status
  BY DEF AsRow
<1>3. ~(Overflows(d) /\ Rule[r].action # "notify")
  <2>1. ~Overlap => c.status = ticket.status
    BY <1>1 DEF CopyInv, Working, Agrees
  <2> QED BY <1>2, <2>1 DEF Unbroken, Overflows
<1> HIDE DEF d
<1>4. sweep'[i].pc = "log" /\ sweep'[i].rules = s.rules
  BY <1>1, <1>3 DEF AsSweep
<1>5. tally'.crashes = tally.crashes /\ tally'.overlaps = tally.overlaps
  BY <1>1, TouchedIs DEF AsTally, NoticeInv, Shapes
<1>6. /\ fired \in [DOMAIN Rule -> Nat] /\ fired[r] \in Nat /\ fired' \in [DOMAIN Rule -> Nat]
      /\ fired'[r] = fired[r] + 1 /\ \A q \in DOMAIN Rule \ {r} : fired'[q] = fired[q]
  BY <1>1 DEF RuleInv
<1>7. Turn(r, sweep'[i]) /\ \A q \in DOMAIN Rule \ {r} : ~Turn(q, sweep'[i])
  <2>1. \A q : Turn(q, sweep'[i]) <=> Turn(q, s)
    BY <1>4 DEF Turn
  <2> QED BY <1>1, <2>1, TurnIsOnes
<1>8. ASSUME NEW q \in DOMAIN Rule, q # r PROVE Sparing(q)'
  <2>1. Acting(q)' = Acting(q)
    BY <1>1, <1>4, <1>7, <1>8 DEF Acting, Others
  <2>2. Intent(q)' = Intent(q)
    BY <1>1, <1>4, <1>7, <1>8 DEF Intent, Others
  <2> QED BY <1>1, <1>5, <1>6, <1>8, <2>1, <2>2 DEF Sparing, RuleInv
<1>9. Sparing(r)'
  <2>1. Acting(r)' = Acting(r) \cup {i} /\ i \notin Acting(r)
    BY <1>1, <1>4, <1>7 DEF Acting, Others
  <2>2. Intent(r)' = Intent(r) \ {i} /\ i \in Intent(r)
    <3>1. r \in s.rules
      BY <1>1 DEF Turn
    <3> QED BY <1>1, <1>4, <1>7, <3>1 DEF Intent, Others
  <2> DEFINE n == fired[r]
             a == Cardinality(Acting(r))
             b == Cardinality(Acting(r)')
             e == Cardinality(Intent(r))
             f == Cardinality(Intent(r)')
  <2>3. b = a + 1 /\ f = e - 1
    <3>1. Acting(r) \subseteq Sweeper /\ Intent(r) \subseteq Sweeper
      BY RuleWorkers
    <3> QED BY <2>1, <2>2, <3>1, OneMore
  <2>4. a \in Nat /\ e \in Nat /\ n \in Nat
    BY <1>6, RuleWorkers
  <2>5. tally.crashes \in Nat /\ tally.overlaps \in Nat
    BY DEF NoticeInv, Shapes, Counts
  <2>6. IF r \in logged THEN n + e <= 1 + tally.crashes + tally.overlaps ELSE n <= tally.crashes + a
    BY DEF RuleInv, Sparing
  <2> HIDE DEF n, a, b, e, f
  <2>7. IF r \in logged THEN n + 1 + f <= 1 + tally.crashes + tally.overlaps
        ELSE n + 1 <= tally.crashes + b
    BY <2>3, <2>4, <2>5, <2>6
  <2> QED BY <1>1, <1>5, <1>6, <2>7 DEF Sparing, n, b, f
<1>10. \A j \in Sweeper : sweep'[j].rules \subseteq DOMAIN Rule
  BY <1>1, <1>4 DEF RuleInv, Others
<1> QED BY <1>6, <1>8, <1>9, <1>10 DEF RuleInv

LEMMA LogRules ==
    ASSUME NoticeInv, RuleInv, NEW i \in Sweeper, NEW r \in DOMAIN Rule, LogRule(i, r)
    PROVE  RuleInv'
<1> DEFINE s == sweep[i]
           y == s.rules \ {r}
<1>1. /\ Others(i) /\ UNCHANGED <<fired, tally>>
      /\ s.pc = "log" /\ Turn(r, s) /\ logged' = logged \cup {r}
      /\ sweep'[i] = AsSweep("rules", s.at, s.policy, s.todo, s.prio, s.copy, s.breaches, y)
  BY LogStep DEF NoticeInv
<1> HIDE DEF y
<1>2. sweep'[i].pc = "rules" /\ sweep'[i].rules = y
  BY <1>1 DEF AsSweep
<1>3. \A q \in DOMAIN Rule \ {r} : ~Turn(q, s)
  BY <1>1, TurnIsOnes
<1>4. ASSUME NEW q \in DOMAIN Rule, q # r PROVE Sparing(q)'
  <2>1. Acting(q)' = Acting(q)
    BY <1>1, <1>2, <1>3, <1>4 DEF Acting, Others
  <2>2. Intent(q)' = Intent(q)
    BY <1>1, <1>2, <1>3, <1>4 DEF Intent, Others, y
  <2> QED BY <1>1, <1>4, <2>1, <2>2 DEF Sparing, RuleInv
<1>5. Sparing(r)'
  <2>1. Intent(r)' = Intent(r)
    BY <1>1, <1>2 DEF Intent, Others, y
  <2> DEFINE n == fired[r]
             a == Cardinality(Acting(r))
             e == Cardinality(Intent(r))
             z == Cardinality(Running)
  <2>2. a \in Nat /\ e \in Nat /\ z \in Nat /\ a + e <= z /\ n \in Nat
    BY RuleWorkers, Workers DEF RuleInv
  <2>3. /\ tally.crashes \in Nat /\ tally.overlaps \in Nat /\ z <= 1 + tally.overlaps
    BY DEF NoticeInv, Shapes, Counts
  <2>4. n + e <= 1 + tally.crashes + tally.overlaps \/ n <= tally.crashes + a
    BY DEF RuleInv, Sparing
  <2> HIDE DEF n, a, e, z
  <2>5. n + e <= 1 + tally.crashes + tally.overlaps
    BY <2>2, <2>3, <2>4
  <2> QED BY <1>1, <2>1, <2>5 DEF Sparing, n, e
<1>6. \A j \in Sweeper : sweep'[j].rules \subseteq DOMAIN Rule
  BY <1>1, <1>2 DEF RuleInv, Others, y
<1> QED BY <1>1, <1>4, <1>5, <1>6 DEF RuleInv

LEMMA IdleRules ==
    ASSUME NoticeInv, RuleInv, NEW i \in Sweeper,
           \/ StartSweep(i) \/ Visit(i) \/ Check(i) \/ Announce(i) \/ SelectRules(i)
           \/ EndRules(i) \/ Crash(i)
    PROVE  RuleInv'
<1> DEFINE s == sweep[i]
<1>0. /\ Shapes /\ s.rules \subseteq DOMAIN Rule
      /\ tally.crashes \in Nat /\ tally.overlaps \in Nat
  BY DEF NoticeInv, RuleInv, Shapes, Counts
<1>1. Shapes' /\ Counts(tally')
  BY <1>0, SweepShapes DEF Sweep, Shapes
<1>2. ASSUME Others(i), UNCHANGED <<fired, logged, tally>>,
             sweep'[i].rules \subseteq DOMAIN Rule, s.pc # "log", sweep'[i].pc # "log",
             sweep'[i].pc = "rules" => sweep'[i].rules \cap logged = {}
      PROVE  RuleInv'
  BY <1>0, <1>1, <1>2, QuietRules
<1>3. CASE StartSweep(i)
  <2>1. tally'.crashes = tally.crashes /\ tally'.overlaps \in {tally.overlaps, tally.overlaps + 1}
    BY <1>0, <1>3, StartStep DEF AsTally
  <2>2. tally.crashes <= tally'.crashes /\ tally.overlaps <= tally'.overlaps
    BY <1>0, <2>1
  <2> QED BY <1>0, <1>1, <1>3, <2>2, StartStep, QuietRules DEF Empty
<1>4. CASE Visit(i)
  <2>1. Others(i) /\ UNCHANGED <<fired, logged, tally>> /\ s.pc = "scan"
    BY <1>0, <1>4, VisitStep
  <2>2. \/ Empty(sweep'[i])
        \/ sweep'[i] = AsSweep("check", s.at, s.policy, Tail(s.todo), ticket.prio, ticket,
                               s.breaches, s.rules)
    BY <1>0, <1>4, VisitStep
  <2>3. /\ sweep'[i].pc \notin {"log", "rules"} /\ sweep'[i].rules \subseteq DOMAIN Rule
    BY <1>0, <2>2 DEF AsSweep, Empty
  <2> QED BY <1>2, <2>1, <2>3
<1>5. CASE Check(i)
  <2> DEFINE late == Breached(s)
             d == AsRow(s.copy.prio, s.copy.policy, s.copy.respDue, s.copy.resDue,
                        s.copy.responded, s.copy.closed, s.copy.status, s.copy.flags \cup late)
  <2>1. /\ Others(i) /\ UNCHANGED <<fired, logged, tally>> /\ s.pc = "check"
        /\ \/ sweep'[i] = NoSweep
           \/ sweep'[i] = AsSweep("announce", s.at, s.policy, s.todo, s.prio, d, late, s.rules)
    BY <1>0, <1>5, CheckStep
  <2> HIDE DEF d, late
  <2>2. /\ sweep'[i].pc \notin {"log", "rules"} /\ sweep'[i].rules \subseteq DOMAIN Rule
    BY <1>0, <2>1, NoSweepIsEmpty DEF AsSweep, Empty
  <2> QED BY <1>2, <2>1, <2>2
<1>6. CASE Announce(i)
  <2>1. PICK k : sweep'[i] = AsSweep(s.pc, s.at, s.policy, s.todo, s.prio, s.copy,
                                     s.breaches \ {k}, s.rules)
    BY <1>0, <1>6, AnnounceStep
  <2>2. Others(i) /\ UNCHANGED <<fired, logged, tally>> /\ s.pc = "announce"
    BY <1>0, <1>6, AnnounceStep DEF Announce
  <2>3. sweep'[i].pc = "announce" /\ sweep'[i].rules = s.rules
    BY <2>1, <2>2 DEF AsSweep
  <2> QED BY <1>0, <1>2, <2>2, <2>3
<1>7. CASE SelectRules(i)
  <2> DEFINE y == {r \in DOMAIN Rule : Due(r, s)}
  <2>1. /\ Others(i) /\ UNCHANGED <<fired, logged, tally>> /\ s.pc = "announce"
        /\ sweep'[i] = AsSweep("rules", s.at, s.policy, s.todo, s.prio, s.copy,
                               s.breaches, y)
    BY <1>0, <1>7, SelectStep
  <2>2. y \subseteq DOMAIN Rule /\ y \cap logged = {}
    BY DEF Due
  <2> HIDE DEF y
  <2>3. sweep'[i].pc = "rules" /\ sweep'[i].rules = y
    BY <2>1 DEF AsSweep
  <2> QED BY <1>2, <2>1, <2>2, <2>3
<1>8. CASE EndRules(i)
  <2>1. /\ Others(i) /\ UNCHANGED <<fired, logged, tally>> /\ s.pc = "rules"
        /\ sweep'[i].pc \in {"idle", "scan"} /\ sweep'[i].rules = {}
    BY <1>0, <1>8, EndStep DEF Empty
  <2> QED BY <1>2, <2>1
<1>9. CASE Crash(i)
  <2>1. tally'.crashes = tally.crashes + 1 /\ tally'.overlaps = tally.overlaps
    BY <1>0, <1>9, CrashStep DEF AsTally
  <2>2. tally.crashes <= tally'.crashes /\ tally.overlaps <= tally'.overlaps
    BY <1>0, <2>1
  <2>3. /\ Others(i) /\ UNCHANGED <<fired, logged>>
        /\ sweep'[i].pc = "idle" /\ sweep'[i].rules = {}
    BY <1>0, <1>9, CrashStep, NoSweepIsEmpty DEF Empty
  <2> QED BY <1>1, <2>1, <2>2, <2>3, QuietRules
<1> QED BY <1>3, <1>4, <1>5, <1>6, <1>7, <1>8, <1>9

LEMMA InitRule == Init => RuleInv
<1> SUFFICES ASSUME Init PROVE RuleInv
  OBVIOUS
<1>1. \A i \in Sweeper : sweep[i].pc = "idle" /\ sweep[i].rules = {}
  BY NoSweepIsEmpty DEF Init, Empty
<1>2. logged = {} /\ fired = [r \in DOMAIN Rule |-> 0] /\ tally.crashes = 0
  BY DEF Init
<1>3. ASSUME NEW r \in DOMAIN Rule PROVE Sparing(r)
  <2>1. Cardinality(Acting(r)) \in Nat
    BY RuleWorkers
  <2> QED BY <1>2, <2>1 DEF Sparing
<1> QED BY <1>1, <1>2, <1>3 DEF RuleInv

LEMMA NextRule == Unbroken /\ CopyInv /\ NoticeInv /\ RuleInv /\ [Next]_vars => RuleInv'
<1> SUFFICES ASSUME Unbroken, CopyInv, NoticeInv, RuleInv, [Next]_vars PROVE RuleInv'
  OBVIOUS
<1>1. ASSUME UNCHANGED <<sweep, fired, logged>>, tally'.crashes = tally.crashes,
             tally'.overlaps = tally.overlaps
      PROVE  RuleInv'
  <2>1. ASSUME NEW r \in DOMAIN Rule PROVE Sparing(r)'
    <3>1. Acting(r)' = Acting(r) /\ Intent(r)' = Intent(r)
      BY <1>1 DEF Acting, Intent
    <3> QED BY <1>1, <3>1 DEF Sparing, RuleInv
  <2> QED BY <1>1, <2>1 DEF RuleInv
<1>2. CASE Tick \/ UNCHANGED vars
  BY <1>1, <1>2 DEF Tick, vars
<1>3. CASE Asked
  BY <1>1, <1>3, AskedKeeps DEF Aside, Same, NoticeInv
<1>4. ASSUME NEW i \in Sweeper, Sweep(i) \/ Crash(i) PROVE RuleInv'
  BY <1>4, IdleRules, ExecuteRules, LogRules DEF Sweep
<1> QED BY <1>2, <1>3, <1>4, NextSteps

\* tickets/tasks.py (_check_escalation_rules, _execute_rule): a rule is executed once, and
\* once more at most for every worker lost between its action and its row in the timeline
\* and for every sweep that begins before another has ended, if requests come between
\* tickets only or the rules only notify.
THEOREM NoticesStaySingle == Unbroken /\ Spec => []NoticesAreNotRepeated
<1>1. NoticeInv /\ RuleInv => \A r \in DOMAIN Rule : fired[r] <= 1 + tally.crashes + tally.overlaps
  <2> SUFFICES ASSUME NoticeInv, RuleInv, NEW r \in DOMAIN Rule
               PROVE  fired[r] <= 1 + tally.crashes + tally.overlaps
    OBVIOUS
  <2> DEFINE n == fired[r]
             a == Cardinality(Acting(r))
             e == Cardinality(Intent(r))
             z == Cardinality(Running)
  <2>1. a \in Nat /\ e \in Nat /\ z \in Nat /\ a + e <= z /\ n \in Nat
    BY RuleWorkers, Workers DEF RuleInv
  <2>2. /\ tally.crashes \in Nat /\ tally.overlaps \in Nat /\ z <= 1 + tally.overlaps
    BY DEF NoticeInv, Shapes, Counts
  <2>3. n + e <= 1 + tally.crashes + tally.overlaps \/ n <= tally.crashes + a
    BY DEF RuleInv, Sparing
  <2> HIDE DEF n, a, e, z
  <2>4. n <= 1 + tally.crashes + tally.overlaps
    BY <2>1, <2>2, <2>3
  <2> QED BY <2>4 DEF n
<1>2. NoticesAreNotRepeated <=>
        /\ \A k \in Kind : announced[k] <= (1 + tally.overlaps) * (1 + tally.cleared)
        /\ \A r \in DOMAIN Rule : fired[r] <= 1 + tally.crashes + tally.overlaps
  BY DEF NoticesAreNotRepeated
<1>3. ASSUME Unbroken PROVE Spec => []NoticesAreNotRepeated
  <2>1. Init => CopyInv /\ NoticeInv /\ RuleInv
    BY InitCopy, InitNotice, InitRule
  <2>2. CopyInv /\ NoticeInv /\ RuleInv /\ [Next]_vars => CopyInv' /\ NoticeInv' /\ RuleInv'
    BY <1>3, NextCopy, NextNotice, NextRule
  <2> QED BY <1>1, <1>2, <2>1, <2>2, BreachesAreToldOnce, PTL DEF Spec
<1> QED BY <1>3

-----------------------------------------------------------------------------
(* SlaClock: the pauses.                                                   *)

\* What an SLAPause row holds; to is NoTime while the pause is open.
Pause == [from : Nat, to : Int]

\* While requests come between tickets only, at most the last pause is open, and only
\* while the ticket waits (a late reply may have ended it before the wait is over).
PauseInv ==
    /\ now \in Nat
    /\ pauses \in Seq(Pause)
    /\ OpenPauses(pauses) \subseteq {Len(pauses)}
    /\ OpenPauses(pauses) # {} => ticket.status = "waiting"

LEMMA BeginPauseOpens ==
    ASSUME NEW ps \in Seq(Pause), OpenPauses(ps) = {}, now \in Nat
    PROVE  BeginPause(ps) \in Seq(Pause) /\ OpenPauses(BeginPause(ps)) = {Len(BeginPause(ps))}
<1> DEFINE p == [from |-> now, to |-> NoTime]
           qs == Append(ps, p)
<1>1. p \in Pause /\ p.to = NoTime
  BY DEF Pause, NoTime
<1> HIDE DEF p
<1>2. /\ qs \in Seq(Pause) /\ Len(qs) = Len(ps) + 1
      /\ \A i \in 1 .. Len(ps) : qs[i] = ps[i]
      /\ qs[Len(ps) + 1] = p
  BY <1>1
<1>3. DOMAIN qs = 1 .. Len(ps) + 1 /\ DOMAIN ps = 1 .. Len(ps) /\ Len(ps) \in Nat
  BY <1>2
<1>4. \A i \in DOMAIN ps : ps[i].to # NoTime
  BY DEF OpenPauses
<1>5. BeginPause(ps) = qs
  BY DEF BeginPause, p
<1> HIDE DEF qs
<1>6. OpenPauses(qs) = {Len(qs)}
  BY <1>1, <1>2, <1>3, <1>4 DEF OpenPauses
<1> QED BY <1>2, <1>5, <1>6

LEMMA EndPauseCloses ==
    ASSUME NEW ps \in Seq(Pause), OpenPauses(ps) \subseteq {Len(ps)}, now \in Nat
    PROVE  /\ EndPause(ps) \in Seq(Pause) /\ OpenPauses(EndPause(ps)) = {}
           /\ OpenPauses(ps) # {} => LastOpen(ps) = Len(ps) /\ LastOpen(ps) \in DOMAIN ps
<1>1. CASE OpenPauses(ps) = {}
  BY <1>1 DEF EndPause
<1>2. CASE OpenPauses(ps) # {}
  <2>1. OpenPauses(ps) = {Len(ps)} /\ Len(ps) \in DOMAIN ps /\ Len(ps) \in Nat
    BY <1>2 DEF OpenPauses
  <2>2. LastOpen(ps) = Len(ps)
    BY <2>1 DEF LastOpen
  <2> DEFINE q == [ps[Len(ps)] EXCEPT !.to = now]
             qs == [ps EXCEPT ![Len(ps)] = q]
  <2>3. q \in Pause /\ q.to = now
    <3>1. ps[Len(ps)] \in Pause
      BY <2>1
    <3> QED BY <3>1 DEF Pause
  <2>4. EndPause(ps) = qs
    BY <1>2, <2>2 DEF EndPause
  <2> HIDE DEF q
  <2>5. /\ qs \in Seq(Pause) /\ DOMAIN qs = DOMAIN ps /\ qs[Len(ps)] = q
        /\ \A i \in DOMAIN ps \ {Len(ps)} : qs[i] = ps[i]
    BY <2>1, <2>3
  <2>6. \A i \in DOMAIN ps : ps[i].to = NoTime => i = Len(ps)
    BY <2>1 DEF OpenPauses
  <2>7. now # NoTime
    BY DEF NoTime
  <2> HIDE DEF qs
  <2>8. OpenPauses(qs) = {}
    BY <2>1, <2>3, <2>5, <2>6, <2>7 DEF OpenPauses
  <2> QED BY <2>1, <2>2, <2>4, <2>5, <2>8
<1> QED BY <1>1, <1>2

LEMMA InitPause == Init => PauseInv
BY DEF Init, PauseInv, OpenPauses

\* What a request makes of the pauses: it begins one or ends one, or leaves them.
Begins == /\ pauses' = BeginPause(pauses) /\ OpenPauses(pauses) = {}
          /\ ticket'.status = "waiting" /\ Room /\ tally'.edits = tally.edits
Stops  == pauses' = EndPause(pauses)
Goes   == /\ pauses' = pauses
          /\ OpenPauses(pauses) # {} => ticket'.status = "waiting"

LEMMA PausesMove ==
    ASSUME PauseInv, NEW to, ticket'.status = to,
           pauses' = PausesAfter(pauses, ticket.status, to),
           to = "waiting" => ticket.status = "waiting" \/ Room, tally'.edits = tally.edits
    PROVE  /\ to = "waiting" /\ ticket.status # "waiting" => Begins
           /\ to # "waiting" /\ ticket.status = "waiting" => Stops
           /\ (to = "waiting") = (ticket.status = "waiting") => Goes
BY DEF PauseInv, PausesAfter, Begins, Stops, Goes

LEMMA RequestsPause ==
    ASSUME Shapes, PauseInv, NEW c, Request(c)
    PROVE  Begins \/ Stops \/ Goes
<1>t. IsTally(tally)
  BY DEF Shapes
<1>1. ASSUME NEW s \in Status, ChangeStatus(c, s) PROVE Begins \/ Stops \/ Goes
  <2>1. ticket'.status = s
    BY <1>1, StatusRow DEF AsRow
  <2>2. tally'.edits = tally.edits
    BY <1>1, <1>t, TouchedIs, PausedIs DEF AsTally, ChangeStatus
  <2>3. pauses' = PausesAfter(pauses, ticket.status, s) /\ (s = "waiting" => Room)
    BY <1>1 DEF ChangeStatus
  <2> QED BY <2>1, <2>2, <2>3, PausesMove
<1>2. ASSUME CustomerReply(c) PROVE Stops
  BY <1>2 DEF CustomerReply, Stops
<1>3. ASSUME Respond(c) PROVE Goes
  <2>1. ticket'.status = ticket.status
    BY <1>3, RespondRow DEF AsRow
  <2> QED BY <1>3, <2>1 DEF Respond, Goes, PauseInv
<1>4. ASSUME Escalate(c) PROVE Stops \/ Goes
  <2>1. ticket'.status = ticket.status
    BY <1>4, EscalateRow DEF AsRow
  <2> QED BY <1>4, <2>1 DEF Escalate, Stops, Goes, PauseInv
<1>5. ASSUME NEW p \in Priority, ChangePriority(c, p) PROVE Stops \/ Goes
  <2>1. ticket'.status = ticket.status
    BY <1>5, PriorityRow DEF AsRow
  <2>2. pauses' = pauses \/ pauses' = EndPause(pauses)
    BY <1>5 DEF ChangePriority, SaveCopy, Overflows
  <2> QED BY <2>1, <2>2 DEF Stops, Goes, PauseInv
<1>6. ASSUME Patch(c) PROVE Begins \/ Stops \/ Goes
  <2>1. ticket'.status = c.status
    BY <1>6, PatchRow DEF AsRow
  <2>2. tally'.edits = tally.edits
    BY <1>6, PatchTally
  <2>3. /\ pauses' = PausesAfter(pauses, ticket.status, c.status)
        /\ c.status = "waiting" => ticket.status = "waiting" \/ Room
    BY <1>6 DEF Patch
  <2> QED BY <2>1, <2>2, <2>3, PausesMove
<1> QED BY <1>1, <1>2, <1>3, <1>4, <1>5, <1>6 DEF Request

\* Loads and policy edits leave them.
LEMMA AskedPause ==
    ASSUME Shapes, PauseInv, Asked
    PROVE  /\ UNCHANGED now /\ Served
           /\ Begins \/ Stops \/ Goes
<1>1. UNCHANGED now /\ Served
  BY AskedKeeps DEF Aside
<1>2. ASSUME NEW p \in Priority, \/ Propagate(p)
                                 \/ \E target \in Targets : EditPolicy(p, target)
      PROVE  Goes
  <2>1. UNCHANGED pauses /\ IsRow(ticket)
        /\ (ticket' = ticket \/ \E target : ticket' = Recomputed(target))
    BY <1>2 DEF Propagate, EditPolicy, Shapes
  <2>2. ticket'.status = ticket.status
    BY <2>1, RecomputedIs DEF AsRow
  <2> QED BY <2>1, <2>2 DEF Goes, PauseInv
<1>3. Load => Goes
  BY DEF Load, Goes, PauseInv
<1> QED BY <1>1, <1>2, <1>3, RequestsPause DEF Asked

LEMMA NextPause ==
    ASSUME ~Overlap, CopyInv, PauseInv, [Next]_vars
    PROVE  PauseInv'
<1>1. CASE Tick \/ UNCHANGED vars
  BY <1>1 DEF Tick, vars, PauseInv
<1>2. ASSUME UNCHANGED now, Begins \/ Stops \/ Goes PROVE PauseInv'
  <2>1. CASE Begins
    BY <1>2, <2>1, BeginPauseOpens DEF Begins, PauseInv
  <2>2. CASE Stops
    <3>1. /\ EndPause(pauses) \in Seq(Pause) /\ OpenPauses(EndPause(pauses)) = {}
          /\ now \in Nat
      BY EndPauseCloses DEF PauseInv
    <3>2. pauses' = EndPause(pauses) /\ now' = now
      BY <1>2, <2>2 DEF Stops
    <3>3. OpenPauses(pauses)' = {} /\ pauses' \in Seq(Pause) /\ now' \in Nat
      BY <3>1, <3>2
    <3> QED BY <3>3 DEF PauseInv
  <2>3. CASE Goes
    BY <1>2, <2>3 DEF Goes, PauseInv
  <2> QED BY <1>2, <2>1, <2>2, <2>3
<1>3. CASE Asked
  BY <1>2, <1>3, AskedPause DEF CopyInv
<1>4. ASSUME NEW i \in Sweeper, Sweep(i) \/ Crash(i) PROVE PauseInv'
  <2>1. UNCHANGED <<now, pauses>> /\ ticket'.status = ticket.status
    BY <1>4, WorkSteps DEF Others, AsRow
  <2> QED BY <2>1 DEF PauseInv
<1> QED BY <1>1, <1>3, <1>4, NextSteps

\* A pause is open only while the ticket waits.
PausesAreWaits ==
    OpenPauses(pauses) # {} => ticket.status = "waiting"

\* handle_sla_pause_on_status_change (tickets/signals.py): as long as no request comes
\* between the steps of one ticket's check, and a request looks at the row when it saves,
\* a ticket has at most one open pause, and none unless it waits, whatever the instances
\* that requests have loaded and however many sweeps are at it.
THEOREM PausesNeverDouble == ~Overlap /\ Spec => [](NoDuplicatePauses /\ PausesAreWaits)
<1>1. PauseInv => NoDuplicatePauses /\ PausesAreWaits
  <2> SUFFICES ASSUME PauseInv PROVE NoDuplicatePauses /\ PausesAreWaits
    OBVIOUS
  <2>1. OpenPauses(pauses) = {} \/ OpenPauses(pauses) = {Len(pauses)}
    BY DEF PauseInv
  <2>2. Cardinality(OpenPauses(pauses)) = 0 \/ Cardinality(OpenPauses(pauses)) = 1
    BY <2>1, FS_EmptySet, FS_Singleton
  <2> QED BY <2>2 DEF NoDuplicatePauses, PausesAreWaits, PauseInv
<1>2. ASSUME ~Overlap PROVE Spec => [](NoDuplicatePauses /\ PausesAreWaits)
  <2>1. CopyInv /\ PauseInv /\ [Next]_vars => CopyInv' /\ PauseInv'
    BY <1>2, NextCopy, NextPause
  <2> QED BY <1>1, <2>1, InitCopy, InitPause, PTL DEF Spec
<1> QED BY <1>2

-----------------------------------------------------------------------------
(* SlaClock: business time.                                                *)

\* Every set of naturals with a member has a least one.
LEMMA Least ==
    ASSUME NEW T \in SUBSET Nat, T # {}
    PROVE  \E t \in T : \A u \in T : t <= u
<1>1. IsWellFoundedOn(OpToRel(<, Nat), Nat)
  BY NatLessThanWellFounded
<1>2. PICK t \in T : \A u \in T : ~ (<<u, t>> \in OpToRel(<, Nat))
  BY <1>1, WFMin
<1>3. \A u \in T : ~ (u < t)
  BY <1>2 DEF OpToRel
<1> QED BY <1>3

LEMMA OpenAreNats == \A m \in OpenMinutes : m \in Nat
<1>1. OpenMinutes \subseteq Nat
  BY SlaAssumption DEF SlaAssumption
<1> QED BY <1>1

\* The open minutes in [from, to).
OpenIn(from, to) == {m \in OpenMinutes : from <= m /\ m < to}

LEMMA OpenIsFinite ==
    ASSUME NEW from \in Int, NEW to \in Int
    PROVE  IsFiniteSet(OpenIn(from, to)) /\ Cardinality(OpenIn(from, to)) \in Nat
<1>1. \A m \in OpenMinutes : m \in Nat
  BY OpenAreNats
<1>2. OpenIn(from, to) \in SUBSET (0 .. to)
  BY <1>1 DEF OpenIn
<1>3. IsFiniteSet(0 .. to)
  BY FS_Interval
<1>4. IsFiniteSet(OpenIn(from, to))
  BY <1>2, <1>3, FS_Subset
<1> QED BY <1>4, FS_CardinalityType

LEMMA OpenSplits ==
    ASSUME NEW from \in Int, NEW mid \in Int, NEW to \in Int, from <= mid, mid <= to
    PROVE  Cardinality(OpenIn(from, to))
             = Cardinality(OpenIn(from, mid)) + Cardinality(OpenIn(mid, to))
<1>0. PICK A, B : A = OpenIn(from, mid) /\ B = OpenIn(mid, to)
  OBVIOUS
<1>1. \A m \in OpenMinutes : m \in Nat
  BY OpenAreNats
<1>2. OpenIn(from, to) = A \cup B /\ A \cap B = {}
  BY <1>0, <1>1 DEF OpenIn
<1>3. IsFiniteSet(A) /\ IsFiniteSet(B) /\ Cardinality(A) \in Nat /\ Cardinality(B) \in Nat
  BY <1>0, OpenIsFinite
<1>4. Cardinality(A \cup B) = Cardinality(A) + Cardinality(B) - Cardinality(A \cap B)
  BY <1>3, FS_Union
<1>5. Cardinality(A \cap B) = 0
  BY <1>2, FS_EmptySet
<1> QED BY <1>0, <1>2, <1>3, <1>4, <1>5

LEMMA WorkedCounts ==
    ASSUME NEW t \in 0 .. Horizon
    PROVE  Worked[t] = Cardinality(OpenIn(0, t)) /\ Worked[t] \in Nat /\ t \in Nat
<1>1. (\A m \in OpenMinutes : m \in Nat) /\ Horizon \in Nat
  BY OpenAreNats, SlaAssumption DEF SlaAssumption
<1>2. OpenIn(0, t) = {m \in OpenMinutes : m < t}
  BY <1>1 DEF OpenIn
<1>3. Worked[t] = Cardinality({m \in OpenMinutes : m < t})
  BY DEF Worked
<1>4. Cardinality(OpenIn(0, t)) \in Nat /\ t \in Nat
  BY <1>1, OpenIsFinite
<1>5. Worked[t] = Cardinality(OpenIn(0, t))
  BY <1>2, <1>3, Zenon
<1> QED BY <1>4, <1>5

\* The business minutes between two times are the open ones; the later the time, the
\* more there are.
LEMMA BusinessCounts ==
    ASSUME NEW from \in 0 .. Horizon, NEW to \in 0 .. Horizon
    PROVE  /\ Worked[from] \in Nat /\ Worked[to] \in Nat
           /\ Business(from, to) = Cardinality(OpenIn(from, to))
           /\ Business(from, to) = IF from < to THEN Worked[to] - Worked[from] ELSE 0
           /\ Business(from, to) \in Nat
           /\ from <= to => Worked[from] <= Worked[to]
<1>1. /\ Worked[from] = Cardinality(OpenIn(0, from)) /\ Worked[from] \in Nat /\ from \in Nat
      /\ Worked[to] = Cardinality(OpenIn(0, to)) /\ Worked[to] \in Nat /\ to \in Nat
  BY WorkedCounts
<1>2. Business(from, to) = IF from < to THEN Worked[to] - Worked[from] ELSE 0
  BY DEF Business
<1>3. IsFiniteSet(OpenIn(from, to)) /\ Cardinality(OpenIn(from, to)) \in Nat
  BY <1>1, OpenIsFinite
<1>4. CASE from <= to
  <2>1. Cardinality(OpenIn(0, to)) = Cardinality(OpenIn(0, from)) + Cardinality(OpenIn(from, to))
    BY <1>1, <1>4, OpenSplits
  <2> QED BY <1>1, <1>2, <1>3, <1>4, <2>1
<1>5. CASE from > to
  <2>1. OpenIn(from, to) = {}
    BY <1>1, <1>5, OpenAreNats DEF OpenIn
  <2> QED BY <1>1, <1>2, <1>5, <2>1, FS_EmptySet
<1> QED BY <1>1, <1>4, <1>5

\* A tick adds a business minute or none.
LEMMA WorkedTicks ==
    ASSUME NEW t \in Nat, t + 1 \in 0 .. Horizon
    PROVE  /\ Worked[t + 1] = Worked[t] + Cardinality(OpenIn(t, t + 1))
           /\ Cardinality(OpenIn(t, t + 1)) <= 1
<1>1. t \in 0 .. Horizon
  BY SlaAssumption DEF SlaAssumption
<1>2. /\ Business(t, t + 1) = Worked[t + 1] - Worked[t]
      /\ Business(t, t + 1) = Cardinality(OpenIn(t, t + 1))
      /\ Worked[t] \in Nat /\ Worked[t + 1] \in Nat
  BY <1>1, BusinessCounts
<1>3. OpenIn(t, t + 1) \in SUBSET {t}
  BY OpenAreNats DEF OpenIn
<1>4. Cardinality(OpenIn(t, t + 1)) <= Cardinality({t}) /\ Cardinality({t}) = 1
  BY <1>3, FS_Subset, FS_Singleton
<1> QED BY <1>2, <1>4

LEMMA WorkedStarts == 0 \in 0 .. Horizon /\ Worked[0] = 0
<1>1. 0 \in 0 .. Horizon
  BY SlaAssumption DEF SlaAssumption
<1>2. OpenIn(0, 0) = {}
  BY OpenAreNats DEF OpenIn
<1> QED BY <1>1, <1>2, WorkedCounts, FS_EmptySet

\* add_business_minutes finds the instant if the calendar is long enough: the first one
\* with that many more business minutes before it.
LEMMA AddCounts ==
    ASSUME NEW from \in 0 .. Horizon, NEW m \in Nat, Worked[from] + m <= Worked[Horizon]
    PROVE  LET due == AddBusiness(from, m)
           IN  due \in 0 .. Horizon /\ due >= from /\ Worked[due] = Worked[from] + m
<1>h. /\ Horizon \in Nat /\ Horizon \in 0 .. Horizon /\ from \in Nat
      /\ Worked[from] \in Nat /\ Worked[Horizon] \in Nat
  BY SlaAssumption, WorkedCounts DEF SlaAssumption
<1>1. CASE m = 0
  BY <1>1, <1>h DEF AddBusiness
<1>2. CASE m # 0
  <2> DEFINE T == {t \in from + 1 .. Horizon : Worked[t] >= Worked[from] + m}
             P(t) == Business(from, t) = m /\ Business(from, t - 1) < m
  <2>1. from < Horizon
    BY <1>2, <1>h
  <2>2. Horizon \in T /\ T \in SUBSET Nat
    BY <1>h, <2>1
  <2>3. PICK t \in T : \A u \in T : t <= u
    BY <2>2, Least
  <2>4. /\ t \in 0 .. Horizon /\ t - 1 \in 0 .. Horizon /\ t - 1 \in Nat /\ t - 1 + 1 = t
        /\ from < t /\ from <= t - 1
    BY <1>h, <2>3
  <2>5. /\ Worked[t - 1] \in Nat /\ Worked[t] \in Nat
        /\ Business(from, t) = Worked[t] - Worked[from]
        /\ Business(from, t - 1) = IF from < t - 1 THEN Worked[t - 1] - Worked[from] ELSE 0
    BY <2>4, BusinessCounts
  <2>6. Worked[t] <= Worked[t - 1] + 1
    <3>1. Worked[t - 1 + 1] = Worked[t - 1] + Cardinality(OpenIn(t - 1, t - 1 + 1))
          /\ Cardinality(OpenIn(t - 1, t - 1 + 1)) <= 1
      BY <2>4, WorkedTicks
    <3>2. Cardinality(OpenIn(t - 1, t - 1 + 1)) \in Nat
      BY <2>4, OpenIsFinite
    <3> QED BY <2>4, <2>5, <3>1, <3>2
  <2>7. Worked[t - 1] < Worked[from] + m
    <3>1. CASE t - 1 = from
      BY <1>2, <1>h, <3>1
    <3>2. CASE t - 1 # from
      <4>1. t - 1 \notin T
        BY <2>3, <2>4
      <4>2. t - 1 \in from + 1 .. Horizon
        BY <1>h, <2>4, <3>2
      <4> QED BY <1>h, <2>5, <4>1, <4>2
    <3> QED BY <3>1, <3>2
  <2>8. Worked[t] >= Worked[from] + m
    BY <2>3
  <2>9. t \in from + 1 .. Horizon /\ P(t)
    BY <1>2, <1>h, <2>3, <2>4, <2>5, <2>6, <2>7, <2>8
  <2>10. AddBusiness(from, m) = CHOOSE d \in (from + 1) .. Horizon : P(d)
    BY <1>2 DEF AddBusiness
  <2>11. PICK d \in from + 1 .. Horizon : d = AddBusiness(from, m) /\ P(d)
    <3> HIDE DEF P
    <3> QED BY <2>9, <2>10
  <2>12. d \in 0 .. Horizon /\ d >= from /\ from < d
    BY <1>h
  <2>13. Business(from, d) = Worked[d] - Worked[from] /\ Worked[d] \in Nat
    BY <2>12, BusinessCounts
  <2> QED BY <1>h, <2>11, <2>12, <2>13
<1> QED BY <1>1, <1>2

-----------------------------------------------------------------------------
(* SlaClock: the deadlines.                                                *)

\* The minutes by which an event moves a deadline at most.
Most ==
    CHOOSE most \in 0 .. Horizon :
        /\ Worked[MaxTime] < most
        /\ \A target \in Targets : target.resp <= most /\ target.res <= most
        /\ most * (MaxEvents + 2) <= Worked[Horizon]

LEMMA MostFacts ==
    /\ MaxTime \in Nat /\ MaxEvents \in Nat /\ Horizon \in Nat /\ MaxTime <= Horizon
    /\ Most \in Nat /\ Worked[MaxTime] < Most
    /\ \A target \in Targets : target.resp \in 0 .. Most /\ target.res \in 0 .. Most
    /\ Most * (MaxEvents + 2) <= Worked[Horizon]
<1> DEFINE P(most) ==
        /\ Worked[MaxTime] < most
        /\ \A target \in Targets : target.resp <= most /\ target.res <= most
        /\ most * (MaxEvents + 2) <= Worked[Horizon]
<1>1. (\E most \in 0 .. Horizon : P(most)) /\ MaxTime <= Horizon
  BY HorizonAssumption DEF HorizonAssumption
<1>2. Most = CHOOSE most \in 0 .. Horizon : P(most)
  BY DEF Most
<1>3. PICK most \in 0 .. Horizon : most = Most /\ P(most)
  <2> HIDE DEF P
  <2> QED BY <1>1, <1>2
<1>4. MaxTime \in Nat /\ MaxEvents \in Nat /\ Horizon \in Nat
  BY SlaAssumption DEF SlaAssumption
<1>5. \A target \in Targets : target.resp \in Nat /\ target.res \in Nat
  BY SlaAssumption DEF SlaAssumption
<1> QED BY <1>1, <1>3, <1>4, <1>5

\* After n events a deadline is at most so far.
Fits(due, n) == due \in 0 .. Horizon /\ Worked[due] <= Most * (n + 1)

LEMMA MostScales ==
    ASSUME NEW n \in Nat, NEW k \in Nat, n <= k
    PROVE  /\ Most * (n + 1) \in Nat /\ Most * (n + 1) <= Most * (k + 1)
           /\ Most * (n + 1) + Most = Most * (n + 1 + 1) /\ Most <= Most * (n + 1)
<1> DEFINE a == Most
<1>1. a \in Nat
  BY MostFacts
<1> HIDE DEF a
<1>2. a * (n + 1) \in Nat /\ a * (n + 1) = a * n + a /\ a * (n + 1 + 1) = a * (n + 1) + a
  BY <1>1
<1>3. a * (n + 1) <= a * (k + 1)
  <2>1. PICK d \in Nat : k = n + d
    <3>1. k - n \in Nat /\ k = n + (k - n)
      OBVIOUS
    <3> QED BY <3>1
  <2>2. a * (n + d + 1) = a * (n + 1) + a * d
    BY <1>1, <2>1
  <2>3. a * d \in Nat
    BY <1>1, <2>1
  <2> QED BY <1>2, <2>1, <2>2, <2>3
<1>4. a * n \in Nat
  BY <1>1
<1> QED BY <1>1, <1>2, <1>3, <1>4 DEF a

LEMMA FitsLater ==
    ASSUME NEW due, NEW n \in Nat, NEW k \in Nat, n <= k, Fits(due, n)
    PROVE  Fits(due, k) /\ due \in Nat
<1>1. due \in 0 .. Horizon /\ Worked[due] <= Most * (n + 1)
  BY DEF Fits
<1>2. Worked[due] \in Nat /\ due \in Nat
  BY <1>1, WorkedCounts
<1>3. Most * (n + 1) \in Nat /\ Most * (k + 1) \in Nat /\ Most * (n + 1) <= Most * (k + 1)
  BY MostScales
<1> QED BY <1>1, <1>2, <1>3 DEF Fits

\* One more event moves a deadline on by its minutes.
LEMMA AddFits ==
    ASSUME NEW due, NEW n \in Nat, n <= MaxEvents, Fits(due, n), NEW m \in 0 .. Most
    PROVE  LET d == AddBusiness(due, m)
           IN  Fits(d, n + 1) /\ d >= due /\ Worked[d] = Worked[due] + m
<1>1. due \in 0 .. Horizon /\ Worked[due] <= Most * (n + 1) /\ m \in Nat /\ Most \in Nat
  BY MostFacts DEF Fits
<1>2. Worked[due] \in Nat
  BY <1>1, WorkedCounts
<1>3. /\ Most * (n + 1) \in Nat /\ Most * (n + 1 + 1) = Most * (n + 1) + Most
      /\ n + 1 \in Nat
  BY MostScales
<1>4. Most * (n + 1 + 1) <= Worked[Horizon] /\ Worked[Horizon] \in Nat
  <2>1. MaxEvents + 1 \in Nat /\ n + 1 <= MaxEvents + 1 /\ MaxEvents + 1 + 1 = MaxEvents + 2
        /\ Horizon \in 0 .. Horizon
    BY MostFacts
  <2>2. Most * (n + 1 + 1) <= Most * (MaxEvents + 1 + 1) /\ Most * (n + 1 + 1) \in Nat
        /\ Most * (MaxEvents + 1 + 1) \in Nat
    BY <1>3, <2>1, MostScales
  <2>3. Worked[Horizon] \in Nat
    BY <2>1, WorkedCounts
  <2>4. Most * (MaxEvents + 1 + 1) <= Worked[Horizon]
    BY <2>1, MostFacts
  <2> QED BY <2>2, <2>3, <2>4
<1>5. Worked[due] + m <= Worked[Horizon]
  BY <1>1, <1>2, <1>3, <1>4
<1> DEFINE d == AddBusiness(due, m)
<1>6. d \in 0 .. Horizon /\ d >= due /\ Worked[d] = Worked[due] + m
  BY <1>1, <1>5, AddCounts
<1> HIDE DEF d
<1>7. Fits(d, n + 1)
  BY <1>1, <1>2, <1>3, <1>6 DEF Fits
<1> QED BY <1>6, <1>7 DEF d

\* What a ticket is promised at its creation fits.
LEMMA PromiseFits ==
    ASSUME NEW m \in 0 .. Most
    PROVE  Fits(AddBusiness(0, m), 0) /\ Worked[AddBusiness(0, m)] = m
<1>1. 0 \in 0 .. Horizon /\ Worked[0] = 0 /\ Most \in Nat
  BY WorkedStarts, MostFacts
<1>2. Most <= Worked[Horizon] /\ Worked[Horizon] \in Nat
  <2>1. MaxEvents + 1 \in Nat /\ MaxEvents + 1 + 1 = MaxEvents + 2 /\ Horizon \in 0 .. Horizon
    BY MostFacts
  <2>2. Most <= Most * (MaxEvents + 1 + 1) /\ Most * (MaxEvents + 1 + 1) \in Nat
    BY <2>1, MostScales
  <2>3. Worked[Horizon] \in Nat
    BY <2>1, WorkedCounts
  <2> QED BY <1>1, <2>1, <2>2, <2>3, MostFacts
<1>3. Worked[0] + m <= Worked[Horizon] /\ m \in Nat
  BY <1>1, <1>2
<1> DEFINE d == AddBusiness(0, m)
<1>4. d \in 0 .. Horizon /\ Worked[d] = Worked[0] + m
  BY <1>1, <1>3, AddCounts
<1> HIDE DEF d
<1>5. Most <= Most * (0 + 1) /\ Most * (0 + 1) \in Nat
  BY MostScales
<1> QED BY <1>1, <1>4, <1>5 DEF Fits, d

LEMMA RowTimes ==
    ASSUME NEW ps \in Seq(Pause)
    PROVE  \A i \in DOMAIN ps : ps[i].from \in Nat /\ ps[i].to \in Int
<1>1. \A i \in DOMAIN ps : ps[i] \in Pause
  OBVIOUS
<1> QED BY <1>1 DEF Pause

\* A time of one of the pauses ps is no later than t.
Past(ps, t) ==
    \A i \in DOMAIN ps : ps[i].from <= t /\ (ps[i].to = NoTime \/ ps[i].to \in ps[i].from .. t)

\* What has moved the deadlines so far: ended pauses and edits, or instances loaded early.
Spent == Len(pauses) - (IF OpenPauses(pauses) = {} THEN 0 ELSE 1) + tally.edits

\* Both deadlines of u fit n events, and neither is before that of the ticket.
FitBoth(u, n) == Fits(u.respDue, n) /\ Fits(u.resDue, n)
Ahead(u)      == u.respDue >= ticket.respDue /\ u.resDue >= ticket.resDue

\* What the handlers compute deadlines from: the promise of a priority, which no copy
\* leads out of the ladder, and deadlines, which so many events have moved on by Most
\* minutes at most; those of an instance loaded early are one event behind.
DueInv ==
    /\ policy \in [Priority -> Targets]
    /\ ticket.prio \in Priority
    /\ \A i \in Sweeper : sweep[i].copy.prio \in Priority
    /\ now <= MaxTime
    /\ Past(pauses, now)
    /\ Len(pauses) + tally.edits <= MaxEvents
    /\ FitBoth(ticket, Spent)
    /\ \A c \in held : c.prio \in Priority /\ Spent >= 1 /\ FitBoth(c, Spent - 1)

LEMMA SpentInRange ==
    ASSUME Shapes, PauseInv, DueInv
    PROVE  /\ Spent \in Nat /\ Spent <= MaxEvents /\ Len(pauses) \in Nat /\ MaxEvents \in Nat
           /\ tally.edits \in Nat
           /\ OpenPauses(pauses) # {} =>
                  Spent < MaxEvents /\ Spent = Len(pauses) - 1 + tally.edits
           /\ OpenPauses(pauses) = {} => Spent = Len(pauses) + tally.edits
<1>1. Len(pauses) \in Nat /\ MaxEvents \in Nat /\ tally.edits \in Nat
      /\ Len(pauses) + tally.edits <= MaxEvents
  BY MostFacts DEF PauseInv, DueInv, Shapes, Counts
<1>2. OpenPauses(pauses) # {} => Len(pauses) >= 1
  <2>1. OpenPauses(pauses) # {} => Len(pauses) \in DOMAIN pauses
    BY DEF PauseInv, OpenPauses
  <2> QED BY <2>1 DEF PauseInv
<1> QED BY <1>1, <1>2 DEF Spent

\* The pauses after one has begun or ended now.
LEMMA BeginPauseRows ==
    ASSUME NEW ps \in Seq(Pause), now \in Nat, Past(ps, now)
    PROVE  /\ Len(BeginPause(ps)) = Len(ps) + 1 /\ Past(BeginPause(ps), now)
           /\ DOMAIN BeginPause(ps) = DOMAIN ps \cup {Len(ps) + 1}
           /\ Len(ps) + 1 \notin DOMAIN ps
           /\ \A i \in DOMAIN ps : BeginPause(ps)[i] = ps[i]
           /\ BeginPause(ps)[Len(ps) + 1] = [from |-> now, to |-> NoTime]
<1> DEFINE p == [from |-> now, to |-> NoTime]
           qs == Append(ps, p)
<1>1. p \in Pause /\ p.to = NoTime /\ p.from = now
  BY DEF Pause, NoTime
<1> HIDE DEF p
<1>2. /\ qs \in Seq(Pause) /\ Len(qs) = Len(ps) + 1
      /\ \A i \in 1 .. Len(ps) : qs[i] = ps[i]
      /\ qs[Len(ps) + 1] = p
  BY <1>1
<1>3. DOMAIN qs = 1 .. Len(ps) + 1 /\ DOMAIN ps = 1 .. Len(ps) /\ Len(ps) \in Nat
  BY <1>2
<1>4. BeginPause(ps) = qs
  BY DEF BeginPause, p
<1> HIDE DEF qs
<1>5. Past(qs, now)
  <2> SUFFICES ASSUME NEW i \in DOMAIN qs
               PROVE  qs[i].from <= now /\ (qs[i].to = NoTime \/ qs[i].to \in qs[i].from .. now)
    BY DEF Past
  <2>1. CASE i \in DOMAIN ps
    BY <1>2, <1>3, <2>1 DEF Past
  <2>2. CASE i = Len(ps) + 1
    BY <1>1, <1>2, <2>2
  <2> QED BY <1>3, <2>1, <2>2
<1>6. DOMAIN qs = DOMAIN ps \cup {Len(ps) + 1} /\ Len(ps) + 1 \notin DOMAIN ps
  BY <1>3
<1> QED BY <1>2, <1>3, <1>4, <1>5, <1>6 DEF p

LEMMA EndPauseRows ==
    ASSUME NEW ps \in Seq(Pause), OpenPauses(ps) \subseteq {Len(ps)}, now \in Nat, Past(ps, now)
    PROVE  /\ Len(EndPause(ps)) = Len(ps) /\ DOMAIN EndPause(ps) = DOMAIN ps
           /\ Past(EndPause(ps), now)
           /\ \A i \in DOMAIN ps : /\ EndPause(ps)[i].from = ps[i].from
                                   /\ EndPause(ps)[i].to = IF ps[i].to = NoTime THEN now
                                                           ELSE ps[i].to
<1>1. CASE OpenPauses(ps) = {}
  <2>1. \A i \in DOMAIN ps : ps[i].to # NoTime
    BY <1>1 DEF OpenPauses
  <2> QED BY <1>1, <2>1 DEF EndPause
<1>2. CASE OpenPauses(ps) # {}
  <2>1. OpenPauses(ps) = {Len(ps)} /\ Len(ps) \in DOMAIN ps /\ Len(ps) \in Nat
    BY <1>2 DEF OpenPauses
  <2>2. LastOpen(ps) = Len(ps)
    BY <2>1 DEF LastOpen
  <2> DEFINE q == [ps[Len(ps)] EXCEPT !.to = now]
             qs == [ps EXCEPT ![Len(ps)] = q]
  <2>3. q \in Pause /\ q.to = now /\ q.from = ps[Len(ps)].from
    <3>1. ps[Len(ps)] \in Pause
      BY <2>1
    <3> QED BY <3>1 DEF Pause
  <2>4. EndPause(ps) = qs
    BY <1>2, <2>2 DEF EndPause
  <2> HIDE DEF q
  <2>5. /\ qs \in Seq(Pause) /\ DOMAIN qs = DOMAIN ps /\ qs[Len(ps)] = q
        /\ \A i \in DOMAIN ps \ {Len(ps)} : qs[i] = ps[i]
    BY <2>1, <2>3
  <2>6. \A i \in DOMAIN ps : ps[i].to = NoTime <=> i = Len(ps)
    BY <2>1 DEF OpenPauses
  <2> HIDE DEF qs
  <2>7. \A i \in DOMAIN ps : /\ qs[i].from = ps[i].from
                             /\ qs[i].to = IF ps[i].to = NoTime THEN now ELSE ps[i].to
    BY <2>3, <2>5, <2>6
  <2>8. Len(qs) = Len(ps)
    BY <2>5
  <2>9. \A i \in DOMAIN ps : ps[i] \in Pause
    OBVIOUS
  <2>10. Past(qs, now)
    <3> SUFFICES ASSUME NEW i \in DOMAIN ps
                 PROVE  qs[i].from <= now /\ (qs[i].to = NoTime \/ qs[i].to \in qs[i].from .. now)
      BY <2>5 DEF Past
    <3>1. ps[i].from \in Nat /\ ps[i].to \in Int
      BY <2>9 DEF Pause
    <3> QED BY <2>7, <3>1 DEF Past
  <2> QED BY <2>4, <2>5, <2>7, <2>8, <2>10
<1> QED BY <1>1, <1>2

LEMMA ExtendedLater ==
    ASSUME NEW due, NEW n \in Nat, n <= MaxEvents, Fits(due, n), NEW minutes \in 0 .. Most,
           now \in 0 .. MaxTime
    PROVE  Fits(Extended(due, minutes), n + 1) /\ Extended(due, minutes) >= due
<1>t. due \in Nat /\ due # NoTime /\ minutes \in Nat /\ Most \in Nat /\ n + 1 \in Nat /\ now \in Nat
      /\ MinExtension \in 0 .. Most
  <2>1. due \in Nat /\ Most \in Nat
    BY FitsLater, MostFacts
  <2>2. MaxTime \in 0 .. Horizon
    BY MostFacts
  <2>3. Worked[MaxTime] \in Nat /\ Worked[MaxTime] < Most
    BY <2>2, WorkedCounts, MostFacts
  <2> QED BY <2>1, <2>3 DEF NoTime, MinExtension
<1>1. CASE due <= now
  <2>1. now \in 0 .. Horizon /\ MaxTime \in 0 .. Horizon /\ now <= MaxTime
    BY MostFacts
  <2>2. Worked[now] \in Nat /\ Worked[now] <= Worked[MaxTime] /\ Worked[MaxTime] \in Nat
    BY <2>1, BusinessCounts
  <2>3. Most <= Worked[Horizon] /\ Worked[Horizon] \in Nat
    <3>1. MaxEvents + 1 \in Nat /\ MaxEvents + 1 + 1 = MaxEvents + 2 /\ Horizon \in 0 .. Horizon
      BY MostFacts
    <3>2. Most <= Most * (MaxEvents + 1 + 1) /\ Most * (MaxEvents + 1 + 1) \in Nat
      BY <3>1, MostScales
    <3>3. Worked[Horizon] \in Nat
      BY <3>1, WorkedCounts
    <3> QED BY <1>t, <3>1, <3>2, <3>3, MostFacts
  <2> DEFINE d == AddBusiness(now, MinExtension)
  <2>4. Worked[now] + MinExtension <= Worked[Horizon] /\ MinExtension = 1 /\ MinExtension \in Nat
    BY <1>t, <2>2, <2>3, MostFacts DEF MinExtension
  <2>5. d \in 0 .. Horizon /\ d >= now /\ Worked[d] = Worked[now] + MinExtension
    BY <2>1, <2>4, AddCounts
  <2>6. Extended(due, minutes) = d
    BY <1>t, <1>1 DEF Extended
  <2> HIDE DEF d
  <2>7. Most <= Most * (n + 1 + 1) /\ Most * (n + 1 + 1) \in Nat
    BY <1>t, MostScales
  <2>8. Worked[d] <= Most * (n + 1 + 1)
    BY <1>t, <2>2, <2>4, <2>5, <2>7, MostFacts
  <2> QED BY <1>t, <1>1, <2>5, <2>6, <2>8 DEF Fits
<1>2. CASE due > now
  <2> DEFINE x == (due - now) \div 2
             m == Clamp(MinExtension, x, minutes)
  <2>1. x \in Int /\ x >= 0
    BY <1>t, <1>2
  <2> HIDE DEF x
  <2>2. m \in 0 .. Most
    BY <1>t, <2>1 DEF Clamp
  <2>3. Extended(due, minutes) = AddBusiness(due, m)
    BY <1>t, <1>2 DEF Extended, x
  <2> HIDE DEF m
  <2> QED BY <2>2, <2>3, AddFits
<1> QED BY <1>t, <1>1, <1>2

LEMMA RaisedInPriority ==
    ASSUME NEW p \in Priority
    PROVE  Raised(p) \in Priority /\ Head(Ladder) \in Priority
<1>1. Ladder \in Seq(Priority)
  BY SlaAssumption DEF SlaAssumption
<1> DEFINE i == CHOOSE j \in DOMAIN Ladder : Ladder[j] = p
<1>2. \E j \in DOMAIN Ladder : Ladder[j] = p
  BY DEF Priority, ToSet
<1>3. i \in DOMAIN Ladder
  BY <1>2
<1>4. Raised(p) = IF i < Len(Ladder) THEN Ladder[i + 1] ELSE p
  BY DEF Raised
<1> HIDE DEF i
<1>5. DOMAIN Ladder = 1 .. Len(Ladder) /\ Len(Ladder) \in Nat /\ Ladder # <<>>
  BY <1>1, <1>3
<1>6. i < Len(Ladder) => i + 1 \in DOMAIN Ladder
  BY <1>3, <1>5
<1>7. Head(Ladder) \in Priority
  BY <1>1, <1>5
<1> QED BY <1>1, <1>4, <1>6, <1>7

\* A deadline that a policy promises a ticket from its creation.
LEMMA Promised ==
    ASSUME NEW target \in Targets
    PROVE  /\ Fits(AddBusiness(0, target.resp), 0) /\ Fits(AddBusiness(0, target.res), 0)
           /\ Worked[AddBusiness(0, target.resp)] = target.resp
           /\ Worked[AddBusiness(0, target.res)] = target.res
BY MostFacts, PromiseFits

LEMMA InitDue == Init => DueInv
<1> SUFFICES ASSUME Init PROVE DueInv
  OBVIOUS
<1>1. policy \in [Priority -> Targets] /\ Born \subseteq Priority
  BY SlaAssumption DEF Init, SlaAssumption
<1>2. PICK p \in Born : ticket = NewTicket(p)
  BY DEF Init
<1>3. policy[p] \in Targets
  BY <1>1
<1>4. /\ ticket.prio = p
      /\ ticket.respDue = AddBusiness(0, policy[p].resp)
      /\ ticket.resDue = AddBusiness(0, policy[p].res)
  BY <1>2 DEF NewTicket, NoCopy
<1>5. \A i \in Sweeper : sweep[i].copy.prio = Head(Ladder)
  BY DEF Init, NoSweep, NoCopy
<1>6. now = 0 /\ pauses = <<>> /\ tally.edits = 0 /\ held = {}
  BY DEF Init
<1>7. Past(pauses, now) /\ Len(pauses) = 0 /\ OpenPauses(pauses) = {}
  BY <1>6 DEF Past, OpenPauses
<1>8. Spent = 0
  BY <1>6, <1>7 DEF Spent
<1>9. FitBoth(ticket, Spent)
  BY <1>3, <1>4, <1>8, Promised DEF FitBoth
<1>10. p \in Priority /\ Head(Ladder) \in Priority
  BY <1>1, RaisedInPriority
<1>11. now <= MaxTime /\ Len(pauses) + tally.edits <= MaxEvents
  BY <1>6, <1>7, MostFacts
<1> QED BY <1>1, <1>4, <1>5, <1>6, <1>7, <1>9, <1>10, <1>11 DEF DueInv

\* How many events have moved the deadlines of an instance.
Base(c) == IF c = ticket THEN Spent ELSE Spent - 1

LEMMA InstanceFits ==
    ASSUME Shapes, PauseInv, DueInv, NEW c \in held \cup {ticket}
    PROVE  /\ Base(c) \in Nat /\ Base(c) <= Spent /\ Spent \in Nat /\ Spent <= MaxEvents
           /\ MaxEvents \in Nat /\ FitBoth(c, Base(c))
           /\ c.respDue \in Nat /\ c.resDue \in Nat /\ c.prio \in Priority
           /\ ticket.respDue \in Nat /\ ticket.resDue \in Nat
<1>1. Spent \in Nat /\ Spent <= MaxEvents /\ MaxEvents \in Nat
  BY SpentInRange
<1>2. Base(c) \in Nat /\ Base(c) <= Spent /\ FitBoth(c, Base(c)) /\ c.prio \in Priority
  BY <1>1 DEF DueInv, Base
<1>3. c.respDue \in Nat /\ c.resDue \in Nat
  BY <1>2, FitsLater DEF FitBoth
<1>4. ticket.respDue \in Nat /\ ticket.resDue \in Nat
  BY <1>1, FitsLater DEF FitBoth, DueInv
<1> QED BY <1>1, <1>2, <1>3, <1>4

LEMMA LengthCounts ==
    ASSUME PauseInv, DueInv, OpenPauses(pauses) # {}
    PROVE  /\ OpenPauses(pauses) = {Len(pauses)} /\ LastOpen(pauses) = Len(pauses)
           /\ Len(pauses) \in DOMAIN pauses /\ Length \in 0 .. Most
<1>1. OpenPauses(pauses) = {Len(pauses)} /\ LastOpen(pauses) = Len(pauses)
      /\ Len(pauses) \in DOMAIN pauses
  BY EndPauseCloses DEF PauseInv
<1> DEFINE f == pauses[Len(pauses)].from
<1>2. f \in Nat /\ f <= now /\ now \in Nat /\ now <= MaxTime
  <2>1. pauses[Len(pauses)] \in Pause
    BY <1>1 DEF PauseInv
  <2> QED BY <1>1, <2>1 DEF Pause, DueInv, Past, PauseInv
<1>3. f \in 0 .. Horizon /\ now \in 0 .. Horizon /\ MaxTime \in 0 .. Horizon
  BY <1>2, MostFacts
<1>4. Length = Business(f, now)
  BY <1>1 DEF Length
<1> HIDE DEF f
<1>5. /\ Worked[f] \in Nat /\ Worked[now] \in Nat /\ Worked[now] <= Worked[MaxTime]
      /\ Worked[MaxTime] \in Nat /\ Worked[MaxTime] < Most /\ Most \in Nat
      /\ Business(f, now) = IF f < now THEN Worked[now] - Worked[f] ELSE 0
      /\ Business(f, now) \in Nat
  BY <1>2, <1>3, BusinessCounts, MostFacts
<1> QED BY <1>1, <1>4, <1>5

\* The end of a pause moves a deadline on by its business minutes.
LEMMA ShiftsLater ==
    ASSUME PauseInv, DueInv, OpenPauses(pauses) # {},
           NEW due, NEW n \in Nat, n <= MaxEvents, Fits(due, n)
    PROVE  LET d == Shift(due, Length)
           IN  Fits(d, n + 1) /\ d >= due /\ Worked[d] = Worked[due] + Length
<1>1. Length \in 0 .. Most
  BY LengthCounts
<1>2. due # NoTime
  BY FitsLater DEF NoTime
<1>3. Shift(due, Length) = AddBusiness(due, Length)
  BY <1>2 DEF Shift
<1> QED BY <1>1, <1>3, AddFits

LEMMA DuesByFit ==
    ASSUME Shapes, PauseInv, DueInv, NEW c \in held \cup {ticket}, NEW u, DuesBy(u, c),
           NEW m \in Nat, Spent <= m, OpenPauses(pauses) # {} => Spent + 1 <= m
    PROVE  FitBoth(u, m) /\ (~Outdated(c) => Ahead(u))
<1>1. /\ Base(c) \in Nat /\ Base(c) <= Spent /\ Spent \in Nat /\ Spent <= MaxEvents
      /\ MaxEvents \in Nat /\ FitBoth(c, Base(c)) /\ FitBoth(ticket, Spent)
      /\ c.respDue \in Nat /\ c.resDue \in Nat
      /\ ticket.respDue \in Nat /\ ticket.resDue \in Nat
  BY InstanceFits DEF DueInv
<1>2. CASE Ends
  <2>1. OpenPauses(pauses) # {} /\ u.respDue = Shift(c.respDue, Length)
        /\ u.resDue = Shift(c.resDue, Length)
    BY <1>2 DEF Ends, DuesBy
  <2>2. Base(c) <= MaxEvents /\ Base(c) + 1 \in Nat /\ Base(c) + 1 <= m
    BY <1>1, <2>1
  <2>3. /\ FitBoth(u, Base(c) + 1) /\ u.respDue >= c.respDue /\ u.resDue >= c.resDue
    BY <1>1, <2>1, <2>2, ShiftsLater DEF FitBoth
  <2>4. FitBoth(u, m) /\ u.respDue \in Nat /\ u.resDue \in Nat
    BY <2>2, <2>3, FitsLater DEF FitBoth
  <2> QED BY <2>3, <2>4 DEF Ahead, Outdated
<1>3. CASE ~Ends
  <2>1. u.respDue = ticket.respDue /\ u.resDue = ticket.resDue
    BY <1>3 DEF DuesBy
  <2>2. FitBoth(u, m)
    BY <1>1, <2>1, FitsLater DEF FitBoth
  <2> QED BY <1>1, <2>1, <2>2 DEF Ahead
<1> QED BY <1>2, <1>3

\* The deadlines of the instance of an escalation, or of a PATCH.
LEMMA FreshFits ==
    ASSUME Shapes, PauseInv, DueInv, NEW c \in held \cup {ticket}
    PROVE  LET k == IF Resumes(c) /\ OpenPauses(pauses) # {} THEN Base(c) + 1 ELSE Base(c)
               u == Fresh(c)
           IN  /\ k \in Nat /\ k <= MaxEvents /\ FitBoth(u, k)
               /\ u.respDue \in Nat /\ u.resDue \in Nat
               /\ u.respDue >= c.respDue /\ u.resDue >= c.resDue
<1> DEFINE u == Fresh(c)
           v == Resumed(c, pauses)
<1>0. IsRow(c)
  BY DEF Shapes
<1>1. /\ Base(c) \in Nat /\ Base(c) <= Spent /\ Spent \in Nat /\ Spent <= MaxEvents
      /\ MaxEvents \in Nat /\ FitBoth(c, Base(c)) /\ c.respDue \in Nat /\ c.resDue \in Nat
  BY InstanceFits
<1>2. /\ OpenPauses(pauses) = {} => v = c
      /\ OpenPauses(pauses) # {} => v.respDue = Shift(c.respDue, Length)
                                   /\ v.resDue = Shift(c.resDue, Length)
  BY <1>0, ResumedIs DEF Length
<1>3. u = IF Resumes(c) THEN v ELSE c
  BY DEF Fresh
<1> HIDE DEF u, v
<1>4. CASE Resumes(c) /\ OpenPauses(pauses) # {}
  <2>1. Base(c) <= MaxEvents /\ Base(c) + 1 \in Nat /\ Base(c) + 1 <= MaxEvents
    BY <1>1, <1>4, SpentInRange
  <2>2. u.respDue = Shift(c.respDue, Length) /\ u.resDue = Shift(c.resDue, Length)
    BY <1>2, <1>3, <1>4
  <2>3. /\ FitBoth(u, Base(c) + 1) /\ u.respDue >= c.respDue /\ u.resDue >= c.resDue
    BY <1>1, <1>4, <2>1, <2>2, ShiftsLater DEF FitBoth
  <2>4. u.respDue \in Nat /\ u.resDue \in Nat
    BY <2>1, <2>3, FitsLater DEF FitBoth
  <2> QED BY <1>4, <2>1, <2>3, <2>4 DEF u
<1>5. CASE ~(Resumes(c) /\ OpenPauses(pauses) # {})
  <2>1. u = c
    BY <1>2, <1>3, <1>5
  <2> QED BY <1>1, <1>5, <2>1 DEF u
<1> QED BY <1>4, <1>5

\* A request leaves room for what it does, and no less has moved the deadlines then.
LEMMA MovesCount ==
    ASSUME Shapes, PauseInv, DueInv, UNCHANGED now, Begins \/ Stops \/ Goes,
           tally'.edits \in {tally.edits, tally.edits + 1},
           tally'.edits = tally.edits + 1 => Room
    PROVE  /\ Past(pauses', now) /\ Len(pauses') + tally'.edits <= MaxEvents
           /\ Spent' \in Nat /\ Spent <= Spent'
           /\ tally'.edits = tally.edits + 1 => Spent + 1 <= Spent'
           /\ Stops /\ OpenPauses(pauses) # {} => Spent + 1 <= Spent'
<1>1. /\ Spent \in Nat /\ Spent <= MaxEvents /\ Len(pauses) \in Nat /\ MaxEvents \in Nat
      /\ tally.edits \in Nat
      /\ OpenPauses(pauses) # {} =>
             Spent < MaxEvents /\ Spent = Len(pauses) - 1 + tally.edits
      /\ OpenPauses(pauses) = {} => Spent = Len(pauses) + tally.edits
  BY SpentInRange
<1>2. Room => Len(pauses) + tally.edits + 1 <= MaxEvents
  BY <1>1 DEF Room, Shapes, Counts
<1>3. /\ now \in Nat /\ pauses \in Seq(Pause) /\ OpenPauses(pauses) \subseteq {Len(pauses)}
      /\ Past(pauses, now) /\ Len(pauses) + tally.edits <= MaxEvents
  BY DEF PauseInv, DueInv
<1>4. Spent' = Len(pauses') - (IF OpenPauses(pauses') = {} THEN 0 ELSE 1) + tally'.edits
  BY DEF Spent
<1>e. /\ tally'.edits = tally.edits \/ tally'.edits = tally.edits + 1
      /\ tally'.edits = tally.edits + 1 => Len(pauses) + tally'.edits <= MaxEvents
      /\ Len(pauses) + tally.edits <= MaxEvents
  BY <1>1, <1>2, <1>3
<1>5. CASE Begins
  <2> DEFINE ps == BeginPause(pauses)
  <2>1. pauses' = ps /\ OpenPauses(pauses) = {} /\ Room /\ tally'.edits = tally.edits
    BY <1>5 DEF Begins
  <2>2. Len(ps) = Len(pauses) + 1 /\ Past(ps, now)
    BY <1>3, BeginPauseRows
  <2>3. OpenPauses(ps) = {Len(ps)}
    BY <1>3, <2>1, BeginPauseOpens
  <2> HIDE DEF ps
  <2>4. Spent' = Len(pauses) + tally.edits
    BY <1>1, <1>4, <2>1, <2>2, <2>3
  <2> QED BY <1>1, <1>2, <2>1, <2>2, <2>4
<1>6. CASE Stops
  <2> DEFINE ps == EndPause(pauses)
  <2>1. pauses' = ps
    BY <1>6 DEF Stops
  <2>2. Len(ps) = Len(pauses) /\ Past(ps, now)
    BY <1>3, EndPauseRows
  <2>3. OpenPauses(ps) = {}
    BY <1>3, EndPauseCloses
  <2> HIDE DEF ps
  <2>4. Spent' = Len(pauses) + tally'.edits
    BY <1>1, <1>4, <2>1, <2>2, <2>3
  <2>5. Past(pauses', now) /\ Len(pauses') = Len(pauses)
    BY <2>1, <2>2
  <2>6. /\ Len(pauses) + tally'.edits <= MaxEvents
        /\ Spent' \in Nat /\ Spent <= Spent'
        /\ tally'.edits = tally.edits + 1 => Spent + 1 <= Spent'
        /\ OpenPauses(pauses) # {} => Spent + 1 <= Spent'
    <3>1. CASE tally'.edits = tally.edits
      BY <1>1, <1>e, <2>4, <3>1
    <3>2. CASE tally'.edits = tally.edits + 1
      BY <1>1, <1>e, <2>4, <3>2
    <3> QED BY <1>e, <3>1, <3>2
  <2> QED BY <2>5, <2>6
<1>7. CASE Goes
  <2>1. pauses' = pauses
    BY <1>7 DEF Goes
  <2>2. Spent' = Len(pauses) - (IF OpenPauses(pauses) = {} THEN 0 ELSE 1) + tally'.edits
    BY <1>4, <2>1
  <2>3. Stops /\ OpenPauses(pauses) # {} => FALSE
    <3>1. Stops => OpenPauses(pauses') = {}
      BY <1>3, EndPauseCloses DEF Stops
    <3> QED BY <2>1, <3>1
  <2>4. /\ Len(pauses) + tally'.edits <= MaxEvents
        /\ Spent' \in Nat /\ Spent <= Spent'
        /\ tally'.edits = tally.edits + 1 => Spent + 1 <= Spent'
    <3>1. CASE tally'.edits = tally.edits
      BY <1>1, <1>e, <2>2, <3>1
    <3>2. CASE tally'.edits = tally.edits + 1
      BY <1>1, <1>e, <2>2, <3>2
    <3> QED BY <1>e, <3>1, <3>2
  <2> QED BY <1>3, <2>1, <2>3, <2>4
<1> QED BY <1>5, <1>6, <1>7

\* What a request of c does to the count of the edits.
LEMMA RequestEdits ==
    ASSUME Shapes, NEW c, Request(c)
    PROVE  /\ tally'.edits \in {tally.edits, tally.edits + 1}
           /\ tally'.edits = tally.edits + 1 => Room
           /\ Escalate(c) => tally'.edits = IF c = ticket THEN tally.edits + 1 ELSE tally.edits
<1>t. IsTally(tally) /\ tally.edits \in Nat
  BY DEF Shapes, Counts
<1>1. \A k : Touched.edits = tally.edits /\ EndsInPause(k).edits = tally.edits
  BY <1>t, TouchedIs, PausedIs DEF AsTally
<1>2. Edited(c).edits = IF c = ticket THEN tally.edits + 1 ELSE tally.edits
  BY <1>t, EditedIs DEF AsTally
<1>3. ASSUME NEW s \in Status, ChangeStatus(c, s) PROVE tally'.edits = tally.edits
  BY <1>1, <1>3 DEF ChangeStatus
<1>4. ASSUME CustomerReply(c) PROVE tally'.edits = tally.edits
  BY <1>1, <1>4 DEF CustomerReply
<1>5. ASSUME Respond(c) PROVE tally'.edits = tally.edits
  BY <1>1, <1>5 DEF Respond
<1>6. ASSUME Patch(c) PROVE tally'.edits = tally.edits
  BY <1>6, PatchTally
<1>7. ASSUME Escalate(c) \/ \E p \in Priority : ChangePriority(c, p)
      PROVE  /\ tally'.edits = IF c = ticket THEN tally.edits + 1 ELSE tally.edits
             /\ c = ticket => Room
  BY <1>2, <1>7 DEF Escalate, ChangePriority, MayEdit
<1>8. tally.edits # tally.edits + 1
  BY <1>t
<1> QED BY <1>3, <1>4, <1>5, <1>6, <1>7, <1>8 DEF Request

\* What a request of c makes of the deadlines.
LEMMA RequestDue ==
    ASSUME Shapes, PauseInv, DueInv, NEW c \in held \cup {ticket}, Request(c)
    PROVE  /\ ticket'.prio \in Priority
           /\ Past(pauses', now') /\ Len(pauses') + tally'.edits <= MaxEvents
           /\ Spent' \in Nat /\ Spent <= Spent' /\ FitBoth(ticket', Spent')
           /\ Ahead(ticket') \/ (c \in held \ held' /\ Outdated(c))
<1>1. Begins \/ Stops \/ Goes
  BY RequestsPause
<1>2. UNCHANGED now /\ policy' = policy
  BY RequestsKeep DEF Aside
<1>3. /\ tally'.edits \in {tally.edits, tally.edits + 1}
      /\ tally'.edits = tally.edits + 1 => Room
  BY RequestEdits
<1>4. /\ Past(pauses', now) /\ Len(pauses') + tally'.edits <= MaxEvents
      /\ Spent' \in Nat /\ Spent <= Spent'
      /\ tally'.edits = tally.edits + 1 => Spent + 1 <= Spent'
      /\ Stops /\ OpenPauses(pauses) # {} => Spent + 1 <= Spent'
  BY <1>1, <1>2, <1>3, MovesCount
<1>5. /\ Base(c) \in Nat /\ Base(c) <= Spent /\ Spent \in Nat /\ Spent <= MaxEvents
      /\ MaxEvents \in Nat /\ FitBoth(c, Base(c)) /\ FitBoth(ticket, Spent)
      /\ c.respDue \in Nat /\ c.resDue \in Nat /\ c.prio \in Priority
      /\ ticket.respDue \in Nat /\ ticket.resDue \in Nat /\ ticket.prio \in Priority
  BY InstanceFits DEF DueInv
<1>6. Save(c) /\ Outdated(c) => c \in held \ held'
  BY DEF Save, Outdated
<1>7. ASSUME ticket'.respDue = ticket.respDue, ticket'.resDue = ticket.resDue
      PROVE  FitBoth(ticket', Spent') /\ Ahead(ticket')
  BY <1>4, <1>5, <1>7, FitsLater DEF FitBoth, Ahead
<1>8. ASSUME DuesBy(ticket', c), Stops, Save(c)
      PROVE  /\ FitBoth(ticket', Spent')
             /\ Ahead(ticket') \/ (c \in held \ held' /\ Outdated(c))
  BY <1>4, <1>5, <1>6, <1>8, DuesByFit
<1>9. ASSUME NEW s \in Status, ChangeStatus(c, s)
      PROVE  /\ ticket'.prio \in Priority /\ FitBoth(ticket', Spent')
             /\ Ahead(ticket') \/ (c \in held \ held' /\ Outdated(c))
  <2>1. /\ ticket'.prio = ticket.prio
        /\ IF ticket.status = "waiting" /\ s # "waiting" THEN DuesBy(ticket', c)
           ELSE ticket'.respDue = ticket.respDue /\ ticket'.resDue = ticket.resDue
    BY <1>9, StatusRow DEF AsRow
  <2>2. /\ Save(c)
        /\ ticket.status = "waiting" /\ s # "waiting" => Stops
    BY <1>9 DEF ChangeStatus, PausesAfter, Stops
  <2> QED BY <1>5, <1>7, <1>8, <2>1, <2>2
<1>10. ASSUME CustomerReply(c)
       PROVE  /\ ticket'.prio \in Priority /\ FitBoth(ticket', Spent')
              /\ Ahead(ticket') \/ (c \in held \ held' /\ Outdated(c))
  <2>1. ticket'.prio = ticket.prio /\ DuesBy(ticket', c)
    BY <1>10, ReplyRow DEF AsRow
  <2>2. Save(c) /\ Stops
    BY <1>10 DEF CustomerReply, Stops
  <2> QED BY <1>5, <1>8, <2>1, <2>2
<1>11. ASSUME Respond(c)
       PROVE  ticket'.prio \in Priority /\ FitBoth(ticket', Spent') /\ Ahead(ticket')
  <2>1. ticket'.prio = ticket.prio
        /\ ticket'.respDue = ticket.respDue /\ ticket'.resDue = ticket.resDue
    BY <1>11, RespondRow DEF AsRow
  <2> QED BY <1>5, <1>7, <2>1
<1>12. ASSUME NEW p \in Priority, ChangePriority(c, p)
       PROVE  /\ ticket'.prio \in Priority /\ FitBoth(ticket', Spent')
              /\ Ahead(ticket') \/ (c \in held \ held' /\ Outdated(c))
  <2>1. /\ ticket'.prio = p
        /\ IF Resumes(c) THEN DuesBy(ticket', c)
           ELSE ticket'.respDue = ticket.respDue /\ ticket'.resDue = ticket.resDue
    BY <1>12, PriorityRow DEF AsRow
  <2>2. Save(c) /\ (Resumes(c) => Stops)
    BY <1>12 DEF ChangePriority, SaveCopy, Stops, Resumes, Overflows
  <2> QED BY <1>7, <1>8, <2>1, <2>2
<1> DEFINE k == IF Resumes(c) /\ OpenPauses(pauses) # {} THEN Base(c) + 1 ELSE Base(c)
           u == Fresh(c)
<1>13. /\ k \in Nat /\ k <= MaxEvents /\ FitBoth(u, k)
       /\ u.respDue \in Nat /\ u.resDue \in Nat
       /\ u.respDue >= c.respDue /\ u.resDue >= c.resDue
  BY FreshFits
<1>14. c # ticket => Base(c) + 1 = Spent
  BY <1>5 DEF Base
<1>15. c = ticket => Base(c) = Spent /\ ~Resumes(c)
  BY DEF Base, Resumes
<1>16. c # ticket /\ (Resumes(c) => Stops) => k + 1 <= Spent' /\ k <= Spent'
  BY <1>4, <1>5, <1>14
<1>17. ASSUME Escalate(c)
       PROVE  /\ ticket'.prio \in Priority /\ FitBoth(ticket', Spent')
              /\ Ahead(ticket') \/ (c \in held \ held' /\ Outdated(c))
  <2> DEFINE target == policy[c.prio]
  <2>1. /\ ticket'.prio = ticket.prio
        /\ ticket'.respDue = Extended(u.respDue, target.resp)
        /\ ticket'.resDue = Extended(u.resDue, target.res)
    BY <1>17, EscalateRow DEF AsRow
  <2>2. Save(c) /\ (Resumes(c) => Stops)
    BY <1>17 DEF Escalate, Stops
  <2>3. k + 1 <= Spent'
    <3>1. CASE c = ticket
      <4>1. tally'.edits = tally.edits + 1 /\ k = Spent
        BY <1>15, <1>17, <3>1, RequestEdits
      <4> QED BY <1>4, <4>1
    <3>2. CASE c # ticket
      BY <1>16, <2>2, <3>2
    <3> QED BY <3>1, <3>2
  <2>4. target \in Targets
    BY <1>5 DEF DueInv
  <2>5. target.resp \in 0 .. Most /\ target.res \in 0 .. Most
    BY <2>4, MostFacts
  <2>6. now \in 0 .. MaxTime
    BY DEF PauseInv, DueInv
  <2> HIDE DEF target, u, k
  <2>7. /\ Fits(ticket'.respDue, k + 1) /\ Fits(ticket'.resDue, k + 1)
        /\ ticket'.respDue >= u.respDue /\ ticket'.resDue >= u.resDue
    BY <1>13, <2>1, <2>5, <2>6, ExtendedLater DEF FitBoth
  <2>8. k + 1 \in Nat /\ ticket'.respDue \in Nat /\ ticket'.resDue \in Nat
        /\ FitBoth(ticket', Spent')
    BY <1>4, <1>13, <2>3, <2>7, FitsLater DEF FitBoth
  <2>9. ~Outdated(c) => Ahead(ticket')
    BY <1>5, <1>13, <2>7, <2>8 DEF Outdated, Ahead
  <2> QED BY <1>5, <1>6, <2>1, <2>2, <2>8, <2>9
<1>18. ASSUME Patch(c)
       PROVE  /\ ticket'.prio \in Priority /\ FitBoth(ticket', Spent')
              /\ Ahead(ticket') \/ (c \in held \ held' /\ Outdated(c))
  <2>1. ticket'.prio = c.prio /\ ticket'.respDue = u.respDue /\ ticket'.resDue = u.resDue
    BY <1>18, PatchRow DEF AsRow
  <2>2. Save(c) /\ c # ticket /\ (Resumes(c) => Stops)
    BY <1>18 DEF Patch, PausesAfter, Stops, Resumes
  <2>3. k <= Spent'
    BY <1>16, <2>2
  <2> HIDE DEF u, k
  <2>4. FitBoth(ticket', Spent')
    BY <1>4, <1>13, <2>1, <2>3, FitsLater DEF FitBoth
  <2>5. ~Outdated(c) => Ahead(ticket')
    BY <1>5, <1>13, <2>1 DEF Outdated, Ahead
  <2> QED BY <1>5, <1>6, <2>1, <2>2, <2>4, <2>5
<1>19. /\ ticket'.prio \in Priority /\ FitBoth(ticket', Spent')
       /\ Ahead(ticket') \/ (c \in held \ held' /\ Outdated(c))
  BY <1>9, <1>10, <1>11, <1>12, <1>17, <1>18 DEF Request
<1> QED BY <1>2, <1>4, <1>19

\* The other steps leave them, or make them a new promise's.
LEMMA RecomputedFits ==
    ASSUME Shapes, NEW target \in Targets, ticket' = Recomputed(target), NEW m \in Nat
    PROVE  ticket'.prio = ticket.prio /\ FitBoth(ticket', m)
<1>1. /\ ticket'.prio = ticket.prio /\ ticket'.respDue = AddBusiness(0, target.resp)
      /\ ticket'.resDue = AddBusiness(0, target.res)
  BY RecomputedIs DEF Shapes, AsRow
<1> QED BY <1>1, Promised, FitsLater DEF FitBoth

\* An instance that stays held fits as before.
LEMMA HeldFits ==
    ASSUME Shapes, PauseInv, DueInv, held' \subseteq held, Spent' \in Nat, Spent <= Spent'
    PROVE  \A c \in held' : c.prio \in Priority /\ Spent' >= 1 /\ FitBoth(c, Spent' - 1)
<1> SUFFICES ASSUME NEW c \in held' PROVE c.prio \in Priority /\ Spent' >= 1 /\ FitBoth(c, Spent' - 1)
  OBVIOUS
<1>1. c.prio \in Priority /\ Spent >= 1 /\ FitBoth(c, Spent - 1)
  BY DEF DueInv
<1>i. Spent \in Nat
  BY SpentInRange
<1>2. Spent - 1 \in Nat /\ Spent' - 1 \in Nat /\ Spent - 1 <= Spent' - 1 /\ Spent' >= 1
  <2>1. \A x, y \in Nat : x <= y /\ x >= 1 => x - 1 \in Nat /\ y - 1 \in Nat /\ x - 1 <= y - 1 /\ y >= 1
    OBVIOUS
  <2> QED BY <1>1, <1>i, <2>1
<1>3. ASSUME NEW n \in Nat, NEW m \in Nat, n <= m, FitBoth(c, n) PROVE FitBoth(c, m)
  BY <1>3, FitsLater DEF FitBoth
<1>4. FitBoth(c, Spent' - 1)
  <2> HIDE DEF FitBoth
  <2> QED BY <1>1, <1>2, <1>3
<1> QED BY <1>1, <1>2, <1>4

\* A step moves no deadline towards the present.
Later ==
    \/ ticket'.respDue >= ticket.respDue /\ ticket'.resDue >= ticket.resDue
    \/ policy' # policy
    \/ queued' # queued
    \/ \E c \in held \ held' : Outdated(c)

LEMMA WorkPrio ==
    ASSUME Shapes, DueInv, NEW i \in Sweeper, Sweep(i) \/ Crash(i)
    PROVE  ticket'.prio \in Priority /\ \A j \in Sweeper : sweep'[j].copy.prio \in Priority
<1> DEFINE s == sweep[i]
           c == s.copy
<1>1. c.prio \in Priority /\ Raised(c.prio) \in Priority /\ NoCopy.prio \in Priority
      /\ ticket.prio \in Priority
  BY RaisedInPriority DEF DueInv, NoCopy
<1>a. \A j \in Sweeper \ {i} : sweep'[j] = sweep[j]
  BY SweepShapes DEF Others
<1>b. SUFFICES ticket'.prio \in Priority /\ sweep'[i].copy.prio \in Priority
  BY <1>a DEF DueInv
<1> HIDE DEF c
<1>2. CASE StartSweep(i)
  <2>1. UNCHANGED ticket /\ Empty(sweep'[i])
    BY <1>2, StartStep
  <2> QED BY <1>1, <2>1 DEF Empty
<1>3. CASE Visit(i)
  <2>1. /\ UNCHANGED ticket
        /\ \/ Empty(sweep'[i])
           \/ sweep'[i] = AsSweep("check", s.at, s.policy, Tail(s.todo), ticket.prio, ticket,
                                  s.breaches, s.rules)
    BY <1>3, VisitStep
  <2>2. sweep'[i].copy \in {NoCopy, ticket}
    BY <2>1 DEF Empty, AsSweep
  <2> QED BY <1>1, <2>1, <2>2
<1>4. CASE Check(i)
  <2> DEFINE late == Breached(s)
             d == AsRow(c.prio, c.policy, c.respDue, c.resDue, c.responded, c.closed,
                        c.status, c.flags \cup late)
  <2>1. /\ ticket' = AsRow(ticket.prio, ticket.policy, ticket'.respDue, ticket'.resDue,
                           ticket.responded, ticket.closed, ticket.status,
                           ticket.flags \cup late)
        /\ \/ sweep'[i] = NoSweep
           \/ sweep'[i] = AsSweep("announce", s.at, s.policy, s.todo, s.prio, d, late, s.rules)
    BY <1>4, CheckStep DEF c
  <2>2. d.prio = c.prio
    BY DEF AsRow
  <2> HIDE DEF d, late
  <2>3. sweep'[i].copy \in {NoCopy, d}
    BY <2>1, NoSweepIsEmpty DEF Empty, AsSweep
  <2>4. ticket'.prio = ticket.prio
    BY <2>1 DEF AsRow
  <2> QED BY <1>1, <2>2, <2>3, <2>4
<1>5. CASE Announce(i)
  <2>1. PICK k : sweep'[i] = AsSweep(s.pc, s.at, s.policy, s.todo, s.prio, s.copy,
                                     s.breaches \ {k}, s.rules)
    BY <1>5, AnnounceStep
  <2>2. UNCHANGED ticket
    BY <1>5, AnnounceStep
  <2>3. sweep'[i].copy = c
    BY <2>1 DEF AsSweep, c
  <2> QED BY <1>1, <2>2, <2>3
<1>6. CASE SelectRules(i)
  <2> DEFINE y == {r \in DOMAIN Rule : Due(r, s)}
  <2>1. UNCHANGED ticket
        /\ sweep'[i] = AsSweep("rules", s.at, s.policy, s.todo, s.prio, s.copy, s.breaches, y)
    BY <1>6, SelectStep
  <2> HIDE DEF y
  <2>2. sweep'[i].copy = c
    BY <2>1 DEF AsSweep, c
  <2> QED BY <1>1, <2>1, <2>2
<1>7. ASSUME NEW r, ExecuteRule(i, r)
      PROVE  ticket'.prio \in Priority /\ sweep'[i].copy.prio \in Priority
  <2> DEFINE p == IF Rule[r].action = "change_priority" THEN Raised(c.prio) ELSE c.prio
             d == AsRow(p, c.policy, c.respDue, c.resDue, c.responded, c.closed,
                        c.status, c.flags)
  <2>1. /\ ticket'.prio \in {ticket.prio, Raised(c.prio)}
        /\ \/ sweep'[i] = NoSweep
           \/ sweep'[i] = AsSweep("log", s.at, s.policy, s.todo, s.prio, d, s.breaches,
                                  s.rules)
    BY <1>7, ExecuteStep DEF c
  <2>2. d.prio = p
    BY DEF AsRow
  <2>3. p \in {c.prio, Raised(c.prio)}
    OBVIOUS
  <2> HIDE DEF d, p
  <2>4. sweep'[i].copy \in {NoCopy, d}
    BY <2>1, NoSweepIsEmpty DEF Empty, AsSweep
  <2> QED BY <1>1, <2>1, <2>2, <2>3, <2>4
<1>8. ASSUME NEW r, LogRule(i, r)
      PROVE  ticket'.prio \in Priority /\ sweep'[i].copy.prio \in Priority
  <2> DEFINE y == s.rules \ {r}
  <2>1. UNCHANGED ticket
        /\ sweep'[i] = AsSweep("rules", s.at, s.policy, s.todo, s.prio, s.copy, s.breaches, y)
    BY <1>8, LogStep
  <2> HIDE DEF y
  <2>2. sweep'[i].copy = c
    BY <2>1 DEF AsSweep, c
  <2> QED BY <1>1, <2>1, <2>2
<1>9. CASE EndRules(i)
  <2>1. UNCHANGED ticket /\ Empty(sweep'[i])
    BY <1>9, EndStep
  <2> QED BY <1>1, <2>1 DEF Empty
<1>10. CASE Crash(i)
  <2>1. UNCHANGED ticket /\ Empty(sweep'[i])
    BY <1>10, CrashStep, NoSweepIsEmpty
  <2> QED BY <1>1, <2>1 DEF Empty
<1> QED BY <1>2, <1>3, <1>4, <1>5, <1>6, <1>7, <1>8, <1>9, <1>10 DEF Sweep

LEMMA NextDue ==
    ASSUME ~Overlap, CopyInv, PauseInv, DueInv, [Next]_vars
    PROVE  DueInv' /\ (Later \/ UNCHANGED vars)
<1>0. /\ Shapes /\ policy \in [Priority -> Targets] /\ ticket.prio \in Priority
      /\ \A i \in Sweeper : sweep[i].copy.prio \in Priority
      /\ now <= MaxTime /\ now \in Nat /\ MaxTime \in Nat
      /\ Past(pauses, now) /\ Len(pauses) + tally.edits <= MaxEvents
      /\ FitBoth(ticket, Spent) /\ pauses \in Seq(Pause)
  BY MostFacts DEF CopyInv, PauseInv, DueInv
<1>1. Spent \in Nat /\ ticket.respDue \in Nat /\ ticket.resDue \in Nat
  BY <1>0, SpentInRange, FitsLater DEF FitBoth
<1>2. CASE UNCHANGED vars
  <2>1. UNCHANGED <<now, policy, ticket, pauses, held, sweep, tally>>
    BY <1>2 DEF vars
  <2>2. DueInv' = DueInv
    BY <2>1 DEF DueInv, Spent
  <2> QED BY <1>2, <2>2
<1>3. CASE Tick
  <2>1. UNCHANGED <<policy, ticket, pauses, held, sweep, tally>> /\ now' = now + 1 /\ now < MaxTime
    BY <1>3 DEF Tick
  <2>2. Past(pauses, now + 1)
    BY <1>0, RowTimes DEF Past
  <2>3. Spent' = Spent /\ now' <= MaxTime /\ Past(pauses', now')
    BY <1>0, <2>1, <2>2 DEF Spent
  <2>4. DueInv'
    BY <2>1, <2>3 DEF DueInv, FitBoth
  <2> QED BY <1>1, <2>1, <2>4 DEF Later
<1>4. ASSUME UNCHANGED <<now, sweep>>, policy' \in [Priority -> Targets],
             ticket'.prio \in Priority, Past(pauses', now'),
             Len(pauses') + tally'.edits <= MaxEvents, FitBoth(ticket', Spent'),
             \A c \in held' : c.prio \in Priority /\ Spent' >= 1 /\ FitBoth(c, Spent' - 1)
      PROVE  DueInv'
  BY <1>0, <1>4 DEF DueInv, FitBoth
<1>5. CASE Load
  <2>1. /\ UNCHANGED <<now, sweep, policy, ticket, pauses>> /\ Room /\ Goes
        /\ held' = held \cup {ticket} /\ tally'.edits = tally.edits + 1
    <3>1. tally' = [tally EXCEPT !.edits = @ + 1] /\ IsTally(tally)
      BY <1>0, <1>5 DEF Load, Shapes
    <3>2. tally'.edits = tally.edits + 1
      BY <3>1 DEF IsTally, AsTally
    <3> QED BY <1>5, <3>2 DEF Load, Aside, Goes, PauseInv
  <2>2. /\ Past(pauses', now) /\ Len(pauses') + tally'.edits <= MaxEvents
        /\ Spent' \in Nat /\ Spent + 1 <= Spent'
    BY <1>0, <2>1, MovesCount
  <2> DEFINE m == Spent' - 1
  <2>3. m \in Nat /\ Spent <= m /\ Spent' >= 1 /\ Spent <= Spent'
    <3>1. \A x, y \in Nat : x + 1 <= y => y - 1 \in Nat /\ x <= y - 1 /\ y >= 1 /\ x <= y
      OBVIOUS
    <3> QED BY <1>1, <2>2, <3>1
  <2> HIDE DEF m
  <2>4. FitBoth(ticket, m) /\ FitBoth(ticket, Spent')
    BY <1>0, <1>1, <2>2, <2>3, FitsLater DEF FitBoth
  <2>5. ASSUME NEW c \in held PROVE c.prio \in Priority /\ FitBoth(c, m)
    <3> DEFINE n == Spent - 1
    <3>1. c.prio \in Priority /\ Spent >= 1 /\ FitBoth(c, n)
      BY DEF DueInv
    <3>2. n \in Nat /\ n <= m
      BY <1>1, <2>3, <3>1
    <3> HIDE DEF n
    <3> QED BY <2>3, <3>1, <3>2, FitsLater DEF FitBoth
  <2>6. FitBoth(ticket', Spent')
    BY <2>1, <2>4 DEF FitBoth
  <2>7. \A c \in held' : c.prio \in Priority /\ Spent' >= 1 /\ FitBoth(c, m)
    BY <1>0, <2>1, <2>3, <2>4, <2>5
  <2>8. DueInv'
    BY <1>0, <1>4, <2>1, <2>2, <2>6, <2>7 DEF m
  <2> QED BY <1>1, <2>1, <2>8 DEF Later
<1>6. ASSUME NEW c \in held \cup {ticket}, Request(c) PROVE DueInv' /\ Later
  <2>1. /\ ticket'.prio \in Priority
        /\ Past(pauses', now') /\ Len(pauses') + tally'.edits <= MaxEvents
        /\ Spent' \in Nat /\ Spent <= Spent' /\ FitBoth(ticket', Spent')
        /\ Ahead(ticket') \/ (c \in held \ held' /\ Outdated(c))
    BY <1>0, <1>6, RequestDue
  <2>2. held' \subseteq held /\ UNCHANGED <<policy, now, sweep>>
    BY <1>0, <1>6, RequestsKeep DEF Aside
  <2>3. \A d \in held' : d.prio \in Priority /\ Spent' >= 1 /\ FitBoth(d, Spent' - 1)
    BY <1>0, <2>1, <2>2, HeldFits
  <2>4. DueInv'
    BY <1>0, <1>4, <2>1, <2>2, <2>3
  <2> QED BY <2>1, <2>4 DEF Later, Ahead
<1>7. ASSUME NEW p \in Priority, Propagate(p) PROVE DueInv' /\ Later
  <2>1. /\ UNCHANGED <<now, sweep, policy, pauses, held, tally>> /\ queued' # queued
        /\ ticket' = Recomputed(policy[p])
    BY <1>7 DEF Propagate, Aside
  <2>2. Spent' = Spent /\ policy[p] \in Targets
    BY <1>0, <2>1 DEF Spent
  <2>3. ticket'.prio = ticket.prio /\ FitBoth(ticket', Spent)
    BY <1>0, <1>1, <2>1, <2>2, RecomputedFits
  <2>4. Past(pauses', now') /\ Len(pauses') + tally'.edits <= MaxEvents /\ held' \subseteq held
        /\ Spent' \in Nat /\ Spent <= Spent' /\ FitBoth(ticket', Spent')
    BY <1>0, <1>1, <2>1, <2>2, <2>3
  <2>5. \A d \in held' : d.prio \in Priority /\ Spent' >= 1 /\ FitBoth(d, Spent' - 1)
    BY <1>0, <2>4, HeldFits
  <2>6. DueInv'
    BY <1>0, <1>4, <2>1, <2>3, <2>4, <2>5
  <2> QED BY <2>1, <2>6 DEF Later
<1>8. ASSUME NEW p \in Priority, NEW target \in Targets, EditPolicy(p, target)
      PROVE  DueInv' /\ Later
  <2>1. /\ UNCHANGED <<now, sweep, pauses, held>>
        /\ policy' = [policy EXCEPT ![p] = target] /\ target # policy[p]
        /\ ticket' = Recomputed(target) \/ ticket' = ticket
        /\ Room /\ tally' = Edited(ticket)
    BY <1>8 DEF EditPolicy, Aside
  <2>2. policy' \in [Priority -> Targets] /\ policy' # policy
    BY <1>0, <2>1
  <2>3. tally'.edits = tally.edits + 1
    BY <1>0, <2>1, EditedIs DEF Shapes, AsTally
  <2>4. ticket'.status = ticket.status
    BY <1>0, <2>1, RecomputedIs DEF Shapes, AsRow
  <2>5. Goes
    BY <2>1, <2>4 DEF Goes, PauseInv
  <2>6. /\ Past(pauses', now) /\ Len(pauses') + tally'.edits <= MaxEvents
        /\ Spent' \in Nat /\ Spent <= Spent'
    BY <1>0, <2>1, <2>3, <2>5, MovesCount
  <2>7. ticket'.prio = ticket.prio /\ FitBoth(ticket', Spent')
    <3>1. CASE ticket' = ticket
      BY <1>0, <1>1, <2>6, <3>1, FitsLater DEF FitBoth
    <3>2. CASE ticket' = Recomputed(target)
      BY <1>0, <2>6, <3>2, RecomputedFits
    <3> QED BY <2>1, <3>1, <3>2
  <2>8. \A d \in held' : d.prio \in Priority /\ Spent' >= 1 /\ FitBoth(d, Spent' - 1)
    BY <1>0, <2>1, <2>6, HeldFits
  <2>9. DueInv'
    BY <1>0, <1>4, <2>1, <2>2, <2>6, <2>7, <2>8
  <2> QED BY <2>2, <2>9 DEF Later
<1>9. ASSUME NEW i \in Sweeper, Sweep(i) \/ Crash(i) PROVE DueInv' /\ Later
  <2>1. /\ UNCHANGED <<now, policy, queued, held, pauses>> /\ tally'.edits = tally.edits
        /\ ticket' = AsRow(ticket'.prio, ticket.policy, ticket.respDue, ticket.resDue,
                           ticket.responded, ticket.closed, ticket.status, ticket'.flags)
    BY <1>9, WorkSteps DEF Others
  <2>2. ticket'.respDue = ticket.respDue /\ ticket'.resDue = ticket.resDue
    BY <2>1 DEF AsRow
  <2>3. Spent' = Spent
    BY <2>1 DEF Spent
  <2>4. ticket'.prio \in Priority /\ \A j \in Sweeper : sweep'[j].copy.prio \in Priority
    BY <1>0, <1>9, WorkPrio
  <2>5. DueInv'
    BY <1>0, <2>1, <2>2, <2>3, <2>4 DEF DueInv, FitBoth
  <2> QED BY <1>1, <2>2, <2>5 DEF Later
<1> QED BY <1>2, <1>3, <1>5, <1>6, <1>7, <1>8, <1>9, NextSteps DEF Asked

\* tickets/services.py (_extend_sla_on_escalation, _shift_sla_deadlines): nothing but a
\* policy edit, or the late save of an instance that holds other deadlines than the row,
\* moves a deadline towards the present, as long as no request comes between the steps of
\* one ticket's check.
THEOREM DeadlinesOnlyGrow == ~Overlap /\ Spec => DeadlineNeverEarlier
<1>1. ASSUME ~Overlap
      PROVE  CopyInv /\ PauseInv /\ DueInv /\ [Next]_vars
               => DueInv' /\ [\/ ticket'.respDue >= ticket.respDue /\ ticket'.resDue >= ticket.resDue
                              \/ policy' # policy
                              \/ queued' # queued
                              \/ \E c \in held \ held' : Outdated(c)]_vars
  BY <1>1, NextDue DEF Later
<1>2. ASSUME ~Overlap
      PROVE  CopyInv /\ PauseInv /\ [Next]_vars => CopyInv' /\ PauseInv'
  BY <1>2, NextCopy, NextPause
<1>3. ASSUME ~Overlap PROVE Spec => DeadlineNeverEarlier
  BY <1>1, <1>2, <1>3, InitCopy, InitPause, InitDue, PTL DEF Spec, DeadlineNeverEarlier
<1> QED BY <1>3

-----------------------------------------------------------------------------
(* SlaClock: the two clocks.                                               *)

\* The pairs of a row of ps and an open minute of it: before t, and in rows that ended.
Cut(q, t) == IF q.to = NoTime \/ q.to > t THEN t ELSE q.to

Taken(ps, t) ==
    {x \in (DOMAIN ps) \X OpenMinutes : ps[x[1]].from <= x[2] /\ x[2] < Cut(ps[x[1]], t)}

Ended(ps) ==
    {x \in (DOMAIN ps) \X OpenMinutes : ps[x[1]].from <= x[2] /\ x[2] < ps[x[1]].to}

\* The business minutes that have run by the time t.
Ran(ps, t) == Worked[t] - Cardinality(Taken(ps, t))

LEMMA TakenIsFinite ==
    ASSUME NEW ps \in Seq(Pause), NEW t \in Nat
    PROVE  IsFiniteSet(Taken(ps, t)) /\ Cardinality(Taken(ps, t)) \in Nat
<1>1. DOMAIN ps = 1 .. Len(ps) /\ Len(ps) \in Nat
  OBVIOUS
<1>2. \A i \in DOMAIN ps : ps[i].from \in Nat /\ ps[i].to \in Int
  BY RowTimes
<1>3. \A m \in OpenMinutes : m \in Nat
  BY OpenAreNats
<1>4. IsFiniteSet(DOMAIN ps) /\ IsFiniteSet(0 .. t)
  BY <1>1, FS_Interval
<1>5. IsFiniteSet((DOMAIN ps) \X (0 .. t))
  BY <1>4, FS_Product
<1>6. ASSUME NEW x \in Taken(ps, t) PROVE x \in (DOMAIN ps) \X (0 .. t)
  <2>1. PICK i \in DOMAIN ps, m \in OpenMinutes : x = <<i, m>>
    BY DEF Taken
  <2>2. m < Cut(ps[i], t)
    BY <2>1 DEF Taken
  <2>3. m \in 0 .. t
    BY <1>2, <1>3, <2>2 DEF Cut
  <2> QED BY <2>1, <2>3
<1>7. IsFiniteSet(Taken(ps, t))
  BY <1>5, <1>6, FS_Subset
<1> QED BY <1>7, FS_CardinalityType

\* A pause that begins now takes no minute off the past.
LEMMA BeginTakes ==
    ASSUME NEW ps \in Seq(Pause), now \in Nat, Past(ps, now), NEW t \in 0 .. now
    PROVE  Taken(BeginPause(ps), t) = Taken(ps, t) /\ Ended(BeginPause(ps)) = Ended(ps)
<1> DEFINE qs == BeginPause(ps)
           n == Len(ps) + 1
<1>1. /\ DOMAIN qs = DOMAIN ps \cup {n}
      /\ n \notin DOMAIN ps
      /\ \A i \in DOMAIN ps : qs[i] = ps[i]
      /\ qs[n] = [from |-> now, to |-> NoTime]
  BY BeginPauseRows
<1>2. qs[n].from = now /\ qs[n].to = NoTime /\ Cut(qs[n], t) = t
  BY <1>1 DEF Cut
<1>3. \A m \in OpenMinutes : m \in Nat
  BY OpenAreNats
<1> HIDE DEF qs, n
<1>4. \A m \in OpenMinutes : ~(qs[n].from <= m /\ m < Cut(qs[n], t))
  BY <1>2, <1>3
<1>5. \A m \in OpenMinutes : ~(qs[n].from <= m /\ m < qs[n].to)
  BY <1>2, <1>3 DEF NoTime
<1>6. Taken(qs, t) = Taken(ps, t)
  BY <1>1, <1>4 DEF Taken
<1>7. Ended(qs) = Ended(ps)
  BY <1>1, <1>5 DEF Ended
<1> QED BY <1>6, <1>7 DEF qs

\* Nor does one that ends now; its minutes are those of an ended row from now on.
LEMMA EndTakes ==
    ASSUME NEW ps \in Seq(Pause), OpenPauses(ps) \subseteq {Len(ps)}, now \in Nat,
           Past(ps, now), NEW t \in 0 .. now
    PROVE  Taken(EndPause(ps), t) = Taken(ps, t) /\ Ended(EndPause(ps)) = Taken(ps, now)
<1> DEFINE qs == EndPause(ps)
<1>1. /\ DOMAIN qs = DOMAIN ps
      /\ \A i \in DOMAIN ps : /\ qs[i].from = ps[i].from
                              /\ qs[i].to = IF ps[i].to = NoTime THEN now ELSE ps[i].to
  BY EndPauseRows
<1>2. \A i \in DOMAIN ps : ps[i].from \in Nat /\ ps[i].to \in Int
  BY RowTimes
<1> HIDE DEF qs
<1>3. \A i \in DOMAIN ps : Cut(qs[i], t) = Cut(ps[i], t)
  BY <1>1, <1>2 DEF Cut, NoTime
<1>4. \A i \in DOMAIN ps : qs[i].to = Cut(ps[i], now)
  BY <1>1, <1>2 DEF Cut, NoTime, Past
<1>5. Taken(qs, t) = Taken(ps, t)
  BY <1>1, <1>3 DEF Taken
<1>6. Ended(qs) = Taken(ps, now)
  BY <1>1, <1>4 DEF Ended, Taken
<1> QED BY <1>5, <1>6 DEF qs

\* Only the open pause takes off more than the ended ones: its business minutes.
LEMMA OpenTakes ==
    ASSUME NEW ps \in Seq(Pause), OpenPauses(ps) \subseteq {Len(ps)}, now \in Nat, Past(ps, now),
           now <= MaxTime
    PROVE  Cardinality(Taken(ps, now)) =
             Cardinality(Ended(ps))
               + (IF OpenPauses(ps) = {} THEN 0 ELSE Business(ps[LastOpen(ps)].from, now))
<1>1. \A i \in DOMAIN ps : ps[i].from \in Nat /\ ps[i].to \in Int
  BY RowTimes
<1>2. \A m \in OpenMinutes : m \in Nat
  BY OpenAreNats
<1>3. CASE OpenPauses(ps) = {}
  <2>1. \A i \in DOMAIN ps : ps[i].to = Cut(ps[i], now)
    BY <1>1, <1>3 DEF OpenPauses, Cut, Past
  <2>2. Ended(ps) = Taken(ps, now)
    BY <2>1 DEF Ended, Taken
  <2>3. Cardinality(Taken(ps, now)) \in Nat
    BY TakenIsFinite
  <2> QED BY <1>3, <2>2, <2>3
<1>4. CASE OpenPauses(ps) # {}
  <2>1. PICK n : n = Len(ps) /\ OpenPauses(ps) = {n} /\ LastOpen(ps) = n /\ n \in DOMAIN ps
    BY <1>4, EndPauseCloses
  <2>2. PICK S : S = OpenIn(ps[n].from, now)
    OBVIOUS
  <2>3. /\ \A i \in (DOMAIN ps) \ {n} : ps[i].to = Cut(ps[i], now)
        /\ ps[n].to = NoTime /\ Cut(ps[n], now) = now
    BY <1>1, <2>1 DEF OpenPauses, Cut, Past
  <2>4. \A m \in OpenMinutes : ~(m < ps[n].to)
    BY <1>2, <2>3 DEF NoTime
  <2>5. Taken(ps, now) = Ended(ps) \cup ({n} \X S)
    BY <2>1, <2>2, <2>3, <2>4 DEF Ended, Taken, OpenIn
  <2>6. Ended(ps) \cap ({n} \X S) = {}
    BY <2>4 DEF Ended
  <2>7. ps[n].from \in 0 .. Horizon /\ now \in 0 .. Horizon /\ ps[n].from \in Int
    BY <1>1, <2>1, MostFacts DEF Past
  <2>8. IsFiniteSet(S) /\ Business(ps[n].from, now) = Cardinality(S) /\ Cardinality(S) \in Nat
    <3>1. Business(ps[n].from, now) = Cardinality(OpenIn(ps[n].from, now))
      BY <2>7, BusinessCounts
    <3>2. IsFiniteSet(S) /\ Cardinality(S) \in Nat
      BY <2>2, <2>7, OpenIsFinite
    <3> QED BY <2>2, <3>1, <3>2
  <2>9. IsFiniteSet({n} \X S) /\ Cardinality({n} \X S) = 1 * Cardinality(S)
    BY <2>8, FS_Singleton, FS_Product
  <2>10. IsFiniteSet(Ended(ps)) /\ Cardinality(Ended(ps)) \in Nat
    <3>1. IsFiniteSet(Taken(ps, now)) /\ Ended(ps) \subseteq Taken(ps, now)
      BY <2>5, TakenIsFinite
    <3> QED BY <3>1, FS_Subset, FS_CardinalityType
  <2>11. Cardinality(Ended(ps) \cup ({n} \X S)) =
           Cardinality(Ended(ps)) + Cardinality({n} \X S)
             - Cardinality(Ended(ps) \cap ({n} \X S))
    BY <2>9, <2>10, FS_Union
  <2>12. Cardinality(Ended(ps) \cap ({n} \X S)) = 0
    BY <2>6, FS_EmptySet
  <2> QED BY <1>4, <2>1, <2>5, <2>8, <2>9, <2>10, <2>11, <2>12
<1> QED BY <1>3, <1>4

\* A tick takes off no more than it adds.
LEMMA TickRuns ==
    ASSUME NEW ps \in Seq(Pause), OpenPauses(ps) \subseteq {Len(ps)}, now \in Nat, Past(ps, now),
           now + 1 <= MaxTime
    PROVE  Ran(ps, now + 1) \in Int /\ Ran(ps, now) \in Int /\ Ran(ps, now + 1) >= Ran(ps, now)
<1>1. \A i \in DOMAIN ps : ps[i].from \in Nat /\ ps[i].to \in Int
  BY RowTimes
<1>2. \A m \in OpenMinutes : m \in Nat
  BY OpenAreNats
<1>3. PICK S, n : S = OpenIn(now, now + 1) /\ n = Len(ps)
  OBVIOUS
<1>4. now + 1 \in 0 .. Horizon /\ now \in 0 .. Horizon
  BY MostFacts
<1>5. IsFiniteSet(S) /\ Cardinality(S) \in Nat
  <2>1. now \in Int /\ now + 1 \in Int
    OBVIOUS
  <2> QED BY <1>3, <2>1, OpenIsFinite
<1>6. IsFiniteSet({n} \X S) /\ Cardinality({n} \X S) = 1 * Cardinality(S)
  <2>1. IsFiniteSet({n}) /\ Cardinality({n}) = 1
    BY FS_Singleton
  <2> QED BY <1>5, <2>1, FS_Product
<1>w. Worked[now + 1] = Worked[now] + Cardinality(S) /\ Worked[now] \in Nat
  <2>1. Worked[now + 1] = Worked[now] + Cardinality(OpenIn(now, now + 1))
    BY <1>4, WorkedTicks
  <2>2. Worked[now] \in Nat
    BY <1>4, WorkedCounts
  <2> QED BY <1>3, <2>1, <2>2
<1>7. Taken(ps, now + 1) \subseteq Taken(ps, now) \cup ({n} \X S)
  <2> SUFFICES ASSUME NEW x \in Taken(ps, now + 1) PROVE x \in Taken(ps, now) \cup ({n} \X S)
    OBVIOUS
  <2>1. PICK i \in DOMAIN ps, m \in OpenMinutes : x = <<i, m>>
    BY DEF Taken
  <2>2. ps[i].from <= m /\ m < Cut(ps[i], now + 1)
    BY <2>1 DEF Taken
  <2>3. CASE m < Cut(ps[i], now)
    BY <2>1, <2>2, <2>3 DEF Taken
  <2>4. CASE ~(m < Cut(ps[i], now))
    <3>1. ps[i].to = NoTime /\ now <= m /\ m < now + 1
      BY <1>1, <1>2, <2>2, <2>4 DEF Cut, Past
    <3>2. i = n
      BY <1>3, <3>1 DEF OpenPauses
    <3>3. m \in S
      BY <1>3, <3>1 DEF OpenIn
    <3> QED BY <2>1, <3>2, <3>3
  <2> QED BY <2>3, <2>4
<1>8. /\ IsFiniteSet(Taken(ps, now)) /\ Cardinality(Taken(ps, now)) \in Nat
      /\ Cardinality(Taken(ps, now + 1)) \in Nat
  BY TakenIsFinite
<1>9. /\ IsFiniteSet(Taken(ps, now) \cup ({n} \X S))
      /\ Cardinality(Taken(ps, now) \cup ({n} \X S))
           = Cardinality(Taken(ps, now)) + Cardinality({n} \X S)
               - Cardinality(Taken(ps, now) \cap ({n} \X S))
  BY <1>6, <1>8, FS_Union
<1>10. Cardinality(Taken(ps, now) \cap ({n} \X S)) \in Nat
  BY <1>6, FS_Intersection, FS_CardinalityType
<1>11. Cardinality(Taken(ps, now + 1)) <= Cardinality(Taken(ps, now) \cup ({n} \X S))
  BY <1>7, <1>9, FS_Subset
<1> QED BY <1>5, <1>6, <1>8, <1>9, <1>10, <1>11, <1>w DEF Ran

LEMMA CountedIsOpen ==
    ASSUME NEW p, BusinessOnly[p], NEW from \in Int, NEW to \in Int
    PROVE  Counted(p, from, to) = OpenIn(from, to)
<1>1. \A m \in OpenMinutes : m \in Nat
  BY OpenAreNats
<1> QED BY <1>1 DEF Counted, OpenIn

\* The sums of the code, over the rows, count the minutes taken off.
LEMMA RowsCount ==
    ASSUME NEW ps \in Seq(Pause), NEW p, BusinessOnly[p], NEW t \in Nat
    PROVE  UNION {{i} \X Counted(p, ps[i].from, Cut(ps[i], t)) : i \in DOMAIN ps} = Taken(ps, t)
<1>1. \A i \in DOMAIN ps : ps[i].from \in Int /\ Cut(ps[i], t) \in Int
  BY RowTimes DEF Cut
<1>2. \A i \in DOMAIN ps : Counted(p, ps[i].from, Cut(ps[i], t)) = OpenIn(ps[i].from, Cut(ps[i], t))
  BY <1>1, CountedIsOpen
<1> DEFINE U == UNION {{i} \X Counted(p, ps[i].from, Cut(ps[i], t)) : i \in DOMAIN ps}
<1>3. ASSUME NEW x \in U PROVE x \in Taken(ps, t)
  <2>1. PICK i \in DOMAIN ps : x \in {i} \X Counted(p, ps[i].from, Cut(ps[i], t))
    OBVIOUS
  <2>2. x \in {i} \X OpenIn(ps[i].from, Cut(ps[i], t))
    BY <1>2, <2>1
  <2> QED BY <2>2 DEF OpenIn, Taken
<1>4. ASSUME NEW x \in Taken(ps, t) PROVE x \in U
  <2>1. PICK i \in DOMAIN ps, m \in OpenMinutes : x = <<i, m>>
    BY DEF Taken
  <2>2. m \in OpenIn(ps[i].from, Cut(ps[i], t))
    BY <2>1 DEF Taken, OpenIn
  <2>3. x \in {i} \X Counted(p, ps[i].from, Cut(ps[i], t))
    BY <1>2, <2>1, <2>2
  <2> QED BY <2>3
<1> QED BY <1>3, <1>4

LEMMA PauseMinutesCount ==
    ASSUME PauseInv, DueInv, NEW p, BusinessOnly[p]
    PROVE  PauseMinutes(p, now) = Cardinality(Taken(pauses, now))
<1> DEFINE end(q) == IF q.to = NoTime THEN now ELSE q.to
<1>1. PauseMinutes(p, now) =
        Cardinality(UNION {{i} \X Counted(p, pauses[i].from, end(pauses[i])) : i \in DOMAIN pauses})
  BY DEF PauseMinutes
<1>2. \A i \in DOMAIN pauses : end(pauses[i]) = Cut(pauses[i], now)
  <2>1. \A i \in DOMAIN pauses : pauses[i].from \in Nat /\ pauses[i].to \in Int
    BY RowTimes DEF PauseInv
  <2>2. now \in Nat /\ Past(pauses, now)
    BY DEF PauseInv, DueInv
  <2> QED BY <2>1, <2>2 DEF Cut, Past
<1> HIDE DEF end
<1>3. UNION {{i} \X Counted(p, pauses[i].from, end(pauses[i])) : i \in DOMAIN pauses}
        = UNION {{i} \X Counted(p, pauses[i].from, Cut(pauses[i], now)) : i \in DOMAIN pauses}
  BY <1>2
<1>4. UNION {{i} \X Counted(p, pauses[i].from, Cut(pauses[i], now)) : i \in DOMAIN pauses}
        = Taken(pauses, now)
  BY RowsCount DEF PauseInv
<1> QED BY <1>1, <1>3, <1>4

LEMMA ElapsedCounts ==
    ASSUME DueInv, PauseInv, NEW p, BusinessOnly[p], NEW t \in 0 .. now
    PROVE  Elapsed(p, 0, t) = Worked[t] /\ Worked[t] \in Nat /\ Ran(pauses, t) \in Int
<1>1. t \in 0 .. Horizon /\ 0 \in 0 .. Horizon /\ Worked[0] = 0 /\ t \in Nat
  BY WorkedStarts, MostFacts DEF DueInv, PauseInv
<1>2. Worked[t] \in Nat /\ Business(0, t) = IF 0 < t THEN Worked[t] - Worked[0] ELSE 0
  BY <1>1, BusinessCounts
<1>3. Business(0, t) = Worked[t]
  BY <1>1, <1>2
<1>4. Cardinality(Taken(pauses, t)) \in Nat
  BY <1>1, TakenIsFinite DEF PauseInv
<1> QED BY <1>2, <1>3, <1>4 DEF Elapsed, Ran

LEMMA RanUntilCounts ==
    ASSUME PauseInv, DueInv, BusinessOnly[ticket.prio], NEW t \in 0 .. now
    PROVE  RanUntil(t) = Ran(pauses, t)
<1> DEFINE p == ticket.prio
           end(q) == IF q.to = NoTime \/ q.to > t THEN t ELSE q.to
<1>1. RanUntil(t) = Elapsed(p, 0, t) -
        Cardinality(UNION {{i} \X Counted(p, pauses[i].from, end(pauses[i])) : i \in DOMAIN pauses})
  BY DEF RanUntil
<1>2. UNION {{i} \X Counted(p, pauses[i].from, Cut(pauses[i], t)) : i \in DOMAIN pauses}
        = Taken(pauses, t)
  BY RowsCount DEF PauseInv
<1>3. UNION {{i} \X Counted(p, pauses[i].from, end(pauses[i])) : i \in DOMAIN pauses}
        = Taken(pauses, t)
  BY <1>2 DEF Cut
<1>4. Elapsed(p, 0, t) = Worked[t]
  BY ElapsedCounts
<1> HIDE DEF p, end
<1> QED BY <1>1, <1>3, <1>4 DEF Ran

\* The sweep's test: more has run than the promise.
LEMMA EffectiveCounts ==
    ASSUME PauseInv, DueInv, NEW p, BusinessOnly[p], NEW m \in Nat
    PROVE  (EffectiveElapsed(p, now) > m) <=> (Ran(pauses, now) > m)
<1>1. now \in 0 .. now
  BY DEF PauseInv
<1>2. /\ Elapsed(p, 0, now) = Worked[now] /\ Worked[now] \in Nat
      /\ Ran(pauses, now) \in Int
  BY <1>1, ElapsedCounts
<1>3. PauseMinutes(p, now) = Cardinality(Taken(pauses, now))
  BY PauseMinutesCount
<1>4. EffectiveElapsed(p, now) = IF Ran(pauses, now) < 0 THEN 0 ELSE Ran(pauses, now)
  BY <1>2, <1>3 DEF EffectiveElapsed, Ran
<1> QED BY <1>2, <1>4


\* As long as nothing touches the clock, a deadline is the promise and the minutes of
\* the pauses that have ended after the creation.
LengthInv ==
    ~tally.touched =>
        /\ queued = {}
        /\ Worked[ticket.respDue] = policy[ticket.prio].resp + Cardinality(Ended(pauses))
        /\ Worked[ticket.resDue] = policy[ticket.prio].res + Cardinality(Ended(pauses))

LEMMA PromiseIsNat ==
    ASSUME DueInv
    PROVE  /\ policy[ticket.prio].resp \in 0 .. Most /\ policy[ticket.prio].resp \in Nat
           /\ policy[ticket.prio].res \in 0 .. Most /\ policy[ticket.prio].res \in Nat
<1>1. PICK target \in Targets : target = policy[ticket.prio]
  BY DEF DueInv
<1> QED BY <1>1, MostFacts

\* The minutes taken off by now are those of the ended pauses and of the open one.
LEMMA NowTakes ==
    ASSUME PauseInv, DueInv
    PROVE  /\ Cardinality(Ended(pauses)) \in Nat /\ Cardinality(Taken(pauses, now)) \in Nat
           /\ Worked[now] \in Nat
           /\ Ran(pauses, now) = Worked[now] - Cardinality(Taken(pauses, now))
           /\ OpenPauses(pauses) = {} =>
                Cardinality(Taken(pauses, now)) = Cardinality(Ended(pauses))
           /\ OpenPauses(pauses) # {} =>
                /\ Length \in Nat
                /\ Cardinality(Taken(pauses, now)) = Cardinality(Ended(pauses)) + Length
<1>1. /\ now \in Nat /\ now <= MaxTime /\ Past(pauses, now) /\ pauses \in Seq(Pause)
      /\ OpenPauses(pauses) \subseteq {Len(pauses)}
  BY DEF PauseInv, DueInv
<1>2. Cardinality(Taken(pauses, now)) \in Nat /\ IsFiniteSet(Taken(pauses, now))
  BY <1>1, TakenIsFinite
<1>3. Cardinality(Taken(pauses, now)) =
        Cardinality(Ended(pauses)) + (IF OpenPauses(pauses) = {} THEN 0 ELSE Length)
  BY <1>1, OpenTakes DEF Length
<1>4. Cardinality(Ended(pauses)) \in Nat
  <2>1. \A i \in DOMAIN pauses : pauses[i].from \in Nat /\ pauses[i].to \in Int
    BY <1>1, RowTimes
  <2>2. \A m \in OpenMinutes : m \in Nat
    BY OpenAreNats
  <2>3. ASSUME NEW x \in Ended(pauses) PROVE x \in Taken(pauses, now)
    <3>1. PICK i \in DOMAIN pauses, m \in OpenMinutes : x = <<i, m>>
      BY DEF Ended
    <3>2. pauses[i].from <= m /\ m < pauses[i].to
      BY <3>1 DEF Ended
    <3>3. m < Cut(pauses[i], now)
      BY <1>1, <2>1, <2>2, <3>2 DEF Cut, Past, NoTime
    <3> QED BY <3>1, <3>2, <3>3 DEF Taken
  <2>4. IsFiniteSet(Ended(pauses))
    BY <1>2, <2>3, FS_Subset
  <2> QED BY <2>4, FS_CardinalityType
<1>5. OpenPauses(pauses) # {} => Length \in Nat
  BY LengthCounts, MostFacts
<1>6. Worked[now] \in Nat
  <2>1. now \in 0 .. Horizon
    BY <1>1, MostFacts
  <2> QED BY <2>1, WorkedCounts
<1> QED BY <1>1, <1>2, <1>3, <1>4, <1>5, <1>6 DEF Ran

\* Business time since an instant, by the minutes worked before it.
LEMMA AfterIsLater ==
    ASSUME PauseInv, DueInv, NEW due \in 0 .. Horizon
    PROVE  /\ Business(due, now) > 0 <=> Worked[now] > Worked[due]
           /\ Worked[now] > Worked[due] => now > due
           /\ now > due => Worked[now] >= Worked[due]
           /\ Worked[due] \in Nat
<1>1. now \in 0 .. Horizon /\ now \in Nat /\ due \in Nat
  BY MostFacts DEF PauseInv, DueInv
<1>2. /\ Worked[due] \in Nat /\ Worked[now] \in Nat
      /\ Business(due, now) = IF due < now THEN Worked[now] - Worked[due] ELSE 0
      /\ due <= now => Worked[due] <= Worked[now]
  BY <1>1, BusinessCounts
<1>3. now <= due => Worked[now] <= Worked[due]
  BY <1>1, BusinessCounts
<1> QED BY <1>1, <1>2, <1>3

\* The stored deadline and the elapsed time agree about a promise of m minutes.
LEMMA ClocksAgree ==
    ASSUME Shapes, PauseInv, DueInv, BusinessOnly[ticket.prio], NEW due, Fits(due, Spent), NEW m \in Nat,
           Worked[due] = m + Cardinality(Ended(pauses))
    PROVE  (EffectiveElapsed(ticket.prio, now) > m) <=> (Business(DueAfterPause(due), now) > 0)
<1>1. (EffectiveElapsed(ticket.prio, now) > m) <=> (Ran(pauses, now) > m)
  BY EffectiveCounts
<1>2. due \in 0 .. Horizon /\ due # NoTime
  BY DEF Fits, NoTime
<1>3. CASE OpenPauses(pauses) = {}
  <2>1. DueAfterPause(due) = due
    BY <1>3, NowTakes DEF DueAfterPause
  <2>2. (Business(due, now) > 0) <=> (Worked[now] > Worked[due])
    BY <1>2, AfterIsLater
  <2>3. (Ran(pauses, now) > m) <=> (Worked[now] > Worked[due])
    BY <1>3, NowTakes
  <2> QED BY <1>1, <2>1, <2>2, <2>3
<1>4. CASE OpenPauses(pauses) # {}
  <2> DEFINE d == AddBusiness(due, Length)
  <2>1. DueAfterPause(due) = d
    BY <1>2, <1>4, NowTakes DEF DueAfterPause, Shift, Length
  <2>2. Length \in 0 .. Most /\ Spent \in Nat /\ Spent <= MaxEvents
    BY <1>4, LengthCounts, SpentInRange
  <2>3. d \in 0 .. Horizon /\ Worked[d] = Worked[due] + Length
    BY <2>2, AddFits DEF Fits
  <2> HIDE DEF d
  <2>4. (Business(d, now) > 0) <=> (Worked[now] > Worked[d])
    BY <2>3, AfterIsLater
  <2>5. (Ran(pauses, now) > m) <=> (Worked[now] > Worked[d])
    BY <1>4, <2>3, NowTakes
  <2> QED BY <1>1, <2>1, <2>4, <2>5
<1> QED BY <1>3, <1>4

LEMMA LengthsAgree ==
    ASSUME Shapes, PauseInv, DueInv, LengthInv
    PROVE  TestsAgree
<1> SUFFICES ASSUME ~tally.touched, BusinessOnly[ticket.prio]
             PROVE  \A due \in {<<"response", ticket.respDue>>, <<"resolution", ticket.resDue>>} :
                        (EffectiveElapsed(ticket.prio, now)
                            > Minutes(policy[ticket.prio], due[1]))
                        <=> Business(DueAfterPause(due[2]), now) > 0
  BY DEF TestsAgree
<1>1. /\ policy[ticket.prio].resp \in Nat /\ policy[ticket.prio].res \in Nat
      /\ Fits(ticket.respDue, Spent) /\ Fits(ticket.resDue, Spent)
      /\ Worked[ticket.respDue] = policy[ticket.prio].resp + Cardinality(Ended(pauses))
      /\ Worked[ticket.resDue] = policy[ticket.prio].res + Cardinality(Ended(pauses))
  BY PromiseIsNat DEF DueInv, FitBoth, LengthInv
<1>2. (EffectiveElapsed(ticket.prio, now) > policy[ticket.prio].resp)
        <=> Business(DueAfterPause(ticket.respDue), now) > 0
  BY <1>1, ClocksAgree
<1>3. (EffectiveElapsed(ticket.prio, now) > policy[ticket.prio].res)
        <=> Business(DueAfterPause(ticket.resDue), now) > 0
  BY <1>1, ClocksAgree
<1>4. /\ Minutes(policy[ticket.prio], "response") = policy[ticket.prio].resp
      /\ Minutes(policy[ticket.prio], "resolution") = policy[ticket.prio].res
  BY DEF Minutes
<1> QED BY <1>2, <1>3, <1>4

\* The flag of kind k after the ticket was answered or closed now, due by the time due.
FlagAt(k, due, f) == IF due # NoTime /\ now > due THEN f \cup {k} ELSE f

\* The flag of kind k tells the truth about a promise of p minutes: f are the flags, e
\* the time at which it was kept, if any, z the kinds kept in a pause.
Truth(k, e, p, f, z, ps, t) ==
    /\ e = NoTime \/ e \in 0 .. t
    /\ k \in f => k \in z \/ (Ran(ps, t) >= p /\ (e # NoTime => Ran(ps, e) >= p))
    /\ e # NoTime /\ Ran(ps, e) > p => k \in f

\* A flag is set because, and as soon as it is known that, the promise was not kept.
FlagInv ==
    ~tally.touched /\ BusinessOnly[ticket.prio] =>
        /\ Truth("response", ticket.responded, policy[ticket.prio].resp, ticket.flags,
                 tally.inPause, pauses, now)
        /\ Truth("resolution", ticket.closed, policy[ticket.prio].res, ticket.flags,
                 tally.inPause, pauses, now)

\* What has run until a time stays what it was; the more time, the more has run.
Runs(ps, t, qs, u) ==
    /\ t <= u
    /\ \A s \in 0 .. t : Ran(qs, s) = Ran(ps, s) /\ Ran(ps, s) \in Int
    /\ Ran(qs, u) \in Int /\ Ran(qs, u) >= Ran(ps, t)

LEMMA TruthStays ==
    ASSUME NEW k, NEW e, NEW p \in Nat, NEW f, NEW z, NEW ps, NEW t \in Nat,
           NEW g, NEW y, NEW qs, NEW u \in Nat,
           Truth(k, e, p, f, z, ps, t), Runs(ps, t, qs, u), k \in g <=> k \in f, z \subseteq y
    PROVE  Truth(k, e, p, g, y, qs, u)
<1>1. t \in 0 .. t /\ Ran(ps, t) \in Int
  BY DEF Runs
<1>2. e # NoTime => e \in 0 .. t /\ e \in 0 .. u /\ Ran(qs, e) = Ran(ps, e) /\ Ran(ps, e) \in Int
  BY DEF Runs, Truth
<1>3. Ran(qs, u) \in Int /\ Ran(qs, u) >= Ran(ps, t)
  BY DEF Runs
<1> QED BY <1>1, <1>2, <1>3 DEF Truth

\* Answering or closing now sets the flag as the deadline says.
LEMMA TruthEnds ==
    ASSUME PauseInv, DueInv, NEW k, NEW e, NEW p \in Nat, NEW f, NEW z, NEW due, NEW y,
           Truth(k, e, p, f, z, pauses, now), Fits(due, Spent),
           Worked[due] = p + Cardinality(Ended(pauses)),
           z \subseteq y, OpenPauses(pauses) # {} => k \in y
    PROVE  Truth(k, now, p, FlagAt(k, due, f), y, pauses, now)
<1>1. due \in 0 .. Horizon /\ due # NoTime /\ now \in 0 .. now
  BY DEF Fits, NoTime, PauseInv
<1>2. FlagAt(k, due, f) = IF now > due THEN f \cup {k} ELSE f
  BY <1>1 DEF FlagAt
<1>3. /\ Worked[now] > Worked[due] => now > due
      /\ now > due => Worked[now] >= Worked[due]
  BY <1>1, AfterIsLater
<1>4. Ran(pauses, now) > p => now > due
  BY <1>3, NowTakes
<1>5. now > due /\ OpenPauses(pauses) = {} => Ran(pauses, now) >= p
  BY <1>3, NowTakes
<1>6. k \in f /\ OpenPauses(pauses) = {} => k \in y \/ Ran(pauses, now) >= p
  BY DEF Truth
<1> QED BY <1>1, <1>2, <1>4, <1>5, <1>6 DEF Truth

LEMMA TruthReopens ==
    ASSUME NEW k, NEW e, NEW p, NEW f, NEW z, NEW ps, NEW t, Truth(k, e, p, f, z, ps, t)
    PROVE  Truth(k, NoTime, p, f, z, ps, t)
BY DEF Truth

\* No handler changes what has run until now.
LEMMA RanStays ==
    ASSUME PauseInv, DueInv, NEW qs, qs \in {pauses, BeginPause(pauses), EndPause(pauses)}
    PROVE  Runs(pauses, now, qs, now)
<1>1. /\ now \in Nat /\ now <= MaxTime /\ Past(pauses, now) /\ pauses \in Seq(Pause)
      /\ OpenPauses(pauses) \subseteq {Len(pauses)}
  BY DEF PauseInv, DueInv
<1>2. \A s \in 0 .. now : Ran(pauses, s) \in Int
  <2> TAKE s \in 0 .. now
  <2>1. s \in 0 .. Horizon /\ s \in Nat
    BY <1>1, MostFacts
  <2>2. Worked[s] \in Nat /\ Cardinality(Taken(pauses, s)) \in Nat
    BY <1>1, <2>1, WorkedCounts, TakenIsFinite
  <2> QED BY <2>2 DEF Ran
<1>3. \A s \in 0 .. now : Taken(qs, s) = Taken(pauses, s)
  BY <1>1, BeginTakes, EndTakes
<1>4. \A s \in 0 .. now : Ran(qs, s) = Ran(pauses, s)
  BY <1>3 DEF Ran
<1>5. now \in 0 .. now
  BY <1>1
<1> QED BY <1>1, <1>2, <1>4, <1>5 DEF Runs

\* As the clock ticks.
LEMMA RanTicks ==
    ASSUME PauseInv, DueInv, now + 1 <= MaxTime
    PROVE  Runs(pauses, now, pauses, now + 1)
<1>1. /\ now \in Nat /\ Past(pauses, now) /\ pauses \in Seq(Pause)
      /\ OpenPauses(pauses) \subseteq {Len(pauses)}
  BY DEF PauseInv, DueInv
<1>2. Ran(pauses, now + 1) \in Int /\ Ran(pauses, now + 1) >= Ran(pauses, now)
  BY <1>1, TickRuns
<1>3. \A s \in 0 .. now : Ran(pauses, s) \in Int
  <2>1. Runs(pauses, now, pauses, now)
    BY RanStays
  <2> QED BY <2>1 DEF Runs
<1>4. now <= now + 1
  BY <1>1
<1> QED BY <1>2, <1>3, <1>4 DEF Runs

-----------------------------------------------------------------------------
(* SlaClock: the two clocks, step by step.                                 *)

\* As long as nothing touches the clock, the sweeps have begun now, with the promises of
\* now, and check the ticket's priority; a ticket that is not closed has no closing time.
SweepInv ==
    ~tally.touched =>
        \A i \in Sweeper :
            /\ sweep[i].pc # "idle" => sweep[i].at = now /\ sweep[i].policy = policy
            /\ sweep[i].pc = "check" => sweep[i].prio = ticket.prio

OpenInv == ~tally.touched /\ ticket.status # "closed" => ticket.closed = NoTime

ClockInv == SweepInv /\ LengthInv /\ FlagInv /\ OpenInv

\* What a step of the worker i does to the flags and to its own sweep.
WorkOf(i) ==
    /\ \/ ticket'.flags = ticket.flags
       \/ sweep[i].pc = "check" /\ ticket'.flags = ticket.flags \cup Breached(sweep[i])
    /\ sweep'[i].pc # "idle" =>
         \/ sweep'[i].at = now /\ sweep'[i].policy = policy
         \/ sweep[i].pc # "idle" /\ sweep'[i].at = sweep[i].at
                                 /\ sweep'[i].policy = sweep[i].policy
    /\ sweep'[i].pc = "check" => sweep'[i].prio = ticket.prio

LEMMA WorkClock ==
    ASSUME Shapes, NEW i \in Sweeper, Sweep(i) \/ Crash(i)
    PROVE  WorkOf(i)
<1> DEFINE s == sweep[i]
           c == s.copy
<1>2. CASE StartSweep(i)
  <2>1. /\ UNCHANGED ticket /\ sweep'[i].pc = "scan"
        /\ sweep'[i].at = now /\ sweep'[i].policy = policy
    BY <1>2, StartStep
  <2> QED BY <2>1 DEF WorkOf
<1>3. CASE Visit(i)
  <2>1. /\ UNCHANGED ticket /\ s.pc = "scan"
        /\ \/ /\ sweep'[i].pc \in {"idle", "scan"}
              /\ sweep'[i].pc = "scan" => sweep'[i].at = s.at /\ sweep'[i].policy = s.policy
           \/ sweep'[i] = AsSweep("check", s.at, s.policy, Tail(s.todo), ticket.prio, ticket,
                                  s.breaches, s.rules)
    BY <1>3, VisitStep DEF Empty
  <2>2. \/ sweep'[i].pc = "idle"
        \/ sweep'[i].at = s.at /\ sweep'[i].policy = s.policy
    BY <2>1 DEF AsSweep
  <2>3. sweep'[i].pc = "check" => sweep'[i].prio = ticket.prio
    BY <2>1 DEF AsSweep
  <2> QED BY <2>1, <2>2, <2>3 DEF WorkOf
<1>a. ASSUME NEW pc, NEW d, NEW b, NEW y, s.pc # "idle", pc # "check",
             sweep'[i] = NoSweep \/ sweep'[i] = AsSweep(pc, s.at, s.policy, s.todo, s.prio, d, b, y),
             \/ ticket'.flags = ticket.flags
             \/ s.pc = "check" /\ ticket'.flags = ticket.flags \cup Breached(s)
      PROVE  WorkOf(i)
  <2>1. \/ sweep'[i].pc = "idle"
        \/ sweep'[i].at = s.at /\ sweep'[i].policy = s.policy
    BY <1>a, NoSweepIsEmpty DEF AsSweep
  <2>2. sweep'[i].pc # "check"
    BY <1>a, NoSweepIsEmpty DEF AsSweep
  <2> QED BY <1>a, <2>1, <2>2 DEF WorkOf
<1>4. CASE Check(i)
  <2> DEFINE late == Breached(s)
             d == AsRow(c.prio, c.policy, c.respDue, c.resDue, c.responded, c.closed,
                        c.status, c.flags \cup late)
  <2>1. /\ s.pc = "check"
        /\ ticket' = AsRow(ticket.prio, ticket.policy, ticket'.respDue, ticket'.resDue,
                           ticket.responded, ticket.closed, ticket.status,
                           ticket.flags \cup late)
        /\ \/ sweep'[i] = NoSweep
           \/ sweep'[i] = AsSweep("announce", s.at, s.policy, s.todo, s.prio, d, late, s.rules)
    BY <1>4, CheckStep
  <2>2. ticket'.flags = ticket.flags \cup late
    BY <2>1 DEF AsRow
  <2> HIDE DEF d
  <2> QED BY <1>a, <2>1, <2>2
<1>5. CASE Announce(i)
  <2>1. PICK k : sweep'[i] = AsSweep(s.pc, s.at, s.policy, s.todo, s.prio, s.copy,
                                     s.breaches \ {k}, s.rules)
    BY <1>5, AnnounceStep
  <2>2. UNCHANGED ticket /\ s.pc = "announce"
    BY <1>5, AnnounceStep
  <2> DEFINE b == s.breaches \ {k}
  <2>3. sweep'[i] = AsSweep(s.pc, s.at, s.policy, s.todo, s.prio, s.copy, b, s.rules)
    BY <2>1
  <2> HIDE DEF b, s
  <2> QED BY <1>a, <2>2, <2>3
<1>6. CASE SelectRules(i)
  <2> DEFINE y == {r \in DOMAIN Rule : Due(r, s)}
  <2>1. /\ UNCHANGED ticket /\ s.pc = "announce"
        /\ sweep'[i] = AsSweep("rules", s.at, s.policy, s.todo, s.prio, s.copy, s.breaches, y)
    BY <1>6, SelectStep
  <2> HIDE DEF y, s
  <2> QED BY <1>a, <2>1
<1>7. ASSUME NEW r, ExecuteRule(i, r) PROVE WorkOf(i)
  <2> DEFINE d == AsRow(IF Rule[r].action = "change_priority" THEN Raised(c.prio) ELSE c.prio,
                        c.policy, c.respDue, c.resDue, c.responded, c.closed,
                        c.status, c.flags)
  <2>1. /\ s.pc = "rules"
        /\ ticket' = AsRow(ticket'.prio, ticket.policy, ticket'.respDue,
                           ticket'.resDue, ticket.responded, ticket.closed,
                           ticket.status, ticket.flags)
        /\ \/ sweep'[i] = NoSweep
           \/ sweep'[i] = AsSweep("log", s.at, s.policy, s.todo, s.prio, d, s.breaches,
                                  s.rules)
    BY <1>7, ExecuteStep
  <2>2. ticket'.flags = ticket.flags
    BY <2>1 DEF AsRow
  <2> HIDE DEF d, s
  <2> QED BY <1>a, <2>1, <2>2
<1>8. ASSUME NEW r, LogRule(i, r) PROVE WorkOf(i)
  <2> DEFINE y == s.rules \ {r}
  <2>1. /\ UNCHANGED ticket /\ s.pc = "log"
        /\ sweep'[i] = AsSweep("rules", s.at, s.policy, s.todo, s.prio, s.copy, s.breaches, y)
    BY <1>8, LogStep
  <2> HIDE DEF y, s
  <2> QED BY <1>a, <2>1
<1>9. CASE EndRules(i)
  <2>1. /\ UNCHANGED ticket /\ s.pc = "rules" /\ sweep'[i].pc \in {"idle", "scan"}
        /\ sweep'[i].pc = "scan" => sweep'[i].at = s.at /\ sweep'[i].policy = s.policy
    BY <1>9, EndStep DEF Empty
  <2> QED BY <2>1 DEF WorkOf
<1>10. CASE Crash(i)
  <2>1. UNCHANGED ticket /\ sweep'[i].pc = "idle"
    BY <1>10, CrashStep, NoSweepIsEmpty
  <2> QED BY <2>1 DEF WorkOf
<1> QED BY <1>2, <1>3, <1>4, <1>5, <1>6, <1>7, <1>8, <1>9, <1>10 DEF Sweep

\* The ghosts of a request: of the row as it is now, as long as nothing touches the clock.
LEMMA RequestTally ==
    ASSUME Shapes, NEW c \in held \cup {ticket}, Request(c)
    PROVE  \/ tally'.touched
           \/ /\ c = ticket
              /\ (\E s \in Status : ChangeStatus(c, s)) \/ CustomerReply(c) \/ Respond(c)
<1>t. IsTally(tally) /\ Touched.touched /\ Edited(c).touched
  BY TouchedIs, EditedIs DEF Shapes, AsTally
<1>1. ASSUME c # ticket, NEW s \in Status, ChangeStatus(c, s) PROVE tally'.touched
  BY <1>1, <1>t DEF ChangeStatus
<1>2. ASSUME c # ticket, CustomerReply(c) \/ Respond(c) PROVE tally'.touched
  BY <1>2, <1>t DEF CustomerReply, Respond
<1>3. ASSUME Escalate(c) \/ \E p \in Priority : ChangePriority(c, p) PROVE tally'.touched
  BY <1>3, <1>t DEF Escalate, ChangePriority
<1>4. ASSUME Patch(c) PROVE tally'.touched
  BY <1>4, PatchTally
<1> QED BY <1>1, <1>2, <1>3, <1>4 DEF Request

LEMMA EndsTally ==
    ASSUME IsTally(tally), NEW kind
    PROVE  /\ EndsInPause(kind).touched = tally.touched
           /\ ~tally.touched => tally.inPause \subseteq EndsInPause(kind).inPause
           /\ ~tally.touched /\ OpenPauses(pauses) # {} => kind \in EndsInPause(kind).inPause
<1> DEFINE k == IF tally.touched \/ OpenPauses(pauses) = {} THEN tally.inPause
                ELSE tally.inPause \cup {kind}
<1>1. EndsInPause(kind) = AsTally(tally.edits, tally.crashes, tally.overlaps,
                                  tally.cleared, tally.touched, k)
  BY PausedIs
<1>2. tally.inPause \subseteq k /\ (~tally.touched /\ OpenPauses(pauses) # {} => kind \in k)
  OBVIOUS
<1> HIDE DEF k
<1>3. EndsInPause(kind).touched = tally.touched /\ EndsInPause(kind).inPause = k
  BY <1>1 DEF AsTally
<1> QED BY <1>2, <1>3

\* The end of a pause moves the deadlines by what it adds to the ended pauses.
LEMMA EndKeepsLengths ==
    ASSUME Shapes, PauseInv, DueInv, LengthInv, ~tally.touched, NEW u, DuesBy(u, ticket)
    PROVE  /\ Worked[u.respDue]
                = policy[ticket.prio].resp + Cardinality(Ended(EndPause(pauses)))
           /\ Worked[u.resDue]
                = policy[ticket.prio].res + Cardinality(Ended(EndPause(pauses)))
<1>1. /\ now \in Nat /\ now \in 0 .. now /\ Past(pauses, now) /\ pauses \in Seq(Pause)
      /\ OpenPauses(pauses) \subseteq {Len(pauses)}
      /\ Fits(ticket.respDue, Spent) /\ Fits(ticket.resDue, Spent)
      /\ Worked[ticket.respDue] = policy[ticket.prio].resp + Cardinality(Ended(pauses))
      /\ Worked[ticket.resDue] = policy[ticket.prio].res + Cardinality(Ended(pauses))
      /\ policy[ticket.prio].resp \in Nat /\ policy[ticket.prio].res \in Nat
      /\ Cardinality(Ended(pauses)) \in Nat
  BY PromiseIsNat, NowTakes DEF PauseInv, DueInv, FitBoth, LengthInv
<1>2. Ended(EndPause(pauses)) = Taken(pauses, now)
  BY <1>1, EndTakes
<1>3. CASE ~Ends
  <2>1. Cardinality(Ended(EndPause(pauses))) = Cardinality(Ended(pauses))
    BY <1>1, <1>2, <1>3, NowTakes DEF Ends
  <2>2. u.respDue = ticket.respDue /\ u.resDue = ticket.resDue
    BY <1>3 DEF DuesBy
  <2> QED BY <1>1, <2>1, <2>2
<1>4. CASE Ends
  <2>1. /\ Length \in 0 .. Most /\ Length \in Nat /\ Spent \in Nat /\ Spent <= MaxEvents
        /\ Cardinality(Ended(EndPause(pauses))) = Cardinality(Ended(pauses)) + Length
    BY <1>2, <1>4, LengthCounts, SpentInRange, NowTakes DEF Ends
  <2>2. u.respDue = AddBusiness(ticket.respDue, Length)
        /\ u.resDue = AddBusiness(ticket.resDue, Length)
    BY <1>1, <1>4 DEF DuesBy, Shift, Fits, NoTime
  <2>3. Worked[u.respDue] = Worked[ticket.respDue] + Length
        /\ Worked[u.resDue] = Worked[ticket.resDue] + Length
    BY <1>1, <2>1, <2>2, AddFits
  <2> QED BY <1>1, <2>1, <2>3
<1> QED BY <1>3, <1>4

\* The promise has been kept as before.
SameEnds(t, u) == u.responded = t.responded /\ u.closed = t.closed

\* A step that leaves the promise and the minutes of the ended pauses.
LEMMA KeepsLengths ==
    ASSUME LengthInv, UNCHANGED queued, ~tally'.touched => ~tally.touched,
           policy'[ticket'.prio] = policy[ticket.prio], Ended(pauses') = Ended(pauses),
           ticket'.respDue = ticket.respDue, ticket'.resDue = ticket.resDue
    PROVE  LengthInv'
BY DEF LengthInv

\* A step that leaves the promise, the answer, the closing and the flags.
LEMMA KeepsFlags ==
    ASSUME DueInv, FlagInv, now \in Nat, now' \in Nat, ~tally'.touched => ~tally.touched,
           ticket'.prio = ticket.prio, policy'[ticket'.prio] = policy[ticket.prio],
           SameEnds(ticket, ticket'), ticket'.flags = ticket.flags,
           tally.inPause \subseteq tally'.inPause, Runs(pauses, now, pauses', now')
    PROVE  FlagInv'
<1> SUFFICES ASSUME ~tally'.touched, BusinessOnly[ticket'.prio]
             PROVE  /\ Truth("response", ticket'.responded, policy'[ticket'.prio].resp,
                             ticket'.flags, tally'.inPause, pauses', now')
                    /\ Truth("resolution", ticket'.closed, policy'[ticket'.prio].res,
                             ticket'.flags, tally'.inPause, pauses', now')
  BY DEF FlagInv
<1>1. /\ Truth("response", ticket.responded, policy[ticket.prio].resp, ticket.flags,
               tally.inPause, pauses, now)
      /\ Truth("resolution", ticket.closed, policy[ticket.prio].res, ticket.flags,
               tally.inPause, pauses, now)
  BY DEF FlagInv
<1>2. policy[ticket.prio].resp \in Nat /\ policy[ticket.prio].res \in Nat
  BY PromiseIsNat
<1>3. /\ Truth("response", ticket.responded, policy[ticket.prio].resp, ticket.flags,
               tally'.inPause, pauses', now')
      /\ Truth("resolution", ticket.closed, policy[ticket.prio].res, ticket.flags,
               tally'.inPause, pauses', now')
  BY <1>1, <1>2, TruthStays
<1> QED BY <1>3 DEF SameEnds

LEMMA StatusClock ==
    ASSUME Shapes, PauseInv, DueInv, ClockInv, ~tally.touched,
           NEW s \in Status, ChangeStatus(ticket, s)
    PROVE  LengthInv' /\ FlagInv' /\ OpenInv' /\ tally'.touched = tally.touched
<1>t. /\ IsTally(tally) /\ now \in Nat /\ pauses \in Seq(Pause) /\ Past(pauses, now)
      /\ now \in 0 .. now /\ LengthInv /\ FlagInv
      /\ ticket.status # "closed" => ticket.closed = NoTime
  BY DEF Shapes, PauseInv, DueInv, ClockInv, OpenInv
<1> DEFINE z == CASE (ticket.status = "closed") = (s = "closed") -> ticket.closed
                  [] ticket.status # "closed" /\ s = "closed" -> EndOf(ticket)
                  [] OTHER -> NoTime
           f == IF s = "closed" THEN ticket.flags \cup (FlagsOf(ticket) \cap {"resolution"})
                ELSE ticket.flags
<1>1. /\ ticket' = AsRow(ticket.prio, ticket.policy, ticket'.respDue, ticket'.resDue,
                         ticket.responded, z, s, f)
      /\ IF ticket.status = "waiting" /\ s # "waiting" THEN DuesBy(ticket', ticket)
         ELSE ticket'.respDue = ticket.respDue /\ ticket'.resDue = ticket.resDue
  BY StatusRow
<1>2. /\ UNCHANGED <<now, policy, sweep, queued>>
      /\ s = "closed" => ticket.status # "closed"
      /\ pauses' = PausesAfter(pauses, ticket.status, s)
  BY DEF ChangeStatus, Save, Aside
<1>3. /\ tally'.touched = tally.touched /\ tally.inPause \subseteq tally'.inPause
      /\ s = "closed" /\ OpenPauses(pauses) # {} => "resolution" \in tally'.inPause
  <2>1. tally' = IF s = "closed" THEN EndsInPause("resolution") ELSE tally
    BY DEF ChangeStatus
  <2> QED BY <1>t, <2>1, EndsTally
<1>4. /\ z = IF s = "closed" THEN now ELSE NoTime
      /\ f = IF s = "closed" THEN FlagAt("resolution", ticket.resDue, ticket.flags)
             ELSE ticket.flags
  <2>1. CASE s = "closed"
    <3>1. ticket.closed = NoTime /\ EndOf(ticket) = now
      BY <1>t, <1>2, <2>1 DEF EndOf
    <3>2. FlagsOf(ticket) = FlagAt("resolution", ticket.resDue, ticket.flags)
      BY <3>1 DEF FlagsOf, FlagAt
    <3>3. ticket.flags \cup (FlagAt("resolution", ticket.resDue, ticket.flags) \cap {"resolution"})
          = FlagAt("resolution", ticket.resDue, ticket.flags)
      BY DEF FlagAt
    <3> QED BY <1>2, <2>1, <3>1, <3>2, <3>3
  <2>2. CASE s # "closed"
    BY <1>t, <2>2
  <2> QED BY <2>1, <2>2
<1> HIDE DEF z, f
<1>5. /\ ticket'.prio = ticket.prio /\ ticket'.responded = ticket.responded
      /\ ticket'.closed = z /\ ticket'.status = s /\ ticket'.flags = f
  BY <1>1 DEF AsRow
<1>6. OpenInv'
  BY <1>4, <1>5 DEF OpenInv
<1>7. pauses' \in {pauses, BeginPause(pauses), EndPause(pauses)}
  BY <1>2 DEF PausesAfter
<1>8. Runs(pauses, now, pauses', now)
  BY <1>7, RanStays
<1>9. LengthInv'
  <2>1. CASE s # "waiting" /\ ticket.status = "waiting"
    <3>1. DuesBy(ticket', ticket) /\ pauses' = EndPause(pauses)
      BY <1>1, <1>2, <2>1 DEF PausesAfter
    <3>2. /\ Worked[ticket'.respDue] = policy[ticket.prio].resp + Cardinality(Ended(pauses'))
          /\ Worked[ticket'.resDue] = policy[ticket.prio].res + Cardinality(Ended(pauses'))
      BY <1>t, <3>1, EndKeepsLengths
    <3>3. queued' = {}
      BY <1>2, <1>t DEF LengthInv
    <3> QED BY <1>2, <1>5, <3>2, <3>3 DEF LengthInv
  <2>2. CASE ~(s # "waiting" /\ ticket.status = "waiting")
    <3>1. pauses' \in {pauses, BeginPause(pauses)}
      BY <1>2, <2>2 DEF PausesAfter
    <3>2. Ended(pauses') = Ended(pauses)
      BY <1>t, <3>1, BeginTakes
    <3> QED BY <1>1, <1>2, <1>3, <1>5, <1>t, <2>2, <3>2, KeepsLengths
  <2> QED BY <2>1, <2>2
<1>10. FlagInv'
  <2> SUFFICES ASSUME BusinessOnly[ticket.prio]
               PROVE  /\ Truth("response", ticket'.responded, policy[ticket.prio].resp,
                               ticket'.flags, tally'.inPause, pauses', now)
                      /\ Truth("resolution", ticket'.closed, policy[ticket.prio].res,
                               ticket'.flags, tally'.inPause, pauses', now)
    BY <1>2, <1>5 DEF FlagInv
  <2>1. /\ Truth("response", ticket.responded, policy[ticket.prio].resp, ticket.flags,
                 tally.inPause, pauses, now)
        /\ Truth("resolution", ticket.closed, policy[ticket.prio].res, ticket.flags,
                 tally.inPause, pauses, now)
    BY <1>t DEF FlagInv
  <2>2. policy[ticket.prio].resp \in Nat /\ policy[ticket.prio].res \in Nat
    BY PromiseIsNat
  <2>3. "response" \in ticket'.flags <=> "response" \in ticket.flags
    BY <1>4, <1>5 DEF FlagAt
  <2>4. Truth("response", ticket'.responded, policy[ticket.prio].resp, ticket'.flags,
              tally'.inPause, pauses', now)
    BY <1>3, <1>5, <1>8, <1>t, <2>1, <2>2, <2>3, TruthStays
  <2>0. Runs(pauses, now, pauses, now)
    BY RanStays
  <2>5. Truth("resolution", ticket'.closed, policy[ticket.prio].res, ticket'.flags,
              tally'.inPause, pauses, now)
    <3>1. CASE s = "closed"
      <4>1. Fits(ticket.resDue, Spent)
            /\ Worked[ticket.resDue] = policy[ticket.prio].res + Cardinality(Ended(pauses))
        BY <1>t DEF DueInv, FitBoth, LengthInv
      <4> QED BY <1>3, <1>4, <1>5, <2>1, <2>2, <3>1, <4>1, TruthEnds
    <3>2. CASE s # "closed"
      <4>1. Truth("resolution", NoTime, policy[ticket.prio].res, ticket.flags,
                  tally.inPause, pauses, now)
        BY <2>1, TruthReopens
      <4> QED BY <1>3, <1>4, <1>5, <1>t, <2>0, <2>2, <3>2, <4>1, TruthStays
    <3> QED BY <3>1, <3>2
  <2>6. Truth("resolution", ticket'.closed, policy[ticket.prio].res, ticket'.flags,
              tally'.inPause, pauses', now)
    BY <1>8, <1>t, <2>2, <2>5, TruthStays
  <2> QED BY <2>4, <2>6
<1> QED BY <1>3, <1>6, <1>9, <1>10

LEMMA ReplyClock ==
    ASSUME Shapes, PauseInv, DueInv, ClockInv, ~tally.touched, CustomerReply(ticket)
    PROVE  LengthInv' /\ FlagInv' /\ OpenInv' /\ tally'.touched = tally.touched
<1>t. now \in Nat /\ LengthInv /\ FlagInv
      /\ (ticket.status # "closed" => ticket.closed = NoTime)
  BY DEF PauseInv, ClockInv, OpenInv
<1>1. /\ ticket.status = "waiting" /\ UNCHANGED <<now, policy, tally, queued>>
      /\ pauses' = EndPause(pauses)
  BY DEF CustomerReply, Save, Aside
<1>2. /\ ticket' = AsRow(ticket.prio, ticket.policy, ticket'.respDue, ticket'.resDue,
                         ticket.responded, ticket.closed, "active", ticket.flags)
      /\ DuesBy(ticket', ticket)
  BY <1>1, ReplyRow
<1>3. /\ ticket'.prio = ticket.prio /\ ticket'.flags = ticket.flags
      /\ ticket'.responded = ticket.responded /\ ticket'.closed = ticket.closed
  BY <1>2 DEF AsRow
<1>4. OpenInv'
  BY <1>1, <1>3, <1>t DEF OpenInv
<1>5. LengthInv'
  <2>1. /\ Worked[ticket'.respDue] = policy[ticket.prio].resp + Cardinality(Ended(pauses'))
        /\ Worked[ticket'.resDue] = policy[ticket.prio].res + Cardinality(Ended(pauses'))
    BY <1>1, <1>2, <1>t, EndKeepsLengths
  <2>2. queued' = {}
    BY <1>1, <1>t DEF LengthInv
  <2> QED BY <1>1, <1>3, <2>1, <2>2 DEF LengthInv
<1>6. Runs(pauses, now, pauses', now)
  BY <1>1, RanStays
<1>7. FlagInv'
  BY <1>1, <1>3, <1>6, <1>t, KeepsFlags DEF SameEnds
<1> QED BY <1>1, <1>4, <1>5, <1>7

LEMMA RespondClock ==
    ASSUME Shapes, PauseInv, DueInv, ClockInv, ~tally.touched, Respond(ticket)
    PROVE  LengthInv' /\ FlagInv' /\ OpenInv' /\ tally'.touched = tally.touched
<1>t. /\ IsTally(tally) /\ now \in Nat /\ LengthInv /\ FlagInv
      /\ ticket.status # "closed" => ticket.closed = NoTime
  BY DEF Shapes, PauseInv, ClockInv, OpenInv
<1> DEFINE f == FlagAt("response", ticket.respDue, ticket.flags)
<1>1. /\ UNCHANGED <<now, policy, queued, pauses>> /\ tally' = EndsInPause("response")
  BY DEF Respond, Save, Aside
<1>2. ticket' = AsRow(ticket.prio, ticket.policy, ticket.respDue, ticket.resDue, now,
                      ticket.closed, ticket.status, f)
  <2>1. f = IF /\ "response" \notin ticket.flags
               /\ ticket.respDue # NoTime /\ now > ticket.respDue
            THEN ticket.flags \cup {"response"} ELSE ticket.flags
    BY DEF FlagAt
  <2> HIDE DEF f
  <2> QED BY <2>1, RespondRow
<1>2a. f = FlagAt("response", ticket.respDue, ticket.flags)
  OBVIOUS
<1> HIDE DEF f
<1>3. /\ ticket'.prio = ticket.prio /\ ticket'.respDue = ticket.respDue
      /\ ticket'.resDue = ticket.resDue /\ ticket'.responded = now
      /\ ticket'.closed = ticket.closed /\ ticket'.flags = f /\ ticket'.status = ticket.status
  BY <1>2 DEF AsRow
<1>4. OpenInv'
  BY <1>3, <1>t DEF OpenInv
<1>5. /\ tally'.touched = tally.touched /\ tally.inPause \subseteq tally'.inPause
      /\ OpenPauses(pauses) # {} => "response" \in tally'.inPause
  BY <1>1, <1>t, EndsTally
<1>6. LengthInv'
  BY <1>1, <1>3, <1>5, <1>t, KeepsLengths
<1>7. FlagInv'
  <2> SUFFICES ASSUME BusinessOnly[ticket.prio]
               PROVE  /\ Truth("response", now, policy[ticket.prio].resp,
                               f, tally'.inPause, pauses, now)
                      /\ Truth("resolution", ticket.closed, policy[ticket.prio].res,
                               f, tally'.inPause, pauses, now)
    BY <1>1, <1>3 DEF FlagInv
  <2>1. /\ Truth("response", ticket.responded, policy[ticket.prio].resp, ticket.flags,
                 tally.inPause, pauses, now)
        /\ Truth("resolution", ticket.closed, policy[ticket.prio].res, ticket.flags,
                 tally.inPause, pauses, now)
    BY <1>t DEF FlagInv
  <2>2. policy[ticket.prio].resp \in Nat /\ policy[ticket.prio].res \in Nat
    BY PromiseIsNat
  <2>3. Fits(ticket.respDue, Spent)
        /\ Worked[ticket.respDue] = policy[ticket.prio].resp + Cardinality(Ended(pauses))
    BY <1>t DEF DueInv, FitBoth, LengthInv
  <2>4. Truth("response", now, policy[ticket.prio].resp, f, tally'.inPause, pauses, now)
    BY <1>2a, <1>5, <2>1, <2>2, <2>3, TruthEnds
  <2>5. "resolution" \in f <=> "resolution" \in ticket.flags
    BY <1>2a DEF FlagAt
  <2>6. Runs(pauses, now, pauses, now)
    BY RanStays
  <2>7. Truth("resolution", ticket.closed, policy[ticket.prio].res, f, tally'.inPause,
              pauses, now)
    BY <1>5, <1>t, <2>1, <2>2, <2>5, <2>6, TruthStays
  <2> QED BY <2>4, <2>7
<1> QED BY <1>4, <1>5, <1>6, <1>7

\* The sweeps flag what has run for longer than the promise.
LEMMA SweepClock ==
    ASSUME ~Overlap, CopyInv, PauseInv, DueInv, ClockInv, NEW i \in Sweeper, Sweep(i) \/ Crash(i)
    PROVE  ClockInv'
<1> DEFINE s == sweep[i]
<1>t. Shapes /\ now \in Nat /\ SweepInv /\ LengthInv /\ FlagInv /\ OpenInv
  BY DEF CopyInv, PauseInv, ClockInv
<1>1. /\ UNCHANGED <<now, policy, queued, held, pauses>>
      /\ \A j \in Sweeper \ {i} : sweep'[j] = sweep[j]
      /\ ticket' = AsRow(ticket'.prio, ticket.policy, ticket.respDue, ticket.resDue,
                         ticket.responded, ticket.closed, ticket.status, ticket'.flags)
      /\ \/ tally'.touched
         \/ /\ ticket'.prio = ticket.prio
            /\ tally'.touched = tally.touched /\ tally'.inPause = tally.inPause
  BY WorkSteps DEF Others
<1>2. WorkOf(i)
  BY <1>t, WorkClock
<1>3. CASE tally'.touched
  BY <1>3 DEF ClockInv, SweepInv, LengthInv, FlagInv, OpenInv
<1>4. CASE ~tally'.touched
  <2>1. /\ ~tally.touched /\ ticket'.prio = ticket.prio /\ tally'.inPause = tally.inPause
        /\ ticket'.respDue = ticket.respDue /\ ticket'.resDue = ticket.resDue
        /\ ticket'.responded = ticket.responded /\ ticket'.closed = ticket.closed
        /\ ticket'.status = ticket.status
    BY <1>1, <1>4 DEF AsRow
  <2>2. /\ s.pc # "idle" => s.at = now /\ s.policy = policy
        /\ s.pc = "check" => s.prio = ticket.prio
    BY <1>t, <2>1 DEF SweepInv
  <2>3. SweepInv'
    <3>1. /\ sweep'[i].pc # "idle" => sweep'[i].at = now /\ sweep'[i].policy = policy
          /\ sweep'[i].pc = "check" => sweep'[i].prio = ticket.prio
      BY <1>2, <2>2 DEF WorkOf
    <3> QED BY <1>1, <1>t, <2>1, <3>1 DEF SweepInv
  <2>4. LengthInv'
    BY <1>1, <1>t, <2>1, KeepsLengths
  <2>5. OpenInv'
    BY <1>t, <2>1 DEF OpenInv
  <2>6. FlagInv'
    <3> SUFFICES ASSUME BusinessOnly[ticket.prio] PROVE FlagInv'
      BY <2>1 DEF FlagInv
    <3>1. Runs(pauses, now, pauses, now)
      BY RanStays
    <3>2. CASE ticket'.flags = ticket.flags
      BY <1>1, <1>t, <2>1, <3>1, <3>2, KeepsFlags DEF SameEnds
    <3>3. CASE s.pc = "check" /\ ticket'.flags = ticket.flags \cup Breached(s)
      <4>1. /\ s.at = now /\ s.policy = policy /\ s.prio = ticket.prio
            /\ s.copy.responded = ticket.responded /\ s.copy.closed = ticket.closed
        BY <2>2, <3>3 DEF CopyInv, Working, Agrees
      <4>2. /\ Truth("response", ticket.responded, policy[ticket.prio].resp, ticket.flags,
                     tally.inPause, pauses, now)
            /\ Truth("resolution", ticket.closed, policy[ticket.prio].res, ticket.flags,
                     tally.inPause, pauses, now)
        BY <1>t, <2>1 DEF FlagInv
      <4>3. policy[ticket.prio].resp \in Nat /\ policy[ticket.prio].res \in Nat
        BY PromiseIsNat
      <4>4. /\ (EffectiveElapsed(ticket.prio, now) > policy[ticket.prio].resp)
                 <=> (Ran(pauses, now) > policy[ticket.prio].resp)
            /\ (EffectiveElapsed(ticket.prio, now) > policy[ticket.prio].res)
                 <=> (Ran(pauses, now) > policy[ticket.prio].res)
        BY <1>t, <4>3, EffectiveCounts
      <4>5. \A k \in Breached(s) :
               Pending(s.copy, k)
               /\ EffectiveElapsed(ticket.prio, now) > Minutes(policy[ticket.prio], k)
        BY <4>1 DEF Breached
      <4>6. /\ "response" \in Breached(s) =>
                 ticket.responded = NoTime /\ Ran(pauses, now) > policy[ticket.prio].resp
            /\ "resolution" \in Breached(s) =>
                 ticket.closed = NoTime /\ Ran(pauses, now) > policy[ticket.prio].res
        BY <4>1, <4>4, <4>5 DEF Pending, Minutes
      <4>7. Ran(pauses, now) \in Int
        BY NowTakes
      <4> DEFINE f == ticket.flags \cup Breached(s)
      <4>8. Truth("response", ticket.responded, policy[ticket.prio].resp, f,
                  tally.inPause, pauses, now)
        <5>1. CASE "response" \in Breached(s)
          BY <4>3, <4>6, <4>7, <5>1 DEF Truth
        <5>2. CASE "response" \notin Breached(s)
          BY <1>t, <3>1, <4>2, <4>3, <5>2, TruthStays
        <5> QED BY <5>1, <5>2
      <4>9. Truth("resolution", ticket.closed, policy[ticket.prio].res, f,
                  tally.inPause, pauses, now)
        <5>1. CASE "resolution" \in Breached(s)
          BY <4>3, <4>6, <4>7, <5>1 DEF Truth
        <5>2. CASE "resolution" \notin Breached(s)
          BY <1>t, <3>1, <4>2, <4>3, <5>2, TruthStays
        <5> QED BY <5>1, <5>2
      <4>10. ticket'.flags = f
        BY <3>3
      <4> HIDE DEF f
      <4> QED BY <1>1, <2>1, <4>8, <4>9, <4>10 DEF FlagInv
    <3> QED BY <1>2, <3>2, <3>3 DEF WorkOf
  <2> QED BY <2>3, <2>4, <2>5, <2>6 DEF ClockInv
<1> QED BY <1>3, <1>4

\* Once touched, the clock is not compared any more.
LEMMA TouchedClock ==
    ASSUME tally'.touched
    PROVE  ClockInv'
BY DEF ClockInv, SweepInv, LengthInv, FlagInv, OpenInv

\* The steps that leave the ticket, its pauses, the sweeps and the promises.
LEMMA StillClock ==
    ASSUME PauseInv, DueInv, ClockInv, UNCHANGED <<policy, ticket, pauses, queued, sweep>>,
           tally'.touched = tally.touched, tally'.inPause = tally.inPause,
           \/ UNCHANGED now
           \/ now' = now + 1 /\ now < MaxTime /\ \A i \in Sweeper : sweep[i].pc = "idle"
    PROVE  ClockInv'
<1>1. now \in Nat /\ now' \in Nat /\ SweepInv /\ LengthInv /\ FlagInv /\ OpenInv
      /\ MaxTime \in Nat
  BY MostFacts DEF PauseInv, ClockInv
<1>2. Runs(pauses, now, pauses', now')
  <2>1. CASE UNCHANGED now
    BY <2>1, RanStays
  <2>2. CASE now' = now + 1 /\ now < MaxTime
    BY <1>1, <2>2, RanTicks
  <2> QED BY <2>1, <2>2
<1>3. SweepInv'
  BY <1>1 DEF SweepInv
<1>4. LengthInv'
  BY <1>1, KeepsLengths
<1>5. FlagInv'
  BY <1>1, <1>2, KeepsFlags DEF SameEnds
<1>6. OpenInv'
  BY <1>1 DEF OpenInv
<1> QED BY <1>3, <1>4, <1>5, <1>6 DEF ClockInv

LEMMA RequestClock ==
    ASSUME ~Overlap, Shapes, PauseInv, DueInv, ClockInv,
           NEW c \in held \cup {ticket}, Request(c), ~tally'.touched
    PROVE  ClockInv'
<1>1. /\ c = ticket
      /\ (\E s \in Status : ChangeStatus(ticket, s)) \/ CustomerReply(ticket) \/ Respond(ticket)
  BY RequestTally
<1>2. ~tally.touched
  <2>1. tally' \in {tally} \cup {EndsInPause(k) : k \in {"response", "resolution"}}
    BY <1>1 DEF ChangeStatus, CustomerReply, Respond
  <2> QED BY <2>1, EndsTally DEF Shapes
<1>3. LengthInv' /\ FlagInv' /\ OpenInv'
  BY <1>1, <1>2, StatusClock, ReplyClock, RespondClock
<1>4. SweepInv'
  <2>1. /\ \A i \in Sweeper : sweep[i].pc \in {"idle", "scan"}
        /\ UNCHANGED <<policy, now, sweep>>
    BY RequestsKeep DEF Aside, Served
  <2> QED BY <1>2, <2>1 DEF SweepInv, ClockInv
<1> QED BY <1>3, <1>4 DEF ClockInv

LEMMA NextClock ==
    ASSUME ~Overlap, CopyInv, PauseInv, DueInv, ClockInv, [Next]_vars
    PROVE  ClockInv'
<1>t. Shapes /\ IsTally(tally)
  BY DEF CopyInv, Shapes
<1>1. ASSUME NEW c \in held \cup {ticket}, Request(c) PROVE ClockInv'
  <2>1. CASE tally'.touched
    BY <2>1, TouchedClock
  <2>2. CASE ~tally'.touched
    BY <1>1, <1>t, <2>2, RequestClock
  <2> QED BY <2>1, <2>2
<1>2. CASE Load
  <2>1. UNCHANGED <<now, policy, ticket, pauses, queued, sweep>>
    BY <1>2 DEF Load, Aside
  <2> DEFINE e == tally.edits + 1
  <2>2. tally' = [tally EXCEPT !.edits = e]
    BY <1>2 DEF Load
  <2> HIDE DEF e
  <2>3. tally' = AsTally(e, tally.crashes, tally.overlaps, tally.cleared, tally.touched,
                         tally.inPause)
    BY <1>t, <2>2, SetEdits
  <2>4. tally'.touched = tally.touched /\ tally'.inPause = tally.inPause
    BY <2>3 DEF AsTally
  <2> QED BY <2>1, <2>4, StillClock
<1>3. ASSUME NEW p \in Priority, Propagate(p) PROVE ClockInv'
  <2>1. p \in queued /\ UNCHANGED tally
    BY <1>3 DEF Propagate
  <2>2. tally'.touched
    BY <2>1 DEF LengthInv, ClockInv
  <2> QED BY <2>2, TouchedClock
<1>4. ASSUME NEW p \in Priority, NEW target \in Targets, EditPolicy(p, target) PROVE ClockInv'
  <2>1. tally' = Edited(ticket)
    BY <1>4 DEF EditPolicy
  <2>2. tally'.touched
    BY <1>t, <2>1, EditedIs DEF AsTally
  <2> QED BY <2>2, TouchedClock
<1>5. CASE Tick
  <2>1. /\ now' = now + 1 /\ now < MaxTime /\ \A i \in Sweeper : sweep[i].pc = "idle"
        /\ UNCHANGED <<policy, ticket, pauses, queued, sweep, tally>>
    BY <1>5 DEF Tick
  <2> QED BY <2>1, StillClock
<1>6. CASE UNCHANGED vars
  <2>1. UNCHANGED <<now, policy, ticket, pauses, queued, sweep, tally>>
    BY <1>6 DEF vars
  <2> QED BY <2>1, StillClock
<1>7. ASSUME NEW i \in Sweeper, Sweep(i) \/ Crash(i) PROVE ClockInv'
  BY <1>7, SweepClock
<1> QED BY <1>1, <1>2, <1>3, <1>4, <1>5, <1>6, <1>7, NextSteps DEF Asked

LEMMA InitClock == Init => ClockInv
<1> SUFFICES ASSUME Init PROVE ClockInv
  OBVIOUS
<1>1. PICK p \in Born : ticket = NewTicket(p)
  BY DEF Init
<1>2. policy[p] \in Targets /\ now = 0 /\ now \in Nat
  BY SlaAssumption DEF Init, SlaAssumption
<1>3. /\ ticket.prio = p /\ ticket.responded = NoTime /\ ticket.closed = NoTime
      /\ ticket.flags = {}
      /\ ticket.respDue = AddBusiness(0, policy[p].resp)
      /\ ticket.resDue = AddBusiness(0, policy[p].res)
  BY <1>1 DEF NewTicket, NoCopy
<1>4. pauses = <<>> /\ queued = {} /\ \A i \in Sweeper : sweep[i].pc = "idle"
  BY NoSweepIsEmpty DEF Init
<1>5. Cardinality(Ended(pauses)) = 0
  <2>1. Ended(pauses) = {}
    BY <1>4 DEF Ended
  <2> QED BY <2>1, FS_EmptySet
<1>6. SweepInv /\ OpenInv
  BY <1>3, <1>4 DEF SweepInv, OpenInv
<1>7. LengthInv
  <2>1. policy[p].resp \in Nat /\ policy[p].res \in Nat
    BY <1>2, MostFacts
  <2> QED BY <1>2, <1>3, <1>4, <1>5, <2>1, Promised DEF LengthInv
<1>8. FlagInv
  BY <1>2, <1>3 DEF FlagInv, Truth
<1> QED BY <1>6, <1>7, <1>8 DEF ClockInv

LEMMA FlagsAreTrue ==
    ASSUME PauseInv, DueInv, FlagInv
    PROVE  FlagsMatchClock
<1> SUFFICES ASSUME ~tally.touched, BusinessOnly[ticket.prio],
                    NEW end \in {<<"response", ticket.responded>>, <<"resolution", ticket.closed>>},
                    end[2] # NoTime
             PROVE  LET ran     == RanUntil(end[2])
                        promise == Minutes(policy[ticket.prio], end[1])
                    IN  /\ ran > promise => end[1] \in ticket.flags
                        /\ end[1] \in ticket.flags => ran >= promise \/ end[1] \in tally.inPause
  BY DEF FlagsMatchClock
<1>1. /\ Truth("response", ticket.responded, policy[ticket.prio].resp, ticket.flags,
               tally.inPause, pauses, now)
      /\ Truth("resolution", ticket.closed, policy[ticket.prio].res, ticket.flags,
               tally.inPause, pauses, now)
  BY DEF FlagInv
<1>2. /\ Minutes(policy[ticket.prio], "response") = policy[ticket.prio].resp
      /\ Minutes(policy[ticket.prio], "resolution") = policy[ticket.prio].res
  BY DEF Minutes
<1>3. CASE end = <<"response", ticket.responded>>
  <2>1. end[1] = "response" /\ end[2] = ticket.responded /\ ticket.responded \in 0 .. now
    BY <1>1, <1>3 DEF Truth
  <2>2. RanUntil(ticket.responded) = Ran(pauses, ticket.responded)
    BY <2>1, RanUntilCounts
  <2> QED BY <1>1, <1>2, <2>1, <2>2 DEF Truth
<1>4. CASE end = <<"resolution", ticket.closed>>
  <2>1. end[1] = "resolution" /\ end[2] = ticket.closed /\ ticket.closed \in 0 .. now
    BY <1>1, <1>4 DEF Truth
  <2>2. RanUntil(ticket.closed) = Ran(pauses, ticket.closed)
    BY <2>1, RanUntilCounts
  <2> QED BY <1>1, <1>2, <2>1, <2>2 DEF Truth
<1> QED BY <1>3, <1>4

\* What holds at every moment, as long as no request comes between the steps of one
\* ticket's check.
LEMMA ClockHolds == ~Overlap /\ Spec => [](CopyInv /\ PauseInv /\ DueInv /\ ClockInv)
<1>1. ASSUME ~Overlap
      PROVE  CopyInv /\ PauseInv /\ DueInv /\ ClockInv /\ [Next]_vars => DueInv' /\ ClockInv'
  BY <1>1, NextDue, NextClock
<1>2. ASSUME ~Overlap
      PROVE  CopyInv /\ PauseInv /\ [Next]_vars => CopyInv' /\ PauseInv'
  BY <1>2, NextCopy, NextPause
<1>3. ASSUME ~Overlap PROVE Spec => [](CopyInv /\ PauseInv /\ DueInv /\ ClockInv)
  BY <1>1, <1>2, <1>3, InitCopy, InitPause, InitDue, InitClock, PTL DEF Spec
<1> QED BY <1>3

\* tickets/sla.py (get_effective_elapsed_minutes) and services.py (_shift_sla_deadlines):
\* the elapsed time less the pauses exceeds the promise exactly if business time has
\* passed since the stored deadline, through any pauses and any calendar.
THEOREM TwoClocksAgree == ~Overlap /\ Spec => []TestsAgree
<1>1. CopyInv /\ PauseInv /\ DueInv /\ ClockInv => TestsAgree
  BY LengthsAgree DEF ClockInv, CopyInv
<1> QED BY <1>1, ClockHolds, PTL

\* tickets/tasks.py (_check_ticket_sla), services.py (_check_resolution_breach,
\* record_first_response): whichever path sets a breach flag, the flag tells the truth.
THEOREM FlagsAreHonest == ~Overlap /\ Spec => []FlagsMatchClock
<1>1. CopyInv /\ PauseInv /\ DueInv /\ ClockInv => FlagsMatchClock
  BY FlagsAreTrue DEF ClockInv
<1> QED BY <1>1, ClockHolds, PTL

-----------------------------------------------------------------------------
(* SlaClock: the types.                                                    *)

\* t is a ticket row, but for its priority and its deadlines.
Typed(t) ==
    /\ IsRow(t)
    /\ t.policy \in Priority
    /\ t.responded \in Int
    /\ t.closed \in Int
    /\ t.status \in Status
    /\ t.flags \subseteq Kind

LEMMA RowTyped ==
    ASSUME NEW p, NEW q \in Priority, NEW x, NEW y, NEW r \in Int, NEW z \in Int,
           NEW s \in Status, NEW f \in SUBSET Kind
    PROVE  Typed(AsRow(p, q, x, y, r, z, s, f))
BY DEF Typed, AsRow, IsRow

\* One pause ends before the next begins.
Apart(ps) == \A i, j \in DOMAIN ps : i < j => ps[i].to <= ps[j].from

Steps == {"idle", "scan", "check", "announce", "rules", "log"}

\* With PauseInv and DueInv, the state is well typed.
ShapeInv ==
    /\ Typed(ticket)
    /\ IsFiniteSet(held) /\ Cardinality(held) <= MaxHeld /\ \A c \in held : Typed(c)
    /\ Apart(pauses)
    /\ queued \subseteq Priority
    /\ \A i \in Sweeper : sweep[i].pc \in Steps
    /\ fired \in [DOMAIN Rule -> Nat] /\ logged \subseteq DOMAIN Rule
    /\ announced \in [Kind -> Nat]

LEMMA InitShape == Init => ShapeInv
<1> SUFFICES ASSUME Init PROVE ShapeInv
  OBVIOUS
<1>1. PICK p \in Born : ticket = NewTicket(p)
  BY DEF Init
<1>2. p \in Priority
  BY <1>1, SlaAssumption DEF SlaAssumption
<1>3. Typed(ticket)
  <2>1. IsRow(ticket)
    BY InitShapes DEF Shapes
  <2>2. /\ ticket.policy = p /\ ticket.responded = NoTime /\ ticket.closed = NoTime
        /\ ticket.status = "active" /\ ticket.flags = {}
    BY <1>1 DEF NewTicket, NoCopy
  <2> QED BY <1>2, <2>1, <2>2 DEF Typed, NoTime, Status
<1>4. /\ pauses = <<>> /\ queued = {} /\ logged = {} /\ held = {}
      /\ \A i \in Sweeper : sweep[i].pc = "idle"
  BY NoSweepIsEmpty DEF Init
<1>5. IsFiniteSet(held) /\ Cardinality(held) <= MaxHeld
  BY <1>4, FS_EmptySet, SlaAssumption DEF SlaAssumption
<1>6. fired \in [DOMAIN Rule -> Nat] /\ announced \in [Kind -> Nat]
  BY DEF Init
<1> QED BY <1>3, <1>4, <1>5, <1>6 DEF ShapeInv, Apart, Steps

\* What begins and ends now is apart from all that was before.
LEMMA PausesApart ==
    ASSUME PauseInv, DueInv, Apart(pauses)
    PROVE  /\ OpenPauses(pauses) = {} => Apart(BeginPause(pauses))
           /\ Apart(EndPause(pauses))
<1>t. /\ now \in Nat /\ pauses \in Seq(Pause) /\ Past(pauses, now)
      /\ OpenPauses(pauses) \subseteq {Len(pauses)} /\ Len(pauses) \in Nat
      /\ DOMAIN pauses = 1 .. Len(pauses)
      /\ \A i \in DOMAIN pauses : pauses[i].from \in Nat /\ pauses[i].to \in Int
  BY RowTimes DEF PauseInv, DueInv
<1>p. \A i \in DOMAIN pauses :
        pauses[i].from <= now /\ (pauses[i].to = NoTime \/ pauses[i].to <= now)
  BY <1>t DEF Past
<1>1. ASSUME OpenPauses(pauses) = {} PROVE Apart(BeginPause(pauses))
  <2>1. \A i \in DOMAIN pauses : pauses[i].to # NoTime
    BY <1>1 DEF OpenPauses
  <2>2. /\ DOMAIN BeginPause(pauses) = DOMAIN pauses \cup {Len(pauses) + 1}
        /\ \A i \in DOMAIN pauses : BeginPause(pauses)[i] = pauses[i]
        /\ BeginPause(pauses)[Len(pauses) + 1] = [from |-> now, to |-> NoTime]
    BY <1>t, BeginPauseRows
  <2>6. BeginPause(pauses)[Len(pauses) + 1].from = now
    BY <2>2
  <2> SUFFICES ASSUME NEW i \in DOMAIN BeginPause(pauses), NEW j \in DOMAIN BeginPause(pauses),
                      i < j
               PROVE  BeginPause(pauses)[i].to <= BeginPause(pauses)[j].from
    BY DEF Apart
  <2>3. i \in DOMAIN pauses
    BY <1>t, <2>2
  <2>4. CASE j \in DOMAIN pauses
    BY <2>2, <2>3, <2>4 DEF Apart
  <2>5. CASE j = Len(pauses) + 1
    BY <1>p, <2>1, <2>2, <2>3, <2>5, <2>6
  <2> QED BY <2>2, <2>4, <2>5
<1>2. Apart(EndPause(pauses))
  <2>1. /\ DOMAIN EndPause(pauses) = DOMAIN pauses
        /\ \A i \in DOMAIN pauses :
              /\ EndPause(pauses)[i].from = pauses[i].from
              /\ EndPause(pauses)[i].to = IF pauses[i].to = NoTime THEN now ELSE pauses[i].to
    BY <1>t, EndPauseRows
  <2>2. \A i \in DOMAIN pauses : pauses[i].to = NoTime => i = Len(pauses)
    BY <1>t DEF OpenPauses
  <2> QED BY <1>t, <2>1, <2>2 DEF Apart
<1> QED BY <1>1, <1>2

\* Every request saves a well typed row.
LEMMA RequestTyped ==
    ASSUME Shapes, PauseInv, DueInv, ShapeInv, NEW c \in held \cup {ticket}, Request(c)
    PROVE  Typed(ticket')
<1>t. /\ Typed(c) /\ Typed(ticket) /\ now \in Int /\ NoTime \in Int
      /\ c.prio \in Priority
  BY DEF ShapeInv, PauseInv, DueInv, NoTime
<1>1. EndOf(c) \in Int /\ FlagsOf(c) \in SUBSET Kind
  BY <1>t DEF EndOf, FlagsOf, Typed, Kind
<1>f. /\ c.flags \in SUBSET Kind /\ c.policy \in Priority /\ c.status \in Status
      /\ c.responded \in Int /\ c.closed \in Int
      /\ ticket.flags \in SUBSET Kind /\ ticket.policy \in Priority
      /\ ticket.status \in Status /\ ticket.responded \in Int /\ ticket.closed \in Int
  BY <1>t DEF Typed
<1>2. ASSUME NEW s \in Status, ChangeStatus(c, s) PROVE Typed(ticket')
  <2> DEFINE z == CASE (c.status = "closed") = (s = "closed") -> ticket.closed
                    [] c.status # "closed" /\ s = "closed" -> EndOf(c)
                    [] OTHER -> NoTime
             f == IF s = "closed" THEN ticket.flags \cup (FlagsOf(c) \cap {"resolution"})
                  ELSE ticket.flags
  <2>1. ticket' = AsRow(ticket.prio, ticket.policy, ticket'.respDue, ticket'.resDue,
                        ticket.responded, z, s, f)
    BY <1>2, StatusRow
  <2>2. z \in Int
    BY <1>1, <1>t DEF Typed
  <2>3. f \in SUBSET Kind
    BY <1>1, <1>t DEF Typed
  <2> HIDE DEF z, f
  <2> QED BY <1>f, <2>1, <2>2, <2>3, RowTyped
<1>3. ASSUME CustomerReply(c) PROVE Typed(ticket')
  <2> DEFINE s == IF c.status = "waiting" THEN "active" ELSE ticket.status
  <2>1. ticket' = AsRow(ticket.prio, ticket.policy, ticket'.respDue, ticket'.resDue,
                        ticket.responded, ticket.closed, s, ticket.flags)
    BY <1>3, ReplyRow
  <2>2. s \in Status
    BY <1>t DEF Typed, Status
  <2> HIDE DEF s
  <2> QED BY <1>f, <1>t, <2>1, <2>2, RowTyped
<1>4. ASSUME Respond(c) PROVE Typed(ticket')
  <2> DEFINE f == IF /\ "response" \notin c.flags
                     /\ c.respDue # NoTime /\ now > c.respDue
                  THEN ticket.flags \cup {"response"} ELSE ticket.flags
  <2>1. ticket' = AsRow(ticket.prio, ticket.policy, ticket.respDue, ticket.resDue, now,
                        ticket.closed, ticket.status, f)
    BY <1>4, RespondRow
  <2>2. f \in SUBSET Kind
    BY <1>t DEF Typed, Kind
  <2> HIDE DEF f
  <2> QED BY <1>f, <1>t, <2>1, <2>2, RowTyped
<1>5. ASSUME Escalate(c) PROVE Typed(ticket')
  <2> DEFINE q == IF c.policy = c.prio THEN ticket.policy ELSE c.prio
  <2>1. ticket' = AsRow(ticket.prio, q,
                        Extended(Fresh(c).respDue, policy[c.prio].resp),
                        Extended(Fresh(c).resDue, policy[c.prio].res),
                        ticket.responded, ticket.closed, ticket.status, ticket.flags)
    BY <1>5, EscalateRow
  <2>2. q \in Priority
    BY <1>t DEF Typed
  <2> HIDE DEF q
  <2> QED BY <1>f, <1>t, <2>1, <2>2, RowTyped
<1>6. ASSUME NEW p \in Priority, ChangePriority(c, p) PROVE Typed(ticket')
  <2>1. ticket' = AsRow(p, ticket.policy, ticket'.respDue, ticket'.resDue,
                        ticket.responded, ticket.closed, ticket.status, ticket.flags)
    BY <1>6, PriorityRow
  <2> QED BY <1>f, <2>1, RowTyped
<1>7. ASSUME Patch(c) PROVE Typed(ticket')
  <2>1. /\ ticket' = AsRow(c.prio, c.policy, Fresh(c).respDue, Fresh(c).resDue, c.responded,
                           ticket'.closed, c.status, ticket'.flags)
        /\ ticket'.closed \in {c.closed, EndOf(c), NoTime}
        /\ ticket'.flags \in {c.flags, FlagsOf(c)}
    BY <1>7, PatchRow
  <2>2. ticket'.closed \in Int /\ ticket'.flags \in SUBSET Kind
    BY <1>1, <1>t, <2>1 DEF Typed
  <2> QED BY <1>f, <1>t, <2>1, <2>2, RowTyped
<1> QED BY <1>2, <1>3, <1>4, <1>5, <1>6, <1>7 DEF Request

\* Counting one more keeps a table of counts a table of counts.
LEMMA CountsUp ==
    ASSUME NEW S, NEW f \in [S -> Nat], NEW k
    PROVE  [f EXCEPT ![k] = @ + 1] \in [S -> Nat]
<1>1. CASE k \in S
  BY <1>1
<1>2. CASE k \notin S
  BY <1>2
<1> QED BY <1>1, <1>2

\* So does a worker.
LEMMA WorkShape ==
    ASSUME ~Overlap, CopyInv, ShapeInv, NEW i \in Sweeper, Sweep(i) \/ Crash(i)
    PROVE  ShapeInv'
<1> DEFINE s == sweep[i]
           c == s.copy
<1>t. Shapes /\ Typed(ticket)
  BY DEF CopyInv, ShapeInv
<1>f. /\ ticket.flags \in SUBSET Kind /\ ticket.policy \in Priority
      /\ ticket.status \in Status /\ ticket.responded \in Int /\ ticket.closed \in Int
  BY <1>t DEF Typed
<1>1. /\ UNCHANGED <<now, policy, queued, held, pauses>>
      /\ \A j \in Sweeper \ {i} : sweep'[j] = sweep[j]
      /\ ticket' = AsRow(ticket'.prio, ticket.policy, ticket.respDue, ticket.resDue,
                         ticket.responded, ticket.closed, ticket.status, ticket'.flags)
  BY WorkSteps DEF Others
<1>2. ticket'.flags \in SUBSET Kind
  <2>1. WorkOf(i) /\ Breached(s) \subseteq Kind
    BY <1>t, WorkClock DEF Breached
  <2> QED BY <1>f, <2>1 DEF WorkOf
<1>3. Typed(ticket')
  BY <1>1, <1>2, <1>f, RowTyped
<1>4. SUFFICES /\ sweep'[i].pc \in Steps
               /\ fired' \in [DOMAIN Rule -> Nat] /\ logged' \subseteq DOMAIN Rule
               /\ announced' \in [Kind -> Nat]
  BY <1>1, <1>3 DEF ShapeInv
<1>5. /\ fired \in [DOMAIN Rule -> Nat] /\ logged \subseteq DOMAIN Rule
      /\ announced \in [Kind -> Nat]
  BY DEF ShapeInv
<1>6. CASE StartSweep(i)
  <2>1. sweep'[i].pc = "scan" /\ UNCHANGED <<fired, logged, announced>>
    BY <1>6, <1>t, StartStep
  <2> QED BY <1>5, <2>1 DEF Steps
<1>7. CASE Visit(i)
  <2>1. /\ UNCHANGED <<fired, logged, announced>>
        /\ \/ sweep'[i].pc \in {"idle", "scan"}
           \/ sweep'[i] = AsSweep("check", s.at, s.policy, Tail(s.todo), ticket.prio, ticket,
                                  s.breaches, s.rules)
    BY <1>7, <1>t, VisitStep DEF Empty
  <2>2. sweep'[i].pc \in Steps
    BY <2>1 DEF AsSweep, Steps
  <2> QED BY <1>5, <2>1, <2>2
<1>a. ASSUME NEW pc \in Steps, NEW d, NEW b, NEW y,
             sweep'[i] = NoSweep \/ sweep'[i] = AsSweep(pc, s.at, s.policy, s.todo, s.prio, d, b, y)
      PROVE  sweep'[i].pc \in Steps
  BY <1>a, NoSweepIsEmpty DEF AsSweep, Steps
<1>8. CASE Check(i)
  <2> DEFINE late == Breached(s)
             d == AsRow(c.prio, c.policy, c.respDue, c.resDue, c.responded, c.closed,
                        c.status, c.flags \cup late)
  <2>1. /\ UNCHANGED <<fired, logged, announced>>
        /\ \/ sweep'[i] = NoSweep
           \/ sweep'[i] = AsSweep("announce", s.at, s.policy, s.todo, s.prio, d, late, s.rules)
    BY <1>8, <1>t, CheckStep
  <2> HIDE DEF d, late
  <2>2. sweep'[i].pc \in Steps
    BY <1>a, <2>1 DEF Steps
  <2> QED BY <1>5, <2>1, <2>2
<1>9. CASE Announce(i)
  <2>1. PICK k : /\ announced' = [announced EXCEPT ![k] = @ + 1]
                 /\ sweep'[i] = AsSweep(s.pc, s.at, s.policy, s.todo, s.prio, s.copy,
                                        s.breaches \ {k}, s.rules)
    BY <1>9, <1>t, AnnounceStep
  <2>2. UNCHANGED <<fired, logged>> /\ s.pc = "announce"
    BY <1>9, <1>t, AnnounceStep
  <2> DEFINE b == s.breaches \ {k}
  <2>3. sweep'[i] = AsSweep("announce", s.at, s.policy, s.todo, s.prio, s.copy, b, s.rules)
    BY <2>1, <2>2
  <2> HIDE DEF b, s
  <2>4. sweep'[i].pc = "announce"
    BY <2>3 DEF AsSweep
  <2>5. announced' \in [Kind -> Nat]
    BY <1>5, <2>1, CountsUp
  <2> QED BY <1>5, <2>2, <2>4, <2>5 DEF Steps
<1>10. CASE SelectRules(i)
  <2> DEFINE y == {r \in DOMAIN Rule : Due(r, s)}
  <2>1. /\ UNCHANGED <<fired, logged, announced>>
        /\ sweep'[i] = AsSweep("rules", s.at, s.policy, s.todo, s.prio, s.copy, s.breaches, y)
    BY <1>10, <1>t, SelectStep
  <2> HIDE DEF y, s
  <2>2. sweep'[i].pc = "rules"
    BY <2>1 DEF AsSweep
  <2> QED BY <1>5, <2>1, <2>2 DEF Steps
<1>11. ASSUME NEW r \in DOMAIN Rule, ExecuteRule(i, r)
       PROVE  /\ sweep'[i].pc \in Steps
              /\ fired' \in [DOMAIN Rule -> Nat] /\ logged' \subseteq DOMAIN Rule
              /\ announced' \in [Kind -> Nat]
  <2> DEFINE d == AsRow(IF Rule[r].action = "change_priority" THEN Raised(c.prio) ELSE c.prio,
                        c.policy, c.respDue, c.resDue, c.responded, c.closed,
                        c.status, c.flags)
  <2>1. /\ UNCHANGED <<logged, announced>> /\ fired' = [fired EXCEPT ![r] = @ + 1]
        /\ \/ sweep'[i] = NoSweep
           \/ sweep'[i] = AsSweep("log", s.at, s.policy, s.todo, s.prio, d, s.breaches,
                                  s.rules)
    BY <1>11, <1>t, ExecuteStep
  <2> HIDE DEF d, s
  <2>2. sweep'[i].pc \in {"idle", "log"}
    BY <2>1, NoSweepIsEmpty DEF AsSweep
  <2>3. fired' \in [DOMAIN Rule -> Nat]
    BY <1>5, <2>1
  <2> QED BY <1>5, <2>1, <2>2, <2>3 DEF Steps
<1>12. ASSUME NEW r \in DOMAIN Rule, LogRule(i, r)
       PROVE  /\ sweep'[i].pc \in Steps
              /\ fired' \in [DOMAIN Rule -> Nat] /\ logged' \subseteq DOMAIN Rule
              /\ announced' \in [Kind -> Nat]
  <2> DEFINE y == s.rules \ {r}
  <2>1. /\ UNCHANGED <<fired, announced>> /\ logged' = logged \cup {r}
        /\ sweep'[i] = AsSweep("rules", s.at, s.policy, s.todo, s.prio, s.copy, s.breaches, y)
    BY <1>12, <1>t, LogStep
  <2> HIDE DEF y, s
  <2>2. sweep'[i].pc = "rules"
    BY <2>1 DEF AsSweep
  <2> QED BY <1>5, <1>12, <2>1, <2>2 DEF Steps
<1>13. CASE EndRules(i)
  <2>1. sweep'[i].pc \in {"idle", "scan"} /\ UNCHANGED <<fired, logged, announced>>
    BY <1>13, <1>t, EndStep DEF Empty
  <2> QED BY <1>5, <2>1 DEF Steps
<1>14. CASE Crash(i)
  <2>1. sweep'[i].pc = "idle" /\ UNCHANGED <<fired, logged, announced>>
    BY <1>14, <1>t, CrashStep, NoSweepIsEmpty
  <2> QED BY <1>5, <2>1 DEF Steps
<1> QED BY <1>6, <1>7, <1>8, <1>9, <1>10, <1>11, <1>12, <1>13, <1>14 DEF Sweep

\* So does every other step.
LEMMA NextShape ==
    ASSUME ~Overlap, CopyInv, PauseInv, DueInv, ShapeInv, [Next]_vars
    PROVE  ShapeInv'
<1>t. /\ Shapes /\ IsRow(ticket) /\ Typed(ticket) /\ Apart(EndPause(pauses))
      /\ OpenPauses(pauses) = {} => Apart(BeginPause(pauses))
      /\ IsFiniteSet(held) /\ Cardinality(held) <= MaxHeld /\ (\A c \in held : Typed(c))
      /\ Apart(pauses)
  BY PausesApart DEF CopyInv, Shapes, ShapeInv
<1>1. CASE Tick \/ UNCHANGED vars
  BY <1>1 DEF Tick, vars, ShapeInv
<1>2. ASSUME Asked,
             Typed(ticket'), queued' \subseteq Priority,
             IsFiniteSet(held'), Cardinality(held') <= MaxHeld, \A c \in held' : Typed(c)
      PROVE  ShapeInv'
  <2>1. UNCHANGED Aside
    BY <1>2, <1>t, AskedKeeps
  <2>2. Begins \/ Stops \/ Goes
    BY <1>2, <1>t, AskedPause
  <2>3. Apart(pauses')
    <3>1. \/ pauses' = BeginPause(pauses) /\ OpenPauses(pauses) = {}
          \/ pauses' = EndPause(pauses) \/ pauses' = pauses
      BY <2>2 DEF Begins, Stops, Goes
    <3> QED BY <1>t, <3>1
  <2> QED BY <1>2, <2>1, <2>3 DEF ShapeInv, Aside
<1>3. CASE Load
  <2>1. held' = held \cup {ticket} /\ UNCHANGED <<ticket, queued>> /\ Cardinality(held) < MaxHeld
    BY <1>3 DEF Load
  <2>2. Cardinality(held) \in Nat /\ MaxHeld \in Nat
    BY <1>t, FS_CardinalityType, SlaAssumption DEF SlaAssumption
  <2>3. IsFiniteSet(held') /\ Cardinality(held') <= Cardinality(held) + 1
        /\ Cardinality(held') \in Nat
    BY <1>t, <2>1, <2>2, FS_AddElement, FS_CardinalityType
  <2>4. Cardinality(held') <= MaxHeld
    BY <2>1, <2>2, <2>3
  <2> QED BY <1>2, <1>3, <1>t, <2>1, <2>3, <2>4 DEF Asked, ShapeInv
<1>4. ASSUME NEW c \in held \cup {ticket}, Request(c) PROVE ShapeInv'
  <2>1. Typed(ticket')
    BY <1>4, <1>t, RequestTyped
  <2>2. held' \subseteq held /\ UNCHANGED queued
    BY <1>4, <1>t, RequestsKeep
  <2>3. IsFiniteSet(held') /\ Cardinality(held') <= Cardinality(held)
        /\ Cardinality(held') \in Nat /\ Cardinality(held) \in Nat
    BY <1>t, <2>2, FS_Subset, FS_CardinalityType
  <2>4. Cardinality(held') <= MaxHeld
    BY <1>t, <2>3, SlaAssumption DEF SlaAssumption
  <2> QED BY <1>2, <1>4, <1>t, <2>1, <2>2, <2>3, <2>4 DEF Asked, ShapeInv
<1>5. ASSUME NEW target PROVE Typed(Recomputed(target))
  <2>1. /\ ticket.flags \in SUBSET Kind /\ ticket.policy \in Priority
        /\ ticket.status \in Status /\ ticket.responded \in Int /\ ticket.closed \in Int
    BY <1>t DEF Typed
  <2> QED BY <1>t, <2>1, RecomputedIs, RowTyped
<1>6. ASSUME NEW p \in Priority, Propagate(p) PROVE ShapeInv'
  <2>1. ticket' = Recomputed(policy[p]) /\ queued' = queued \ {p} /\ UNCHANGED held
    BY <1>6 DEF Propagate
  <2> QED BY <1>2, <1>5, <1>6, <1>t, <2>1 DEF Asked, ShapeInv
<1>7. ASSUME NEW p \in Priority, NEW target \in Targets, EditPolicy(p, target) PROVE ShapeInv'
  <2>1. /\ ticket' = Recomputed(target) \/ UNCHANGED ticket
        /\ queued' = queued \cup {p} \/ UNCHANGED queued
        /\ UNCHANGED held
    BY <1>7 DEF EditPolicy
  <2> QED BY <1>2, <1>5, <1>7, <1>t, <2>1 DEF Asked, ShapeInv
<1>8. ASSUME NEW i \in Sweeper, Sweep(i) \/ Crash(i) PROVE ShapeInv'
  BY <1>8, WorkShape
<1> QED BY <1>1, <1>3, <1>4, <1>6, <1>7, <1>8, NextSteps DEF Asked

\* A row with deadlines and a priority.
LEMMA RowIsRow ==
    ASSUME NEW t, Typed(t), t.prio \in Priority, NEW n, FitBoth(t, n)
    PROVE  t \in Row
<1>1. /\ t.policy \in Priority /\ t.responded \in Int
      /\ t.closed \in Int /\ t.status \in Status /\ t.flags \in SUBSET Kind
      /\ t.respDue \in Int /\ t.resDue \in Int
      /\ t = AsRow(t.prio, t.policy, t.respDue, t.resDue, t.responded, t.closed, t.status,
                   t.flags)
  BY DEF Typed, FitBoth, Fits, IsRow
<1>2. ASSUME NEW p \in Priority, NEW q \in Priority, NEW x \in Int, NEW y \in Int,
             NEW r \in Int, NEW z \in Int, NEW s \in Status, NEW f \in SUBSET Kind
      PROVE  AsRow(p, q, x, y, r, z, s, f) \in Row
  BY DEF AsRow, Row
<1> QED BY <1>1, <1>2

\* Together the invariants say that the state is well typed.
LEMMA ShapeTypes ==
    ASSUME PauseInv, DueInv, ShapeInv
    PROVE  TypeOK
<1>1. ticket \in Row
  BY RowIsRow DEF ShapeInv, DueInv
<1>h. held \subseteq Row
  <2> SUFFICES ASSUME NEW c \in held PROVE c \in Row
    OBVIOUS
  <2> DEFINE n == Spent - 1
  <2>1. Typed(c) /\ c.prio \in Priority /\ FitBoth(c, n)
    BY DEF ShapeInv, DueInv
  <2> HIDE DEF n
  <2> QED BY <2>1, RowIsRow
<1>2. now \in 0 .. MaxTime /\ policy \in [Priority -> Targets]
  BY MostFacts DEF PauseInv, DueInv
<1> DEFINE P == [from : 0 .. MaxTime, to : 0 .. MaxTime \cup {NoTime}]
<1>3. pauses \in Seq(P)
  <2>1. \A i \in DOMAIN pauses : pauses[i] \in P
    <3> SUFFICES ASSUME NEW i \in DOMAIN pauses PROVE pauses[i] \in P
      OBVIOUS
    <3>1. pauses[i] \in Pause
      BY DEF PauseInv
    <3>2. pauses[i].from \in 0 .. MaxTime /\ pauses[i].to \in 0 .. MaxTime \cup {NoTime}
      BY <1>2, <3>1, MostFacts DEF Pause, DueInv, Past
    <3> QED BY <3>1, <3>2 DEF Pause
  <2> HIDE DEF P
  <2> QED BY <2>1 DEF PauseInv
<1>4. \A i, j \in DOMAIN pauses :
        i < j => pauses[i].to # NoTime /\ pauses[i].to <= pauses[j].from
  <2> SUFFICES ASSUME NEW i \in DOMAIN pauses, NEW j \in DOMAIN pauses, i < j
               PROVE  pauses[i].to # NoTime /\ pauses[i].to <= pauses[j].from
    OBVIOUS
  <2>1. i # Len(pauses)
    BY DEF PauseInv
  <2>2. pauses[i].to # NoTime
    BY <2>1 DEF PauseInv, OpenPauses
  <2> QED BY <2>2 DEF ShapeInv, Apart
<1> HIDE DEF P
<1> QED BY <1>1, <1>2, <1>3, <1>4, <1>h DEF TypeOK, P, ShapeInv, Steps

\* The rows of Ticket and SLAPause, the instances of requests and the state of
\* check_sla_breaches are well typed, and a ticket's pauses follow one another.
THEOREM ClockTyped == ~Overlap /\ Spec => []TypeOK
<1>1. ASSUME ~Overlap
      PROVE  CopyInv /\ PauseInv /\ DueInv /\ ShapeInv /\ [Next]_vars
               => CopyInv' /\ PauseInv' /\ DueInv' /\ ShapeInv'
  BY <1>1, NextCopy, NextPause, NextDue, NextShape
<1>2. PauseInv /\ DueInv /\ ShapeInv => TypeOK
  BY ShapeTypes
<1>3. ASSUME ~Overlap PROVE Spec => []TypeOK
  BY <1>1, <1>2, <1>3, InitCopy, InitPause, InitDue, InitShape, PTL DEF Spec
<1> QED BY <1>3
=============================================================================
