------------------------- MODULE AgentPresence_proofs -------------------------
(***************************************************************************)
(* Nobody is assignable longer than the TTL after the last socket died,    *)
(* and a choice of AWAY or BUSY stands unless it was overtaken, whatever   *)
(* the number of agents and threads and whatever the TTL.                  *)
(***************************************************************************)
EXTENDS AgentPresence, TLAPS

\* A stamp, written or on its way, is never younger than the death of the socket.
StampsAreBehind ==
    /\ \A a \in open : dead[a] = 0
    /\ \A a \in Agent : seen[a] >= dead[a]
    /\ \A p \in Process : touch[p].agent \in Agent => touch[p].age >= dead[touch[p].agent]

Settled(a) == a \notin overtaken /\ chosen[a] \in {"away", "busy"}

\* Whoever may still write the row of a settled agent writes what was chosen.
ChoiceStands ==
    \A a \in Agent : Settled(a) =>
        /\ status[a] = chosen[a]
        /\ a \notin reaping
        /\ \A p \in Process : touch[p].agent = a => touch[p].read = chosen[a]

ServedOrIdle == \A p \in Process : touch[p] = Idle \/ touch[p].agent \in Agent

LEMMA OlderStays ==
    ASSUME NEW n \in 0 .. Never
    PROVE  /\ Older(n) \in 0 .. Never
           /\ n \in Age => Older(n) \in Age
           /\ \A m \in 0 .. Never : n <= m => Older(n) <= Older(m)
  BY PresenceAssumption DEF Older, Old, Never, Age

LEMMA IdleIsTouch == Idle \in Touch /\ Idle.agent \notin Agent
  BY PresenceAssumption DEF Idle, Touch, Status, Age, Old

-----------------------------------------------------------------------------
\* The values of the variables stay in their sets, and a heartbeat in progress is
\* that of an agent.
LEMMA TypeStep == TypeOK /\ ServedOrIdle /\ [Next]_vars => TypeOK' /\ ServedOrIdle'
<1> SUFFICES ASSUME TypeOK, ServedOrIdle, [Next]_vars PROVE TypeOK' /\ ServedOrIdle'
  OBVIOUS
<1> USE PresenceAssumption, IdleIsTouch DEF TypeOK, ServedOrIdle, rows, pages, history
<1>1. ASSUME NEW p \in Process, NEW a \in Agent, Begin(p, a), open' \subseteq Agent,
             dead' \in [Agent -> Age]
      PROVE TypeOK' /\ ServedOrIdle'
  <2>1. CASE status[a] = "absent"
    <3>1. "online" \in Status /\ 0 \in 0 .. Never
      BY DEF Status, Choices, Never
    <3>2. touch' = touch /\ status' \in [Agent -> Status] /\ seen' \in [Agent -> 0 .. Never]
      BY <1>1, <2>1, <3>1 DEF Begin
    <3>3. chosen' = chosen /\ overtaken' = overtaken /\ reaping' = reaping
      BY <1>1 DEF Begin
    <3> QED BY <1>1, <3>2, <3>3
  <2>2. CASE status[a] # "absent"
    <3>1. [agent |-> a, read |-> status[a], age |-> 0] \in Touch
      BY DEF Touch, Age, Old
    <3> QED BY <1>1, <2>2, <3>1 DEF Begin
  <2> QED BY <2>1, <2>2
<1>2. ASSUME NEW p \in Process, NEW a \in Agent, Connect(p, a) PROVE TypeOK' /\ ServedOrIdle'
  BY <1>1, <1>2 DEF Connect, Age, Old
<1>3. ASSUME NEW p \in Process, NEW a \in Agent, Ping(p, a) PROVE TypeOK' /\ ServedOrIdle'
  BY <1>1, <1>3 DEF Ping
<1>4. ASSUME NEW p \in Process, Stamp(p) PROVE TypeOK' /\ ServedOrIdle'
  <2>1. touch[p] \in Touch
    OBVIOUS
  <2>2. touch[p].age \in 0 .. Never /\ Promoted(touch[p].read) \in Status
    BY <2>1 DEF Touch, Age, Never, Old, Promoted, Status, Choices
  <2> QED BY <1>4, <2>2 DEF Stamp
<1>5. ASSUME NEW p \in Process, Lose(p) PROVE TypeOK' /\ ServedOrIdle'
  BY <1>5 DEF Lose
<1>6. ASSUME NEW a \in Agent, NEW s \in Choices, Choose(a, s) PROVE TypeOK' /\ ServedOrIdle'
  BY <1>6 DEF Choose, Decide, Status
<1>7. ASSUME NEW a \in Agent, Disconnect(a) PROVE TypeOK' /\ ServedOrIdle'
  BY <1>7 DEF Disconnect
<1>8. ASSUME NEW a \in Agent, Logout(a) PROVE TypeOK' /\ ServedOrIdle'
  <2>1. "offline" \in Status
    BY DEF Status, Choices
  <2> QED BY <1>8, <2>1 DEF Logout, Decide
<1>9. ASSUME NEW a \in Agent, ReapOne(a) PROVE TypeOK' /\ ServedOrIdle'
  BY <1>9 DEF ReapOne, Status, Choices
<1>10. CASE Reap
  BY <1>10 DEF Reap
<1>11. CASE KillReaper
  BY <1>11 DEF KillReaper
<1>12. CASE Tick
  <2>1. seen' \in [Agent -> 0 .. Never]
    BY <1>12, OlderStays DEF Tick
  <2>2. dead' \in [Agent -> Age]
    BY <1>12, OlderStays DEF Tick, Age, Never, Old
  <2>3. ASSUME NEW p \in Process
        PROVE touch'[p] \in Touch /\ (touch'[p] = Idle \/ touch'[p].agent \in Agent)
    <3>1. CASE touch[p] = Idle
      BY <1>12, <3>1 DEF Tick
    <3>2. CASE touch[p] # Idle
      <4>1. touch'[p] = [touch[p] EXCEPT !.age = Older(touch[p].age)]
        BY <1>12, <3>2 DEF Tick
      <4>2. touch[p] \in Touch /\ touch[p].agent \in Agent
        BY <3>2
      <4>3. Older(touch[p].age) \in Age
        BY <4>2, OlderStays DEF Touch, Age, Never, Old
      <4> QED BY <4>1, <4>2, <4>3 DEF Touch
    <3> QED BY <3>1, <3>2
  <2>4. touch' \in [Process -> Touch]
    BY <1>12, <2>3 DEF Tick
  <2> QED BY <1>12, <2>1, <2>2, <2>3, <2>4 DEF Tick
<1>13. CASE UNCHANGED vars
  BY <1>13 DEF vars
<1> QED
  BY <1>2, <1>3, <1>4, <1>5, <1>6, <1>7, <1>8, <1>9, <1>10, <1>11, <1>12, <1>13 DEF Next

LEMMA TypeInit == Init => TypeOK /\ ServedOrIdle
  BY PresenceAssumption, IdleIsTouch
  DEF Init, TypeOK, ServedOrIdle, Status, Choices, Never, Old, Age

\* The state of presence keeps its types, for every tenant and TTL.
THEOREM TypeCorrect == Spec => []TypeOK
<1>1. Spec => [](TypeOK /\ ServedOrIdle)
  BY TypeInit, TypeStep, PTL DEF Spec
<1> QED BY <1>1, PTL

-----------------------------------------------------------------------------
\* No step makes a stamp younger than the socket's death.
LEMMA StampsStep ==
    TypeOK /\ ServedOrIdle /\ StampsAreBehind /\ [Next]_vars => StampsAreBehind'
<1> SUFFICES ASSUME TypeOK, ServedOrIdle, StampsAreBehind, [Next]_vars PROVE StampsAreBehind'
  OBVIOUS
<1> USE PresenceAssumption, IdleIsTouch
    DEF TypeOK, ServedOrIdle, StampsAreBehind, rows, pages, history
<1>0. \A a \in Agent : dead[a] \in 0 .. Never /\ dead[a] >= 0
  BY DEF Age, Never, Old
<1>1. ASSUME NEW p \in Process, NEW a \in Agent, Begin(p, a),
             open' = open \cup {a}, dead' = [dead EXCEPT ![a] = 0]
      PROVE StampsAreBehind'
  <2>1. \A b \in Agent : dead'[b] <= dead[b] /\ dead'[b] \in Int
    BY <1>0, <1>1
  <2>2. \A b \in open' : dead'[b] = 0
    BY <1>1
  <2>5. dead'[a] = 0
    BY <1>1
  <2>6. ASSUME NEW q \in Process, touch[q].agent \in Agent
        PROVE touch[q].age >= dead'[touch[q].agent]
    <3>1. touch[q].age \in Int /\ touch[q].age >= dead[touch[q].agent]
      BY <2>6 DEF Touch, Age
    <3> QED BY <1>0, <2>1, <2>6, <3>1 DEF Never, Old
  <2>3. CASE status[a] = "absent"
    <3>1. touch' = touch /\ seen' = [seen EXCEPT ![a] = 0]
      BY <1>1, <2>3 DEF Begin
    <3>2. \A b \in Agent : seen'[b] >= dead'[b]
      <4>1. seen'[a] >= dead'[a]
        BY <1>0, <2>5, <3>1
      <4>2. ASSUME NEW b \in Agent, b # a PROVE seen'[b] >= dead'[b]
        <5>1. seen'[b] = seen[b] /\ seen[b] \in 0 .. Never /\ dead[b] \in 0 .. Never
          BY <1>0, <3>1, <4>2
        <5> QED BY <2>1, <4>2, <5>1 DEF Never, Old
      <4> QED BY <4>1, <4>2
    <3>3. ASSUME NEW q \in Process, touch'[q].agent \in Agent
          PROVE touch'[q].age >= dead'[touch'[q].agent]
      BY <2>6, <3>1, <3>3
    <3> QED BY <2>2, <3>2, <3>3
  <2>4. CASE status[a] # "absent"
    <3>1. touch' = [touch EXCEPT ![p] = [agent |-> a, read |-> status[a], age |-> 0]] /\ seen' = seen
      BY <1>1, <2>4 DEF Begin
    <3>2. \A b \in Agent : seen'[b] >= dead'[b]
      BY <1>0, <2>1, <3>1 DEF Never, Old
    <3>3. ASSUME NEW q \in Process, touch'[q].agent \in Agent
          PROVE touch'[q].age >= dead'[touch'[q].agent]
      BY <2>5, <2>6, <3>1, <3>3
    <3> QED BY <2>2, <3>2, <3>3
  <2> QED BY <2>3, <2>4
<1>2. ASSUME NEW p \in Process, NEW a \in Agent, Connect(p, a) PROVE StampsAreBehind'
  BY <1>1, <1>2 DEF Connect
<1>3. ASSUME NEW p \in Process, NEW a \in Agent, Ping(p, a) PROVE StampsAreBehind'
  <2>1. open' = open \cup {a} /\ dead' = [dead EXCEPT ![a] = 0]
    BY <1>3 DEF Ping
  <2> QED BY <1>1, <1>3, <2>1 DEF Ping
<1>4. ASSUME NEW p \in Process, Stamp(p) PROVE StampsAreBehind'
  <2>1. touch[p].agent \in Agent /\ touch[p].age >= dead[touch[p].agent]
    BY <1>4 DEF Stamp
  <2> QED BY <1>4, <2>1 DEF Stamp
<1>5. ASSUME NEW p \in Process, Lose(p) PROVE StampsAreBehind'
  BY <1>5 DEF Lose
<1>6. ASSUME NEW a \in Agent, NEW s \in Choices, Choose(a, s) PROVE StampsAreBehind'
  BY <1>6 DEF Choose, Decide
<1>7. ASSUME NEW a \in Agent, Disconnect(a) PROVE StampsAreBehind'
  BY <1>7 DEF Disconnect
<1>8. ASSUME NEW a \in Agent, Logout(a) PROVE StampsAreBehind'
  BY <1>8 DEF Logout, Decide
<1>9. ASSUME NEW a \in Agent, ReapOne(a) PROVE StampsAreBehind'
  BY <1>9 DEF ReapOne
<1>10. CASE Reap
  BY <1>10 DEF Reap
<1>11. CASE KillReaper
  BY <1>11 DEF KillReaper
<1>12. CASE Tick
  <2>1. \A a \in Agent : dead'[a] = 0 \/ dead'[a] = Older(dead[a])
    BY <1>12 DEF Tick
  <2>2. ASSUME NEW a \in Agent PROVE seen'[a] >= dead'[a]
    <3>1. seen'[a] = Older(seen[a]) /\ seen'[a] \in 0 .. Never
      BY <1>12, OlderStays DEF Tick
    <3>2. Older(dead[a]) <= Older(seen[a])
      BY <1>0, OlderStays
    <3> QED BY <2>1, <3>1, <3>2 DEF Never, Old
  <2>3. ASSUME NEW p \in Process, touch'[p].agent \in Agent
        PROVE touch'[p].age >= dead'[touch'[p].agent]
    <3>1. touch[p] # Idle /\ touch'[p] = [touch[p] EXCEPT !.age = Older(touch[p].age)]
      BY <1>12, <2>3 DEF Tick
    <3>2. touch[p] \in Touch /\ touch[p].agent \in Agent
      BY <3>1
    <3>3. touch'[p].agent = touch[p].agent /\ touch'[p].age = Older(touch[p].age)
      BY <3>1, <3>2 DEF Touch
    <3>4. touch[p].age \in 0 .. Never /\ Older(touch[p].age) \in 0 .. Never
      BY <3>2, OlderStays DEF Touch, Age, Never, Old
    <3>5. Older(dead[touch[p].agent]) <= Older(touch[p].age)
      BY <1>0, <3>2, <3>4, OlderStays
    <3> QED BY <2>1, <3>2, <3>3, <3>4, <3>5 DEF Never, Old
  <2>4. \A a \in open' : dead'[a] = 0
    BY <1>12 DEF Tick
  <2> QED BY <2>2, <2>3, <2>4
<1>13. CASE UNCHANGED vars
  BY <1>13 DEF vars
<1> QED
  BY <1>2, <1>3, <1>4, <1>5, <1>6, <1>7, <1>8, <1>9, <1>10, <1>11, <1>12, <1>13 DEF Next

\* No step unsettles a choice that was not overtaken.
LEMMA ChoiceStep ==
    TypeOK /\ ServedOrIdle /\ ChoiceStands /\ [Next]_vars => ChoiceStands'
<1> SUFFICES ASSUME TypeOK, ServedOrIdle, ChoiceStands, [Next]_vars PROVE ChoiceStands'
  OBVIOUS
<1> USE PresenceAssumption, IdleIsTouch
    DEF TypeOK, ServedOrIdle, ChoiceStands, Settled, rows, pages, history
<1>1. ASSUME NEW p \in Process, NEW a \in Agent, Begin(p, a) PROVE ChoiceStands'
  <2>1. CASE status[a] = "absent"
    <3>1. touch' = touch /\ status' = [status EXCEPT ![a] = "online"]
      BY <1>1, <2>1 DEF Begin
    <3>2. chosen' = chosen /\ overtaken' = overtaken /\ reaping' = reaping
      BY <1>1 DEF Begin
    <3>3. ~Settled(a)
      BY <2>1
    <3> QED BY <3>1, <3>2, <3>3
  <2>2. CASE status[a] # "absent"
    <3>1. touch' = [touch EXCEPT ![p] = [agent |-> a, read |-> status[a], age |-> 0]]
      BY <1>1, <2>2 DEF Begin
    <3>2. status' = status /\ chosen' = chosen /\ overtaken' = overtaken /\ reaping' = reaping
      BY <1>1, <2>2 DEF Begin
    <3> QED BY <3>1, <3>2
  <2> QED BY <2>1, <2>2
<1>2. ASSUME NEW p \in Process, NEW a \in Agent, Connect(p, a) PROVE ChoiceStands'
  BY <1>1, <1>2 DEF Connect
<1>3. ASSUME NEW p \in Process, NEW a \in Agent, Ping(p, a) PROVE ChoiceStands'
  BY <1>1, <1>3 DEF Ping
<1>4. ASSUME NEW p \in Process, Stamp(p) PROVE ChoiceStands'
  <2>1. touch[p].agent \in Agent
    BY <1>4 DEF Stamp
  <2>2. Settled(touch[p].agent) => Promoted(touch[p].read) = chosen[touch[p].agent]
    BY <2>1 DEF Promoted
  <2> QED BY <1>4, <2>1, <2>2 DEF Stamp
<1>5. ASSUME NEW p \in Process, Lose(p) PROVE ChoiceStands'
  BY <1>5 DEF Lose
<1>6. ASSUME NEW a \in Agent, NEW s \in Choices, Decide(a, s) PROVE ChoiceStands'
  <2>1. CASE BeingWritten(a)
    BY <1>6, <2>1 DEF Decide
  <2>2. CASE ~BeingWritten(a)
    BY <1>6, <2>2 DEF Decide, BeingWritten
  <2> QED BY <2>1, <2>2
<1>7. ASSUME NEW a \in Agent, Disconnect(a) PROVE ChoiceStands'
  BY <1>7 DEF Disconnect
<1>8. ASSUME NEW a \in Agent, Logout(a) PROVE ChoiceStands'
  BY <1>6, <1>8 DEF Logout, Choices
<1>9. ASSUME NEW a \in Agent, ReapOne(a) PROVE ChoiceStands'
  BY <1>9 DEF ReapOne
<1>10. CASE Reap
  BY <1>10 DEF Reap, Stale
<1>11. CASE KillReaper
  BY <1>11 DEF KillReaper
<1>12. CASE Tick
  <2>1. \A p \in Process : touch'[p].agent = touch[p].agent /\ touch'[p].read = touch[p].read
    BY <1>12 DEF Tick, Touch
  <2> QED BY <1>12, <2>1 DEF Tick
<1>13. CASE UNCHANGED vars
  BY <1>13 DEF vars
<1>14. ASSUME NEW a \in Agent, NEW s \in Choices, Choose(a, s) PROVE ChoiceStands'
  BY <1>6, <1>14 DEF Choose
<1> QED
  BY <1>2, <1>3, <1>4, <1>5, <1>7, <1>8, <1>9, <1>10, <1>11, <1>12, <1>13, <1>14 DEF Next

IInv == TypeOK /\ ServedOrIdle /\ StampsAreBehind /\ ChoiceStands

LEMMA IInvHolds == Spec => []IInv
<1>1. Init => StampsAreBehind /\ ChoiceStands
  BY PresenceAssumption, IdleIsTouch
  DEF Init, StampsAreBehind, ChoiceStands, Settled, Old, Never
<1>2. Init => IInv
  BY <1>1, TypeInit DEF IInv
<1>3. IInv /\ [Next]_vars => IInv'
  BY TypeStep, StampsStep, ChoiceStep DEF IInv
<1> QED BY <1>2, <1>3, PTL DEF Spec

\* The promise of is_assignable: work is not routed to a session that has been dead
\* for longer than the TTL.
THEOREM DeadStayUnassigned == Spec => []DeadAreNotAssignable
<1>1. IInv => DeadAreNotAssignable
  BY PresenceAssumption
  DEF IInv, TypeOK, StampsAreBehind, DeadAreNotAssignable, Assignable, Fresh, Age, Never, Old
<1> QED BY <1>1, IInvHolds, PTL

\* The promise of presence.py on AWAY and BUSY, short of the races it does not close.
THEOREM ChoicesStand == Spec => []ChoiceIsKept
<1>1. IInv => ChoiceIsKept
  BY DEF IInv, ChoiceStands, Settled, ChoiceIsKept
<1> QED BY <1>1, IInvHolds, PTL
===============================================================================
