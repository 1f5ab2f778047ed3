---------------------------- MODULE AgentPresence ----------------------------
(***************************************************************************)
(* Whether an agent counts as present (src/apps/agents): the heartbeats of *)
(* the live WebSocket, the status people choose, logging out, and the task *)
(* that turns agents with no fresh heartbeat to AWAY.                      *)
(*                                                                         *)
(* A heartbeat reads the row and writes the status it read back together   *)
(* with the stamp; the reaper lists the stale rows and then writes them    *)
(* one by one. Both leave room for other writes in between. Time advances  *)
(* in ticks. Custom statuses, working hours and capacity are left out, and *)
(* what a fresh agent is given is InboxHub's business.                     *)
(***************************************************************************)
EXTENDS Integers

CONSTANTS
    Agent,     \* members of a tenant
    Process,   \* threads that serve heartbeats
    Nobody,    \* no agent
    TTL        \* ticks a heartbeat counts (AGENT_PRESENCE_TTL_SECONDS)

ASSUME PresenceAssumption ==
    /\ Nobody \notin Agent
    /\ TTL \in Nat

Choices == {"online", "away", "busy", "offline"}
Status == Choices \cup {"absent"}  \* absent: no AgentAvailability row yet
Old == TTL + 1                     \* this age, or any higher one
Never == TTL + 2                   \* last_seen IS NULL
Age == 0 .. Old

VARIABLES
    status,    \* the committed status of every agent
    seen,      \* the age of last_seen
    open,      \* agents with a page open whose socket works
    dead,      \* ticks since an agent last had a working socket (history variable)
    chosen,    \* the status last asked for (history variable)
    overtaken, \* agents whose last choice met a heartbeat or a reaper at work (history variable)
    touch,     \* the heartbeat that each process is writing
    reaping    \* agents the reaper has listed and not yet written

rows == <<status, seen>>
pages == <<open, dead>>
history == <<chosen, overtaken>>
vars == <<rows, pages, history, touch, reaping>>

\* read: the status the heartbeat has read. age: ticks since it looked at the clock.
Touch == [agent : Agent \cup {Nobody}, read : Status, age : Age]
Idle == [agent |-> Nobody, read |-> "absent", age |-> 0]

\* Every variable has its type: the rows, the heartbeats in flight, the reaper's list.
TypeOK ==
    /\ status \in [Agent -> Status]
    /\ seen \in [Agent -> 0 .. Never]
    /\ open \subseteq Agent
    /\ dead \in [Agent -> Age]
    /\ chosen \in [Agent -> Status]
    /\ overtaken \subseteq Agent
    /\ touch \in [Process -> Touch]
    /\ reaping \subseteq Agent

Init ==
    /\ status = [a \in Agent |-> "absent"]
    /\ seen = [a \in Agent |-> Never]
    /\ open = {}
    /\ dead = [a \in Agent |-> Old]
    /\ chosen = [a \in Agent |-> "absent"]
    /\ overtaken = {}
    /\ touch = [p \in Process |-> Idle]
    /\ reaping = {}

Fresh(a) == seen[a] <= TTL
Assignable(a) == status[a] = "online" /\ Fresh(a)
\* Variant: a row that never had a heartbeat is not stale.
StaleStamp(a) == status[a] = "online" /\ seen[a] = Old

Stale(a) == status[a] = "online" /\ ~Fresh(a)

-----------------------------------------------------------------------------
\* A heartbeat begins. It creates the row of an agent who has none, as ONLINE;
\* otherwise it goes on with the status it has read.
Begin(p, a) ==
    /\ touch[p] = Idle
    /\ IF status[a] = "absent"
       THEN /\ status' = [status EXCEPT ![a] = "online"]
            /\ seen' = [seen EXCEPT ![a] = 0]
            /\ touch' = touch
       ELSE /\ touch' = [touch EXCEPT ![p] = [agent |-> a, read |-> status[a], age |-> 0]]
            /\ UNCHANGED rows
    /\ UNCHANGED <<history, reaping>>

\* A page opens its socket, the first of the agent or one more.
Connect(p, a) ==
    /\ open' = open \cup {a}
    /\ dead' = [dead EXCEPT ![a] = 0]
    /\ Begin(p, a)

Ping(p, a) ==
    /\ a \in open
    /\ Begin(p, a)
    /\ UNCHANGED <<open, dead>>

\* The last page closes, or its network or browser dies. Nothing is written.
Disconnect(a) ==
    /\ a \in open
    /\ open' = open \ {a}
    /\ UNCHANGED <<rows, dead, history, touch, reaping>>

\* Variant: whoever shows a sign of life is ONLINE.
PromotedAlways(s) == "online"

\* Only OFFLINE is left behind by a heartbeat.
Promoted(s) == IF s = "offline" THEN "online" ELSE s

\* Variant: the stamp is the time of the write.
StampLate(p) ==
    /\ touch[p] # Idle
    /\ LET a == touch[p].agent
       IN /\ status' = [status EXCEPT ![a] = Promoted(touch[p].read)]
          /\ seen' = [seen EXCEPT ![a] = 0]
    /\ touch' = [touch EXCEPT ![p] = Idle]
    /\ UNCHANGED <<pages, history, reaping>>

\* The heartbeat is written, stamped with the time it looked at the clock.
Stamp(p) ==
    /\ touch[p] # Idle
    /\ LET a == touch[p].agent
       IN /\ status' = [status EXCEPT ![a] = Promoted(touch[p].read)]
          /\ seen' = [seen EXCEPT ![a] = touch[p].age]
    /\ touch' = [touch EXCEPT ![p] = Idle]
    /\ UNCHANGED <<pages, history, reaping>>

\* The process dies or its database does: the heartbeat is lost.
Lose(p) ==
    /\ touch[p] # Idle
    /\ touch' = [touch EXCEPT ![p] = Idle]
    /\ UNCHANGED <<rows, pages, history, reaping>>

-----------------------------------------------------------------------------
BeingWritten(a) == a \in reaping \/ \E p \in Process : touch[p].agent = a

Decide(a, s) ==
    /\ status' = [status EXCEPT ![a] = s]
    /\ chosen' = [chosen EXCEPT ![a] = s]
    /\ overtaken' = IF BeingWritten(a) THEN overtaken \cup {a} ELSE overtaken \ {a}
    /\ UNCHANGED <<seen, touch, reaping>>

\* The agent, or a manager, sets the status: set-status, my-status by POST or PATCH.
\* The row is created when there is none, without a heartbeat.
Choose(a, s) ==
    /\ Decide(a, s)
    /\ UNCHANGED pages

\* Logging out sets OFFLINE and leaves the page; the sockets of other pages stay open.
Logout(a) ==
    /\ status[a] # "absent"
    /\ open' \in {open, open \ {a}}
    /\ dead' = dead
    /\ Decide(a, "offline")

\* The periodic task lists the stale rows...
Reap ==
    /\ reaping = {}
    /\ reaping' = {a \in Agent : Stale(a)}
    /\ reaping' # {}
    /\ UNCHANGED <<rows, pages, history, touch>>

\* ...and writes each of them, whatever it has become.
ReapOne(a) ==
    /\ a \in reaping
    /\ status' = [status EXCEPT ![a] = "away"]
    /\ reaping' = reaping \ {a}
    /\ UNCHANGED <<seen, pages, history, touch>>

\* The worker is killed: the rest of the list waits for the next run.
KillReaper ==
    /\ reaping # {}
    /\ reaping' = {}
    /\ UNCHANGED <<rows, pages, history, touch>>

Older(n) == IF n >= Old THEN n ELSE n + 1

\* Time passes. Nothing makes an open page ping in time: its network may stall.
Tick ==
    /\ seen' = [a \in Agent |-> Older(seen[a])]
    /\ dead' = [a \in Agent |-> IF a \in open THEN 0 ELSE Older(dead[a])]
    /\ touch' = [p \in Process |->
                    IF touch[p] = Idle THEN Idle ELSE [touch[p] EXCEPT !.age = Older(@)]]
    /\ UNCHANGED <<status, open, history, reaping>>

Next ==
    \/ \E p \in Process, a \in Agent : Connect(p, a) \/ Ping(p, a)
    \/ \E p \in Process : Stamp(p) \/ Lose(p)
    \/ \E a \in Agent, s \in Choices : Choose(a, s)
    \/ \E a \in Agent : Disconnect(a) \/ Logout(a) \/ ReapOne(a)
    \/ Reap
    \/ KillReaper
    \/ Tick

Spec == Init /\ [][Next]_vars

-----------------------------------------------------------------------------
(* Properties *)

\* The gate that is_assignable puts before the Inbox Hub: nobody is assignable
\* whose last socket died longer ago than the TTL, however late a heartbeat of
\* that socket is written and whatever status is chosen meanwhile.
DeadAreNotAssignable == \A a \in Agent : Assignable(a) => dead[a] <= TTL

\* "A deliberate AWAY/BUSY choice is preserved" (presence.py) as far as the code
\* keeps it: until the agent decides again, unless a heartbeat or the reaper had
\* read the row before the choice was made.
ChoiceIsKept ==
    \A a \in Agent \ overtaken :
        chosen[a] \in {"away", "busy"} => status[a] = chosen[a]

\* Open pages ping, web threads finish what they began, the periodic task runs again and again and
\* is not killed before the same row every time, and time passes.
Fairness ==
    /\ WF_vars(Tick)
    /\ WF_vars(Reap)
    /\ \A a \in Agent : SF_vars(ReapOne(a))
    /\ \A p \in Process : SF_vars(Stamp(p))
    /\ \A a \in Agent : SF_vars(\E p \in Process : Ping(p, a))

FairSpec == Spec /\ Fairness

\* "a session that stops heart-beating ages out ... the reaper task then flips it":
\* an agent without a working page does not stay ONLINE.
DeadAreReaped == \A a \in Agent : a \notin open ~> (a \in open \/ status[a] # "online")

\* "A live socket is the source of truth for agent presence ... so the agent becomes
\* assignable" (consumers.py): an agent who never chose a status and whose page stays
\* open becomes assignable.
LiveAreAssignable ==
    \A a \in Agent :
        (a \in open /\ chosen[a] = "absent") ~>
            (Assignable(a) \/ a \notin open \/ chosen[a] # "absent")
=============================================================================
