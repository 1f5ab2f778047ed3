------------------------------ MODULE VoipCall ------------------------------
(***************************************************************************)
(* The calls of one tenant: voip/views.py, voip/services.py, voip/tasks.py *)
(* and voip/signals.py.  A call is placed by a web request that checks the *)
(* plan's limit, saves the CallLog, asks Asterisk for a channel, stores    *)
(* the channel's id and only then counts the call.  From then on three     *)
(* parties write the row, each from a copy read earlier and none under a   *)
(* lock: the agent's requests, the Celery tasks that apply Asterisk's      *)
(* events in any order, and the hourly sweep of calls older than two hours.*)
(*                                                                         *)
(* An answered call is taken to last at least a second when it ends, VoIP  *)
(* is configured and recording is on for the tenant.                       *)
(***************************************************************************)
EXTENDS Naturals, FiniteSets

CONSTANTS
    Call,       \* the calls a behaviour may place, one initiate request each
    Followed,   \* bound: the calls that anything happens to after their request
    Handler,    \* web and Celery processes that work on a call
    Limit,      \* Plan.max_calls_per_month
    Dialling,   \* how many initiate requests the web server runs at a time
    MaxSteps,   \* bound: what agents and phones do to calls, and task retries
    NoCall      \* the call of an idle handler

ASSUME VoipAssumption ==
    /\ IsFiniteSet(Call) /\ NoCall \notin Call /\ Followed \subseteq Call
    /\ Limit \in Nat
    /\ Dialling \in Nat \ {0}
    /\ MaxSteps \in Nat

VARIABLES
    row,      \* the CallLog of each call
    dial,     \* how far the initiate request of each call is
    made,     \* UsageTracker.calls_made
    channel,  \* what Asterisk does with the call
    up,       \* the calls whose channel was ever Up
    events,   \* sync_call_state tasks that wait
    job,      \* what each handler does, with the copy of the row it read
    old,      \* the calls that started more than two hours ago
    wanted,   \* process_call_recording tasks that wait
    recorded, \* the calls that have a CallRecording
    steps     \* requests, phone actions and retries so far (bounded)

vars == <<row, dial, made, channel, up, events, job, old, wanted, recorded,
          steps>>

-----------------------------------------------------------------------------
(* The call record.                                                        *)

Active == {"RINGING", "ANSWERED", "ON_HOLD"}

Status == Active \union {"COMPLETED", "FAILED", "MISSED"}

\* The fields that steer the code: chan is asterisk_channel_id # "",
\* answered and ended are answered_at and ended_at, dur is duration_seconds > 0.
CallLog == [status : Status \union {"none"}, chan : BOOLEAN,
            answered : BOOLEAN, ended : BOOLEAN, dur : BOOLEAN]

NoRow == [status |-> "none", chan |-> FALSE, answered |-> FALSE,
          ended |-> FALSE, dur |-> FALSE]

\* The end of a call as every writer computes it from its copy.
Ended(copy, s) == [copy EXCEPT !.status = s, !.ended = TRUE,
                               !.dur = copy.answered \/ copy.dur]

\* CallLog.save(update_fields=[...]) writes only these fields of the copy.
Endings == {"status", "ended", "dur"}
AllFields == {"status", "chan", "answered", "ended", "dur"}
Merged(stored, copy, fields) ==
    [status |-> IF "status" \in fields THEN copy.status ELSE stored.status,
     chan |-> IF "chan" \in fields THEN copy.chan ELSE stored.chan,
     answered |-> IF "answered" \in fields THEN copy.answered ELSE stored.answered,
     ended |-> IF "ended" \in fields THEN copy.ended ELSE stored.ended,
     dur |-> IF "dur" \in fields THEN copy.dur ELSE stored.dur]

\* Variant: every completed call asks for its recording.
WantsCompleted(copy) == copy.status = "COMPLETED"

\* log_call_to_timelines after a save: a completed call with a duration asks
\* for its recording.
Wants(copy) == copy.status = "COMPLETED" /\ copy.dur

Save(c, copy, fields) ==
    /\ row' = [row EXCEPT ![c] = Merged(row[c], copy, fields)]
    /\ wanted' = IF Wants(copy) THEN wanted \union {c} ELSE wanted

-----------------------------------------------------------------------------
(* InitiateCallView: one request per call.                                 *)

InFlight == {c \in Call : dial[c] \in {"checked", "saved", "placed", "failed", "stored"}}

\* Variant: the limit itself still passes.
MayCallAtLimit == made <= Limit

\* check_call_limit reads the counter without a lock.
MayCall == made < Limit

Check(c) ==
    /\ dial[c] = "new"
    /\ Cardinality(InFlight) < Dialling
    /\ dial' = [dial EXCEPT ![c] = IF MayCall THEN "checked" ELSE "done"]
    /\ UNCHANGED <<row, made, channel, up, events, job, old, wanted, recorded, steps>>

SaveRow(c) ==
    /\ dial[c] = "checked"
    /\ row' = [row EXCEPT ![c] = [NoRow EXCEPT !.status = "RINGING"]]
    /\ dial' = [dial EXCEPT ![c] = "saved"]
    /\ UNCHANGED <<made, channel, up, events, job, old, wanted, recorded, steps>>

\* originate_call: Asterisk makes a channel or not, and its answer may be lost
\* on the way back.
Originate(c) ==
    /\ dial[c] = "saved"
    /\ \E ch \in {"none", "ringing"}, d \in {"placed", "failed"} :
          /\ d = "placed" => ch = "ringing"
          /\ channel' = [channel EXCEPT ![c] = ch]
          /\ dial' = [dial EXCEPT ![c] = d]
    /\ UNCHANGED <<row, made, up, events, job, old, wanted, recorded, steps>>

StoreChannel(c) ==
    /\ dial[c] = "placed"
    /\ row' = [row EXCEPT ![c].chan = TRUE]
    /\ dial' = [dial EXCEPT ![c] = "stored"]
    /\ UNCHANGED <<made, channel, up, events, job, old, wanted, recorded, steps>>

\* The request's own instance is still the one it created.
MarkFailed(c) ==
    /\ dial[c] = "failed"
    /\ row' = [row EXCEPT ![c].status = "FAILED", ![c].ended = TRUE]
    /\ dial' = [dial EXCEPT ![c] = "done"]
    /\ UNCHANGED <<made, channel, up, events, job, old, wanted, recorded, steps>>

\* increment_call_usage: one UPDATE with F("calls_made") + 1.
Count(c) ==
    /\ dial[c] = "stored"
    /\ made' = made + 1
    /\ dial' = [dial EXCEPT ![c] = "done"]
    /\ UNCHANGED <<row, channel, up, events, job, old, wanted, recorded, steps>>

\* The web process dies in the middle of the request.
DialDies(c) ==
    /\ c \in InFlight
    /\ dial' = [dial EXCEPT ![c] = "done"]
    /\ UNCHANGED <<row, made, channel, up, events, job, old, wanted, recorded, steps>>

-----------------------------------------------------------------------------
(* Asterisk.  The listener may miss any event while it reconnects.         *)

Event == [call : Call, type : {"Up", "HangupRequest", "Destroyed", "Hold", "Unhold"}]

Emit(c, types) ==
    \E heard \in SUBSET types :
        events' = events \union {[call |-> c, type |-> t] : t \in heard}

PhoneAnswers(c) ==
    /\ channel[c] = "ringing"
    /\ steps < MaxSteps /\ steps' = steps + 1
    /\ channel' = [channel EXCEPT ![c] = "up"]
    /\ up' = up \union {c}
    /\ Emit(c, {"Up"})
    /\ UNCHANGED <<row, dial, made, job, old, wanted, recorded>>

PhoneHangsUp(c) ==
    /\ channel[c] \in {"ringing", "up"}
    /\ steps < MaxSteps /\ steps' = steps + 1
    /\ channel' = [channel EXCEPT ![c] = "gone"]
    /\ Emit(c, {"HangupRequest", "Destroyed"})
    /\ UNCHANGED <<row, dial, made, up, job, old, wanted, recorded>>

PhoneHolds(c) ==
    /\ channel[c] = "up"
    /\ steps < MaxSteps /\ steps' = steps + 1
    /\ \E t \in {"Hold", "Unhold"} : events' = events \union {[call |-> c, type |-> t]}
    /\ UNCHANGED <<row, dial, made, channel, up, job, old, wanted, recorded>>

-----------------------------------------------------------------------------
(* The agent's requests and the Celery tasks that apply an event.  Each    *)
(* reads the row, does its work on the copy and saves some fields of it.   *)

Requests == {"hangup", "hold", "transfer", "patch"}

Idle == [op |-> "idle", call |-> NoCall, copy |-> NoRow, asked |-> FALSE]

Jobs == [op : Requests \union {"Up", "HangupRequest", "Destroyed", "Hold", "Unhold"},
         call : Call, copy : CallLog, asked : BOOLEAN] \union {Idle}

\* The copy as the handler changes it, and the fields it then saves.
Result(j) ==
    CASE j.op \in {"hangup", "transfer"} -> Ended(j.copy, "COMPLETED")
      [] j.op \in {"HangupRequest", "Destroyed"} ->
             Ended(j.copy, IF j.copy.answered THEN "COMPLETED" ELSE "MISSED")
      [] j.op = "hold" ->
             [j.copy EXCEPT !.status = IF j.copy.status = "ON_HOLD" THEN "ANSWERED" ELSE "ON_HOLD"]
      [] j.op = "patch" -> j.copy
      [] j.op = "Up" -> [j.copy EXCEPT !.status = "ANSWERED", !.answered = TRUE]
      [] j.op = "Hold" -> [j.copy EXCEPT !.status = "ON_HOLD"]
      [] OTHER -> [j.copy EXCEPT !.status = "ANSWERED"]

Fields(j) ==
    CASE j.op \in {"hangup", "transfer", "HangupRequest", "Destroyed"} -> Endings
      [] j.op = "patch" -> AllFields
      [] j.op = "Up" -> {"status", "answered"}
      [] OTHER -> {"status"}

\* Early returns: process_ari_event looks at the copy's status for these two.
Ignored(j) ==
    \/ j.op = "Up" /\ j.copy.status # "RINGING"
    \/ j.op = "Destroyed" /\ j.copy.status \notin Active

\* The views refuse a call that is not active; hold and transfer need a channel.
ReadForRequest(p, c, op) ==
    /\ job[p] = Idle /\ row[c].status # "none"
    /\ op # "patch" => row[c].status \in Active
    /\ op \in {"hold", "transfer"} => row[c].chan
    /\ steps < MaxSteps /\ steps' = steps + 1
    /\ job' = [job EXCEPT ![p] = [op |-> op, call |-> c, copy |-> row[c], asked |-> FALSE]]
    /\ UNCHANGED <<row, dial, made, channel, up, events, old, wanted, recorded>>

\* hangup_call carries on whatever Asterisk answers.
AskHangup(p) ==
    LET c == job[p].call IN
    /\ job[p].op = "hangup" /\ job[p].copy.chan /\ ~job[p].asked
    /\ job' = [job EXCEPT ![p].asked = TRUE]
    /\ \/ /\ channel[c] \in {"ringing", "up"}
          /\ channel' = [channel EXCEPT ![c] = "gone"]
          /\ Emit(c, {"HangupRequest", "Destroyed"})
       \/ UNCHANGED <<channel, events>>
    /\ UNCHANGED <<row, dial, made, up, old, wanted, recorded, steps>>

\* toggle_hold and transfer_call give up when Asterisk refuses.
AskOther(p) ==
    LET c == job[p].call IN
    /\ job[p].op \in {"hold", "transfer"} /\ ~job[p].asked
    /\ \/ /\ channel[c] \in {"ringing", "up"}
          /\ job' = [job EXCEPT ![p].asked = TRUE]
       \/ job' = [job EXCEPT ![p] = Idle]
    /\ UNCHANGED <<row, dial, made, channel, up, events, old, wanted, recorded, steps>>

Write(p) ==
    LET j == job[p] IN
    /\ \/ j.asked
       \/ j.op = "patch"
       \/ j.op = "hangup" /\ ~j.copy.chan
    /\ Save(j.call, Result(j), Fields(j))
    /\ job' = [job EXCEPT ![p] = Idle]
    /\ UNCHANGED <<dial, made, channel, up, events, old, recorded, steps>>

\* process_ari_event looks the call up by its channel id and drops the event
\* when no row has it yet.
TakeEvent(p, e) ==
    /\ job[p] = Idle /\ e \in events
    /\ events' = events \ {e}
    /\ IF row[e.call].chan
       THEN job' = [job EXCEPT ![p] = [op |-> e.type, call |-> e.call,
                                       copy |-> row[e.call], asked |-> FALSE]]
       ELSE UNCHANGED job
    /\ UNCHANGED <<row, dial, made, channel, up, old, wanted, recorded, steps>>

\* The save, and then the broadcast; when Redis fails there the task is
\* retried, and applies the event again.
ApplyEvent(p) ==
    LET j == job[p] IN
    /\ j.op \in {"Up", "HangupRequest", "Destroyed", "Hold", "Unhold"}
    /\ IF Ignored(j) THEN UNCHANGED <<row, wanted>>
       ELSE Save(j.call, Result(j), Fields(j))
    /\ job' = [job EXCEPT ![p] = Idle]
    /\ \/ UNCHANGED <<events, steps>>
       \/ /\ ~Ignored(j)
          /\ steps < MaxSteps /\ steps' = steps + 1
          /\ events' = events \union {[call |-> j.call, type |-> j.op]}
    /\ UNCHANGED <<dial, made, channel, up, old, recorded>>

HandlerDies(p) ==
    /\ job[p] # Idle
    /\ job' = [job EXCEPT ![p] = Idle]
    /\ UNCHANGED <<row, dial, made, channel, up, events, old, wanted, recorded, steps>>

-----------------------------------------------------------------------------
(* Celery beat and the recording task.                                     *)

\* Two hours pass; no request is still dialling then.
Age(c) ==
    /\ c \notin old /\ c \notin InFlight /\ row[c].status # "none"
    /\ old' = old \union {c}
    /\ UNCHANGED <<row, dial, made, channel, up, events, job, wanted, recorded, steps>>

\* Variant: held calls are forgotten.
StaleButHeld(c) == c \in old /\ row[c].status \in {"RINGING", "ANSWERED"}

Stale(c) == c \in old /\ row[c].status \in Active

\* cleanup_stale_calls: one UPDATE, which sends no signal.
Sweep ==
    /\ \E c \in Call : Stale(c)
    /\ row' = [c \in Call |-> IF Stale(c)
                             THEN [row[c] EXCEPT !.status = "FAILED", !.ended = TRUE]
                             ELSE row[c]]
    /\ UNCHANGED <<dial, made, channel, up, events, job, old, wanted, recorded, steps>>

\* process_call_recording: stores the file unless a recording exists, Asterisk
\* has none, or the retries are used up.
Record(c) ==
    /\ c \in wanted
    /\ wanted' = wanted \ {c}
    /\ recorded' \in {recorded, recorded \union {c}}
    /\ UNCHANGED <<row, dial, made, channel, up, events, job, old, steps>>

-----------------------------------------------------------------------------
\* The counter may stand anywhere below the limit when the behaviour starts.
Init ==
    /\ row = [c \in Call |-> NoRow]
    /\ dial = [c \in Call |-> "new"]
    /\ made \in 0..Limit
    /\ channel = [c \in Call |-> "none"]
    /\ up = {} /\ events = {} /\ old = {} /\ wanted = {} /\ recorded = {}
    /\ job = [p \in Handler |-> Idle]
    /\ steps = 0

Dial(c) ==
    \/ Check(c)
    \/ SaveRow(c)
    \/ Originate(c)
    \/ StoreChannel(c)
    \/ MarkFailed(c)
    \/ Count(c)

Asterisk(c) ==
    \/ PhoneAnswers(c)
    \/ PhoneHangsUp(c)
    \/ PhoneHolds(c)

Handle(p) ==
    \/ \E c \in Followed, op \in Requests : ReadForRequest(p, c, op)
    \/ AskHangup(p)
    \/ AskOther(p)
    \/ Write(p)
    \/ \E e \in events : TakeEvent(p, e)
    \/ ApplyEvent(p)
    \/ HandlerDies(p)

Next ==
    \/ \E c \in Call : Dial(c) \/ DialDies(c) \/ Record(c)
    \/ \E c \in Followed : Asterisk(c) \/ Age(c)
    \/ \E p \in Handler : Handle(p)
    \/ Sweep

\* A web request goes on until it ends, time passes and beat runs the sweep.
\* Nothing is assumed of Asterisk, the agents or the event tasks.
Fairness ==
    /\ \A c \in Followed : WF_vars(Dial(c)) /\ WF_vars(Age(c))
    /\ WF_vars(Sweep)

Spec == Init /\ [][Next]_vars /\ Fairness

-----------------------------------------------------------------------------
\* Every variable has its type: the rows, the events and the copies in hand.
TypeOK ==
    /\ row \in [Call -> CallLog]
    /\ dial \in [Call -> {"new", "checked", "saved", "placed", "failed", "stored", "done"}]
    /\ made \in Nat
    /\ channel \in [Call -> {"none", "ringing", "up", "gone"}]
    /\ events \subseteq Event
    /\ job \in [Handler -> Jobs]
    /\ up \subseteq Call /\ old \subseteq Call
    /\ wanted \subseteq Call /\ recorded \subseteq Call
    /\ steps \in 0..MaxSteps

\* check_call_limit and increment_call_usage stand at the two ends of the
\* request with nothing between them that holds a place.  Still the month's
\* calls overrun the limit by no more than the requests the web server runs
\* beside the last one that was let in.
OverrunIsBounded == made + Cardinality(InFlight) <= Limit + Dialling - 1

\* Whatever copies are saved in whatever order, a recording is only stored for
\* a call whose channel was really up: answered_at reaches a row through the Up
\* event alone, a duration through answered_at, the task through a duration.
RecordedCallsWereUp == recorded \subseteq up

\* The sweep is the last resort for calls whose events were missed, whose
\* request died or whose channel id is not stored: no call stays active for
\* ever, however it got stuck or was set back by a late save.
CallsEnd ==
    \A c \in Followed : row[c].status \in Active ~> [](row[c].status \notin Active)

\* "Immutable call detail record": a call that has ended stays ended. The code breaks this (README, section 6).
FinishedStaysFinished ==
    [][\A c \in Call : row[c].status \in {"COMPLETED", "MISSED", "FAILED"}
                        => row'[c].status \notin Active]_vars

=============================================================================
