--------------------------- MODULE VoipCall_proofs ---------------------------
(***************************************************************************)
(* What VoipCall promises for any number of calls and handlers, any limit  *)
(* and any order of saves.                                                 *)
(***************************************************************************)
EXTENDS VoipCall, FiniteSetTheorems, TLAPS

(***************************************************************************)
(* Types.                                                                  *)
(***************************************************************************)

\* The end of a call keeps its record a record.
LEMMA EndedType ==
    ASSUME NEW r \in CallLog, NEW s \in Status
    PROVE  Ended(r, s) \in CallLog
  BY DEF Ended, CallLog

\* So does what a handler makes of its copy.
LEMMA ResultType ==
    ASSUME NEW j \in Jobs, j # Idle
    PROVE  Result(j) \in CallLog /\ j.call \in Call
<1>1. j.copy \in CallLog /\ j.call \in Call
  BY DEF Jobs
<1>2. Ended(j.copy, "COMPLETED") \in CallLog
  BY <1>1, EndedType DEF Status
<1>3. Ended(j.copy, IF j.copy.answered THEN "COMPLETED" ELSE "MISSED") \in CallLog
  BY <1>1, EndedType DEF Status
<1>4. /\ [j.copy EXCEPT !.status = IF j.copy.status = "ON_HOLD" THEN "ANSWERED" ELSE "ON_HOLD"] \in CallLog
      /\ [j.copy EXCEPT !.status = "ANSWERED", !.answered = TRUE] \in CallLog
      /\ [j.copy EXCEPT !.status = "ON_HOLD"] \in CallLog
      /\ [j.copy EXCEPT !.status = "ANSWERED"] \in CallLog
  BY <1>1 DEF CallLog, Status, Active
<1>5. QED
  BY <1>1, <1>2, <1>3, <1>4, Zenon DEF Result

\* And the save of any of its fields.
LEMMA MergedType ==
    ASSUME NEW r \in CallLog, NEW s \in CallLog, NEW F
    PROVE  Merged(r, s, F) \in CallLog
  BY DEF Merged, CallLog

\* A save leaves every row a CallLog.
LEMMA SaveType ==
    ASSUME TypeOK, NEW c \in Call, NEW r \in CallLog, NEW F, Save(c, r, F)
    PROVE  row' \in [Call -> CallLog] /\ wanted' \subseteq Call
<1>1. Merged(row[c], r, F) \in CallLog
  BY MergedType DEF TypeOK
<1>2. QED
  BY <1>1 DEF Save, TypeOK

\* The events a step may queue are events of that call.
LEMMA EmitType ==
    ASSUME TypeOK, NEW c \in Call, NEW T,
           T \subseteq {"Up", "HangupRequest", "Destroyed", "Hold", "Unhold"},
           Emit(c, T)
    PROVE  events' \subseteq Event
  BY DEF Emit, Event, TypeOK

LEMMA TypeStep ==
    ASSUME TypeOK, [Next]_vars
    PROVE  TypeOK'
<1> USE VoipAssumption
<1>0. CASE UNCHANGED vars
  BY <1>0 DEF vars, TypeOK
<1>1. ASSUME NEW c \in Call, Dial(c) \/ DialDies(c) PROVE TypeOK'
  <2>1. CASE Check(c)      BY <2>1 DEF Check, TypeOK
  <2>2. CASE SaveRow(c)
    <3>1. [NoRow EXCEPT !.status = "RINGING"] \in CallLog
      BY DEF NoRow, CallLog, Status, Active
    <3>2. QED BY <2>2, <3>1 DEF SaveRow, TypeOK
  <2>3. CASE Originate(c)  BY <2>3 DEF Originate, TypeOK
  <2>4. CASE StoreChannel(c)
    <3>1. [row[c] EXCEPT !.chan = TRUE] \in CallLog
      BY DEF TypeOK, CallLog
    <3>2. QED BY <2>4, <3>1 DEF StoreChannel, TypeOK
  <2>5. CASE MarkFailed(c)
    <3>1. [row[c] EXCEPT !.status = "FAILED", !.ended = TRUE] \in CallLog
      BY DEF TypeOK, CallLog, Status
    <3>2. QED BY <2>5, <3>1 DEF MarkFailed, TypeOK
  <2>6. CASE Count(c)      BY <2>6 DEF Count, TypeOK
  <2>7. CASE DialDies(c)   BY <2>7 DEF DialDies, TypeOK
  <2>8. QED BY <1>1, <2>1, <2>2, <2>3, <2>4, <2>5, <2>6, <2>7 DEF Dial
<1>2. ASSUME NEW c \in Call, Asterisk(c) PROVE TypeOK'
  <2>1. CASE PhoneAnswers(c)
    <3>1. events' \subseteq Event BY <2>1, EmitType DEF PhoneAnswers
    <3>2. QED BY <2>1, <3>1 DEF PhoneAnswers, TypeOK
  <2>2. CASE PhoneHangsUp(c)
    <3>1. events' \subseteq Event BY <2>2, EmitType DEF PhoneHangsUp
    <3>2. QED BY <2>2, <3>1 DEF PhoneHangsUp, TypeOK
  <2>3. CASE PhoneHolds(c)
    <3>1. events' \subseteq Event BY <2>3 DEF PhoneHolds, Event, TypeOK
    <3>2. QED BY <2>3, <3>1 DEF PhoneHolds, TypeOK
  <2>4. QED BY <1>2, <2>1, <2>2, <2>3 DEF Asterisk
<1>3. ASSUME NEW p \in Handler, Handle(p) PROVE TypeOK'
  <2>0. Idle \in Jobs BY DEF Jobs
  <2>1. ASSUME NEW c \in Followed, NEW op \in Requests, ReadForRequest(p, c, op) PROVE TypeOK'
    <3>1. [op |-> op, call |-> c, copy |-> row[c], asked |-> FALSE] \in Jobs
      BY DEF Jobs, TypeOK
    <3>2. QED BY <2>1, <3>1 DEF ReadForRequest, TypeOK
  <2>2. CASE AskHangup(p)
    <3>1. job[p] \in Jobs /\ job[p] # Idle
      BY <2>2 DEF AskHangup, TypeOK, Idle
    <3>2. job[p].call \in Call /\ [job[p] EXCEPT !.asked = TRUE] \in Jobs
      BY <3>1 DEF Jobs
    <3>3. events' \subseteq Event
      BY <2>2, <3>2, EmitType DEF AskHangup, TypeOK
    <3>4. channel' \in [Call -> {"none", "ringing", "up", "gone"}]
      BY <2>2, <3>2 DEF AskHangup, TypeOK
    <3>5. job' \in [Handler -> Jobs]
      BY <2>2, <3>2 DEF AskHangup, TypeOK
    <3>6. QED BY <2>2, <3>3, <3>4, <3>5 DEF AskHangup, TypeOK
  <2>3. CASE AskOther(p)
    <3>1. job[p] \in Jobs /\ job[p] # Idle
      BY <2>3 DEF AskOther, TypeOK, Idle
    <3>2. [job[p] EXCEPT !.asked = TRUE] \in Jobs
      BY <3>1 DEF Jobs
    <3>3. QED BY <2>3, <2>0, <3>2 DEF AskOther, TypeOK
  <2>4. CASE Write(p)
    <3>1. job[p] \in Jobs /\ job[p] # Idle
      BY <2>4 DEF Write, TypeOK, Idle
    <3>2. Result(job[p]) \in CallLog /\ job[p].call \in Call
      BY <3>1, ResultType
    <3>3. row' \in [Call -> CallLog] /\ wanted' \subseteq Call
      BY <2>4, <3>2, SaveType DEF Write
    <3>4. QED BY <2>4, <2>0, <3>3 DEF Write, TypeOK
  <2>5. ASSUME NEW e \in events, TakeEvent(p, e) PROVE TypeOK'
    <3>1. [op |-> e.type, call |-> e.call, copy |-> row[e.call], asked |-> FALSE] \in Jobs
      BY DEF Jobs, TypeOK, Event
    <3>2. QED BY <2>5, <3>1 DEF TakeEvent, TypeOK
  <2>6. CASE ApplyEvent(p)
    <3>1. job[p] \in Jobs /\ job[p] # Idle
      BY <2>6 DEF ApplyEvent, TypeOK, Idle
    <3>2. Result(job[p]) \in CallLog /\ job[p].call \in Call
      BY <3>1, ResultType
    <3>3. row' \in [Call -> CallLog] /\ wanted' \subseteq Call
      <4>1. CASE Ignored(job[p]) BY <2>6, <4>1 DEF ApplyEvent, TypeOK
      <4>2. CASE ~Ignored(job[p]) BY <2>6, <4>2, <3>2, SaveType DEF ApplyEvent
      <4>3. QED BY <4>1, <4>2
    <3>4. events' \subseteq Event
      BY <2>6, <3>2 DEF ApplyEvent, Event, TypeOK
    <3>5. steps' \in 0..MaxSteps
      BY <2>6 DEF ApplyEvent, TypeOK
    <3>6. QED BY <2>6, <2>0, <3>3, <3>4, <3>5 DEF ApplyEvent, TypeOK
  <2>7. CASE HandlerDies(p) BY <2>7, <2>0 DEF HandlerDies, TypeOK
  <2>8. QED BY <1>3, <2>1, <2>2, <2>3, <2>4, <2>5, <2>6, <2>7 DEF Handle
<1>4. ASSUME NEW c \in Call, Age(c) \/ Record(c) PROVE TypeOK'
  BY <1>4 DEF Age, Record, TypeOK
<1>5. CASE Sweep
  <2>1. \A c \in Call : [row[c] EXCEPT !.status = "FAILED", !.ended = TRUE] \in CallLog
    BY DEF TypeOK, CallLog, Status
  <2>2. QED BY <1>5, <2>1 DEF Sweep, TypeOK
<1>6. QED BY <1>0, <1>1, <1>2, <1>3, <1>4, <1>5 DEF Next

\* Whatever the order of saves, events, retries and deaths, a CallLog keeps
\* the type its columns have and no job works on a call that is not there.
THEOREM TypeCorrect == Spec => []TypeOK
<1>1. Init => TypeOK
  <2>1. NoRow \in CallLog BY DEF NoRow, CallLog, Status
  <2>2. QED BY <2>1, VoipAssumption DEF Init, TypeOK, Jobs
<1>2. TypeOK /\ [Next]_vars => TypeOK'
  BY TypeStep
<1>3. QED BY <1>1, <1>2, PTL DEF Spec

(***************************************************************************)
(* The monthly limit.                                                      *)
(***************************************************************************)

\* The requests in flight can be counted, and one more or less changes the
\* count by one.
LEMMA InFlightCounts ==
    ASSUME TypeOK
    PROVE  /\ IsFiniteSet(InFlight) /\ Cardinality(InFlight) \in Nat
           /\ \A c \in InFlight : Cardinality(InFlight \ {c}) = Cardinality(InFlight) - 1
           /\ \A c \in Call \ InFlight :
                 Cardinality(InFlight \union {c}) = Cardinality(InFlight) + 1
<1>1. IsFiniteSet(InFlight)
  BY VoipAssumption, FS_Subset DEF InFlight
<1>2. QED BY <1>1, FS_CardinalityType, FS_RemoveElement, FS_AddElement

\* What a step of the initiate request does to the two numbers.
LEMMA OverrunStep ==
    ASSUME TypeOK, OverrunIsBounded, [Next]_vars
    PROVE  OverrunIsBounded'
<1> USE VoipAssumption
<1>0. made \in Nat BY DEF TypeOK
<1>1. ASSUME NEW c \in Call, Check(c) PROVE OverrunIsBounded'
  <2>1. c \notin InFlight /\ dial[c] = "new" BY <1>1 DEF Check, InFlight
  <2>2. CASE MayCall
    <3>1. InFlight' = InFlight \union {c}
      BY <1>1, <2>2 DEF Check, InFlight, TypeOK
    <3>2. Cardinality(InFlight') = Cardinality(InFlight) + 1
      BY <3>1, <2>1, InFlightCounts
    <3>3. Cardinality(InFlight) \in Nat /\ Cardinality(InFlight) < Dialling /\ made < Limit
      BY <1>1, <2>2, InFlightCounts DEF Check, MayCall
    <3>4. QED BY <1>0, <1>1, <3>2, <3>3 DEF Check, OverrunIsBounded
  <2>3. CASE ~MayCall
    <3>1. InFlight' = InFlight BY <1>1, <2>1, <2>3 DEF Check, InFlight, TypeOK
    <3>2. QED BY <1>1, <3>1 DEF Check, OverrunIsBounded
  <2>4. QED BY <2>2, <2>3
<1>2. ASSUME NEW c \in Call, Count(c) PROVE OverrunIsBounded'
  <2>1. InFlight' = InFlight \ {c} /\ c \in InFlight
    BY <1>2 DEF Count, InFlight, TypeOK
  <2>2. Cardinality(InFlight') = Cardinality(InFlight) - 1
    BY <2>1, InFlightCounts
  <2>3. QED BY <1>0, <1>2, <2>2, InFlightCounts DEF Count, OverrunIsBounded
<1>3. ASSUME NEW c \in Call, MarkFailed(c) \/ DialDies(c) PROVE OverrunIsBounded'
  <2>1. InFlight' = InFlight \ {c} /\ c \in InFlight /\ made' = made
    BY <1>3 DEF MarkFailed, DialDies, InFlight, TypeOK
  <2>2. Cardinality(InFlight') = Cardinality(InFlight) - 1
    BY <2>1, InFlightCounts
  <2>3. QED BY <1>0, <2>1, <2>2, InFlightCounts DEF OverrunIsBounded
<1>4. ASSUME NEW c \in Call, SaveRow(c) \/ Originate(c) \/ StoreChannel(c)
      PROVE  OverrunIsBounded'
  <2>1. InFlight' = InFlight /\ made' = made
    BY <1>4 DEF SaveRow, Originate, StoreChannel, InFlight, TypeOK
  <2>2. QED BY <2>1 DEF OverrunIsBounded
<1>5. CASE UNCHANGED <<dial, made>>
  <2>1. InFlight' = InFlight BY <1>5 DEF InFlight
  <2>2. QED BY <1>5, <2>1 DEF OverrunIsBounded
<1>6. \/ \E c \in Call : Dial(c) \/ DialDies(c)
      \/ UNCHANGED <<dial, made>>
  <2>1. ASSUME NEW c \in Followed, Asterisk(c) \/ Age(c) PROVE UNCHANGED <<dial, made>>
    BY <2>1 DEF Asterisk, PhoneAnswers, PhoneHangsUp, PhoneHolds, Age
  <2>2. ASSUME NEW p \in Handler, Handle(p) PROVE UNCHANGED <<dial, made>>
    BY <2>2 DEF Handle, ReadForRequest, AskHangup, AskOther, Write, TakeEvent,
                ApplyEvent, HandlerDies
  <2>3. ASSUME NEW c \in Call, Record(c) PROVE UNCHANGED <<dial, made>>
    BY <2>3 DEF Record
  <2>4. Sweep => UNCHANGED <<dial, made>> BY DEF Sweep
  <2>5. (UNCHANGED vars) => UNCHANGED <<dial, made>> BY DEF vars
  <2>6. QED BY <2>1, <2>2, <2>3, <2>4, <2>5 DEF Next
<1>7. QED BY <1>1, <1>2, <1>3, <1>4, <1>5, <1>6 DEF Dial

\* check_call_limit and increment_call_usage hold no place between them, and
\* still calls_made never passes the limit by more than the requests that run
\* beside the last one let in.
THEOREM OverrunBounded == Spec => []OverrunIsBounded
<1>1. Init => TypeOK /\ OverrunIsBounded
  <2>1. NoRow \in CallLog BY DEF NoRow, CallLog, Status
  <2>2. Init => TypeOK BY <2>1, VoipAssumption DEF Init, TypeOK, Jobs
  <2>3. Init => InFlight = {} BY DEF Init, InFlight
  <2>4. QED BY <2>2, <2>3, FS_EmptySet, VoipAssumption DEF Init, OverrunIsBounded
<1>2. TypeOK /\ OverrunIsBounded /\ [Next]_vars => TypeOK' /\ OverrunIsBounded'
  BY TypeStep, OverrunStep
<1>3. QED BY <1>1, <1>2, PTL DEF Spec

(***************************************************************************)
(* Recordings.                                                             *)
(***************************************************************************)

\* What a row or a copy of it says about the channel.
Honest(c, r) == r.answered \/ r.dur => c \in up

\* Every trace of an answered call goes back to a channel that was up: in the
\* rows, in the copies handlers hold, in the events that wait or are applied,
\* and in the recording tasks.
AnsweredWasUp ==
    /\ \A c \in Call : Honest(c, row[c])
    /\ \A p \in Handler : Honest(job[p].call, job[p].copy)
    /\ \A p \in Handler : job[p].op = "Up" => job[p].call \in up
    /\ \A e \in events : e.type = "Up" => e.call \in up
    /\ wanted \subseteq up

\* A save of an honest copy keeps the row and the tasks honest.
LEMMA SaveIsHonest ==
    ASSUME TypeOK, \A c \in Call : Honest(c, row[c]), wanted \subseteq up,
           NEW d \in Call, NEW r \in CallLog, NEW F, Honest(d, r), Save(d, r, F),
           up' = up
    PROVE  (\A c \in Call : Honest(c, row[c])') /\ wanted' \subseteq up'
<1>1. Honest(d, Merged(row[d], r, F))
  BY DEF Honest, Merged
<1>2. \A c \in Call : row'[c] = IF c = d THEN Merged(row[d], r, F) ELSE row[c]
  BY DEF Save, TypeOK
<1>3. \A c \in Call : Honest(c, row[c])'
  BY <1>1, <1>2 DEF Honest
<1>4. QED BY <1>3 DEF Save, Wants, Honest

\* What a handler makes of an honest copy is honest.
LEMMA ResultIsHonest ==
    ASSUME NEW j \in Jobs, j # Idle, Honest(j.call, j.copy), j.op = "Up" => j.call \in up
    PROVE  Honest(j.call, Result(j))
<1>1. j.copy \in CallLog
  BY DEF Jobs
<1>2. \A s \in Status : Honest(j.call, Ended(j.copy, s))
  BY <1>1 DEF Honest, Ended, CallLog
<1>3. \A s \in Status : Honest(j.call, [j.copy EXCEPT !.status = s])
  BY <1>1 DEF Honest, CallLog
<1>4. j.op = "Up" => Honest(j.call, [j.copy EXCEPT !.status = "ANSWERED", !.answered = TRUE])
  BY DEF Honest
<1>5. Honest(j.call, Result(j))
  <2>1. CASE j.op \in {"hangup", "transfer"}
    BY <2>1, <1>2 DEF Result, Status
  <2>2. CASE j.op \in {"HangupRequest", "Destroyed"}
    BY <2>2, <1>2 DEF Result, Status
  <2>3. CASE j.op = "hold"
    BY <2>3, <1>3 DEF Result, Status, Active
  <2>4. CASE j.op = "patch"
    BY <2>4 DEF Result
  <2>5. CASE j.op = "Up"
    BY <2>5, <1>4 DEF Result
  <2>6. CASE j.op = "Hold"
    BY <2>6, <1>3 DEF Result, Status, Active
  <2>7. CASE j.op = "Unhold"
    BY <2>7, <1>3 DEF Result, Status, Active
  <2>8. QED BY <2>1, <2>2, <2>3, <2>4, <2>5, <2>6, <2>7 DEF Jobs, Requests
<1>6. QED BY <1>5

\* The parts of the invariant after a step that leaves up and recorded alone.
LEMMA HonestAgain ==
    ASSUME AnsweredWasUp, RecordedCallsWereUp, UNCHANGED <<up, recorded>>,
           (\A c \in Call : Honest(c, row[c]))', wanted' \subseteq up',
           \A e \in events' : e.type = "Up" => e.call \in up',
           \A q \in Handler : /\ Honest(job'[q].call, job'[q].copy)
                              /\ job'[q].op = "Up" => job'[q].call \in up
    PROVE  AnsweredWasUp' /\ RecordedCallsWereUp'
<1>2. (\A p \in Handler : Honest(job[p].call, job[p].copy))'
  BY DEF Honest
<1>3. (\A p \in Handler : job[p].op = "Up" => job[p].call \in up)'
  OBVIOUS
<1>4. QED
  BY <1>2, <1>3 DEF AnsweredWasUp, RecordedCallsWereUp

\* A step that leaves the rows alone leaves them honest.
LEMMA RowsAsBefore ==
    ASSUME AnsweredWasUp, UNCHANGED <<up, row, wanted>>
    PROVE  (\A c \in Call : Honest(c, row[c]))' /\ wanted' \subseteq up'
  BY DEF AnsweredWasUp, Honest

\* Every step keeps the trace, and stores recordings only on its end.
LEMMA HonestStep ==
    ASSUME TypeOK, AnsweredWasUp, RecordedCallsWereUp, [Next]_vars
    PROVE  AnsweredWasUp' /\ RecordedCallsWereUp'
<1> USE DEF AnsweredWasUp, RecordedCallsWereUp
<1>0. CASE UNCHANGED vars
  BY <1>0 DEF vars, Honest
<1>1. ASSUME NEW c \in Call, Dial(c) \/ DialDies(c)
      PROVE  AnsweredWasUp' /\ RecordedCallsWereUp'
  <2>1. UNCHANGED <<up, events, job, wanted, recorded>>
    BY <1>1 DEF Dial, DialDies, Check, SaveRow, Originate, StoreChannel, MarkFailed, Count
  <2>2. \A d \in Call : Honest(d, row[d])'
    <3>1. CASE SaveRow(c)
      BY <2>1, <3>1 DEF SaveRow, Honest, NoRow, TypeOK
    <3>2. CASE StoreChannel(c)
      BY <2>1, <3>2 DEF StoreChannel, Honest, TypeOK, CallLog
    <3>3. CASE MarkFailed(c)
      BY <2>1, <3>3 DEF MarkFailed, Honest, TypeOK, CallLog
    <3>4. CASE UNCHANGED row
      BY <2>1, <3>4 DEF Honest
    <3>5. QED
      BY <1>1, <3>1, <3>2, <3>3, <3>4 DEF Dial, DialDies, Check, Originate, Count
  <2>3. QED BY <2>1, <2>2 DEF Honest
<1>2. ASSUME NEW c \in Call, Asterisk(c)
      PROVE  AnsweredWasUp' /\ RecordedCallsWereUp'
  <2>1. UNCHANGED <<row, job, wanted, recorded>> /\ up \subseteq up'
    BY <1>2 DEF Asterisk, PhoneAnswers, PhoneHangsUp, PhoneHolds
  <2>2. \A e \in events' : e.type = "Up" => e.call \in up'
    <3>1. CASE PhoneAnswers(c)
      BY <2>1, <3>1 DEF PhoneAnswers, Emit
    <3>2. CASE PhoneHangsUp(c)
      BY <2>1, <3>2 DEF PhoneHangsUp, Emit
    <3>3. CASE PhoneHolds(c)
      BY <2>1, <3>3 DEF PhoneHolds
    <3>4. QED BY <1>2, <3>1, <3>2, <3>3 DEF Asterisk
  <2>3. QED BY <2>1, <2>2 DEF Honest
<1>3. ASSUME NEW p \in Handler, Handle(p)
      PROVE  AnsweredWasUp' /\ RecordedCallsWereUp'
  <2>0. Honest(NoCall, NoRow) /\ Idle.op # "Up" /\ Idle.call = NoCall /\ Idle.copy = NoRow
    BY DEF Honest, NoRow, Idle
  <2>00. UNCHANGED <<up, recorded>>
    BY <1>3 DEF Handle, ReadForRequest, AskHangup, AskOther, Write, TakeEvent, ApplyEvent, HandlerDies
  <2>1. ASSUME NEW c \in Followed, NEW op \in Requests, ReadForRequest(p, c, op)
        PROVE  AnsweredWasUp' /\ RecordedCallsWereUp'
    <3>1. c \in Call /\ op # "Up"
      BY VoipAssumption DEF Requests
    <3>2. QED BY <2>00, <2>1, <3>1 DEF ReadForRequest, Honest, TypeOK
  <2>2. CASE AskHangup(p)
    <3>1. job[p] \in Jobs /\ job[p] # Idle
      BY <2>2 DEF AskHangup, TypeOK, Idle
    <3>2. /\ job'[p].call = job[p].call /\ job'[p].copy = job[p].copy /\ job'[p].op = job[p].op
          /\ \A q \in Handler : q # p => job'[q] = job[q]
      BY <2>2, <3>1 DEF AskHangup, TypeOK, Jobs
    <3>3. \A e \in events' : e.type = "Up" => e.call \in up'
      BY <2>00, <2>2 DEF AskHangup, Emit
    <3>4. UNCHANGED <<row, wanted>> BY <2>2 DEF AskHangup
    <3>5. \A q \in Handler : /\ Honest(job'[q].call, job'[q].copy)
                             /\ job'[q].op = "Up" => job'[q].call \in up
      BY <3>2
    <3>6. QED BY <2>00, <3>3, <3>4, <3>5, HonestAgain, RowsAsBefore
  <2>3. CASE AskOther(p)
    <3>1. job[p] \in Jobs /\ job[p] # Idle
      BY <2>3 DEF AskOther, TypeOK, Idle
    <3>2. /\ \/ job'[p].call = job[p].call /\ job'[p].copy = job[p].copy /\ job'[p].op = job[p].op
             \/ job'[p] = Idle
          /\ \A q \in Handler : q # p => job'[q] = job[q]
      BY <2>3, <3>1 DEF AskOther, TypeOK, Jobs
    <3>3. UNCHANGED <<row, wanted, events>> BY <2>3 DEF AskOther
    <3>4. \A q \in Handler : /\ Honest(job'[q].call, job'[q].copy)
                             /\ job'[q].op = "Up" => job'[q].call \in up
      BY <2>0, <3>2
    <3>5. \A e \in events' : e.type = "Up" => e.call \in up'
      BY <2>00, <3>3
    <3>6. QED BY <2>00, <3>3, <3>4, <3>5, HonestAgain, RowsAsBefore
  <2>4. CASE Write(p)
    <3>1. job[p] \in Jobs /\ job[p] # Idle
      BY <2>4 DEF Write, TypeOK, Idle
    <3>2. Result(job[p]) \in CallLog /\ job[p].call \in Call
      BY <3>1, ResultType
    <3>3. Honest(job[p].call, Result(job[p]))
      BY <3>1, ResultIsHonest
    <3>4. (\A c \in Call : Honest(c, row[c])') /\ wanted' \subseteq up'
      BY <2>00, <2>4, <3>2, <3>3, SaveIsHonest DEF Write
    <3>5. UNCHANGED events BY <2>4 DEF Write
    <3>6. \A q \in Handler : job'[q] = job[q] \/ job'[q] = Idle
      BY <2>4 DEF Write, TypeOK
    <3>7. \A q \in Handler : /\ Honest(job'[q].call, job'[q].copy)
                             /\ job'[q].op = "Up" => job'[q].call \in up
      BY <2>0, <3>6
    <3>8. \A e \in events' : e.type = "Up" => e.call \in up'
      BY <2>00, <3>5
    <3>9. QED BY <2>00, <3>4, <3>7, <3>8, HonestAgain
  <2>5. ASSUME NEW e \in events, TakeEvent(p, e)
        PROVE  AnsweredWasUp' /\ RecordedCallsWereUp'
    <3>1. e.call \in Call BY DEF TypeOK, Event
    <3>2. Honest(e.call, row[e.call]) /\ (e.type = "Up" => e.call \in up)
      BY <3>1
    <3>3. \A q \in Handler : \/ job'[q] = job[q]
                             \/ /\ job'[q].call = e.call /\ job'[q].copy = row[e.call]
                                /\ job'[q].op = e.type
      BY <2>5 DEF TakeEvent, TypeOK
    <3>4. \A q \in Handler : /\ Honest(job'[q].call, job'[q].copy)
                             /\ job'[q].op = "Up" => job'[q].call \in up
      BY <3>2, <3>3
    <3>5. UNCHANGED <<row, wanted>> /\ events' \subseteq events
      BY <2>5 DEF TakeEvent
    <3>6. \A f \in events' : f.type = "Up" => f.call \in up'
      BY <2>00, <3>5
    <3>7. QED BY <2>00, <3>4, <3>5, <3>6, HonestAgain, RowsAsBefore
  <2>6. CASE ApplyEvent(p)
    <3>1. job[p] \in Jobs /\ job[p] # Idle
      BY <2>6 DEF ApplyEvent, TypeOK, Idle
    <3>2. Result(job[p]) \in CallLog /\ job[p].call \in Call
      BY <3>1, ResultType
    <3>3. Honest(job[p].call, Result(job[p]))
      BY <3>1, ResultIsHonest
    <3>4. (\A c \in Call : Honest(c, row[c])') /\ wanted' \subseteq up'
      <4>1. CASE Ignored(job[p])
        BY <2>00, <2>6, <4>1 DEF ApplyEvent, Honest
      <4>2. CASE ~Ignored(job[p])
        BY <2>00, <2>6, <4>2, <3>2, <3>3, SaveIsHonest DEF ApplyEvent
      <4>3. QED BY <4>1, <4>2
    <3>5. \A e \in events' : e.type = "Up" => e.call \in up'
      BY <2>00, <2>6 DEF ApplyEvent
    <3>6. \A q \in Handler : job'[q] = job[q] \/ job'[q] = Idle
      BY <2>6 DEF ApplyEvent, TypeOK
    <3>7. \A q \in Handler : /\ Honest(job'[q].call, job'[q].copy)
                             /\ job'[q].op = "Up" => job'[q].call \in up
      BY <2>0, <3>6
    <3>8. QED BY <2>00, <3>4, <3>5, <3>7, HonestAgain
  <2>7. CASE HandlerDies(p)
    <3>1. \A q \in Handler : job'[q] = job[q] \/ job'[q] = Idle
      BY <2>7 DEF HandlerDies, TypeOK
    <3>2. \A q \in Handler : /\ Honest(job'[q].call, job'[q].copy)
                             /\ job'[q].op = "Up" => job'[q].call \in up
      BY <2>0, <3>1
    <3>3. UNCHANGED <<row, wanted, events>> BY <2>7 DEF HandlerDies
    <3>4. \A e \in events' : e.type = "Up" => e.call \in up'
      BY <2>00, <3>3
    <3>5. QED BY <2>00, <3>2, <3>3, <3>4, HonestAgain, RowsAsBefore
  <2>8. QED BY <1>3, <2>1, <2>2, <2>3, <2>4, <2>5, <2>6, <2>7 DEF Handle
<1>4. ASSUME NEW c \in Call, Record(c)
      PROVE  AnsweredWasUp' /\ RecordedCallsWereUp'
  BY <1>4 DEF Record, Honest
<1>5. ASSUME NEW c \in Call, Age(c)
      PROVE  AnsweredWasUp' /\ RecordedCallsWereUp'
  BY <1>5 DEF Age, Honest
<1>6. CASE Sweep
  <2>1. \A c \in Call : row'[c].answered = row[c].answered /\ row'[c].dur = row[c].dur
    BY <1>6 DEF Sweep, TypeOK, CallLog
  <2>2. UNCHANGED <<up, events, job, wanted, recorded>> BY <1>6 DEF Sweep
  <2>3. QED BY <2>1, <2>2 DEF Honest
<1>7. Followed \subseteq Call BY VoipAssumption
<1>8. QED BY <1>0, <1>1, <1>2, <1>3, <1>4, <1>5, <1>6, <1>7 DEF Next

\* Whatever copies the views, the event tasks and the sweep save in whatever
\* order, process_call_recording only stores files of calls whose channel was up.
THEOREM RecordedWereUp == Spec => []RecordedCallsWereUp
<1>1. Init => TypeOK /\ AnsweredWasUp /\ RecordedCallsWereUp
  <2>1. NoRow \in CallLog BY DEF NoRow, CallLog, Status
  <2>2. Init => TypeOK BY <2>1, VoipAssumption DEF Init, TypeOK, Jobs
  <2>3. \A c : Honest(c, NoRow) BY DEF Honest, NoRow
  <2>4. Idle.op # "Up" /\ Idle.copy = NoRow BY DEF Idle
  <2>5. QED BY <2>2, <2>3, <2>4 DEF Init, AnsweredWasUp, RecordedCallsWereUp
<1>2. TypeOK /\ AnsweredWasUp /\ RecordedCallsWereUp /\ [Next]_vars
      => TypeOK' /\ AnsweredWasUp' /\ RecordedCallsWereUp'
  BY TypeStep, HonestStep
<1>3. QED BY <1>1, <1>2, PTL DEF Spec

=============================================================================
