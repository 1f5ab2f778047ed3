---------------------------- MODULE StatusPromise ----------------------------
(***************************************************************************)
(* What the ticket service promises the readers of a ticket (reports, SLA  *)
(* checks, the CSAT task, the auto-close task): somebody decides on a      *)
(* change, by the transition map or, like bulk changes and the board, at   *)
(* will, and the change is one move. It takes the status there with the    *)
(* closure and resolution marks of the new status, stops the SLA clock     *)
(* where a wait begins, starts it where the wait ends, and remembers for   *)
(* the whole of the wait, also through other waiting statuses, where the   *)
(* ticket came from.                                                       *)
(***************************************************************************)
CONSTANTS
    Status,   \* the statuses
    Map,      \* the pairs <<from, to>> of the transition map
    Closed,   \* the closed statuses
    Pausing,  \* the statuses in which the ticket waits
    Nowhere,  \* nothing is remembered
    CreateIn  \* the statuses a ticket may start in

VARIABLES status, stamped, solved, returnTo, stopped, decided

ticket == <<status, stamped, solved, returnTo, stopped>>

Marks(s, closedMark, solvedMark) ==
    /\ closedMark = (s \in Closed)
    /\ solvedMark = (s = "resolved")

\* Where a wait that leads from status s to status t leaves its two columns.
Remembered(s, t) ==
    IF t \notin Pausing THEN Nowhere ELSE IF s \in Pausing THEN returnTo ELSE s
Stopped(s, t) == t \in Pausing /\ (s \in Pausing => stopped)

Init ==
    /\ status \in CreateIn
    /\ Marks(status, stamped, solved)
    /\ returnTo = Nowhere /\ stopped = FALSE
    /\ decided = "nobody"

\* Somebody begins to change the ticket, or gives up.
Decide ==
    /\ decided' \in {"nobody", "byMap", "atWill"}
    /\ UNCHANGED ticket

Move(s) ==
    /\ decided # "nobody"
    /\ decided = "byMap" => <<status, s>> \in Map
    /\ status' = s
    /\ Marks(s, stamped', solved')
    /\ returnTo' = Remembered(status, s)
    /\ stopped' = Stopped(status, s)
    /\ decided' = "nobody"

Next == Decide \/ \E s \in Status \ {status} : Move(s)

Spec == Init /\ [][Next]_<<ticket, decided>>
=============================================================================
