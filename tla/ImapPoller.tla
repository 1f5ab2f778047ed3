------------------------------ MODULE ImapPoller ------------------------------
(***************************************************************************)
(* The IMAP poller (src/apps/inbound_email/imap_poller.py): messages of a  *)
(* shared mailbox become InboundEmail rows, each with a processing task.   *)
(*                                                                         *)
(* Celery Beat starts a run every minute whether or not the last one has   *)
(* ended, and a run may be killed at any point, so several runs (Poller)   *)
(* share the persisted watermark. Each holds its own copy of the           *)
(* watermark and writes that copy back after every message.                *)
(*                                                                         *)
(* A message is named by its UID; its Message-ID is as good, since both    *)
(* are unique in the mailbox.                                              *)
(***************************************************************************)
EXTENDS Integers, FiniteSets

CONSTANTS
    Poller,      \* runs of fetch_inbound_emails_task that may overlap
    History,     \* how many messages the mailbox holds before the first run
    MaxUid,      \* bound on the UIDs assigned
    Faults       \* what may go wrong, a subset of {"kill", "fetch", "broker"}

ASSUME PollerAssumption ==
    /\ History \in Nat
    /\ MaxUid \in Nat
    /\ History <= MaxUid
    /\ Faults \subseteq {"kill", "fetch", "broker"}

VARIABLES
    uidNext,    \* the mailbox holds the UIDs 1 .. uidNext - 1
    watermark,  \* IMAPPollState.last_uid; 0 before the first anchor
    rows,       \* UIDs with an InboundEmail row
    queued,     \* UIDs for which a processing task was sent
    tried,      \* UIDs a run has fetched (history variable)
    fresh,      \* UIDs that arrived after a run had ended (history variable)
    hit,        \* UIDs lost to a fault: unreadable, refused, or in a dying hand (history variable)
    ended,      \* whether some run has ended normally (history variable)
    poller      \* what each run is doing

vars == <<uidNext, watermark, rows, queued, tried, fresh, hit, ended, poller>>

Uid == 1..MaxUid

\* uids: what SEARCH returned and is still to be fetched; uid: the message in hand.
PollerState ==
    [pc : {"idle", "selected", "loaded", "batch", "new", "created", "advance"},
     next : 1..MaxUid + 1, mark : 0..MaxUid, uids : SUBSET Uid, uid : 0..MaxUid]

At(pc, next, mark, uids, uid) ==
    [pc |-> pc, next |-> next, mark |-> mark, uids |-> uids, uid |-> uid]
Idle == At("idle", 1, 0, {}, 0)
Set(p, state) == poller' = [poller EXCEPT ![p] = state]
Batch(p, mark, uids) == Set(p, At("batch", poller[p].next, mark, uids, 0))
InHand(p, pc, u) == Set(p, At(pc, poller[p].next, poller[p].mark, poller[p].uids \ {u}, u))

-----------------------------------------------------------------------------
Deliver ==
    /\ uidNext <= MaxUid
    /\ uidNext' = uidNext + 1
    /\ fresh' = IF ended THEN fresh \cup {uidNext} ELSE fresh
    /\ UNCHANGED <<watermark, rows, queued, tried, hit, ended, poller>>

\* SELECT: the response carries UIDNEXT.
Select(p) ==
    /\ poller[p].pc = "idle"
    /\ Set(p, At("selected", uidNext, 0, {}, 0))
    /\ UNCHANGED <<uidNext, watermark, rows, queued, tried, fresh, hit, ended>>

LoadState(p) ==
    /\ poller[p].pc = "selected"
    /\ Set(p, At("loaded", poller[p].next, watermark, {}, 0))
    /\ UNCHANGED <<uidNext, watermark, rows, queued, tried, fresh, hit, ended>>

\* The UIDs above the mark, as SEARCH returns them.
Above(mark) == {u \in 1..uidNext - 1 : u > mark}

\* Variant: a fresh watermark is left at 0 and the whole mailbox is fetched.
Backfill(p) ==
    /\ poller[p].pc = "loaded"
    /\ Batch(p, poller[p].mark, Above(poller[p].mark))
    /\ UNCHANGED <<uidNext, watermark, rows, queued, tried, fresh, hit, ended>>

\* Variant: every run anchors again at UIDNEXT - 1.
AnchorAlways(p) ==
    /\ poller[p].pc = "loaded"
    /\ watermark' = poller[p].next - 1
    /\ Batch(p, watermark', Above(watermark'))
    /\ UNCHANGED <<uidNext, rows, queued, tried, fresh, hit, ended>>

\* A zero watermark is anchored at UIDNEXT - 1 (which may be zero again), then
\* UID SEARCH; the mailbox may hold more than SELECT said.
AnchorAndSearch(p) ==
    /\ poller[p].pc = "loaded"
    /\ LET anchor == poller[p].mark = 0 /\ poller[p].next > 1
           mark == IF anchor THEN poller[p].next - 1 ELSE poller[p].mark
       IN  /\ watermark' = IF anchor THEN mark ELSE watermark
           /\ Batch(p, mark, Above(mark))
    /\ UNCHANGED <<uidNext, rows, queued, tried, fresh, hit, ended>>

\* The next message, in the order of the UIDs.
NextInLine(p, u) == u \in poller[p].uids /\ \A v \in poller[p].uids : u <= v

\* FETCH and the duplicate check of _ingest_one.
Fetch(p) ==
    /\ poller[p].pc = "batch"
    /\ \E u \in Uid :
          /\ NextInLine(p, u)
          /\ tried' = tried \cup {u}
          /\ InHand(p, IF u \in rows THEN "advance" ELSE "new", u)
    /\ UNCHANGED <<uidNext, watermark, rows, queued, fresh, hit, ended>>

\* FETCH fails or the message cannot be parsed: it is passed over.
FetchFails(p) ==
    /\ "fetch" \in Faults
    /\ poller[p].pc = "batch"
    /\ \E u \in Uid :
          /\ NextInLine(p, u)
          /\ tried' = tried \cup {u}
          /\ hit' = hit \cup {u}
          /\ InHand(p, "advance", u)
    /\ UNCHANGED <<uidNext, watermark, rows, queued, fresh, ended>>

\* The INSERT commits by itself; an overlapping run may have made a row since
\* the check, and the pipeline then rejects one of the two.
CreateRow(p) ==
    /\ poller[p].pc = "new"
    /\ rows' = rows \cup {poller[p].uid}
    /\ InHand(p, "created", poller[p].uid)
    /\ UNCHANGED <<uidNext, watermark, queued, tried, fresh, hit, ended>>

\* Variant: the task is never sent.
QueueNothing(p) ==
    /\ poller[p].pc = "created"
    /\ InHand(p, "advance", poller[p].uid)
    /\ UNCHANGED <<uidNext, watermark, rows, queued, tried, fresh, hit, ended>>

Queue(p) ==
    /\ poller[p].pc = "created"
    /\ queued' = queued \cup {poller[p].uid}
    /\ InHand(p, "advance", poller[p].uid)
    /\ UNCHANGED <<uidNext, watermark, rows, tried, fresh, hit, ended>>

\* delay() raises: logged and forgotten.
QueueFails(p) ==
    /\ "broker" \in Faults
    /\ poller[p].pc = "created"
    /\ hit' = hit \cup {poller[p].uid}
    /\ InHand(p, "advance", poller[p].uid)
    /\ UNCHANGED <<uidNext, watermark, rows, queued, tried, fresh, ended>>

\* The run's copy of the watermark goes up and is written back, over whatever
\* another run has written.
Advance(p) ==
    /\ poller[p].pc = "advance"
    /\ IF poller[p].uid > poller[p].mark
       THEN watermark' = poller[p].uid /\ Batch(p, poller[p].uid, poller[p].uids)
       ELSE UNCHANGED watermark /\ Batch(p, poller[p].mark, poller[p].uids)
    /\ UNCHANGED <<uidNext, rows, queued, tried, fresh, hit, ended>>

Finish(p) ==
    /\ poller[p].pc = "batch"
    /\ poller[p].uids = {}
    /\ ended' = TRUE
    /\ Set(p, Idle)
    /\ UNCHANGED <<uidNext, watermark, rows, queued, tried, fresh, hit>>

\* The task's time limit, a lost connection or a killed worker. A row that has
\* just been made is left without its task.
Die(p) ==
    /\ "kill" \in Faults
    /\ poller[p].pc # "idle"
    /\ hit' = IF poller[p].pc = "created" THEN hit \cup {poller[p].uid} ELSE hit
    /\ Set(p, Idle)
    /\ UNCHANGED <<uidNext, watermark, rows, queued, tried, fresh, ended>>

Init ==
    /\ uidNext = History + 1
    /\ watermark = 0
    /\ rows = {} /\ queued = {} /\ tried = {} /\ fresh = {}
    /\ hit = {}
    /\ ended = FALSE
    /\ poller = [p \in Poller |-> Idle]

Work(p) ==
    \/ Select(p) \/ LoadState(p) \/ AnchorAndSearch(p)
    \/ Fetch(p) \/ CreateRow(p) \/ Queue(p) \/ Advance(p) \/ Finish(p)

Next ==
    \/ Deliver
    \/ \E p \in Poller : Work(p) \/ FetchFails(p) \/ QueueFails(p) \/ Die(p)

Spec == Init /\ [][Next]_vars

\* Beat starts the runs, nothing blocks one, and killing comes to an end. (A run
\* that ends after another one has changes what one killed there would.)
Fairness ==
    /\ \A p \in Poller : WF_vars(Work(p))
    /\ <>[][\A p \in Poller : Die(p) => Finish(p)]_vars
FairSpec == Spec /\ Fairness

-----------------------------------------------------------------------------
\* Every variable has its type: the watermark and the runs' copies of it are UIDs.
TypeOK ==
    /\ uidNext \in 1..MaxUid + 1
    /\ watermark \in 0..MaxUid
    /\ rows \subseteq Uid /\ queued \subseteq Uid
    /\ tried \subseteq Uid /\ fresh \subseteq Uid /\ hit \subseteq Uid
    /\ ended \in BOOLEAN
    /\ poller \in [Poller -> PollerState]

\* The messages that were in the mailbox before the first run are never
\* ingested, although runs overlap on a watermark that is still zero and a slow
\* run may set the watermark back.
NoBackfill == \A u \in 1..History : u \notin rows

\* A message that arrived after some run had ended is not passed over: once the
\* watermark covers it, a run has fetched it.
NothingSkipped == \A u \in fresh : u <= watermark => u \in tried

\* A row has had its task sent, or a run is about to, unless a fault came between
\* them: a row without a task stays PENDING for good, since every later run takes
\* its message for a duplicate.
RowsAreQueued ==
    \A u \in rows \ hit :
        u \in queued \/ \E p \in Poller : poller[p].pc = "created" /\ poller[p].uid = u

\* Mail that arrives once polling works is ingested and handed on, or was lost to
\* a fault that struck it: runs killed elsewhere, overlapping runs and watermarks
\* set back lose nothing.
MailIsHandedOn == \A u \in Uid : u \in fresh ~> u \in queued \cup hit
=============================================================================
