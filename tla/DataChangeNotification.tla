----------------------- MODULE DataChangeNotification -----------------------
(***************************************************************************)
(* The retransmission record of one NotificationMessage:                   *)
(* CUADataChangeNotification of the core server                            *)
(* (UADataChangeNotification.cpp), its list of                             *)
(* CUAMonitoredItemNotification (UAMonitoredItemNotification.cpp) and the  *)
(* per-handle counts of m_uiQueueSizesMap.                                 *)
(*                                                                         *)
(* The record is a value: the subscription that owns it                    *)
(* (Subscription.tla) stores it under its sequence number.  The C++ vector *)
(* is a set of entries, each carrying its place "pos"; the order of the    *)
(* vector is the order of the positions, and "next" is the place the next  *)
(* push_back takes.  Every operator is non-recursive, so that the modules  *)
(* above can be proved about.                                              *)
(***************************************************************************)
EXTENDS Integers

CONSTANTS
    Item,        \* the monitored items; a client handle is its item
    Timestamps,  \* TRUE when TimestampsToReturn is Source, Server or Both
    Masked(_)    \* what a comparison under the mask 2943 sees of a value

ASSUME TimestampsAssumption == Timestamps \in BOOLEAN

(***************************************************************************)
(* A sample is a value of the address space (a value with its StatusCode), *)
(* the time of its write and the overflow bits 0x480 of the StatusCode.    *)
(* SameReport compares what is reported of two samples.  The overflow bits *)
(* are masked out, and with them every bit of the StatusCode above the     *)
(* twelfth: two values that differ in their severity only may be the same  *)
(* under the mask.  With TimestampsToReturn_Neither both timestamps are    *)
(* zeroed.                                                                 *)
(***************************************************************************)
SameReport(s, t) == /\ Masked(s.val) = Masked(t.val)
                    /\ Timestamps => s.at = t.at

Entry(Sample) == [pos  : Nat \ {0},
                  item : Item,
                  smp  : Sample,
                  sent : BOOLEAN]

Notification(Sample) == [acked : BOOLEAN,
                         items : SUBSET Entry(Sample),
                         next  : Nat \ {0},
                         count : [Item -> Nat]]

(* The constructor: not acknowledged, nothing queued. *)
EmptyNotification == [acked |-> FALSE,
                      items |-> {},
                      next  |-> 1,
                      count |-> [i \in Item |-> 0]]

Of(n, i) == {e \in n.items : e.item = i}

Unsent(n) == {e \in n.items : ~e.sent}

(* CUADataChangeNotification::IsSomethingToNotify *)
IsSomethingToNotify(n) == ~n.acked /\ Unsent(n) # {}

IsOldest(e, S) == e \in S /\ \A f \in S : e.pos <= f.pos

IsNewest(e, S) == e \in S /\ \A f \in S : f.pos <= e.pos

(* CUADataChangeNotification::IsAlreadyInTheTransmissionList *)
IsAlreadyInTheTransmissionList(n, i, s) ==
    ~n.acked /\ \E e \in Of(n, i) : SameReport(e.smp, s)

(* push_back of an entry *)
Push(n, i, s) ==
    [n EXCEPT !.items = @ \cup {[pos |-> n.next, item |-> i, smp |-> s, sent |-> FALSE]},
              !.next  = @ + 1]

(* The queue of item i is at its limit; qs = 0 means no limit. *)
Full(n, i, qs) == qs # 0 /\ n.count[i] >= qs

(* The sample as AddMonitoredItemNotification leaves it in its argument,   *)
(* which the caller goes on using: a sample that makes a queue of more     *)
(* than one overflow has the overflow bits of its StatusCode toggled.      *)
Flagged(n, i, s, qs) ==
    IF ~IsAlreadyInTheTransmissionList(n, i, s) /\ Full(n, i, qs) /\ qs > 1
    THEN [s EXCEPT !.ovf = ~@]
    ELSE s

(* Variants of the operators below, for the runs that show what each      *)
(* property depends on: a full queue drops the new value; it overwrites    *)
(* its oldest entry in place; it makes no room.  An acknowledgement keeps  *)
(* the counts.                                                             *)
AddAndDropNew(n, i, s, qs, discardOldest) ==
    IF IsAlreadyInTheTransmissionList(n, i, s) \/ Full(n, i, qs) THEN n
    ELSE Push([n EXCEPT !.count[i] = @ + 1], i, s)

AddInPlaceOfOldest(n, i, s, qs, discardOldest) ==
    IF IsAlreadyInTheTransmissionList(n, i, s) THEN n
    ELSE IF ~Full(n, i, qs) THEN Push([n EXCEPT !.count[i] = @ + 1], i, s)
    ELSE [n EXCEPT !.items = {IF IsOldest(e, Of(n, i))
                              THEN [e EXCEPT !.smp = Flagged(n, i, s, qs), !.sent = FALSE]
                              ELSE e : e \in @}]

AddWithoutRoom(n, i, s, qs, discardOldest) ==
    IF IsAlreadyInTheTransmissionList(n, i, s) THEN n
    ELSE Push([n EXCEPT !.count[i] = @ + 1], i, s)

(***************************************************************************)
(* CUADataChangeNotification::AddMonitoredItemNotification, with its four  *)
(* outcomes: the report is already queued; there is room; the handle's     *)
(* queue is full and its oldest entry makes room, sent or not; the queue   *)
(* is full and its newest entry is overwritten (and becomes unsent again). *)
(***************************************************************************)
AddMonitoredItemNotification(n, i, s, qs, discardOldest) ==
    LET mine == Of(n, i)
        smp  == Flagged(n, i, s, qs)
    IN  IF IsAlreadyInTheTransmissionList(n, i, s) THEN n
        ELSE IF ~Full(n, i, qs) THEN
            Push([n EXCEPT !.count[i] = @ + 1], i, smp)
        ELSE IF discardOldest THEN
            Push([n EXCEPT !.items = {e \in @ : ~IsOldest(e, mine)}], i, smp)
        ELSE
            [n EXCEPT !.items =
                {IF IsNewest(e, mine) THEN [e EXCEPT !.smp = smp, !.sent = FALSE]
                 ELSE e : e \in @}]

RemoveSentKeepCounts(n) == [n EXCEPT !.items = Unsent(n)]

(***************************************************************************)
(* CUADataChangeNotification::RemoveSentMonitoredItemNotification: drop    *)
(* what was sent and, with each dropped entry, the whole count of its      *)
(* handle, even when unsent entries of that handle remain.                 *)
(***************************************************************************)
CountAfterRemoval(n) ==
    [i \in Item |-> IF \E e \in Of(n, i) : e.sent THEN 0 ELSE n.count[i]]

RemoveSent(n) == [n EXCEPT !.items = Unsent(n), !.count = CountAfterRemoval(n)]

(* Variants: the record is never, or always, marked as acknowledged.       *)
NeverAcknowledge(n) == RemoveSent(n)
AlwaysAcknowledge(n) == [RemoveSent(n) EXCEPT !.acked = TRUE]

(* The body of AckDataChangeNotification for the record it found: the      *)
(* record is acknowledged only when nothing unsent is left in it.          *)
Acknowledge(n) ==
    LET rest == RemoveSent(n)
    IN  [rest EXCEPT !.acked = @ \/ rest.items = {}]

(* Variant: every entry of the item leaves every record.                   *)
RemoveEveryEntryOf(n, i) == [n EXCEPT !.items = {e \in @ : e.item # i}]

(* CUADataChangeNotification::RemoveMonitoredItemNotification: the entries *)
(* of a deleted item leave an acknowledged record, and only if sent.       *)
RemoveMonitoredItemNotification(n, i) ==
    IF n.acked THEN [n EXCEPT !.items = {e \in @ : ~(e.item = i /\ e.sent)}]
    ELSE n

(* MonitoredNotificationSent(OpcUa_True) on the entries put in a message. *)
MarkSent(n, batch) ==
    [n EXCEPT !.items = {IF e \in batch THEN [e EXCEPT !.sent = TRUE] ELSE e : e \in @}]
=============================================================================
