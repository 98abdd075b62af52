---------------------------- MODULE Subscription ----------------------------
(***************************************************************************)
(* One subscription of the core server: detection of data changes by       *)
(* CSubscriptionServer::UpdateDataSubscriptionThread, the retransmission   *)
(* map m_AvailableSequenceNumbers, the filling of publish responses by     *)
(* CSessionServer::NotificationDataThread and CQueuedPublishMessage, and   *)
(* the services that reach the same state (Publish with acknowledgements,  *)
(* Republish, SetPublishingMode, SetMonitoringMode, Create- and            *)
(* DeleteMonitoredItems).                                                  *)
(*                                                                         *)
(* Three actors interleave: the update thread (one step per item of a      *)
(* pass), the notification thread (fill, transmit, clean up) and the       *)
(* service threads, one atomic step per call.  The mutexes of the code     *)
(* show as guards:                                                         *)
(*   ~pass.running        a pass holds m_hMonitoredItemListMutex and       *)
(*                        m_AvailableSequenceNumbersMutex to its end;      *)
(*   resp.phase = "none"  the notification thread holds                    *)
(*                        m_hSubscriptionListMutex while it answers.       *)
(* Real time is abstracted: a keep-alive becomes due at any moment after   *)
(* the last transmission, and a sampling interval may have elapsed or not. *)
(***************************************************************************)
EXTENDS DataChangeNotification, FiniteSets

CONSTANTS
    Value,             \* values of the variables (value and status together)
    NoValue,           \* the null value of an item that was never evaluated
    Modes,             \* the monitoring modes the clients ask for
    QueueSize,         \* revised queue size of every item
    DiscardOldest,     \* discard policy of every item
    MaxNotificationsPerPublish,  \* 0 means no limit
    MaxClock,          \* bound: writes and item creations
    MaxSeq,            \* bound: sequence numbers, far below 2^32
    MaxRequests,       \* bound: publish requests queued at a time
    MaxFailures        \* bound: responses the transport refuses

AllModes == {"Reporting", "Sampling", "Disabled"}

ASSUME ConstantsAssumption ==
    /\ NoValue \notin Value
    /\ Modes \subseteq AllModes
    /\ QueueSize \in Nat
    /\ DiscardOldest \in BOOLEAN
    /\ MaxNotificationsPerPublish \in Nat
    /\ MaxClock \in Nat
    /\ MaxSeq \in Nat \ {0}
    /\ MaxRequests \in Nat
    /\ MaxFailures \in Nat

VARIABLES
    source,       \* CUAVariable: the current sample of each node
    clock,        \* time of the last write or creation
    monitored,    \* m_pMonitoredItemList
    mode,         \* CMonitoredItemServer::m_MonitoringMode
    last,         \* CMonitoredItemServer::m_Value; NoSample while IsCold()
    avail,        \* m_AvailableSequenceNumbers: sequence number -> record
    currentSeq,   \* m_uiCurrentSequenceNumber
    pass,         \* the pass of UpdateDataSubscriptionThread
    enabled,      \* m_bPublishingEnabled
    keepAlive,    \* m_bKeepAlive
    keepAliveDue, \* IsKeepAliveRequired(), from m_LastTransmissionTime
    cold,         \* m_bSubscriptionInColdState
    requests,     \* m_PublishRequests: requests waiting for an answer
    resp,         \* the response the notification thread works on
    failures,     \* failed transmissions so far
    \* what the client has seen: history of the deliveries
    client,       \* newest sample received for each item
    published,    \* time of the newest sample received in publish responses
    toAck,        \* sequence numbers received with data, not yet acknowledged
    offered       \* AvailableSequenceNumbers of the last response received

threadVars == <<avail, currentSeq, pass>>
itemVars   == <<monitored, mode, last>>
stateVars  == <<keepAlive, keepAliveDue, cold, enabled>>
queueVars  == <<requests, resp, failures>>
clientVars == <<client, published, toAck, offered>>
vars == <<source, clock, itemVars, threadVars, stateVars, queueVars, clientVars>>

Sample   == [val : Value \cup {NoValue}, at : Nat, ovf : BOOLEAN]
NoSample == [val |-> NoValue, at |-> 0, ovf |-> FALSE]

NoResponse == [phase |-> "none", seq |-> 0, data |-> {}, list |-> {}]
NoPass     == [running |-> FALSE, todo |-> {}, target |-> "none",
               key |-> 0, fresh |-> EmptyNotification]

-----------------------------------------------------------------------------
(* The update thread.                                                      *)

(* CSubscriptionServer::GetCurrentSequenceNumber, where 0 counts as 1.     *)
NextSeq == IF currentSeq = 0 THEN 1 ELSE currentSeq

(* Variant: only a cold item differs. *)
DiffersWhenCold(i) == last[i] = NoSample

(* IsMonitoredItemFromUAVariableEqual for the default trigger StatusValue  *)
(* and no deadband: a cold item always differs, and so does one whose      *)
(* cached StatusCode carries the overflow bits of its last notification.   *)
Differs(i) == \/ last[i] = NoSample
              \/ last[i].val # source[i].val
              \/ last[i].ovf # source[i].ovf

(* Variant: any unacknowledged record is recycled. *)
RecyclableUnacked == {k \in DOMAIN avail : ~avail[k].acked}

(* The search of CompareMonitoredItemToUAVariable for a record that still  *)
(* has something to notify; the map is ordered by sequence number.         *)
Recyclable == {k \in DOMAIN avail : IsSomethingToNotify(avail[k])}

Firsts(S) == {k \in S : \A l \in S : k <= l}

(***************************************************************************)
(* The pass remembers the record it fills: none yet, a recycled one (a     *)
(* pointer into the map) or a fresh one (in the map only at the end).      *)
(***************************************************************************)
AddToTarget(p, i, s, qs, discardOldest) ==
    IF p.target = "recycled"
    THEN /\ avail' = [avail EXCEPT ![p.key] =
                        AddMonitoredItemNotification(@, i, s, qs, discardOldest)]
         /\ pass' = p
    ELSE /\ pass' = [p EXCEPT !.target = "fresh",
                              !.fresh = AddMonitoredItemNotification(@, i, s, qs, discardOldest)]
         /\ UNCHANGED avail

PassBegin ==
    /\ ~pass.running
    /\ NextSeq <= MaxSeq
    /\ pass' = [NoPass EXCEPT !.running = TRUE, !.todo = monitored]
    /\ UNCHANGED <<source, clock, itemVars, avail, currentSeq, stateVars, queueVars, clientVars>>

(* The record a detected difference goes to: the one the pass already has, *)
(* or the first that can be recycled, or else a fresh one.                 *)
Targets(p) ==
    IF p.target = "none" /\ Recyclable # {}
    THEN {[p EXCEPT !.target = "recycled", !.key = k] : k \in Firsts(Recyclable)}
    ELSE {p}

(* What the record q writes to holds before the call. *)
TargetRecord(q) == IF q.target = "recycled" THEN avail[q.key] ELSE q.fresh

(* A Reporting item: CompareMonitoredItemToUAVariable.  The detected value *)
(* becomes the item's value whether the record took it or not, with the    *)
(* overflow bits the record put on it.                                     *)
CompareItem(i) ==
    LET p == [pass EXCEPT !.todo = @ \ {i}]
    IN  /\ i \in pass.todo
        /\ mode[i] = "Reporting"
        /\ IF Differs(i)
           THEN \E q \in Targets(p) :
                    /\ AddToTarget(q, i, source[i], QueueSize, DiscardOldest)
                    /\ last' = [last EXCEPT ![i] =
                                    Flagged(TargetRecord(q), i, source[i], QueueSize)]
           ELSE /\ pass' = p
                /\ UNCHANGED <<avail, last>>
        /\ UNCHANGED <<source, clock, monitored, mode, currentSeq, stateVars, queueVars, clientVars>>

(* A Sampling item whose interval elapsed: its value is queued again,      *)
(* without a search for a record to recycle and without a queue limit.     *)
SampleItem(i) ==
    LET p == [pass EXCEPT !.todo = @ \ {i}]
    IN  /\ i \in pass.todo
        /\ mode[i] = "Sampling"
        /\ AddToTarget(p, i, last[i], 0, FALSE)
        /\ UNCHANGED <<source, clock, itemVars, currentSeq, stateVars, queueVars, clientVars>>

(* A Disabled item, or a Sampling item whose interval did not elapse.      *)
SkipItem(i) ==
    /\ i \in pass.todo
    /\ mode[i] \in {"Sampling", "Disabled"}
    /\ pass' = [pass EXCEPT !.todo = @ \ {i}]
    /\ UNCHANGED <<source, clock, itemVars, avail, currentSeq, stateVars, queueVars, clientVars>>

(* Variant: the sequence number is not advanced. *)
PassEndSameNumber ==
    /\ pass.running
    /\ pass.todo = {}
    /\ IF pass.target = "fresh" /\ pass.fresh.items # {} /\ NextSeq \notin DOMAIN avail
       THEN /\ avail' = [k \in DOMAIN avail \cup {NextSeq} |->
                            IF k = NextSeq THEN pass.fresh ELSE avail[k]]
            /\ currentSeq' = NextSeq
       ELSE UNCHANGED <<avail, currentSeq>>
    /\ pass' = NoPass
    /\ UNCHANGED <<source, clock, itemVars, stateVars, queueVars, clientVars>>

(* The end of the second step: a fresh record enters the map through       *)
(* AvailableSequenceNumberAdd, which refuses a number already in use.      *)
PassEnd ==
    /\ pass.running
    /\ pass.todo = {}
    /\ IF pass.target = "fresh" /\ pass.fresh.items # {} /\ NextSeq \notin DOMAIN avail
       THEN /\ avail' = [k \in DOMAIN avail \cup {NextSeq} |->
                            IF k = NextSeq THEN pass.fresh ELSE avail[k]]
            /\ currentSeq' = NextSeq + 1
       ELSE UNCHANGED <<avail, currentSeq>>
    /\ pass' = NoPass
    /\ UNCHANGED <<source, clock, itemVars, stateVars, queueVars, clientVars>>

-----------------------------------------------------------------------------
(* The notification thread.                                                *)

Unacked == {k \in DOMAIN avail : ~avail[k].acked}

(* What is queued, in the order the records and their lists are walked.    *)
Queue == UNION {{k} \X Unsent(avail[k]) : k \in Unacked}

Before(q, r) == q[1] < r[1] \/ (q[1] = r[1] /\ q[2].pos < r[2].pos)

(* The entries FillDataChangeNotificationMessageEx2 takes.                 *)
Batch == {q \in Queue : \/ MaxNotificationsPerPublish = 0
                        \/ Cardinality({r \in Queue : Before(r, q)}) < MaxNotificationsPerPublish}

(* Variant: the first number of the map. *)
FirstKey == IF Firsts(DOMAIN avail) = {} THEN 0 ELSE CHOOSE k \in Firsts(DOMAIN avail) : TRUE

Lasts(S) == {k \in S : \A l \in S : l <= k}

LastKey == IF Lasts(DOMAIN avail) = {} THEN 0 ELSE CHOOSE k \in Lasts(DOMAIN avail) : TRUE

(* Variant: only the keep-alive timer triggers an answer. *)
OnlyKeepAliveNotify == keepAliveDue

(* IsSomethingNotify, without status changes and events; keepAlive is the  *)
(* flag after SetKeepAlive.                                                *)
IsSomethingNotify == keepAliveDue \/ cold \/ Unacked # {}

KeepAliveFlag == IF keepAliveDue THEN TRUE ELSE IF cold THEN keepAlive ELSE FALSE

(***************************************************************************)
(* ProcessQueuedPublishRequestEx.  Fill puts the batch in the response and *)
(* numbers it with the last number of the map; a keep-alive carries that   *)
(* number plus one.  While publishing is disabled only keep-alives go out, *)
(* numbered from currentSeq.  With nothing to say the request stays        *)
(* queued.                                                                 *)
(***************************************************************************)
Fill ==
    /\ enabled
    /\ IF Batch # {}
       THEN /\ resp' = [phase |-> "filled", seq |-> LastKey, data |-> Batch, list |-> Unacked]
            /\ avail' = [k \in DOMAIN avail |-> MarkSent(avail[k], {e \in avail[k].items : <<k, e>> \in Batch})]
       ELSE /\ resp' = IF KeepAliveFlag
                       THEN [phase |-> "filled", seq |-> LastKey + 1, data |-> {}, list |-> Unacked]
                       ELSE NoResponse
            /\ UNCHANGED avail

FillDisabled ==
    /\ ~enabled
    /\ resp' = IF KeepAliveFlag \/ cold
               THEN [phase |-> "filled", seq |-> currentSeq + 1, data |-> {}, list |-> {}]
               ELSE NoResponse
    /\ UNCHANGED avail

ProcessQueuedPublishRequest ==
    /\ resp.phase = "none"
    /\ requests > 0
    /\ ~pass.running
    /\ IsSomethingNotify
    /\ keepAlive' = KeepAliveFlag
    /\ Fill \/ FillDisabled
    /\ UNCHANGED <<source, clock, itemVars, currentSeq, pass, keepAliveDue, cold, enabled,
                   requests, failures, clientVars>>

(* The later of s and the newest sample of item i among the entries of E.  *)
NewestOf(E, i, s) ==
    LET latest == {e \in E : /\ e.item = i
                             /\ e.smp.at > s.at
                             /\ \A f \in E : f.item = i => f.smp.at <= e.smp.at}
    IN  IF latest = {} THEN s ELSE (CHOOSE e \in latest : TRUE).smp

(* EndSendResponse succeeded: the client has the response.                 *)
EndSendResponse ==
    LET got == {q[2] : q \in resp.data}
    IN  /\ resp.phase = "filled"
        /\ resp' = [resp EXCEPT !.phase = "sent"]
        /\ requests' = requests - 1
        /\ keepAlive' = FALSE
        /\ cold' = FALSE
        /\ keepAliveDue' = FALSE
        /\ client' = [i \in Item |-> NewestOf(got, i, client[i])]
        /\ published' = [i \in Item |-> NewestOf(got, i, [NoSample EXCEPT !.at = published[i]]).at]
        /\ toAck' = IF resp.data = {} THEN toAck ELSE toAck \cup {resp.seq}
        /\ offered' = resp.list
        /\ UNCHANGED <<source, clock, itemVars, threadVars, enabled, failures>>

(* EndSendResponse failed: the request is marked for deletion, and what    *)
(* was put in the response stays marked as sent.                           *)
EndSendResponseFailed ==
    /\ resp.phase = "filled"
    /\ failures < MaxFailures
    /\ failures' = failures + 1
    /\ resp' = NoResponse
    /\ requests' = requests - 1
    /\ UNCHANGED <<source, clock, itemVars, threadVars, stateVars, clientVars>>

(* Variant: sent records are removed too. *)
RemoveSentRecords ==
    /\ resp.phase = "sent"
    /\ ~pass.running
    /\ resp' = NoResponse
    /\ avail' = [k \in Recyclable |-> avail[k]]
    /\ UNCHANGED <<source, clock, itemVars, currentSeq, pass, stateVars, requests, failures, clientVars>>

(* RemoveAckedDataChangeNotification, after each successful answer.        *)
RemoveAckedDataChangeNotification ==
    /\ resp.phase = "sent"
    /\ ~pass.running
    /\ resp' = NoResponse
    /\ avail' = [k \in Unacked |-> avail[k]]
    /\ UNCHANGED <<source, clock, itemVars, currentSeq, pass, stateVars, requests, failures, clientVars>>

-----------------------------------------------------------------------------
(* The services.                                                           *)

ServiceMayRun == resp.phase = "none" /\ ~pass.running

(* BeginPublish: ProcessPublishRequest acknowledges, then queues.  The     *)
(* client acknowledges numbers it received, each once.                     *)
Publish(acks) ==
    /\ ServiceMayRun
    /\ acks \subseteq toAck
    /\ requests < MaxRequests
    /\ requests' = requests + 1
    /\ avail' = [k \in DOMAIN avail |-> IF k \in acks THEN Acknowledge(avail[k]) ELSE avail[k]]
    /\ toAck' = toAck \ acks
    /\ UNCHANGED <<source, clock, itemVars, currentSeq, pass, stateVars, resp, failures,
                   client, published, offered>>

(* Republish: every entry of the record, sent or not, is returned.         *)
Republish(k) ==
    /\ ServiceMayRun
    /\ k \in offered
    /\ keepAliveDue' = FALSE
    /\ IF k \in Unacked
       THEN /\ client' = [i \in Item |-> NewestOf(avail[k].items, i, client[i])]
            /\ toAck' = toAck \cup {k}
       ELSE UNCHANGED <<client, toAck>>
    /\ UNCHANGED <<source, clock, itemVars, threadVars, keepAlive, cold, enabled, queueVars,
                   published, offered>>

SetPublishingMode(b) ==
    /\ resp.phase = "none"
    /\ enabled' = b
    /\ keepAliveDue' = FALSE
    /\ UNCHANGED <<source, clock, itemVars, threadVars, keepAlive, cold, queueVars, clientVars>>

SetMonitoringMode(i, m) ==
    /\ ServiceMayRun
    /\ i \in monitored
    /\ mode' = [mode EXCEPT ![i] = m]
    /\ UNCHANGED <<source, clock, monitored, last, threadVars, stateVars, queueVars, clientVars>>

(* CreateMonitoredItems and AddMonitoredItem.  A new item is cold; the     *)
(* client forgets what an earlier item of that handle reported.            *)
AddMonitoredItem(i, m) ==
    /\ ServiceMayRun
    /\ i \notin monitored
    /\ clock < MaxClock
    /\ clock' = clock + 1
    /\ monitored' = monitored \cup {i}
    /\ mode' = [mode EXCEPT ![i] = m]
    /\ last' = [last EXCEPT ![i] = NoSample]
    /\ cold' = FALSE
    /\ keepAliveDue' = FALSE
    /\ published' = [published EXCEPT ![i] = 0]
    /\ UNCHANGED <<source, threadVars, keepAlive, enabled, queueVars, client, toAck, offered>>

(* DeleteMonitoredItemById with DeleteDataChangeNotfication.               *)
DeleteMonitoredItem(i) ==
    LET cleaned == [k \in DOMAIN avail |-> RemoveMonitoredItemNotification(avail[k], i)]
        kept == {k \in DOMAIN avail : ~(cleaned[k].acked /\ cleaned[k].items = {})}
    IN  /\ ServiceMayRun
        /\ i \in monitored
        /\ monitored' = monitored \ {i}
        /\ avail' = [k \in kept |-> cleaned[k]]
        /\ keepAliveDue' = FALSE
        /\ UNCHANGED <<source, clock, mode, last, currentSeq, pass, keepAlive, cold, enabled,
                       queueVars, clientVars>>

-----------------------------------------------------------------------------
(* The environment: the data sources and the passing of time.              *)

Write(i, v) ==
    /\ clock < MaxClock
    /\ clock' = clock + 1
    /\ source' = [source EXCEPT ![i] = [val |-> v, at |-> clock', ovf |-> FALSE]]
    /\ UNCHANGED <<itemVars, threadVars, stateVars, queueVars, clientVars>>

KeepAliveElapses ==
    /\ ~keepAliveDue
    /\ keepAliveDue' = TRUE
    /\ UNCHANGED <<source, clock, itemVars, threadVars, keepAlive, cold, enabled, queueVars, clientVars>>

-----------------------------------------------------------------------------
Init ==
    /\ clock = 1
    /\ \E v \in Value : source = [i \in Item |-> [val |-> v, at |-> 1, ovf |-> FALSE]]
    /\ monitored = {}
    /\ mode = [i \in Item |-> "Disabled"]
    /\ last = [i \in Item |-> NoSample]
    /\ avail = [k \in {} |-> EmptyNotification]
    /\ currentSeq = 0
    /\ pass = NoPass
    /\ enabled \in BOOLEAN
    /\ keepAlive = FALSE
    /\ keepAliveDue = TRUE
    /\ cold = TRUE
    /\ requests = 0
    /\ resp = NoResponse
    /\ failures = 0
    /\ client = [i \in Item |-> NoSample]
    /\ published = [i \in Item |-> 0]
    /\ toAck = {}
    /\ offered = {}

UpdateThread == \/ PassBegin
                \/ \E i \in Item : CompareItem(i) \/ SampleItem(i) \/ SkipItem(i)
                \/ PassEnd

NotificationThread == \/ ProcessQueuedPublishRequest
                      \/ EndSendResponse
                      \/ EndSendResponseFailed
                      \/ RemoveAckedDataChangeNotification

Services == \/ \E acks \in SUBSET toAck : Publish(acks)
            \/ \E k \in offered : Republish(k)
            \/ \E b \in BOOLEAN : SetPublishingMode(b)
            \/ \E i \in Item, m \in Modes : SetMonitoringMode(i, m) \/ AddMonitoredItem(i, m)
            \/ \E i \in Item : DeleteMonitoredItem(i)

Environment == \/ \E i \in Item, v \in Value : Write(i, v)
               \/ KeepAliveElapses

Next == UpdateThread \/ NotificationThread \/ Services \/ Environment

Spec == Init /\ [][Next]_vars

(***************************************************************************)
(* Fairness.  The update thread runs a pass every publishing interval and  *)
(* a pass never waits for anything once it has its mutexes: weak fairness. *)
(* The notification thread and the service threads wait for mutexes the    *)
(* pass releases between two intervals, so a step of theirs that is        *)
(* possible again and again is eventually taken: strong fairness.  The     *)
(* client keeps a publish request queued, as the protocol asks of it.      *)
(***************************************************************************)
Fairness ==
    /\ WF_vars(UpdateThread)
    /\ SF_vars(ProcessQueuedPublishRequest)
    /\ WF_vars(EndSendResponse)
    /\ SF_vars(RemoveAckedDataChangeNotification)
    /\ SF_vars(Publish({}))

FairSpec == Spec /\ Fairness

-----------------------------------------------------------------------------
(* Properties.                                                             *)

Notif == Notification(Sample)

TypeOK ==
    /\ source \in [Item -> Sample]
    /\ clock \in Nat
    /\ monitored \subseteq Item
    /\ mode \in [Item -> AllModes]
    /\ last \in [Item -> Sample]
    /\ DOMAIN avail \subseteq Nat \ {0}
    /\ avail \in [DOMAIN avail -> Notif]
    /\ currentSeq \in Nat
    /\ pass \in [running : BOOLEAN, todo : SUBSET Item,
                 target : {"none", "fresh", "recycled"}, key : Nat, fresh : Notif]
    /\ enabled \in BOOLEAN
    /\ keepAlive \in BOOLEAN
    /\ keepAliveDue \in BOOLEAN
    /\ cold \in BOOLEAN
    /\ requests \in Nat
    /\ resp \in [phase : {"none", "filled", "sent"}, seq : Nat,
                 data : SUBSET (Nat \X Entry(Sample)), list : SUBSET Nat]
    /\ failures \in Nat
    /\ client \in [Item -> Sample]
    /\ published \in [Item -> Nat]
    /\ toAck \subseteq Nat
    /\ offered \subseteq Nat

(* The number of the next record is never in use: the insertion of         *)
(* AvailableSequenceNumberAdd, whose failure would lose the whole pass,    *)
(* always succeeds, and the last number of the map is the newest.          *)
FreshSequenceNumber == \A k \in DOMAIN avail : k < NextSeq

(* A record is acknowledged exactly when it is empty: removing the         *)
(* acknowledged records (RemoveAckedDataChangeNotification) drops no       *)
(* queued value, the first step of the pass (SubscriptionServer.cpp        *)
(* 1297-1344) has nothing to move, and the empty-record clean-up at the    *)
(* end of a pass never deletes a recycled record the map still holds.      *)
AckedIsEmpty == \A k \in DOMAIN avail : avail[k].acked <=> avail[k].items = {}

(* The record a pass recycles stays in the map, unacknowledged, until the  *)
(* pass ends: the pointer it writes through never dangles.                 *)
RecycledRecordIsLive ==
    pass.target = "recycled" =>
        pass.key \in DOMAIN avail /\ IsSomethingToNotify(avail[pass.key])

(* A handle is counted only while it has entries, so a full queue always   *)
(* has an entry to overwrite or to discard (the error branch of            *)
(* AddMonitoredItemNotification is never taken) and the counts never lock  *)
(* a handle out of the queue.                                              *)
Backed(n) == \A i \in Item : n.count[i] > 0 => Of(n, i) # {}
CountIsBacked == \A k \in DOMAIN avail : Backed(avail[k])

(* What makes the invariants above inductive: outside a pass there is no   *)
(* target and no item to visit; a fresh record is unacknowledged and its   *)
(* counts are backed; a response being sent answers a queued request.      *)
PassIsClean ==
    /\ ~pass.running => pass.target = "none" /\ pass.todo = {}
    /\ ~pass.fresh.acked
    /\ Backed(pass.fresh)
AnswerHasRequest == resp.phase = "filled" => requests > 0

(* The inductive invariant of the retransmission map (SubscriptionProofs). *)
IInv == /\ TypeOK
        /\ FreshSequenceNumber
        /\ AckedIsEmpty
        /\ RecycledRecordIsLive
        /\ CountIsBacked
        /\ PassIsClean
        /\ AnswerHasRequest

(* A record never holds more entries of an item than its queue size, when  *)
(* a response takes everything that is queued.  (With a limit per response *)
(* the acknowledgement of a record that was sent in part erases the whole  *)
(* count of a handle while unsent entries of it remain, and the queue may  *)
(* grow past its size: m_uiQueueSizesMap is not "currentQueueSize" then.)  *)
QueueBound ==
    QueueSize # 0 =>
        \A k \in DOMAIN avail : \A i \in Item :
            Cardinality(Of(avail[k], i)) <= QueueSize

(* The values of a message come from the record it is numbered after, the  *)
(* one an acknowledgement of that number will retire: no older record than *)
(* the last of the map has a value that was not sent.                      *)
MessageNumberMatches == \A q \in resp.data : q[1] = resp.seq

(* What the client received and has not acknowledged can be retransmitted: *)
(* its record is still there and Republish accepts its number.             *)
Retransmittable == toAck \subseteq Unacked

(* The value last detected for an item is never lost: the client has it or *)
(* a later one, or it sits in a record that is still to be acknowledged or *)
(* in the record of the running pass.                                      *)
Retained(i) ==
    \/ client[i].at >= last[i].at
    \/ \E k \in Unacked : \E e \in Of(avail[k], i) : e.smp.at = last[i].at
    \/ \E e \in Of(pass.fresh, i) : e.smp.at = last[i].at
LatestValueRetained == \A i \in monitored : Retained(i)

(* Publish responses deliver the values of an item in the order of their   *)
(* writes: never an older one after a newer one, within a message (whose   *)
(* entries are in the order of the queue) or from one message to the next. *)
DeliveredInOrder ==
    [][EndSendResponse =>
        \A q \in resp.data :
            /\ q[2].smp.at >= published[q[2].item]
            /\ \A r \in resp.data :
                  q[2].item = r[2].item /\ Before(q, r) => q[2].smp.at < r[2].smp.at]_vars

(* A queued value that was not sent leaves the queue only by being put in  *)
(* a message or pushed out by a later value of the same item: no           *)
(* acknowledgement, item deletion or clean-up removes it.                  *)
LaterOf(k, e) == \E f \in Of(avail'[k], e.item) : f.smp.at > e.smp.at
UnsentLeavesOnlyByOverflow ==
    [][\A k \in DOMAIN avail : \A e \in Unsent(avail[k]) :
        /\ k \in DOMAIN avail'
        /\ \/ e \in avail'[k].items
           \/ [e EXCEPT !.sent = TRUE] \in avail'[k].items /\ <<k, e>> \in resp'.data
           \/ LaterOf(k, e)]_vars

(* Every queued value is eventually sent or pushed out, while publishing   *)
(* stays enabled.                                                          *)
UnsentEventuallySent ==
    \A k \in 1..MaxSeq :
        (k \in DOMAIN avail /\ IsSomethingToNotify(avail[k])) ~>
            (~enabled \/ k \notin DOMAIN avail \/ Unsent(avail[k]) = {})

(* A change of a reported variable reaches the client, while the item is   *)
(* reported and publishing enabled and as long as no transmission failed.  *)
ChangeReachesClient ==
    \A i \in Item :
        (i \in monitored /\ mode[i] = "Reporting" /\ source[i].val # client[i].val) ~>
            (\/ source[i].val = client[i].val
             \/ i \notin monitored
             \/ mode[i] # "Reporting"
             \/ ~enabled)

-----------------------------------------------------------------------------
(* What comments of the code say and the runs refute.                      *)

(* SubscriptionServer.cpp 2683: a detected difference becomes an entry of  *)
(* the record.                                                             *)
DifferenceIsQueued ==
    [][\A i \in Item : (pass.running /\ last'[i] # last[i] /\ i \in pass.todo) =>
        \E n \in {avail'[k] : k \in DOMAIN avail'} \cup {pass'.fresh} :
            \E e \in Of(n, i) : ~e.sent /\ e.smp.at = source[i].at]_vars
=============================================================================
