--------------------------- MODULE DeliveryProofs ---------------------------
(***************************************************************************)
(* What the client gets of the values of Subscription, and when, in the    *)
(* configurations in which it can be relied on: the number of a message,   *)
(* the value last detected, the bound of the queues and the order of what  *)
(* is delivered.                                                           *)
(*                                                                         *)
(* The assumptions of each theorem are the ones its property needs: TLC    *)
(* finds it violated without any one of them.  NInv is about the numbers   *)
(* of messages, LInv about the value last detected, OInv about the order;  *)
(* the bound adds Bounded.                                                 *)
(***************************************************************************)
EXTENDS SubscriptionProofs

-----------------------------------------------------------------------------
(* Where no item is in Sampling mode, a pass inserts a record only when    *)
(* nothing is left unsent in the others, so that a message has the number  *)
(* of the record its values come from.                                     *)

ModesAreAskedFor == pass.todo \subseteq monitored /\ \A i \in monitored : mode[i] \in Modes

OnlyLastUnsent == \A k, l \in DOMAIN avail : k < l => Unsent(avail[k]) = {}

FreshWhenAllSent == pass.target = "fresh" => \A k \in DOMAIN avail : Unsent(avail[k]) = {}

NInv == RInv /\ ModesAreAskedFor /\ OnlyLastUnsent /\ FreshWhenAllSent /\ MessageNumberMatches

(* Steps that make no record have unsent values that had none.             *)
LEMMA NothingBecomesUnsent ==
    ASSUME NInv, RInv', ModesAreAskedFor', MessageNumberMatches',
           DOMAIN avail' \subseteq DOMAIN avail,
           \A k \in DOMAIN avail' : Unsent(avail[k]) = {} => Unsent(avail'[k]) = {},
           pass'.target = "fresh" => pass.target = "fresh"
    PROVE  NInv'
BY DEF NInv, OnlyLastUnsent, FreshWhenAllSent

LEMMA RecordsUntouched ==
    ASSUME NInv, RInv', UNCHANGED avail, pass'.target = "fresh" => pass.target = "fresh",
           ModesAreAskedFor', resp'.data \subseteq resp.data,
           resp'.data = {} \/ resp'.seq = resp.seq
    PROVE  NInv'
<1>1. MessageNumberMatches'
  BY DEF NInv, MessageNumberMatches
<1> QED
  BY <1>1, NothingBecomesUnsent

LEMMA PassBeginNumbers == ASSUME NInv, RInv', PassBegin PROVE NInv'
<1>1. pass'.target = "none" /\ pass'.todo = monitored /\ UNCHANGED <<avail, resp, monitored, mode>>
  BY DEF PassBegin, NoPass, queueVars, itemVars
<1> QED
  BY <1>1, RecordsUntouched DEF NInv, ModesAreAskedFor

LEMMA CompareItemNumbers == ASSUME NInv, RInv', NEW i \in Item, CompareItem(i) PROVE NInv'
<1> DEFINE p == [pass EXCEPT !.todo = @ \ {i}]
<1>0. IInv /\ i \in pass.todo /\ UNCHANGED <<resp, monitored, mode>> /\ source[i] \in Sample
  BY DEF NInv, RInv, CompareItem, queueVars, IInv, TypeOK
<1>1. /\ p.target = pass.target /\ p.todo \subseteq pass.todo /\ p \in PassType
  BY <1>0, Parts DEF PassType
<1>2. CASE ~Differs(i)
  <2>1. pass' = p /\ UNCHANGED avail
    BY <1>2 DEF CompareItem
  <2>2. ModesAreAskedFor'
    BY <1>0, <1>1, <2>1 DEF NInv, ModesAreAskedFor
  <2> HIDE DEF p
  <2> QED
    BY <1>0, <1>1, <2>1, <2>2, RecordsUntouched
<1>3. CASE Differs(i)
  <2>1. PICK q \in Targets(p) : AddToTarget(q, i, source[i], QueueSize, DiscardOldest)
    BY <1>3 DEF CompareItem
  <2>2. /\ q \in PassType /\ q.fresh = pass.fresh
        /\ q.target = "recycled" => q.key \in DOMAIN avail /\ IsSomethingToNotify(avail[q.key])
    BY <1>0, <2>1, TargetOf
  <2> HIDE DEF p
  <2>3. q.todo = p.todo /\ (q = p \/ q.target = "recycled")
    BY <1>1, <2>1 DEF Targets, PassType
  <2>4. CASE q.target = "recycled"
    <3> DEFINE m == AddMonitoredItemNotification(avail[q.key], i, source[i], QueueSize, DiscardOldest)
    <3>1. pass' = q /\ avail' = [avail EXCEPT ![q.key] = m]
      BY <2>1, <2>4 DEF AddToTarget
    <3> HIDE DEF m
    <3>2. Unsent(avail[q.key]) # {}
      BY <2>2, <2>4 DEF IsSomethingToNotify
    <3>3. /\ DOMAIN avail' = DOMAIN avail
          /\ \A k \in DOMAIN avail : k # q.key => avail'[k] = avail[k]
      BY <3>1
    <3>4. ModesAreAskedFor' /\ MessageNumberMatches'
      BY <1>0, <1>1, <2>3, <3>1 DEF NInv, ModesAreAskedFor, MessageNumberMatches
    <3>5. pass'.target = "fresh" => pass.target = "fresh"
      BY <2>4, <3>1
    <3> QED
      BY <3>2, <3>3, <3>4, <3>5, NothingBecomesUnsent
  <2>5. CASE q.target # "recycled"
    <3>1. /\ pass'.target = "fresh" /\ pass'.todo = p.todo /\ UNCHANGED avail
      BY <2>1, <2>2, <2>3, <2>5 DEF AddToTarget, PassType
    <3>2. \A k \in DOMAIN avail : Unsent(avail[k]) = {}
      <4>1. CASE pass.target = "fresh"
        BY <4>1 DEF NInv, FreshWhenAllSent
      <4>2. CASE pass.target # "fresh"
        <5>1. p.target = "none" /\ q = p
          BY <1>1, <2>2, <2>3, <2>5, <4>2 DEF PassType
        <5>2. Recyclable = {}
          <6> SUFFICES ASSUME Recyclable # {} PROVE FALSE
            OBVIOUS
          <6>1. Targets(p) = {[p EXCEPT !.target = "recycled", !.key = k] : k \in Firsts(Recyclable)}
            BY <5>1 DEF Targets
          <6>2. PICK k \in Firsts(Recyclable) : q = [p EXCEPT !.target = "recycled", !.key = k]
            BY <2>1, <6>1
          <6> QED
            BY <1>1, <2>5, <6>2 DEF PassType
        <5>3. \A k \in DOMAIN avail : avail[k].acked => Unsent(avail[k]) = {}
          BY <1>0, Parts DEF AckedIsEmpty, Unsent
        <5> QED
          BY <5>2, <5>3 DEF Recyclable, IsSomethingToNotify
      <4> QED
        BY <4>1, <4>2
    <3>3. ModesAreAskedFor' /\ MessageNumberMatches'
      BY <1>0, <1>1, <3>1 DEF NInv, ModesAreAskedFor, MessageNumberMatches
    <3> QED
      BY <3>1, <3>2, <3>3 DEF NInv, OnlyLastUnsent, FreshWhenAllSent
  <2> QED
    BY <2>4, <2>5
<1> QED
  BY <1>2, <1>3

LEMMA SkipItemNumbers == ASSUME NInv, RInv', NEW i \in Item, SkipItem(i) PROVE NInv'
<1>1. /\ pass'.target = pass.target /\ pass'.todo \subseteq pass.todo
      /\ UNCHANGED <<avail, resp, monitored, mode>>
  BY Parts DEF SkipItem, queueVars, itemVars, NInv, RInv, PassType
<1> QED
  BY <1>1, RecordsUntouched DEF NInv, ModesAreAskedFor

LEMMA PassEndNumbers == ASSUME NInv, RInv', PassEnd PROVE NInv'
<1>1. /\ pass'.target = "none" /\ pass'.todo = {} /\ UNCHANGED <<resp, monitored, mode>>
  BY DEF PassEnd, NoPass, queueVars, itemVars
<1>2. ModesAreAskedFor' /\ MessageNumberMatches' /\ FreshWhenAllSent'
  BY <1>1 DEF NInv, ModesAreAskedFor, MessageNumberMatches, FreshWhenAllSent
<1>3. OnlyLastUnsent'
  <2>1. CASE UNCHANGED avail
    BY <2>1 DEF NInv, OnlyLastUnsent
  <2>2. CASE ~UNCHANGED avail
    <3>1. /\ pass.target = "fresh"
          /\ avail' = [k \in DOMAIN avail \cup {NextSeq} |->
                           IF k = NextSeq THEN pass.fresh ELSE avail[k]]
      BY <2>2 DEF PassEnd
    <3>2. NextSeq \in Nat /\ \A k \in DOMAIN avail : k \in Nat /\ k < NextSeq
      BY Parts DEF NInv, RInv, FreshSequenceNumber
    <3> QED
      BY <3>1, <3>2 DEF NInv, FreshWhenAllSent, OnlyLastUnsent
  <2> QED
    BY <2>1, <2>2
<1> QED
  BY <1>2, <1>3 DEF NInv

(* A message takes values from the last record only.                       *)
LEMMA BatchIsOfLast == ASSUME NInv, NEW q \in Batch PROVE q[1] = LastKey
<1>1. PICK k \in Unacked : q \in {k} \X Unsent(avail[k])
  BY DEF Batch, Queue
<1>2. k \in DOMAIN avail /\ q[1] = k /\ Unsent(avail[k]) # {}
  BY <1>1 DEF Unacked
<1>3. LastKey \in DOMAIN avail
  BY <1>2, LastIsUnsent DEF NInv
<1>4. \A l \in DOMAIN avail : l <= LastKey
  BY <1>3, LastIsLargest DEF NInv
<1>5. k <= LastKey /\ k \in Nat /\ LastKey \in Nat
  BY <1>2, <1>3, <1>4, Parts DEF NInv, RInv
<1>6. ~(k < LastKey)
  BY <1>2, <1>3 DEF NInv, OnlyLastUnsent
<1> QED
  BY <1>2, <1>5, <1>6

LEMMA ProcessQueuedPublishRequestNumbers ==
    ASSUME NInv, RInv', ProcessQueuedPublishRequest PROVE NInv'
<1>1. UNCHANGED <<pass, monitored, mode>>
  BY DEF ProcessQueuedPublishRequest, itemVars
<1>2. ModesAreAskedFor'
  BY <1>1 DEF NInv, ModesAreAskedFor
<1>3. CASE Fill /\ Batch # {}
  <2>1. /\ resp'.data = Batch /\ resp'.seq = LastKey
        /\ avail' = [k \in DOMAIN avail |->
                         MarkSent(avail[k], {e \in avail[k].items : <<k, e>> \in Batch})]
    BY <1>3 DEF Fill
  <2>2. MessageNumberMatches'
    BY <2>1, BatchIsOfLast DEF MessageNumberMatches
  <2>3. ASSUME NEW k \in DOMAIN avail, Unsent(avail[k]) = {} PROVE Unsent(avail'[k]) = {}
    <3> DEFINE B == {e \in avail[k].items : <<k, e>> \in Batch}
    <3>1. avail[k] \in Notif /\ avail'[k] = MarkSent(avail[k], B)
      BY <2>1, Parts DEF NInv, RInv
    <3> HIDE DEF B
    <3> QED
      BY <2>3, <3>1, MarkSentEntries
  <2>4. DOMAIN avail' = DOMAIN avail
    BY <2>1
  <2> QED
    BY <1>1, <1>2, <2>2, <2>3, <2>4, NothingBecomesUnsent
<1>4. CASE UNCHANGED avail /\ resp'.data = {}
  BY <1>1, <1>2, <1>4, RecordsUntouched
<1> QED
  BY <1>3, <1>4 DEF ProcessQueuedPublishRequest, Fill, FillDisabled, NoResponse

LEMMA EndSendResponseNumbers == ASSUME NInv, RInv', EndSendResponse PROVE NInv'
<1>1. /\ resp'.data = resp.data /\ resp'.seq = resp.seq
      /\ UNCHANGED <<avail, pass, monitored, mode>>
  BY Parts DEF EndSendResponse, threadVars, itemVars, NInv, RInv, RespType
<1> QED
  BY <1>1, RecordsUntouched DEF NInv, ModesAreAskedFor

LEMMA EndSendResponseFailedNumbers == ASSUME NInv, RInv', EndSendResponseFailed PROVE NInv'
<1>1. resp'.data = {} /\ UNCHANGED <<avail, pass, monitored, mode>>
  BY DEF EndSendResponseFailed, NoResponse, threadVars, itemVars
<1> QED
  BY <1>1, RecordsUntouched DEF NInv, ModesAreAskedFor

LEMMA RemoveAckedNumbers == ASSUME NInv, RInv', RemoveAckedDataChangeNotification PROVE NInv'
<1>1. /\ resp'.data = {} /\ UNCHANGED <<pass, monitored, mode>>
      /\ avail' = [k \in Unacked |-> avail[k]]
  BY DEF RemoveAckedDataChangeNotification, NoResponse, itemVars
<1>2. ModesAreAskedFor' /\ MessageNumberMatches'
  BY <1>1 DEF NInv, ModesAreAskedFor, MessageNumberMatches
<1> QED
  BY <1>1, <1>2, NothingBecomesUnsent DEF Unacked

LEMMA PublishNumbers == ASSUME NInv, RInv', NEW acks, Publish(acks) PROVE NInv'
<1>1. /\ UNCHANGED <<pass, resp, monitored, mode>>
      /\ avail' = [k \in DOMAIN avail |-> IF k \in acks THEN Acknowledge(avail[k]) ELSE avail[k]]
  BY DEF Publish, itemVars
<1>2. ASSUME NEW k \in DOMAIN avail PROVE Unsent(avail'[k]) = Unsent(avail[k])
  <2>1. avail[k] \in Notif
    BY Parts DEF NInv, RInv
  <2>2. avail'[k] = Acknowledge(avail[k]) \/ avail'[k] = avail[k]
    BY <1>1
  <2> QED
    BY <2>1, <2>2, AcknowledgeEntries
<1>3. ModesAreAskedFor' /\ MessageNumberMatches'
  BY <1>1 DEF NInv, ModesAreAskedFor, MessageNumberMatches
<1> QED
  BY <1>1, <1>2, <1>3, NothingBecomesUnsent

LEMMA DeleteMonitoredItemNumbers ==
    ASSUME NInv, RInv', NEW i \in Item, DeleteMonitoredItem(i) PROVE NInv'
<1> DEFINE cleaned == [k \in DOMAIN avail |-> RemoveMonitoredItemNotification(avail[k], i)]
           kept == {k \in DOMAIN avail : ~(cleaned[k].acked /\ cleaned[k].items = {})}
<1>1. /\ ~pass.running /\ UNCHANGED <<pass, resp, mode>> /\ monitored' \subseteq monitored
      /\ avail' = [k \in kept |-> cleaned[k]]
  BY DEF DeleteMonitoredItem, ServiceMayRun, queueVars
<1>2. ASSUME NEW k \in DOMAIN avail PROVE cleaned[k] = avail[k]
  <2>1. avail[k] \in Notif /\ (avail[k].acked <=> avail[k].items = {})
    BY Parts DEF NInv, RInv, AckedIsEmpty
  <2> QED
    BY <2>1, RemoveKeeps
<1> HIDE DEF cleaned
<1>3. DOMAIN avail' \subseteq DOMAIN avail /\ \A k \in DOMAIN avail' : avail'[k] = avail[k]
  BY <1>1, <1>2
<1>4. ModesAreAskedFor' /\ MessageNumberMatches'
  BY <1>1, Parts DEF NInv, RInv, PassIsClean, ModesAreAskedFor, MessageNumberMatches
<1> QED
  BY <1>1, <1>3, <1>4, NothingBecomesUnsent

LEMMA AddMonitoredItemNumbers ==
    ASSUME NInv, RInv', NEW i \in Item, NEW m \in Modes, AddMonitoredItem(i, m) PROVE NInv'
<1>1. /\ UNCHANGED <<avail, pass, resp>> /\ monitored' = monitored \cup {i}
      /\ mode' = [mode EXCEPT ![i] = m] /\ mode \in [Item -> AllModes] /\ monitored \subseteq Item
  BY DEF AddMonitoredItem, threadVars, queueVars, NInv, RInv, IInv, TypeOK
<1>2. ModesAreAskedFor'
  BY <1>1 DEF NInv, ModesAreAskedFor
<1> QED
  BY <1>1, <1>2, RecordsUntouched

LEMMA SetMonitoringModeNumbers ==
    ASSUME NInv, RInv', NEW i \in Item, NEW m \in Modes, SetMonitoringMode(i, m) PROVE NInv'
<1>1. /\ UNCHANGED <<avail, pass, resp, monitored>>
      /\ mode' = [mode EXCEPT ![i] = m] /\ mode \in [Item -> AllModes] /\ monitored \subseteq Item
  BY DEF SetMonitoringMode, threadVars, queueVars, NInv, RInv, IInv, TypeOK
<1>2. ModesAreAskedFor'
  BY <1>1 DEF NInv, ModesAreAskedFor
<1> QED
  BY <1>1, <1>2, RecordsUntouched

(* Steps that touch neither the subscription's items nor its records.      *)
LEMMA NumbersUntouched ==
    ASSUME NInv, RInv', UNCHANGED <<avail, pass, resp, monitored, mode>>
    PROVE  NInv'
<1>1. ModesAreAskedFor'
  BY DEF NInv, ModesAreAskedFor
<1> QED
  BY <1>1, RecordsUntouched

(* Every step keeps the invariant, when no client asks for Sampling.       *)
LEMMA NextNumbers == ASSUME "Sampling" \notin Modes PROVE NInv /\ RInv' /\ [Next]_vars => NInv'
<1> SUFFICES ASSUME NInv, RInv', [Next]_vars PROVE NInv'
  OBVIOUS
<1>1. CASE UpdateThread
  <2>1. ASSUME NEW i \in Item, SampleItem(i) PROVE FALSE
    BY <2>1 DEF SampleItem, NInv, ModesAreAskedFor
  <2> QED
    BY <1>1, <2>1, PassBeginNumbers, CompareItemNumbers, SkipItemNumbers, PassEndNumbers
       DEF UpdateThread
<1>2. CASE NotificationThread
  BY <1>2, ProcessQueuedPublishRequestNumbers, EndSendResponseNumbers,
     EndSendResponseFailedNumbers, RemoveAckedNumbers DEF NotificationThread
<1>3. CASE Services
  <2>1. ASSUME NEW k \in offered, Republish(k) PROVE NInv'
    BY <2>1, NumbersUntouched DEF Republish, itemVars, threadVars, queueVars
  <2>2. ASSUME NEW b \in BOOLEAN, SetPublishingMode(b) PROVE NInv'
    BY <2>2, NumbersUntouched DEF SetPublishingMode, itemVars, threadVars, queueVars
  <2> QED
    BY <1>3, <2>1, <2>2, PublishNumbers, SetMonitoringModeNumbers, AddMonitoredItemNumbers,
       DeleteMonitoredItemNumbers DEF Services
<1>4. CASE Environment
  <2>1. ASSUME NEW i \in Item, NEW v \in Value, Write(i, v) PROVE NInv'
    BY <2>1, NumbersUntouched DEF Write, itemVars, threadVars, queueVars
  <2>2. ASSUME KeepAliveElapses PROVE NInv'
    BY <2>2, NumbersUntouched DEF KeepAliveElapses, itemVars, threadVars, queueVars
  <2> QED
    BY <1>4, <2>1, <2>2 DEF Environment
<1>5. CASE UNCHANGED vars
  BY <1>5, NumbersUntouched DEF vars, itemVars, threadVars, queueVars
<1> QED
  BY <1>1, <1>2, <1>3, <1>4, <1>5 DEF Next

LEMMA InitNumbers == Init => NInv
<1> SUFFICES ASSUME Init PROVE NInv
  OBVIOUS
<1>1. DOMAIN avail = {} /\ pass = NoPass /\ resp = NoResponse /\ monitored = {}
  BY DEF Init
<1>2. ModesAreAskedFor /\ OnlyLastUnsent /\ FreshWhenAllSent /\ MessageNumberMatches
  BY <1>1 DEF NoPass, NoResponse, ModesAreAskedFor, OnlyLastUnsent, FreshWhenAllSent,
              MessageNumberMatches
<1> QED
  BY <1>2, InitRetains DEF NInv

(* The values of a message come from the record its number acknowledges,   *)
(* where no item is in Sampling mode: SampleItem fills a fresh record      *)
(* while an older one may have unsent values.                              *)
THEOREM NumberOfMessage ==
    ASSUME "Sampling" \notin Modes
    PROVE  Spec => []MessageNumberMatches
<1>1. NInv /\ [Next]_vars => NInv'
  BY NextKeeps, NextRetains, NextNumbers DEF NInv, RInv
<1>2. NInv => MessageNumberMatches
  BY DEF NInv
<1> QED
  BY <1>1, <1>2, InitNumbers, PTL DEF Spec

-----------------------------------------------------------------------------
(* The value last detected for an item is never lost: where a response     *)
(* takes everything that is queued and the comparison of reports sees the  *)
(* timestamps, a client that acknowledges a message gives up values only   *)
(* that it has, whatever transmission failed before.                       *)

(* What a response takes, it takes of the whole record.                    *)
WholeRecords ==
    \A k \in DOMAIN avail : Unsent(avail[k]) = {} \/ \A e \in avail[k].items : ~e.sent

(* The records the client heard of, or is about to, have all been sent, so *)
(* that no later value joins them.                                         *)
Told == toAck \cup offered \cup resp.list
ToldIsSent == \A k \in Told : k < NextSeq /\ (k \in DOMAIN avail => Unsent(avail[k]) = {})

(* The client has every value of a record it may acknowledge.              *)
Delivered == \A k \in toAck : \A e \in avail[k].items : client[e.item].at >= e.smp.at

(* A message holds every value of the record whose number it carries.      *)
OnItsWay ==
    resp.phase = "filled" /\ resp.data # {} =>
        /\ resp.seq \in resp.list
        /\ \A e \in avail[resp.seq].items :
              \E q \in resp.data : q[2].item = e.item /\ q[2].smp = e.smp

(* Only a fresh target holds values.                                       *)
FreshIsTarget == pass.target # "fresh" => pass.fresh.items = {}

(* The inductive invariant.                                                *)
LInv == /\ RInv
        /\ WholeRecords
        /\ ToldIsSent
        /\ Delivered
        /\ OnItsWay
        /\ IsFiniteSet(resp.data)
        /\ FreshIsTarget
        /\ \A i \in Item : Retained(i)

-----------------------------------------------------------------------------
(* Entries and samples.                                                    *)

(* An item with entries has a last one.                                    *)
LEMMA NewestExists ==
    ASSUME NEW n \in Notif, NEW i \in Item, IsFiniteSet(n.items), Of(n, i) # {}
    PROVE  \E e \in Of(n, i) : IsNewest(e, Of(n, i))
<1> DEFINE f == [e \in Of(n, i) |-> e.pos]
           S == {f[e] : e \in Of(n, i)}
<1>1. IsFiniteSet(Of(n, i)) /\ Of(n, i) \subseteq Entry(Sample)
  BY FS_Subset, NotifParts DEF Of
<1>2. IsFiniteSet(S)
  <2>1. DOMAIN f = Of(n, i) /\ f = [x \in DOMAIN f |-> f[x]]
    OBVIOUS
  <2> HIDE DEF f
  <2> QED
    BY <1>1, <2>1, FiniteRange
<1>3. \A e \in Of(n, i) : f[e] = e.pos /\ e.pos \in Nat
  BY <1>1 DEF Entry
<1> HIDE DEF f
<1>4. S \in SUBSET Nat /\ S # {}
  BY <1>3
<1>5. PICK x \in S : \A y \in S : y <= x
  BY <1>2, <1>4, FiniteHasLast
<1>6. PICK e \in Of(n, i) : x = f[e]
  OBVIOUS
<1> QED
  BY <1>3, <1>5, <1>6 DEF IsNewest

(* A queued sample has an entry of its time, and no entry of another item  *)
(* leaves the record.                                                      *)
LEMMA AddRetains ==
    ASSUME Timestamps, NEW n \in Notif, Backed(n), IsFiniteSet(n.items),
           NEW i \in Item, NEW s \in Sample, NEW qs \in Nat, NEW d \in BOOLEAN,
           NEW m, m = AddMonitoredItemNotification(n, i, s, qs, d)
    PROVE  /\ \E f \in Of(m, i) : f.smp.at = s.at
           /\ \A j \in Item : j # i => Of(n, j) \subseteq Of(m, j)
<1> DEFINE z == Flagged(n, i, s, qs)
           e0 == NewEntry(n, i, z)
<1>1. \/ m = n /\ IsAlreadyInTheTransmissionList(n, i, s)
      \/ m.items = n.items \cup {e0}
      \/ m.items = DropOldest(n, i) \cup {e0}
      \/ m.items = OverwriteNewest(n, i, z) /\ Full(n, i, qs)
  BY AddOutcomes DEF Made
<1>2. z.at = s.at /\ z \in Sample
  BY FlaggedIsSample DEF Flagged, Sample
<1> HIDE DEF z
<1>3. e0.item = i /\ e0.smp.at = s.at
  BY <1>2 DEF NewEntry
<1> HIDE DEF e0
<1>4. CASE m = n /\ IsAlreadyInTheTransmissionList(n, i, s)
  BY <1>4 DEF IsAlreadyInTheTransmissionList, SameReport
<1>5. CASE m.items = n.items \cup {e0}
  BY <1>3, <1>5 DEF Of
<1>6. CASE m.items = DropOldest(n, i) \cup {e0}
  BY <1>3, <1>6 DEF Of, DropOldest, IsOldest
<1>7. CASE m.items = OverwriteNewest(n, i, z) /\ Full(n, i, qs)
  <2>1. Of(n, i) # {}
    BY <1>7, NotifParts DEF Full, Backed
  <2>2. PICK e \in Of(n, i) : IsNewest(e, Of(n, i))
    BY <2>1, NewestExists
  <2>3. e \in n.items /\ e \in Entry(Sample) /\ e.item = i
    BY <2>2, NotifParts DEF Of
  <2>4. Overwritten(n, i, z, e) \in m.items
    BY <1>7, <2>3 DEF OverwriteNewest
  <2>5. Overwritten(n, i, z, e).item = i /\ Overwritten(n, i, z, e).smp = z
    BY <2>2, <2>3 DEF Overwritten, Entry
  <2>6. \A g \in n.items : g.item # i => Overwritten(n, i, z, g) = g
    BY DEF Overwritten, IsNewest, Of
  <2>7. \A g \in n.items : g.item # i => g \in m.items
    BY <1>7, <2>6 DEF OverwriteNewest
  <2> QED
    BY <1>2, <2>4, <2>5, <2>7 DEF Of
<1> QED
  BY <1>1, <1>4, <1>5, <1>6, <1>7 DEF Made

(* Marking entries as sent keeps their items and samples.                  *)
LEMMA MarkSentSamples ==
    ASSUME NEW n \in Notif, NEW B
    PROVE  /\ \A e \in n.items : \E g \in MarkSent(n, B).items : g.item = e.item /\ g.smp = e.smp
           /\ \A g \in MarkSent(n, B).items : \E e \in n.items : g.item = e.item /\ g.smp = e.smp
<1> DEFINE mark(e) == IF e \in B THEN [e EXCEPT !.sent = TRUE] ELSE e
<1>1. MarkSent(n, B).items = {mark(e) : e \in n.items}
  <2>1. MarkSent(n, B) = [n EXCEPT !.items = {mark(e) : e \in n.items}]
    BY Zenon DEF MarkSent
  <2> HIDE DEF mark
  <2>2. [n EXCEPT !.items = {mark(e) : e \in n.items}].items = {mark(e) : e \in n.items}
    BY DEF Notif, Notification
  <2> QED
    BY <2>1, <2>2
<1>2. ASSUME NEW e \in n.items PROVE mark(e).item = e.item /\ mark(e).smp = e.smp
  <2>1. e \in Entry(Sample)
    BY NotifParts
  <2> QED
    BY <2>1 DEF Entry
<1> HIDE DEF mark
<1> QED
  BY <1>1, <1>2

(* What the client keeps of some entries is as new as each of them.        *)
LEMMA NewestOfIsNewest ==
    ASSUME NEW E \in SUBSET Entry(Sample), IsFiniteSet(E), NEW i, NEW s \in Sample
    PROVE  /\ NewestOf(E, i, s).at \in Nat
           /\ NewestOf(E, i, s).at >= s.at
           /\ \A e \in E : e.item = i => NewestOf(E, i, s).at >= e.smp.at
<1> DEFINE latest == {e \in E : /\ e.item = i
                                /\ e.smp.at > s.at
                                /\ \A f \in E : f.item = i => f.smp.at <= e.smp.at}
           mine == {e \in E : e.item = i}
           f == [e \in mine |-> e.smp.at]
           S == {f[e] : e \in mine}
<1>0. s.at \in Nat /\ \A e \in E : e.smp.at \in Nat
  BY DEF Entry, Sample
<1>1. CASE latest # {}
  <2>1. NewestOf(E, i, s) = (CHOOSE e \in latest : TRUE).smp
    BY <1>1 DEF NewestOf
  <2>2. PICK e \in latest : NewestOf(E, i, s) = e.smp
    BY <1>1, <2>1
  <2> QED
    BY <1>0, <2>2
<1>2. CASE latest = {}
  <2>1. NewestOf(E, i, s) = s
    BY <1>2 DEF NewestOf
  <2>2. CASE mine = {}
    BY <1>0, <2>1, <2>2
  <2>3. CASE mine # {}
    <3>1. IsFiniteSet(S)
      <4>1. IsFiniteSet(mine) /\ DOMAIN f = mine /\ f = [x \in DOMAIN f |-> f[x]]
        BY FS_Subset
      <4> HIDE DEF f
      <4> QED
        BY <4>1, FiniteRange
    <3>2. \A e \in mine : f[e] = e.smp.at /\ e.smp.at \in Nat
      BY <1>0
    <3> HIDE DEF f
    <3>3. S \in SUBSET Nat /\ S # {}
      BY <2>3, <3>2
    <3>4. PICK x \in S : \A y \in S : y <= x
      BY <3>1, <3>3, FiniteHasLast
    <3>5. PICK e \in mine : x = f[e]
      OBVIOUS
    <3>6. \A g \in mine : g.smp.at <= e.smp.at
      BY <3>2, <3>4, <3>5
    <3>7. ~(e.smp.at > s.at)
      BY <1>2, <3>6
    <3> QED
      BY <1>0, <2>1, <3>6, <3>7
  <2> QED
    BY <2>2, <2>3
<1> QED
  BY <1>1, <1>2

-----------------------------------------------------------------------------
(* The inductive invariant, action by action.                              *)

LEMMA LParts ==
    ASSUME LInv
    PROVE  /\ RInv /\ IInv
           /\ avail \in [DOMAIN avail -> Notif] /\ DOMAIN avail \subseteq Nat
           /\ client \in [Item -> Sample] /\ last \in [Item -> Sample]
           /\ pass.fresh \in Notif /\ NextSeq \in Nat
           /\ \A k \in DOMAIN avail : avail[k].items \subseteq Entry(Sample)
           /\ \A k \in DOMAIN avail : IsFiniteSet(avail[k].items)
           /\ \A i \in Item : client[i].at \in Nat
<1>1. RInv /\ IInv
  BY DEF LInv, RInv
<1>2. /\ avail \in [DOMAIN avail -> Notif] /\ DOMAIN avail \subseteq Nat
      /\ client \in [Item -> Sample] /\ last \in [Item -> Sample]
      /\ pass.fresh \in Notif /\ NextSeq \in Nat
  BY <1>1, Parts DEF TypeOK, PassType
<1>3. \A k \in DOMAIN avail : avail[k].items \subseteq Entry(Sample)
  BY <1>2, NotifParts
<1>4. \A i \in Item : client[i].at \in Nat
  BY <1>2 DEF Sample
<1> QED
  BY <1>1, <1>2, <1>3, <1>4 DEF RInv, FiniteQueue

(* Steps that leave the records alone: the client may have newer samples.  *)
LEMMA SameRecords ==
    ASSUME LInv, RInv', UNCHANGED <<avail, currentSeq>>,
           pass'.fresh.items = pass.fresh.items, FreshIsTarget',
           Told' \subseteq Told, Delivered', OnItsWay', IsFiniteSet(resp'.data),
           \A i \in Item : last'[i] = last[i] \/ last'[i].at = 0,
           \A i \in Item : client'[i].at \in Nat /\ client'[i].at >= client[i].at
    PROVE  LInv'
<1>1. WholeRecords'
  BY DEF LInv, WholeRecords
<1>2. ToldIsSent'
  BY DEF LInv, ToldIsSent, NextSeq
<1>3. ASSUME NEW i \in Item PROVE Retained(i)'
  <2>1. Retained(i) /\ client[i].at \in Nat /\ last[i].at \in Nat
    BY LParts DEF LInv, Sample
  <2>2. CASE last'[i].at = 0
    BY <2>2 DEF Retained
  <2>3. CASE last'[i] = last[i]
    <3>1. CASE client[i].at >= last[i].at
      BY <2>1, <2>3, <3>1 DEF Retained
    <3>2. CASE \E k \in Unacked : \E e \in Of(avail[k], i) : e.smp.at = last[i].at
      BY <2>3, <3>2 DEF Retained, Unacked
    <3>3. CASE \E e \in Of(pass.fresh, i) : e.smp.at = last[i].at
      BY <2>3, <3>3 DEF Retained, Of
    <3> QED
      BY <2>1, <3>1, <3>2, <3>3 DEF Retained
  <2> QED
    BY <2>2, <2>3
<1> QED
  BY <1>1, <1>2, <1>3 DEF LInv

(* Steps that leave the response and the client alone as well.             *)
LEMMA SameClient ==
    ASSUME LInv, RInv', UNCHANGED <<avail, currentSeq, resp, toAck, offered, client>>,
           pass'.fresh.items = pass.fresh.items, pass'.target = "fresh" <=> pass.target = "fresh",
           \A i \in Item : last'[i] = last[i] \/ last'[i].at = 0
    PROVE  LInv'
<1>1. FreshIsTarget' /\ Told' \subseteq Told /\ Delivered' /\ OnItsWay' /\ IsFiniteSet(resp'.data)
  BY DEF LInv, FreshIsTarget, Told, Delivered, OnItsWay
<1>2. \A i \in Item : client'[i].at \in Nat /\ client'[i].at >= client[i].at
  BY LParts
<1> QED
  BY <1>1, <1>2, SameRecords

(* Steps that only delete acknowledged records.                            *)
LEMMA AckedGone ==
    ASSUME LInv, RInv', UNCHANGED <<pass, currentSeq, toAck, offered, client, last>>,
           resp'.phase # "filled", resp'.list \subseteq resp.list, IsFiniteSet(resp'.data),
           DOMAIN avail' \subseteq DOMAIN avail, Unacked \subseteq DOMAIN avail',
           \A k \in DOMAIN avail' : avail'[k] = avail[k]
    PROVE  LInv'
<1>1. WholeRecords' /\ FreshIsTarget' /\ OnItsWay'
  BY DEF LInv, WholeRecords, FreshIsTarget, OnItsWay
<1>2. ToldIsSent'
  BY DEF LInv, ToldIsSent, Told, NextSeq
<1>3. toAck \subseteq DOMAIN avail'
  BY DEF LInv, RInv, Retransmittable
<1>4. Delivered'
  BY <1>3 DEF LInv, Delivered
<1>5. Unacked' = Unacked
  BY DEF Unacked
<1>6. ASSUME NEW i \in Item PROVE Retained(i)'
  <2>1. Retained(i)
    BY DEF LInv
  <2> QED
    BY <1>5, <2>1 DEF Retained
<1> QED
  BY <1>1, <1>2, <1>4, <1>6 DEF LInv

(* Queueing a sample in the target of the pass: the sample becomes the one *)
(* last detected, or is it already.                                        *)
LEMMA QueueingRetains ==
    ASSUME LInv, RInv', Timestamps, NEW q \in PassType, q.fresh = pass.fresh,
           q.target # pass.target => q.target = "recycled" /\ pass.target = "none",
           q.target = "recycled" => q.key \in DOMAIN avail /\ IsSomethingToNotify(avail[q.key]),
           NEW i \in Item, NEW s \in Sample, NEW qs \in Nat, NEW d \in BOOLEAN,
           AddToTarget(q, i, s, qs, d),
           UNCHANGED <<currentSeq, resp, toAck, offered, client>>,
           last'[i].at = s.at, \A j \in Item : j # i => last'[j] = last[j]
    PROVE  LInv'
<1>0. Told' = Told /\ IsFiniteSet(resp'.data) /\ \A j \in Item : Retained(j)
  BY DEF LInv, Told
<1>1. CASE q.target = "recycled"
  <2> DEFINE n == avail[q.key]
             m == AddMonitoredItemNotification(n, i, s, qs, d)
  <2>1. /\ q.key \in DOMAIN avail /\ n \in Notif /\ IsSomethingToNotify(n) /\ IsFiniteSet(n.items)
        /\ Backed(n) /\ IInv
    BY <1>1, LParts, Parts DEF CountIsBacked
  <2>2. /\ m.acked = n.acked /\ IsSomethingToNotify(m)
        /\ (\A e \in n.items : ~e.sent) => \A e \in m.items : ~e.sent
    BY <2>1, AddKeeps, AddEntries
  <2>3. /\ \E f \in Of(m, i) : f.smp.at = s.at
        /\ \A j \in Item : j # i => Of(n, j) \subseteq Of(m, j)
    BY <2>1, AddRetains
  <2>4. pass' = q /\ avail' = [avail EXCEPT ![q.key] = m]
    BY <1>1 DEF AddToTarget
  <2> HIDE DEF m
  <2>5. /\ DOMAIN avail' = DOMAIN avail /\ avail'[q.key] = m
        /\ \A k \in DOMAIN avail : k # q.key => avail'[k] = avail[k]
    BY <2>1, <2>4
  <2>6. Unsent(n) # {} /\ ~n.acked
    BY <2>1 DEF IsSomethingToNotify
  <2>7. q.key \notin Told
    BY <2>1, <2>6 DEF LInv, ToldIsSent
  <2> HIDE DEF n
  <2>8. WholeRecords'
    BY <2>1, <2>2, <2>5, <2>6 DEF LInv, WholeRecords, n
  <2>9. ToldIsSent'
    BY <1>0, <2>5, <2>7 DEF LInv, ToldIsSent, NextSeq
  <2>10. toAck \subseteq DOMAIN avail
    BY DEF LInv, RInv, Retransmittable, Unacked
  <2>11. Delivered'
    BY <2>5, <2>7, <2>10 DEF LInv, Delivered, Told
  <2>12. OnItsWay'
    <3>1. ASSUME resp.phase = "filled", resp.data # {}
          PROVE  resp.seq \in DOMAIN avail /\ resp.seq # q.key
      BY <2>7, <3>1 DEF LInv, OnItsWay, Told, RInv, NumberIsUnacked, Unacked
    <3>2. ASSUME resp.phase = "filled", resp.data # {}
          PROVE  avail'[resp.seq] = avail[resp.seq]
      BY <2>5, <3>1, <3>2
    <3> QED
      BY <3>2 DEF LInv, OnItsWay
  <2>13. FreshIsTarget'
    BY <1>1, <2>4 DEF LInv, FreshIsTarget
  <2>14. Unacked' = Unacked /\ q.key \in Unacked
    BY <2>1, <2>2, <2>5, <2>6 DEF Unacked, n
  <2>15. ASSUME NEW j \in Item PROVE Retained(j)'
    <3>1. CASE j = i
      BY <2>3, <2>5, <2>14, <3>1 DEF Retained
    <3>2. CASE j # i
      <4>1. \A k \in Unacked : Of(avail[k], j) \subseteq Of(avail'[k], j)
        BY <2>3, <2>5, <3>2 DEF Unacked, n
      <4>2. Of(pass'.fresh, j) = Of(pass.fresh, j) /\ last'[j] = last[j]
        BY <2>4, <3>2
      <4> QED
        BY <1>0, <2>14, <4>1, <4>2 DEF Retained
    <3> QED
      BY <3>1, <3>2
  <2> QED
    BY <1>0, <2>8, <2>9, <2>11, <2>12, <2>13, <2>15 DEF LInv
<1>2. CASE q.target # "recycled"
  <2> DEFINE m == AddMonitoredItemNotification(pass.fresh, i, s, qs, d)
  <2>1. pass.fresh \in Notif /\ IsFiniteSet(pass.fresh.items) /\ Backed(pass.fresh)
    BY LParts, Parts DEF PassIsClean, RInv, FiniteQueue
  <2>2. /\ \E f \in Of(m, i) : f.smp.at = s.at
        /\ \A j \in Item : j # i => Of(pass.fresh, j) \subseteq Of(m, j)
    BY <2>1, AddRetains
  <2>3. pass' = [q EXCEPT !.target = "fresh", !.fresh = m] /\ avail' = avail
    BY <1>2 DEF AddToTarget
  <2> HIDE DEF m
  <2>4. pass'.fresh = m /\ pass'.target = "fresh"
    BY <2>3 DEF PassType
  <2>5. WholeRecords' /\ ToldIsSent' /\ Delivered' /\ OnItsWay' /\ FreshIsTarget'
    BY <1>0, <2>3, <2>4 DEF LInv, WholeRecords, ToldIsSent, Delivered, OnItsWay, FreshIsTarget, NextSeq
  <2>6. ASSUME NEW j \in Item PROVE Retained(j)'
    <3>1. CASE j = i
      BY <2>2, <2>4, <3>1 DEF Retained
    <3>2. CASE j # i
      BY <1>0, <2>2, <2>3, <2>4, <3>2 DEF Retained, Unacked
    <3> QED
      BY <3>1, <3>2
  <2> QED
    BY <1>0, <2>5, <2>6 DEF LInv
<1> QED
  BY <1>1, <1>2

LEMMA PassBeginLatest == ASSUME LInv, RInv', PassBegin PROVE LInv'
<1>1. /\ ~pass.running /\ pass'.fresh = EmptyNotification /\ pass'.target = "none"
      /\ UNCHANGED <<avail, currentSeq, resp, toAck, offered, client, last>>
  BY DEF PassBegin, NoPass, queueVars, clientVars, itemVars
<1>2. pass.target = "none"
  BY <1>1, LParts, Parts DEF PassIsClean
<1>3. pass'.fresh.items = pass.fresh.items
  BY <1>1, <1>2 DEF EmptyNotification, LInv, FreshIsTarget
<1> QED
  BY <1>1, <1>2, <1>3, SameClient

LEMMA CompareItemLatest == ASSUME Timestamps, LInv, RInv', NEW i \in Item, CompareItem(i) PROVE LInv'
<1>0. /\ i \in pass.todo /\ UNCHANGED <<currentSeq, resp, toAck, offered, client>>
      /\ source[i] \in Sample /\ last \in [Item -> Sample]
  BY LParts DEF CompareItem, queueVars, clientVars, IInv, TypeOK
<1>1. CASE Differs(i)
  <2>1. PICK q \in Targets([pass EXCEPT !.todo = @ \ {i}]) :
            /\ AddToTarget(q, i, source[i], QueueSize, DiscardOldest)
            /\ last' = [last EXCEPT ![i] = Flagged(TargetRecord(q), i, source[i], QueueSize)]
    BY <1>1 DEF CompareItem
  <2>2. /\ q \in PassType /\ q.fresh = pass.fresh
        /\ q.target # pass.target => q.target = "recycled" /\ pass.target = "none"
        /\ q.target = "recycled" => q.key \in DOMAIN avail /\ IsSomethingToNotify(avail[q.key])
    BY <1>0, LParts, TargetOf
  <2>3. Flagged(TargetRecord(q), i, source[i], QueueSize).at = source[i].at
    BY <1>0 DEF Flagged, Sample
  <2>4. last'[i].at = source[i].at /\ \A j \in Item : j # i => last'[j] = last[j]
    BY <1>0, <2>1, <2>3
  <2> QED
    BY <1>0, <2>1, <2>2, <2>4, QueueingRetains, ConstantsAssumption
<1>2. CASE ~Differs(i)
  <2>1. pass' = [pass EXCEPT !.todo = @ \ {i}] /\ UNCHANGED <<avail, last>>
    BY <1>2 DEF CompareItem
  <2>2. pass'.fresh = pass.fresh /\ pass'.target = pass.target
    BY <2>1, LParts, Parts DEF PassType
  <2> QED
    BY <1>0, <2>1, <2>2, SameClient
<1> QED
  BY <1>1, <1>2

LEMMA SampleItemLatest == ASSUME Timestamps, LInv, RInv', NEW i \in Item, SampleItem(i) PROVE LInv'
<1> DEFINE p == [pass EXCEPT !.todo = @ \ {i}]
<1>1. /\ AddToTarget(p, i, last[i], 0, FALSE)
      /\ UNCHANGED <<currentSeq, resp, toAck, offered, client, last>>
      /\ last[i] \in Sample
  BY LParts DEF SampleItem, queueVars, clientVars, itemVars
<1>2. /\ p \in PassType /\ p.target = pass.target /\ p.key = pass.key /\ p.fresh = pass.fresh
  BY LParts, Parts DEF PassType
<1> HIDE DEF p
<1>3. p.target = "recycled" => p.key \in DOMAIN avail /\ IsSomethingToNotify(avail[p.key])
  BY <1>2, LParts, Parts DEF RecycledRecordIsLive
<1> QED
  BY <1>1, <1>2, <1>3, QueueingRetains

LEMMA SkipItemLatest == ASSUME LInv, RInv', NEW i \in Item, SkipItem(i) PROVE LInv'
<1>1. /\ pass'.fresh = pass.fresh /\ pass'.target = pass.target
      /\ UNCHANGED <<avail, currentSeq, resp, toAck, offered, client, last>>
  BY LParts, Parts DEF SkipItem, PassType, queueVars, clientVars, itemVars
<1> QED
  BY <1>1, SameClient

(* The fresh record enters the map whole, under a number no message had.   *)
LEMMA PassEndLatest == ASSUME LInv, RInv', PassEnd PROVE LInv'
<1>1. pass' = NoPass /\ UNCHANGED <<resp, toAck, offered, client, last>>
  BY DEF PassEnd, queueVars, clientVars, itemVars
<1>2. pass'.fresh.items = {} /\ FreshIsTarget'
  BY <1>1 DEF NoPass, EmptyNotification, FreshIsTarget
<1>3. /\ \A k \in DOMAIN avail : k \in Nat /\ k < NextSeq
      /\ NextSeq \in Nat /\ NextSeq \notin DOMAIN avail /\ ~pass.fresh.acked
      /\ NextSeq # 0
  BY LParts, Parts DEF FreshSequenceNumber, PassIsClean
<1>4. CASE pass.fresh.items = {}
  <2>1. UNCHANGED <<avail, currentSeq>>
    BY <1>4 DEF PassEnd
  <2>2. Told' \subseteq Told /\ Delivered' /\ OnItsWay' /\ IsFiniteSet(resp'.data)
    BY <1>1, <2>1 DEF LInv, Told, Delivered, OnItsWay
  <2>3. \A i \in Item : client'[i].at \in Nat /\ client'[i].at >= client[i].at
    BY <1>1, LParts
  <2> QED
    BY <1>1, <1>2, <1>4, <2>1, <2>2, <2>3, SameRecords
<1>5. CASE pass.fresh.items # {}
  <2>1. /\ avail' = [k \in DOMAIN avail \cup {NextSeq} |->
                         IF k = NextSeq THEN pass.fresh ELSE avail[k]]
        /\ currentSeq' = NextSeq + 1
    BY <1>3, <1>5 DEF PassEnd, LInv, FreshIsTarget
  <2>2. /\ DOMAIN avail' = DOMAIN avail \cup {NextSeq}
        /\ avail'[NextSeq] = pass.fresh
        /\ \A k \in DOMAIN avail : avail'[k] = avail[k]
    BY <1>3, <2>1
  <2>3. NextSeq' = NextSeq + 1
    BY <1>3, <2>1 DEF NextSeq
  <2>4. WholeRecords'
    BY <2>2 DEF LInv, RInv, FreshUnsent, WholeRecords
  <2>5. ToldIsSent'
    <3>1. Told' = Told
      BY <1>1 DEF Told
    <3>2. \A k \in Told : k \in Nat /\ k < NextSeq
      BY LParts, Parts DEF LInv, ToldIsSent, Told, TypeOK, RespType
    <3> QED
      BY <1>3, <2>2, <2>3, <3>1, <3>2 DEF LInv, ToldIsSent
  <2>6. toAck \subseteq DOMAIN avail
    BY DEF LInv, RInv, Retransmittable, Unacked
  <2>7. Delivered'
    BY <1>1, <2>2, <2>6 DEF LInv, Delivered
  <2>8. OnItsWay'
    BY <1>1, <2>2 DEF LInv, RInv, NumberIsUnacked, Unacked, OnItsWay
  <2>9. ASSUME NEW i \in Item PROVE Retained(i)'
    <3>1. Unacked' = Unacked \cup {NextSeq}
      BY <1>3, <2>2 DEF Unacked
    <3>2. Retained(i) /\ \A k \in Unacked : k \in DOMAIN avail
      BY DEF LInv, Unacked
    <3>3. \A k \in Unacked : avail'[k] = avail[k]
      BY <2>2, <3>2
    <3> QED
      BY <1>1, <2>2, <3>1, <3>2, <3>3 DEF Retained
  <2> QED
    BY <1>1, <1>2, <2>4, <2>5, <2>7, <2>8, <2>9 DEF LInv
<1> QED
  BY <1>4, <1>5

(* A response takes everything that is queued.                             *)
LEMMA BatchIsQueue ==
    ASSUME MaxNotificationsPerPublish = 0, IInv, NEW k \in DOMAIN avail, NEW e \in Unsent(avail[k])
    PROVE  <<k, e>> \in Batch
<1>1. k \in Unacked
  BY UnsentIsUnacked
<1> QED
  BY <1>1 DEF Batch, Queue

LEMMA ProcessQueuedPublishRequestLatest ==
    ASSUME MaxNotificationsPerPublish = 0, LInv, RInv', ProcessQueuedPublishRequest
    PROVE  LInv'
<1>0. resp.phase = "none" /\ UNCHANGED <<pass, currentSeq, toAck, offered, client, last>>
  BY DEF ProcessQueuedPublishRequest, clientVars, itemVars
<1>a. FreshIsTarget'
  BY <1>0 DEF LInv, FreshIsTarget
<1>b. \A k \in DOMAIN avail : k \in Nat /\ k < NextSeq
  BY LParts, Parts DEF FreshSequenceNumber
<1>1. CASE UNCHANGED avail /\ resp'.data = {} /\ \A k \in resp'.list : k \in Unacked /\ Batch = {}
  <2>1. ASSUME NEW k \in resp'.list PROVE k < NextSeq /\ (k \in DOMAIN avail => Unsent(avail[k]) = {})
    <3>1. k \in DOMAIN avail /\ Batch = {}
      BY <1>1, <2>1 DEF Unacked
    <3>2. Unsent(avail[k]) = {}
      BY <3>1, LParts, BatchIsQueue
    <3> QED
      BY <1>b, <3>1, <3>2
  <2>2. ToldIsSent'
    BY <1>0, <1>1, <2>1 DEF LInv, ToldIsSent, Told, NextSeq
  <2>3. WholeRecords' /\ Delivered' /\ OnItsWay'
    BY <1>0, <1>1 DEF LInv, WholeRecords, Delivered, OnItsWay
  <2>4. IsFiniteSet(resp'.data)
    BY <1>1, FS_EmptySet
  <2>5. \A i \in Item : Retained(i)'
    BY <1>0, <1>1 DEF LInv, Retained, Unacked
  <2> QED
    BY <1>a, <2>2, <2>3, <2>4, <2>5 DEF LInv
<1>2. CASE /\ Batch # {}
           /\ resp' = [phase |-> "filled", seq |-> LastKey, data |-> Batch, list |-> Unacked]
           /\ avail' = [k \in DOMAIN avail |->
                            MarkSent(avail[k], {e \in avail[k].items : <<k, e>> \in Batch})]
  <2> DEFINE B(k) == {e \in avail[k].items : <<k, e>> \in Batch}
  <2>1. ASSUME NEW k \in DOMAIN avail
        PROVE  /\ Unsent(avail'[k]) = {}
               /\ avail'[k].acked = avail[k].acked
               /\ \A e \in avail[k].items : \E g \in avail'[k].items : g.item = e.item /\ g.smp = e.smp
               /\ \A g \in avail'[k].items : \E e \in avail[k].items : g.item = e.item /\ g.smp = e.smp
    <3>1. avail[k] \in Notif /\ avail'[k] = MarkSent(avail[k], B(k)) /\ Backed(avail[k])
      BY <1>2, LParts, Parts DEF CountIsBacked
    <3>2. Unsent(avail[k]) \subseteq B(k)
      BY LParts, BatchIsQueue DEF Unsent
    <3> HIDE DEF B
    <3> QED
      BY <3>1, <3>2, MarkSentKeeps, MarkSentEntries, MarkSentSamples
  <2> HIDE DEF B
  <2>2. DOMAIN avail' = DOMAIN avail
    BY <1>2
  <2>3. Unacked' = Unacked
    BY <2>1, <2>2 DEF Unacked
  <2>4. WholeRecords'
    BY <2>1, <2>2 DEF WholeRecords
  <2>5. ToldIsSent'
    <3>1. \A k \in Told' : k \in Told \/ k \in DOMAIN avail
      BY <1>0, <1>2 DEF Told, Unacked
    <3>2. NextSeq' = NextSeq
      BY <1>0 DEF NextSeq
    <3> QED
      BY <1>b, <2>1, <2>2, <3>1, <3>2 DEF LInv, ToldIsSent
  <2>6. toAck \subseteq DOMAIN avail
    BY DEF LInv, RInv, Retransmittable, Unacked
  <2>7. Delivered'
    <3> SUFFICES ASSUME NEW k \in toAck, NEW g \in avail'[k].items
                 PROVE  client[g.item].at >= g.smp.at
      BY <1>0 DEF Delivered
    <3>1. PICK e \in avail[k].items : g.item = e.item /\ g.smp = e.smp
      BY <2>1, <2>6
    <3> QED
      BY <3>1 DEF LInv, Delivered
  <2>8. OnItsWay'
    <3>1. PICK k \in DOMAIN avail : Unsent(avail[k]) # {}
      BY <1>2 DEF Batch, Queue, Unacked
    <3>2. LastKey \in DOMAIN avail /\ Unsent(avail[LastKey]) # {} /\ LastKey \in Unacked
      BY <3>1, LParts, LastIsUnsent, UnsentIsUnacked
    <3>3. \A e \in avail[LastKey].items : e \in Unsent(avail[LastKey])
      BY <3>2 DEF LInv, WholeRecords, Unsent
    <3>4. \A e \in avail[LastKey].items : <<LastKey, e>> \in Batch
      BY <3>2, <3>3, LParts, BatchIsQueue
    <3>5. ASSUME NEW g \in avail'[LastKey].items
          PROVE  \E q \in Batch : q[2].item = g.item /\ q[2].smp = g.smp
      <4>1. PICK e \in avail[LastKey].items : g.item = e.item /\ g.smp = e.smp
        BY <2>1, <3>2
      <4>2. <<LastKey, e>> \in Batch /\ <<LastKey, e>>[2] = e
        BY <3>4
      <4> QED
        BY <4>1, <4>2
    <3> QED
      BY <1>2, <3>2, <3>5 DEF OnItsWay
  <2>9. IsFiniteSet(resp'.data)
    <3>1. IsFiniteSet(Queue) /\ Batch \subseteq Queue
      BY LParts, QueueIsFinite DEF RInv, Batch
    <3> QED
      BY <1>2, <3>1, FS_Subset
  <2>10. ASSUME NEW i \in Item PROVE Retained(i)'
    <3>1. CASE client[i].at >= last[i].at
      BY <1>0, <3>1 DEF Retained
    <3>2. CASE \E k \in Unacked : \E e \in Of(avail[k], i) : e.smp.at = last[i].at
      <4>1. PICK k \in Unacked : \E e \in avail[k].items : e.item = i /\ e.smp.at = last[i].at
        BY <3>2 DEF Of
      <4>2. PICK e \in avail[k].items : e.item = i /\ e.smp.at = last[i].at
        BY <4>1
      <4>3. PICK g \in avail'[k].items : g.item = e.item /\ g.smp = e.smp
        BY <2>1, <4>2 DEF Unacked
      <4>4. g \in Of(avail'[k], i) /\ g.smp.at = last'[i].at
        BY <1>0, <4>2, <4>3 DEF Of
      <4> QED
        BY <2>3, <4>1, <4>4 DEF Retained
    <3>3. CASE \E e \in Of(pass.fresh, i) : e.smp.at = last[i].at
      BY <1>0, <3>3 DEF Retained
    <3> QED
      BY <3>1, <3>2, <3>3 DEF LInv, Retained
  <2> QED
    BY <1>a, <2>4, <2>5, <2>7, <2>8, <2>9, <2>10 DEF LInv
<1>3. CASE Fill
  BY <1>1, <1>2, <1>3 DEF Fill, NoResponse
<1>4. CASE FillDisabled
  BY <1>1, <1>4 DEF FillDisabled, NoResponse
<1> QED
  BY <1>3, <1>4 DEF ProcessQueuedPublishRequest

LEMMA EndSendResponseLatest == ASSUME LInv, RInv', EndSendResponse PROVE LInv'
<1> DEFINE got == {q[2] : q \in resp.data}
<1>1. /\ resp.phase = "filled" /\ resp' = [resp EXCEPT !.phase = "sent"]
      /\ client' = [i \in Item |-> NewestOf(got, i, client[i])]
      /\ toAck' = IF resp.data = {} THEN toAck ELSE toAck \cup {resp.seq}
      /\ offered' = resp.list
      /\ UNCHANGED <<avail, currentSeq, pass, last>>
  BY DEF EndSendResponse, threadVars, itemVars
<1>2. /\ resp'.phase = "sent" /\ resp'.data = resp.data /\ resp'.list = resp.list
      /\ got \in SUBSET Entry(Sample)
  BY <1>1, LParts, Parts DEF RespType
<1>3. IsFiniteSet(got)
  <2> DEFINE f == [q \in resp.data |-> q[2]]
  <2>1. DOMAIN f = resp.data /\ f = [x \in DOMAIN f |-> f[x]] /\ got = {f[q] : q \in resp.data}
    OBVIOUS
  <2> HIDE DEF f, got
  <2> QED
    BY <2>1, FiniteRange DEF LInv
<1>4. \A q \in resp.data : q[2] \in got
  OBVIOUS
<1> HIDE DEF got
<1>5. ASSUME NEW i \in Item
      PROVE  /\ client'[i].at \in Nat /\ client'[i].at >= client[i].at
             /\ \A e \in got : e.item = i => client'[i].at >= e.smp.at
  <2>1. client[i] \in Sample
    BY LParts
  <2> QED
    BY <1>1, <1>2, <1>3, <2>1, NewestOfIsNewest
<1>6. Told' \subseteq Told
  BY <1>1, <1>2 DEF Told, LInv, OnItsWay
<1>7. Delivered'
  <2> SUFFICES ASSUME NEW k \in toAck', NEW e \in avail[k].items
               PROVE  client'[e.item].at >= e.smp.at
    BY <1>1 DEF Delivered
  <2>0. k \in DOMAIN avail /\ e \in Entry(Sample) /\ e.item \in Item /\ e.smp.at \in Nat
    <3>1. k \in DOMAIN avail
      BY <1>1 DEF LInv, RInv, Retransmittable, NumberIsUnacked, Unacked
    <3> QED
      BY <3>1, LParts DEF Entry, Sample
  <2>1. CASE k \in toAck
    <3>1. client[e.item].at >= e.smp.at
      BY <2>1 DEF LInv, Delivered
    <3> QED
      BY <1>5, <2>0, <3>1, LParts
  <2>2. CASE k \notin toAck
    <3>1. resp.data # {} /\ k = resp.seq
      BY <1>1, <2>2
    <3>2. PICK q \in resp.data : q[2].item = e.item /\ q[2].smp = e.smp
      BY <1>1, <3>1 DEF LInv, OnItsWay
    <3> QED
      BY <1>4, <1>5, <2>0, <3>2
  <2> QED
    BY <2>1, <2>2
<1>8. FreshIsTarget' /\ OnItsWay' /\ IsFiniteSet(resp'.data)
  BY <1>1, <1>2 DEF LInv, FreshIsTarget, OnItsWay
<1> QED
  BY <1>1, <1>5, <1>6, <1>7, <1>8, SameRecords

LEMMA EndSendResponseFailedLatest == ASSUME LInv, RInv', EndSendResponseFailed PROVE LInv'
<1>1. /\ resp'.phase = "none" /\ resp'.data = {} /\ resp'.list = {}
      /\ UNCHANGED <<avail, currentSeq, pass, toAck, offered, client, last>>
  BY DEF EndSendResponseFailed, NoResponse, threadVars, itemVars, clientVars
<1>2. FreshIsTarget' /\ Told' \subseteq Told /\ Delivered' /\ OnItsWay' /\ IsFiniteSet(resp'.data)
  BY <1>1, FS_EmptySet DEF LInv, FreshIsTarget, Told, Delivered, OnItsWay
<1>3. \A i \in Item : client'[i].at \in Nat /\ client'[i].at >= client[i].at
  BY <1>1, LParts
<1> QED
  BY <1>1, <1>2, <1>3, SameRecords

LEMMA RemoveAckedLatest == ASSUME LInv, RInv', RemoveAckedDataChangeNotification PROVE LInv'
<1>1. /\ resp'.phase = "none" /\ resp'.data = {} /\ resp'.list = {}
      /\ UNCHANGED <<pass, currentSeq, toAck, offered, client, last>>
      /\ avail' = [k \in Unacked |-> avail[k]]
  BY DEF RemoveAckedDataChangeNotification, NoResponse, clientVars, itemVars
<1>2. DOMAIN avail' = Unacked /\ Unacked \subseteq DOMAIN avail /\ IsFiniteSet(resp'.data)
  BY <1>1, FS_EmptySet DEF Unacked
<1> QED
  BY <1>1, <1>2, AckedGone

LEMMA DeleteMonitoredItemLatest ==
    ASSUME LInv, RInv', NEW i \in Item, DeleteMonitoredItem(i) PROVE LInv'
<1> DEFINE cleaned == [k \in DOMAIN avail |-> RemoveMonitoredItemNotification(avail[k], i)]
           kept == {k \in DOMAIN avail : ~(cleaned[k].acked /\ cleaned[k].items = {})}
<1>1. /\ resp.phase = "none" /\ UNCHANGED <<pass, currentSeq, resp, toAck, offered, client, last>>
      /\ avail' = [k \in kept |-> cleaned[k]]
  BY DEF DeleteMonitoredItem, ServiceMayRun, queueVars, clientVars
<1>2. ASSUME NEW k \in DOMAIN avail PROVE cleaned[k] = avail[k]
  <2>1. avail[k] \in Notif /\ (avail[k].acked <=> avail[k].items = {})
    BY LParts, Parts DEF AckedIsEmpty
  <2> QED
    BY <2>1, RemoveKeeps
<1> HIDE DEF cleaned
<1>3. /\ DOMAIN avail' \subseteq DOMAIN avail /\ Unacked \subseteq DOMAIN avail'
      /\ \A k \in DOMAIN avail' : avail'[k] = avail[k]
  BY <1>1, <1>2 DEF Unacked
<1>4. IsFiniteSet(resp'.data)
  BY <1>1 DEF LInv
<1> QED
  BY <1>1, <1>3, <1>4, AckedGone

(* The values an acknowledgement takes are values the client has.          *)
LEMMA PublishLatest == ASSUME LInv, RInv', NEW acks, Publish(acks) PROVE LInv'
<1>1. /\ resp.phase = "none" /\ acks \subseteq toAck /\ toAck' = toAck \ acks
      /\ UNCHANGED <<pass, currentSeq, resp, offered, client, last>>
      /\ avail' = [k \in DOMAIN avail |-> IF k \in acks THEN Acknowledge(avail[k]) ELSE avail[k]]
  BY DEF Publish, ServiceMayRun, itemVars
<1>2. DOMAIN avail' = DOMAIN avail
  BY <1>1
<1>3. ASSUME NEW k \in DOMAIN avail
      PROVE  /\ Unsent(avail'[k]) = Unsent(avail[k])
             /\ k \in acks => avail'[k].items = Unsent(avail[k])
             /\ k \notin acks => avail'[k] = avail[k]
  <2>1. avail[k] \in Notif
    BY LParts
  <2> QED
    BY <1>1, <2>1, AcknowledgeEntries
<1>4. WholeRecords'
  <2> SUFFICES ASSUME NEW k \in DOMAIN avail
               PROVE  Unsent(avail'[k]) = {} \/ \A e \in avail'[k].items : ~e.sent
    BY <1>2 DEF WholeRecords
  <2> QED
    BY <1>3 DEF LInv, WholeRecords, Unsent
<1>5. ToldIsSent'
  BY <1>1, <1>2, <1>3 DEF LInv, ToldIsSent, Told, NextSeq
<1>6. Delivered'
  <2>1. \A k \in toAck' : k \in toAck /\ k \in DOMAIN avail /\ k \notin acks
    BY <1>1 DEF LInv, RInv, Retransmittable, Unacked
  <2> QED
    BY <1>1, <1>3, <2>1 DEF LInv, Delivered
<1>7. OnItsWay' /\ IsFiniteSet(resp'.data) /\ FreshIsTarget'
  BY <1>1 DEF LInv, OnItsWay, FreshIsTarget
<1>8. ASSUME NEW i \in Item PROVE Retained(i)'
  <2>1. CASE client[i].at >= last[i].at \/ \E e \in Of(pass.fresh, i) : e.smp.at = last[i].at
    BY <1>1, <2>1 DEF Retained
  <2>2. CASE \E k \in Unacked : \E e \in Of(avail[k], i) : e.smp.at = last[i].at
    <3>1. PICK k \in Unacked : \E e \in Of(avail[k], i) : e.smp.at = last[i].at
      BY <2>2
    <3>2. CASE k \in acks
      <4>1. PICK e \in avail[k].items : e.item = i /\ e.smp.at = last[i].at
        BY <3>1 DEF Of
      <4>2. client[i].at >= last[i].at
        BY <1>1, <3>2, <4>1 DEF LInv, Delivered
      <4> QED
        BY <1>1, <4>2 DEF Retained
    <3>3. CASE k \notin acks
      <4>1. k \in DOMAIN avail /\ ~avail[k].acked
        BY DEF Unacked
      <4>2. avail'[k] = avail[k] /\ k \in Unacked'
        BY <1>2, <1>3, <3>3, <4>1 DEF Unacked
      <4> QED
        BY <1>1, <3>1, <4>2 DEF Retained
    <3> QED
      BY <3>2, <3>3
  <2> QED
    BY <2>1, <2>2 DEF LInv, Retained
<1> QED
  BY <1>4, <1>5, <1>6, <1>7, <1>8 DEF LInv

LEMMA RepublishLatest == ASSUME LInv, RInv', NEW k \in offered, Republish(k) PROVE LInv'
<1>1. UNCHANGED <<avail, currentSeq, pass, resp, offered, last>>
  BY DEF Republish, threadVars, queueVars, itemVars
<1>2. FreshIsTarget' /\ OnItsWay' /\ IsFiniteSet(resp'.data)
  BY <1>1 DEF LInv, FreshIsTarget, OnItsWay
<1>3. CASE k \in Unacked
  <2>1. /\ client' = [i \in Item |-> NewestOf(avail[k].items, i, client[i])]
        /\ toAck' = toAck \cup {k}
    BY <1>3 DEF Republish
  <2>2. k \in DOMAIN avail /\ avail[k].items \in SUBSET Entry(Sample) /\ IsFiniteSet(avail[k].items)
    BY <1>3, LParts DEF Unacked
  <2>3. ASSUME NEW i \in Item
        PROVE  /\ client'[i].at \in Nat /\ client'[i].at >= client[i].at
               /\ \A e \in avail[k].items : e.item = i => client'[i].at >= e.smp.at
    <3>1. client[i] \in Sample
      BY LParts
    <3> QED
      BY <2>1, <2>2, <3>1, NewestOfIsNewest
  <2>4. Told' \subseteq Told
    BY <1>1, <2>1 DEF Told
  <2>5. Delivered'
    <3> SUFFICES ASSUME NEW l \in toAck', NEW e \in avail[l].items
                 PROVE  client'[e.item].at >= e.smp.at
      BY <1>1 DEF Delivered
    <3>1. e \in Entry(Sample) /\ e.item \in Item /\ e.smp.at \in Nat
      <4>1. l \in DOMAIN avail
        BY <2>1, <2>2 DEF LInv, RInv, Retransmittable, Unacked
      <4> QED
        BY <4>1, LParts DEF Entry, Sample
    <3>2. CASE l = k
      BY <2>3, <3>1, <3>2
    <3>3. CASE l # k
      <4>1. client[e.item].at >= e.smp.at
        BY <2>1, <3>3 DEF LInv, Delivered
      <4> QED
        BY <2>3, <3>1, <4>1, LParts
    <3> QED
      BY <3>2, <3>3
  <2> QED
    BY <1>1, <1>2, <2>3, <2>4, <2>5, SameRecords
<1>4. CASE k \notin Unacked
  <2>1. UNCHANGED <<client, toAck>>
    BY <1>4 DEF Republish
  <2> QED
    BY <1>1, <2>1, SameClient
<1> QED
  BY <1>3, <1>4

(* Every step keeps the invariant.                                         *)
LEMMA NextLatest ==
    ASSUME Timestamps, MaxNotificationsPerPublish = 0
    PROVE  LInv /\ RInv' /\ [Next]_vars => LInv'
<1> SUFFICES ASSUME LInv, RInv', [Next]_vars PROVE LInv'
  OBVIOUS
<1>1. CASE UpdateThread
  BY <1>1, PassBeginLatest, CompareItemLatest, SampleItemLatest, SkipItemLatest, PassEndLatest
     DEF UpdateThread
<1>2. CASE NotificationThread
  BY <1>2, ProcessQueuedPublishRequestLatest, EndSendResponseLatest,
     EndSendResponseFailedLatest, RemoveAckedLatest DEF NotificationThread
<1>3. CASE Services
  <2>1. ASSUME NEW b \in BOOLEAN, SetPublishingMode(b) PROVE LInv'
    BY <2>1, SameClient DEF SetPublishingMode, itemVars, threadVars, queueVars, clientVars
  <2>2. ASSUME NEW i \in Item, NEW m \in Modes, SetMonitoringMode(i, m) PROVE LInv'
    BY <2>2, SameClient DEF SetMonitoringMode, threadVars, queueVars, clientVars
  <2>3. ASSUME NEW i \in Item, NEW m \in Modes, AddMonitoredItem(i, m) PROVE LInv'
    <3>1. /\ UNCHANGED <<avail, currentSeq, pass, resp, toAck, offered, client>>
          /\ last' = [last EXCEPT ![i] = NoSample] /\ NoSample.at = 0
      BY <2>3 DEF AddMonitoredItem, threadVars, queueVars, NoSample
    <3>2. \A j \in Item : last'[j] = last[j] \/ last'[j].at = 0
      BY <3>1, LParts
    <3> QED
      BY <3>1, <3>2, SameClient
  <2> QED
    BY <1>3, <2>1, <2>2, <2>3, PublishLatest, RepublishLatest, DeleteMonitoredItemLatest
       DEF Services
<1>4. CASE Environment
  <2>1. ASSUME NEW i \in Item, NEW v \in Value, Write(i, v) PROVE LInv'
    BY <2>1, SameClient DEF Write, itemVars, threadVars, queueVars, clientVars
  <2>2. ASSUME KeepAliveElapses PROVE LInv'
    BY <2>2, SameClient DEF KeepAliveElapses, itemVars, threadVars, queueVars, clientVars
  <2> QED
    BY <1>4, <2>1, <2>2 DEF Environment
<1>5. CASE UNCHANGED vars
  BY <1>5, SameClient DEF vars, itemVars, threadVars, queueVars, clientVars
<1> QED
  BY <1>1, <1>2, <1>3, <1>4, <1>5 DEF Next

LEMMA InitLatest == Init => LInv
<1> SUFFICES ASSUME Init PROVE LInv
  OBVIOUS
<1>1. /\ DOMAIN avail = {} /\ pass = NoPass /\ resp = NoResponse /\ toAck = {} /\ offered = {}
      /\ last = [i \in Item |-> NoSample] /\ client = [i \in Item |-> NoSample]
  BY DEF Init
<1>2. /\ pass.fresh.items = {} /\ resp.phase = "none" /\ resp.data = {} /\ resp.list = {}
      /\ \A i \in Item : client[i].at = 0 /\ last[i].at = 0
  BY <1>1 DEF NoPass, EmptyNotification, NoResponse, NoSample
<1>3. WholeRecords /\ ToldIsSent /\ Delivered /\ OnItsWay /\ FreshIsTarget
  BY <1>1, <1>2 DEF WholeRecords, ToldIsSent, Told, Delivered, OnItsWay, FreshIsTarget
<1>4. IsFiniteSet(resp.data) /\ \A i \in Item : Retained(i)
  BY <1>2, FS_EmptySet DEF Retained
<1> QED
  BY <1>3, <1>4, InitRetains DEF LInv

-----------------------------------------------------------------------------
(* The value CompareMonitoredItemToUAVariable last detected for an item is *)
(* with the client, or in a record the client can still ask for, or in the *)
(* record of the running pass, when a response takes everything queued.    *)
THEOREM LatestIsRetained ==
    ASSUME Timestamps, MaxNotificationsPerPublish = 0
    PROVE  Spec => []LatestValueRetained
<1>1. LInv /\ [Next]_vars => LInv'
  BY NextKeeps, NextRetains, NextLatest DEF LInv, RInv
<1>2. LInv => LatestValueRetained
  BY LParts DEF LInv, LatestValueRetained, IInv, TypeOK
<1> QED
  BY <1>1, <1>2, InitLatest, PTL DEF Spec

-----------------------------------------------------------------------------
(* The bound of the queues, where a response takes everything queued.      *)

(* No record is ever sent in part.                                         *)
Whole(n) == Unsent(n) = {} \/ \A e \in n.items : ~e.sent

(* The count of a handle is at least the number of its entries.            *)
Counted(n) ==
    \A i \in Item : Cardinality(Of(n, i)) <= n.count[i] /\ n.count[i] <= QueueSize

Bounded == /\ \A k \in DOMAIN avail : Whole(avail[k]) /\ Counted(avail[k])
           /\ Counted(pass.fresh)

(* An item with entries has a first one.                                   *)
LEMMA OldestExists ==
    ASSUME NEW n \in Notif, NEW i \in Item, Of(n, i) # {}
    PROVE  \E e \in Of(n, i) : IsOldest(e, Of(n, i))
<1> DEFINE S == {e.pos : e \in Of(n, i)}
           R == {p \in Nat \X Nat : p[1] < p[2]}
<1>1. \A e \in Of(n, i) : e.pos \in Nat
  BY NotifParts DEF Of, Entry
<1>2. IsWellFoundedOn(R, Nat)
  BY NatLessThanWellFounded DEF OpToRel
<1>3. S \subseteq Nat /\ S # {}
  BY <1>1
<1>4. \A x, y \in Nat : x < y => <<x, y>> \in R
  OBVIOUS
<1> HIDE DEF R
<1>5. PICK x \in S : \A y \in S : ~(<<y, x>> \in R)
  <2> HIDE DEF S
  <2> QED
    BY <1>2, <1>3, WFMin
<1>6. PICK e \in Of(n, i) : x = e.pos
  OBVIOUS
<1>7. ASSUME NEW f \in Of(n, i) PROVE e.pos <= f.pos
  <2>1. f.pos \in S /\ f.pos \in Nat /\ e.pos \in Nat
    BY <1>1
  <2>2. ~(f.pos < e.pos)
    BY <1>4, <1>5, <1>6, <2>1
  <2> QED
    BY <2>1, <2>2
<1> QED
  BY <1>7 DEF IsOldest

(* The entries of an item after each way of queueing a sample.             *)
LEMMA OverwriteCounts ==
    ASSUME NEW n \in Notif, IsFiniteSet(n.items), NEW i \in Item, NEW z \in Sample, NEW j \in Item,
           NEW m, m.items = OverwriteNewest(n, i, z)
    PROVE  Cardinality(Of(m, j)) <= Cardinality(Of(n, j))
<1> DEFINE f == [e \in Of(n, j) |-> Overwritten(n, i, z, e)]
<1>1. \A e \in n.items : Overwritten(n, i, z, e).item = e.item
  <2> SUFFICES ASSUME NEW e \in n.items PROVE Overwritten(n, i, z, e).item = e.item
    OBVIOUS
  <2>1. e \in Entry(Sample)
    BY NotifParts
  <2> QED
    BY <2>1, OverwrittenKeeps
<1>2. Of(m, j) = {f[e] : e \in Of(n, j)}
  BY <1>1 DEF Of, OverwriteNewest
<1>3. f \in Surjection(Of(n, j), Of(m, j))
  BY <1>2 DEF Surjection
<1>4. IsFiniteSet(Of(n, j))
  BY FS_Subset DEF Of
<1> QED
  BY <1>3, <1>4, FS_Surjection

LEMMA AddCounts ==
    ASSUME QueueSize # 0, NEW n \in Notif, IsFiniteSet(n.items), Backed(n), Counted(n),
           NEW i \in Item, NEW s \in Sample, NEW d \in BOOLEAN,
           NEW m, m = AddMonitoredItemNotification(n, i, s, QueueSize, d)
    PROVE  Counted(m)
<1> SUFFICES ASSUME NEW j \in Item
             PROVE  Cardinality(Of(m, j)) <= m.count[j] /\ m.count[j] <= QueueSize
  BY DEF Counted
<1>0. QueueSize \in Nat
  BY ConstantsAssumption
<1>1. PICK z : z = Flagged(n, i, s, QueueSize)
  OBVIOUS
<1>2. z \in Sample
  BY <1>1, FlaggedIsSample
<1> DEFINE e0 == NewEntry(n, i, z)
           C(k) == Cardinality(Of(n, k))
<1>3. \/ m = n
      \/ /\ ~Full(n, i, QueueSize)
         /\ m.items = n.items \cup {e0} /\ m.count = [n.count EXCEPT ![i] = @ + 1]
      \/ /\ Full(n, i, QueueSize)
         /\ m.items = DropOldest(n, i) \cup {e0} /\ m.count = n.count
      \/ m.items = OverwriteNewest(n, i, z) /\ m.count = n.count
  BY <1>0, <1>1, AddFields DEF Pushes, Overwrites
<1>4. /\ n.count \in [Item -> Nat]
      /\ \A k \in Item : IsFiniteSet(Of(n, k)) /\ C(k) \in Nat /\ C(k) <= n.count[k] /\ n.count[k] <= QueueSize
  BY NotifParts, FS_Subset, FS_CardinalityType DEF Of, Counted
<1>5. e0.item = i
  BY DEF NewEntry
<1> HIDE DEF e0
<1>6. CASE m = n
  BY <1>4, <1>6
<1>7. CASE /\ ~Full(n, i, QueueSize)
           /\ m.items = n.items \cup {e0} /\ m.count = [n.count EXCEPT ![i] = @ + 1]
  <2>2. n.count[i] + 1 <= QueueSize
    BY <1>0, <1>4, <1>7 DEF Full
  <2>3. CASE j = i
    <3>1. Of(m, i) = Of(n, i) \cup {e0}
      BY <1>5, <1>7 DEF Of
    <3>2. Cardinality(Of(m, i)) \in {C(i), C(i) + 1}
      BY <1>4, <3>1, FS_AddElement
    <3>3. m.count[i] = n.count[i] + 1
      BY <1>4, <1>7
    <3> QED
      BY <1>0, <1>4, <2>2, <2>3, <3>2, <3>3
  <2>4. CASE j # i
    <3>1. Of(m, j) = Of(n, j) /\ m.count[j] = n.count[j]
      BY <1>4, <1>5, <1>7, <2>4 DEF Of
    <3> QED
      BY <1>4, <3>1
  <2> QED
    BY <2>3, <2>4
<1>8. CASE /\ Full(n, i, QueueSize)
           /\ m.items = DropOldest(n, i) \cup {e0} /\ m.count = n.count
  <2>2. CASE j = i
    <3>1. n.count[i] > 0
      BY <1>0, <1>4, <1>8 DEF Full
    <3>2. PICK o \in Of(n, i) : IsOldest(o, Of(n, i))
      BY <3>1, OldestExists DEF Backed
    <3> DEFINE rest == Of(n, i) \ {o}
    <3>3. IsFiniteSet(rest) /\ Cardinality(rest) = C(i) - 1 /\ IsFiniteSet(rest \cup {e0})
      BY <1>4, <3>2, FS_RemoveElement, FS_AddElement
    <3>4. Cardinality(rest \cup {e0}) <= C(i) /\ Cardinality(rest \cup {e0}) \in Nat
      <4> HIDE DEF rest
      <4>1. Cardinality(rest \cup {e0}) \in {Cardinality(rest), Cardinality(rest) + 1}
        BY <3>3, FS_AddElement
      <4> QED
        BY <1>4, <3>3, <4>1, FS_CardinalityType
    <3>5. Of(m, i) \subseteq rest \cup {e0}
      BY <1>8, <3>2 DEF Of, DropOldest
    <3>6. Cardinality(Of(m, i)) <= Cardinality(rest \cup {e0}) /\ Cardinality(Of(m, i)) \in Nat
      BY <3>3, <3>5, FS_Subset, FS_CardinalityType
    <3> QED
      BY <1>0, <1>4, <1>8, <2>2, <3>4, <3>6
  <2>3. CASE j # i
    <3>1. Of(m, j) = Of(n, j)
      BY <1>5, <1>8, <2>3 DEF Of, DropOldest, IsOldest
    <3> QED
      BY <1>4, <1>8, <3>1
  <2> QED
    BY <2>2, <2>3
<1>9. CASE m.items = OverwriteNewest(n, i, z) /\ m.count = n.count
  <2>2. Cardinality(Of(m, j)) <= C(j)
    BY <1>2, <1>9, OverwriteCounts
  <2>3. IsFiniteSet(Of(m, j)) /\ Cardinality(Of(m, j)) \in Nat
    <3>1. IsFiniteSet(m.items)
      BY <1>0, AddEntries
    <3> QED
      BY <3>1, FS_Subset, FS_CardinalityType DEF Of
  <2> QED
    BY <1>0, <1>4, <1>9, <2>2, <2>3
<1> QED
  BY <1>3, <1>6, <1>7, <1>8, <1>9

(* An acknowledgement resets the count of a handle only with all of its    *)
(* entries, for a record that was never sent in part.                      *)
LEMMA AcknowledgeCounts ==
    ASSUME NEW n \in Notif, IsFiniteSet(n.items), Counted(n), Whole(n)
    PROVE  Counted(Acknowledge(n)) /\ Whole(Acknowledge(n))
<1> DEFINE m == Acknowledge(n)
<1>1. m.items = Unsent(n) /\ m.count = CountAfterRemoval(n)
  BY NotifParts DEF Acknowledge, RemoveSent
<1> HIDE DEF m
<1>2. ASSUME NEW i \in Item PROVE Cardinality(Of(m, i)) <= m.count[i] /\ m.count[i] <= QueueSize
  <2>1. /\ Of(m, i) \subseteq Of(n, i) /\ IsFiniteSet(Of(n, i))
        /\ Cardinality(Of(n, i)) <= n.count[i] /\ n.count[i] <= QueueSize
        /\ n.count[i] \in Nat /\ QueueSize \in Nat
    BY <1>1, FS_Subset, NotifParts, ConstantsAssumption DEF Of, Unsent, Counted
  <2>2. /\ Cardinality(Of(m, i)) <= Cardinality(Of(n, i))
        /\ Cardinality(Of(m, i)) \in Nat /\ Cardinality(Of(n, i)) \in Nat
    BY <2>1, FS_Subset, FS_CardinalityType
  <2>3. CASE \E e \in Of(n, i) : e.sent
    <3>1. Of(m, i) = {} /\ m.count[i] = 0
      BY <1>1, <2>3 DEF Whole, Of, CountAfterRemoval
    <3> QED
      BY <2>1, <3>1, FS_EmptySet
  <2>4. CASE ~(\E e \in Of(n, i) : e.sent)
    <3>1. m.count[i] = n.count[i]
      BY <1>1, <2>4 DEF CountAfterRemoval
    <3> QED
      BY <2>1, <2>2, <3>1
  <2> QED
    BY <2>3, <2>4
<1>3. Whole(m)
  BY <1>1 DEF Whole, Unsent
<1> QED
  BY <1>2, <1>3 DEF Counted, m

(* Marking everything that is unsent leaves a record sent, and no item     *)
(* with more entries.                                                      *)
LEMMA MarkSentCounts ==
    ASSUME NEW n \in Notif, IsFiniteSet(n.items), Counted(n), NEW B, Unsent(n) \subseteq B
    PROVE  Counted(MarkSent(n, B)) /\ Whole(MarkSent(n, B))
<1> DEFINE m == MarkSent(n, B)
           mark(e) == IF e \in B THEN [e EXCEPT !.sent = TRUE] ELSE e
<1>1. m.count = n.count /\ m.items = {mark(e) : e \in n.items}
  BY MarkSentOrigin, NotifParts DEF MarkSent
<1>2. Unsent(m) = {} /\ IsFiniteSet(m.items)
  BY MarkSentEntries
<1>3. ASSUME NEW e \in n.items PROVE mark(e).item = e.item
  <2>1. e \in Entry(Sample)
    BY NotifParts
  <2> QED
    BY <2>1, EntrySent
<1> HIDE DEF m, mark
<1>4. ASSUME NEW i \in Item PROVE Cardinality(Of(m, i)) <= m.count[i] /\ m.count[i] <= QueueSize
  <2> DEFINE f == [e \in Of(n, i) |-> mark(e)]
  <2>1. Of(m, i) = {f[e] : e \in Of(n, i)}
    BY <1>1, <1>3 DEF Of
  <2>2. f \in Surjection(Of(n, i), Of(m, i))
    BY <2>1 DEF Surjection
  <2>3. IsFiniteSet(Of(n, i)) /\ IsFiniteSet(Of(m, i))
    BY <1>2, FS_Subset DEF Of
  <2> HIDE DEF f
  <2>4. /\ Cardinality(Of(m, i)) <= Cardinality(Of(n, i))
        /\ Cardinality(Of(m, i)) \in Nat /\ Cardinality(Of(n, i)) \in Nat
    BY <2>2, <2>3, FS_Surjection, FS_CardinalityType
  <2> QED
    BY <1>1, <2>4, NotifParts DEF Counted
<1> QED
  BY <1>2, <1>4 DEF Counted, Whole, m

(* Queueing in a record none of whose entries was sent.                    *)
LEMMA QueuesCounts ==
    ASSUME QueueSize # 0, NInv, "Sampling" \notin Modes,
           NEW n \in Notif, IsFiniteSet(n.items), Backed(n), Counted(n), \A e \in n.items : ~e.sent,
           NEW m, Queues(n, m)
    PROVE  Counted(m) /\ \A e \in m.items : ~e.sent
<1>1. /\ source \in [Item -> Sample] /\ pass.todo \subseteq Item
      /\ QueueSize \in Nat /\ DiscardOldest \in BOOLEAN
  BY ConstantsAssumption, Parts DEF NInv, RInv, TypeOK, PassType
<1>2. \A i \in pass.todo : mode[i] # "Sampling"
  BY DEF NInv, ModesAreAskedFor
<1>3. PICK i \in Item : m = AddMonitoredItemNotification(n, i, source[i], QueueSize, DiscardOldest)
  BY <1>1, <1>2 DEF Queues
<1>4. Counted(m)
  BY <1>1, <1>3, AddCounts
<1>5. \A e \in m.items : ~e.sent
  BY <1>1, <1>3, AddEntries
<1> QED
  BY <1>4, <1>5

(* Every step keeps the bound.                                             *)
LEMMA NextBounded ==
    ASSUME MaxNotificationsPerPublish = 0, "Sampling" \notin Modes, QueueSize # 0
    PROVE  NInv /\ Bounded /\ [Next]_vars => Bounded'
<1> SUFFICES ASSUME NInv, Bounded, [Next]_vars PROVE Bounded'
  OBVIOUS
<1>0. IInv /\ RecordStep
  BY NextStep DEF NInv, RInv
<1>1. Counted(EmptyNotification)
  <2>1. EmptyNotification.items = {} /\ EmptyNotification.count = [i \in Item |-> 0]
    BY DEF EmptyNotification
  <2> QED
    BY <2>1, FS_EmptySet, ConstantsAssumption DEF Counted, Of
<1>2. /\ pass.fresh \in Notif /\ IsFiniteSet(pass.fresh.items) /\ Backed(pass.fresh)
      /\ \A e \in pass.fresh.items : ~e.sent
  BY <1>0, Parts DEF PassType, PassIsClean, NInv, RInv, FiniteQueue, FreshUnsent
<1>3. Counted(pass'.fresh)
  BY <1>0, <1>1, <1>2, QueuesCounts DEF RecordStep, Bounded
<1>4. ASSUME NEW k \in DOMAIN avail, NEW m, Becomes(k, m) PROVE Whole(m) /\ Counted(m)
  <2>1. /\ avail[k] \in Notif /\ IsFiniteSet(avail[k].items) /\ Backed(avail[k])
        /\ Whole(avail[k]) /\ Counted(avail[k])
    BY <1>0, Parts DEF CountIsBacked, NInv, RInv, FiniteQueue, Bounded
  <2>2. CASE IsSomethingToNotify(avail[k]) /\ Queues(avail[k], m)
    <3>1. \A e \in avail[k].items : ~e.sent
      BY <2>1, <2>2 DEF IsSomethingToNotify, Whole
    <3> QED
      BY <2>1, <2>2, <3>1, QueuesCounts DEF Whole
  <2>3. CASE m = Acknowledge(avail[k])
    BY <2>1, <2>3, AcknowledgeCounts
  <2>4. CASE m = MarkSent(avail[k], Taken(k))
    <3>1. ASSUME NEW e \in Unsent(avail[k]) PROVE e \in Taken(k)
      <4>1. k \in Unacked /\ e \in avail[k].items
        BY <1>0, UnsentIsUnacked DEF Unsent
      <4>2. <<k, e>> \in Queue
        BY <4>1 DEF Queue
      <4> QED
        BY <4>1, <4>2 DEF Batch, Taken
    <3> QED
      BY <2>1, <2>4, <3>1, MarkSentCounts
  <2> QED
    BY <1>4, <2>1, <2>2, <2>3, <2>4 DEF Becomes
<1>5. Whole(pass.fresh)
  BY <1>2 DEF Whole
<1>6. ASSUME NEW k \in DOMAIN avail' PROVE Whole(avail'[k]) /\ Counted(avail'[k])
  <2>1. CASE k \in DOMAIN avail
    BY <1>0, <1>4, <2>1 DEF RecordStep
  <2>2. CASE k \notin DOMAIN avail
    BY <1>0, <1>5, <2>2 DEF RecordStep, Bounded
  <2> QED
    BY <2>1, <2>2
<1> QED
  BY <1>3, <1>6 DEF Bounded

(* No queue outgrows its size, where a response takes everything that is   *)
(* queued and no item is in Sampling mode (SampleItem knows no limit).     *)
THEOREM QueuesAreBounded ==
    ASSUME MaxNotificationsPerPublish = 0, "Sampling" \notin Modes
    PROVE  Spec => []QueueBound
<1>1. CASE QueueSize = 0
  <2>1. IInv => QueueBound
    BY <1>1 DEF QueueBound
  <2> QED
    BY <2>1, Invariance, PTL
<1>2. CASE QueueSize # 0
  <2>1. Init => Bounded
    <3> SUFFICES ASSUME Init PROVE Bounded
      OBVIOUS
    <3>1. /\ DOMAIN avail = {} /\ pass.fresh.items = {} /\ pass.fresh.count = [i \in Item |-> 0]
      BY DEF Init, NoPass, EmptyNotification
    <3> QED
      BY <3>1, FS_EmptySet, ConstantsAssumption DEF Bounded, Counted, Of
  <2>2. NInv /\ [Next]_vars => NInv'
    BY NextKeeps, NextRetains, NextNumbers DEF NInv, RInv
  <2>3. NInv /\ Bounded /\ [Next]_vars => Bounded'
    BY <1>2, NextBounded
  <2>4. NInv /\ Bounded => QueueBound
    <3> SUFFICES ASSUME NInv, Bounded, NEW k \in DOMAIN avail, NEW i \in Item
                 PROVE  Cardinality(Of(avail[k], i)) <= QueueSize
      BY DEF QueueBound
    <3>1. avail[k] \in Notif /\ IsFiniteSet(avail[k].items) /\ Counted(avail[k])
      BY Parts DEF NInv, RInv, FiniteQueue, Bounded
    <3>2. IsFiniteSet(Of(avail[k], i)) /\ avail[k].count[i] \in Nat /\ QueueSize \in Nat
      BY <3>1, FS_Subset, NotifParts, ConstantsAssumption DEF Of
    <3>3. Cardinality(Of(avail[k], i)) \in Nat
      BY <3>2, FS_CardinalityType
    <3> QED
      BY <3>1, <3>2, <3>3 DEF Counted
  <2> QED
    BY <2>1, <2>2, <2>3, <2>4, InitNumbers, PTL DEF Spec
<1> QED
  BY <1>1, <1>2

-----------------------------------------------------------------------------
(* The order in which values are delivered.                                *)

(* The entries of an item have increasing times along the list.            *)
Sorted(n) ==
    /\ \A e, f \in n.items : e.item = f.item /\ e # f /\ e.pos <= f.pos => e.smp.at < f.smp.at
    /\ \A e \in n.items : e.pos < n.next

(* Queueing the value of a node that is not queued yet.                    *)
Open(n) == ~n.acked

LEMMA AddSorted ==
    ASSUME NEW n \in Notif, Open(n), \A f \in n.items : FromSource(f.item, f.smp),
           Sorted(n), NEW i \in Item, NEW s \in Sample, s = source[i],
           NEW qs \in Nat, NEW d \in BOOLEAN,
           NEW m, m = AddMonitoredItemNotification(n, i, s, qs, d)
    PROVE  /\ Sorted(m)
           /\ \A e \in m.items : e \in n.items \/ (e.item = i /\ e.smp.at = s.at)
<1>1. PICK z : z = Flagged(n, i, s, qs)
  OBVIOUS
<1> DEFINE e0 == NewEntry(n, i, z)
           over(e) == Overwritten(n, i, z, e)
<1>2. /\ n.items \subseteq Entry(Sample) /\ n.next \in Nat
      /\ \A e \in n.items : e.pos \in Nat /\ e.smp.at \in Nat
  BY NotifParts DEF Entry, Sample
<1>3. z.at = s.at /\ s.at \in Nat
  <2>1. [s EXCEPT !.ovf = ~@].at = s.at
    BY DEF Sample
  <2> QED
    BY <1>1, <2>1 DEF Flagged, Sample
<1>4. \/ m = n
      \/ NotQueued(n, i, s) /\ Pushes(n, m, i, z, n.items)
      \/ Makes(n, i, s, qs) /\ Pushes(n, m, i, z, DropOldest(n, i))
      \/ Makes(n, i, s, qs) /\ Overwrites(n, m, i, z)
  BY <1>1, AddItems
<1>5. ASSUME NotQueued(n, i, s) PROVE \A f \in n.items : f.item = i => f.smp.at < z.at
  BY <1>3, <1>5, NotQueuedIsLater DEF NotQueued, Open, Of
<1>6. e0.item = i /\ e0.smp = z /\ e0.pos = n.next
  BY DEF NewEntry
<1> HIDE DEF e0
<1>7. ASSUME NEW S \in SUBSET n.items, NotQueued(n, i, s), Pushes(n, m, i, z, S)
      PROVE  /\ Sorted(m)
             /\ \A e \in m.items : e \in n.items \/ (e.item = i /\ e.smp.at = s.at)
  <2>1. m.items = S \cup {e0} /\ m.next = n.next + 1
    BY <1>7 DEF Pushes, e0
  <2>2. \A f \in n.items : f.item = i => f.smp.at < z.at
    BY <1>5, <1>7
  <2>3. \A e \in m.items : e.pos < m.next
    BY <1>2, <1>6, <2>1 DEF Sorted
  <2>4. ASSUME NEW e \in m.items, NEW f \in m.items, e.item = f.item, e # f, e.pos <= f.pos
        PROVE  e.smp.at < f.smp.at
    <3>1. CASE e = e0
      BY <1>2, <1>6, <2>1, <2>4, <3>1 DEF Sorted
    <3>2. CASE f = e0 /\ e # e0
      BY <1>6, <2>1, <2>2, <2>4, <3>2
    <3>3. CASE e # e0 /\ f # e0
      BY <2>1, <2>4, <3>3 DEF Sorted
    <3> QED
      BY <3>1, <3>2, <3>3
  <2> QED
    BY <1>3, <1>6, <2>1, <2>3, <2>4 DEF Sorted
<1>8. ASSUME Makes(n, i, s, qs), Overwrites(n, m, i, z)
      PROVE  /\ Sorted(m)
             /\ \A e \in m.items : e \in n.items \/ (e.item = i /\ e.smp.at = s.at)
  <2>1. m.items = {over(e) : e \in n.items} /\ m.next = n.next
    BY <1>8 DEF Overwrites, OverwriteNewest
  <2>2. \A f \in n.items : f.item = i => f.smp.at < z.at
    BY <1>5, <1>8 DEF Makes
  <2>3. ASSUME NEW e \in n.items
        PROVE  /\ over(e).pos = e.pos /\ over(e).item = e.item
               /\ \/ over(e) = e /\ ~IsNewest(e, Of(n, i))
                  \/ e.item = i /\ IsNewest(e, Of(n, i)) /\ over(e).smp = z
    <3>1. e \in Entry(Sample)
      BY <1>2
    <3>2. CASE IsNewest(e, Of(n, i))
      <4>1. over(e) = [e EXCEPT !.smp = z, !.sent = FALSE] /\ e.item = i
        BY <3>2 DEF Overwritten, IsNewest, Of
      <4> QED
        BY <3>1, <3>2, <4>1 DEF Entry
    <3>3. CASE ~IsNewest(e, Of(n, i))
      BY <3>3 DEF Overwritten
    <3> QED
      BY <3>2, <3>3
  <2> HIDE DEF over
  <2>4. \A e \in m.items : e.pos < m.next
    BY <2>1, <2>3 DEF Sorted
  <2>5. ASSUME NEW e \in n.items, NEW f \in n.items, e.item = f.item, e # f, e.pos <= f.pos
        PROVE  over(e).smp.at < over(f).smp.at
    <3>1. e.smp.at < f.smp.at
      BY <2>5 DEF Sorted
    <3>2. ~IsNewest(e, Of(n, i))
      <4> SUFFICES ASSUME IsNewest(e, Of(n, i)) PROVE FALSE
        OBVIOUS
      <4>1. f.pos <= e.pos
        BY <2>5 DEF IsNewest, Of
      <4>2. f.smp.at < e.smp.at
        BY <2>5, <4>1 DEF Sorted
      <4> QED
        BY <1>2, <3>1, <4>2
    <3> QED
      BY <2>2, <2>3, <2>5, <3>1, <3>2
  <2>6. ASSUME NEW e \in m.items, NEW f \in m.items, e.item = f.item, e # f, e.pos <= f.pos
        PROVE  e.smp.at < f.smp.at
    <3>1. PICK g \in n.items, h \in n.items : e = over(g) /\ f = over(h)
      BY <2>1
    <3>2. g # h /\ g.item = h.item /\ g.pos <= h.pos
      BY <2>3, <2>6, <3>1
    <3> QED
      BY <2>5, <3>1, <3>2
  <2> QED
    BY <1>3, <2>1, <2>3, <2>4, <2>6 DEF Sorted
<1>9. DropOldest(n, i) \in SUBSET n.items
  BY DEF DropOldest
<1> QED
  BY <1>4, <1>7, <1>8, <1>9 DEF Makes

(* Acknowledging and marking keep the order.                               *)
LEMMA AcknowledgeSorted ==
    ASSUME NEW n \in Notif, Sorted(n)
    PROVE  Sorted(Acknowledge(n))
<1>1. Acknowledge(n).items = Unsent(n) /\ Acknowledge(n).next = n.next
  BY NotifParts DEF Acknowledge, RemoveSent
<1> QED
  BY <1>1 DEF Sorted, Unsent

LEMMA MarkSentSorted ==
    ASSUME NEW n \in Notif, Sorted(n), NEW B
    PROVE  /\ Sorted(MarkSent(n, B))
           /\ Unsent(MarkSent(n, B)) = Unsent(n) \ B
<1> DEFINE m == MarkSent(n, B)
           mark(e) == IF e \in B THEN [e EXCEPT !.sent = TRUE] ELSE e
<1>1. m.next = n.next /\ m.items = {mark(e) : e \in n.items}
  BY MarkSentOrigin, NotifParts DEF MarkSent
<1>2. ASSUME NEW e \in n.items
      PROVE  mark(e).item = e.item /\ mark(e).pos = e.pos /\ mark(e).smp = e.smp
  <2>1. e \in Entry(Sample)
    BY NotifParts
  <2> QED
    BY <2>1 DEF Entry
<1> HIDE DEF m, mark
<1>3. Sorted(m)
  BY <1>1, <1>2 DEF Sorted
<1> QED
  BY <1>3, MarkSentEntries DEF m

(* Nothing that was delivered, or is on its way, is later than a value     *)
(* still to be sent.                                                       *)
InTime(n) ==
    \A e \in Unsent(n) :
        /\ published[e.item] <= e.smp.at
        /\ resp.phase = "filled" =>
               \A q \in resp.data : q[2].item = e.item => q[2].smp.at <= e.smp.at

MessageInTime ==
    resp.phase = "filled" =>
        \A q \in resp.data :
            /\ published[q[2].item] <= q[2].smp.at
            /\ q[2].smp.at <= source[q[2].item].at
            /\ \A r \in resp.data :
                  q[2].item = r[2].item /\ Before(q, r) => q[2].smp.at < r[2].smp.at

InOrder == /\ \A k \in DOMAIN avail : Sorted(avail[k]) /\ InTime(avail[k])
           /\ Sorted(pass.fresh) /\ InTime(pass.fresh)
           /\ ~pass.running => pass.fresh.items = {}
           /\ \A i \in Item : published[i] <= source[i].at
           /\ MessageInTime

OInv == NInv /\ DInv /\ InOrder

(* Records in the order of the invariant before the step of response.      *)
LEMMA QueuesInOrder ==
    ASSUME OInv, "Sampling" \notin Modes,
           NEW n \in Notif, Open(n), \A f \in n.items : FromSource(f.item, f.smp),
           Sorted(n), InTime(n), NEW m, Queues(n, m)
    PROVE  Sorted(m) /\ InTime(m)
<1>1. /\ source \in [Item -> Sample] /\ pass.todo \subseteq Item
      /\ QueueSize \in Nat /\ DiscardOldest \in BOOLEAN
  BY ConstantsAssumption, Parts DEF OInv, DInv, TypeOK, PassType
<1>2. \A i \in pass.todo : mode[i] # "Sampling"
  BY DEF OInv, NInv, ModesAreAskedFor
<1>3. PICK i \in Item : m = AddMonitoredItemNotification(n, i, source[i], QueueSize, DiscardOldest)
  BY <1>1, <1>2 DEF Queues
<1>4. /\ Sorted(m)
      /\ \A e \in m.items : e \in n.items \/ (e.item = i /\ e.smp.at = source[i].at)
  BY <1>1, <1>3, AddSorted
<1>5. /\ published[i] <= source[i].at
      /\ resp.phase = "filled" => \A q \in resp.data : q[2].item = i => q[2].smp.at <= source[i].at
  BY DEF OInv, InOrder, MessageInTime
<1>6. InTime(m)
  <2> SUFFICES ASSUME NEW e \in Unsent(m)
               PROVE  /\ published[e.item] <= e.smp.at
                      /\ resp.phase = "filled" =>
                             \A q \in resp.data : q[2].item = e.item => q[2].smp.at <= e.smp.at
    BY DEF InTime
  <2>1. e \in m.items /\ ~e.sent
    BY DEF Unsent
  <2>2. CASE e \in n.items
    BY <2>1, <2>2 DEF InTime, Unsent
  <2>3. CASE e.item = i /\ e.smp.at = source[i].at
    BY <1>5, <2>3
  <2> QED
    BY <1>4, <2>1, <2>2, <2>3
<1> QED
  BY <1>4, <1>6

LEMMA BecomesInOrder ==
    ASSUME OInv, "Sampling" \notin Modes, NEW k \in DOMAIN avail, NEW m, Becomes(k, m)
    PROVE  Sorted(m) /\ InTime(m)
<1>1. /\ avail[k] \in Notif /\ Sorted(avail[k]) /\ InTime(avail[k])
      /\ \A f \in avail[k].items : FromSource(f.item, f.smp)
  BY Parts DEF OInv, DInv, Dated, InOrder
<1>2. CASE m = avail[k]
  BY <1>1, <1>2
<1>3. CASE IsSomethingToNotify(avail[k]) /\ Queues(avail[k], m)
  <2>1. Open(avail[k])
    BY <1>3 DEF IsSomethingToNotify, Open
  <2> QED
    BY <1>1, <1>3, <2>1, QueuesInOrder
<1>4. CASE m = Acknowledge(avail[k])
  <2>1. Sorted(m) /\ Unsent(m) = Unsent(avail[k])
    BY <1>1, <1>4, AcknowledgeSorted, AcknowledgeEntries
  <2> QED
    BY <1>1, <2>1 DEF InTime
<1>5. CASE m = MarkSent(avail[k], Taken(k))
  <2>1. Sorted(m) /\ Unsent(m) \subseteq Unsent(avail[k])
    BY <1>1, <1>5, MarkSentSorted
  <2> QED
    BY <1>1, <2>1 DEF InTime
<1> QED
  BY <1>2, <1>3, <1>4, <1>5, <1>1 DEF Becomes

(* What a step may make of the response and of what was published.         *)
Transmits ==
    \/ UNCHANGED <<resp, published>>
    \/ /\ resp'.phase # "filled" \/ resp'.data = {}
       /\ \A i \in Item : published'[i] \in {published[i], 0}
    \/ /\ ~pass.running /\ resp'.data = Batch
       /\ avail' = [k \in DOMAIN avail |-> MarkSent(avail[k], Taken(k))]
       /\ UNCHANGED <<published, pass, source>>
    \/ EndSendResponse

LEMMA TransmitStep == ASSUME IInv, [Next]_vars PROVE Transmits
<1>0. published \in [Item -> Nat]
  BY DEF IInv, TypeOK
<1>1. CASE UpdateThread
  BY <1>1 DEF UpdateThread, PassBegin, CompareItem, SampleItem, SkipItem, PassEnd, queueVars,
              clientVars, Transmits
<1>2. CASE NotificationThread
  <2>1. CASE ProcessQueuedPublishRequest
    <3>1. ~pass.running /\ UNCHANGED <<published, pass, source>>
      BY <2>1 DEF ProcessQueuedPublishRequest, clientVars
    <3>2. CASE Fill /\ Batch # {}
      BY <3>1, <3>2 DEF Fill, Taken, Transmits
    <3>3. CASE resp'.data = {}
      BY <3>1, <3>3 DEF Transmits
    <3> QED
      BY <2>1, <3>2, <3>3 DEF ProcessQueuedPublishRequest, Fill, FillDisabled, NoResponse
  <2>2. CASE EndSendResponseFailed \/ RemoveAckedDataChangeNotification
    BY <2>2 DEF EndSendResponseFailed, RemoveAckedDataChangeNotification, NoResponse,
                clientVars, Transmits
  <2> QED
    BY <1>2, <2>1, <2>2 DEF NotificationThread, Transmits
<1>3. CASE Services
  <2>1. ASSUME NEW i \in Item, NEW m \in Modes, AddMonitoredItem(i, m) PROVE Transmits
    <3>1. resp' = resp /\ resp.phase = "none" /\ published' = [published EXCEPT ![i] = 0]
      BY <2>1 DEF AddMonitoredItem, ServiceMayRun, queueVars
    <3> QED
      BY <1>0, <3>1 DEF Transmits
  <2>2. ASSUME ~(\E i \in Item, m \in Modes : AddMonitoredItem(i, m)) PROVE Transmits
    BY <1>3, <2>2 DEF Services, Publish, Republish, SetPublishingMode, SetMonitoringMode,
                      DeleteMonitoredItem, queueVars, clientVars, Transmits
  <2> QED
    BY <2>1, <2>2
<1>4. CASE Environment
  BY <1>4 DEF Environment, Write, KeepAliveElapses, queueVars, clientVars, Transmits
<1>5. CASE UNCHANGED vars
  BY <1>5 DEF vars, queueVars, clientVars, Transmits
<1> QED
  BY <1>1, <1>2, <1>3, <1>4, <1>5 DEF Next

(* A message takes the entries of a record in their order.                 *)
LEMMA BatchIsPrefix ==
    ASSUME OInv, NEW k \in DOMAIN avail, NEW e \in Unsent(avail[k]), NEW f \in Unsent(avail[k]),
           e.pos < f.pos, <<k, f>> \in Batch
    PROVE  <<k, e>> \in Batch
<1>1. k \in Unacked /\ RInv
  BY UnsentIsUnacked DEF OInv, NInv, RInv
<1>2. <<k, e>> \in Queue
  BY <1>1 DEF Queue
<1>3. CASE MaxNotificationsPerPublish = 0
  BY <1>2, <1>3 DEF Batch
<1>4. CASE MaxNotificationsPerPublish # 0
  <2> DEFINE P == {r \in Queue : Before(r, <<k, e>>)}
             Q == {r \in Queue : Before(r, <<k, f>>)}
  <2>1. e.pos \in Nat /\ f.pos \in Nat /\ \A r \in Queue : r[2].pos \in Nat
    <3>1. \A l \in DOMAIN avail : \A g \in Unsent(avail[l]) : g.pos \in Nat
      BY Parts, NotifParts DEF OInv, DInv, Unsent, Entry
    <3>2. \A r \in Queue : \E l \in DOMAIN avail : r \in {l} \X Unsent(avail[l])
      BY DEF Queue, Unacked
    <3> QED
      BY <3>1, <3>2
  <2>2. P \subseteq Q
    BY <2>1 DEF Before
  <2>3. IsFiniteSet(Q)
    BY <1>1, QueueIsFinite, FS_Subset DEF RInv
  <2>4. Cardinality(P) <= Cardinality(Q) /\ Cardinality(P) \in Nat /\ Cardinality(Q) \in Nat
    BY <2>2, <2>3, FS_Subset, FS_CardinalityType
  <2>5. Cardinality(Q) < MaxNotificationsPerPublish
    BY <1>4 DEF Batch
  <2> HIDE DEF P, Q
  <2>6. Cardinality(P) < MaxNotificationsPerPublish
    BY <2>4, <2>5, ConstantsAssumption
  <2> QED
    BY <1>2, <2>6 DEF Batch, P
<1> QED
  BY <1>3, <1>4

(* A pass starts with, and leaves behind, an empty record.                 *)
LEMMA PassLeavesFreshEmpty ==
    ASSUME IInv, [Next]_vars, ~pass.running => pass.fresh.items = {}
    PROVE  ~pass'.running => pass'.fresh.items = {}
<1>0. pass \in PassType /\ (~pass.running => pass.todo = {})
  BY Parts DEF PassIsClean
<1>1. CASE UpdateThread
  <2>1. CASE PassBegin
    BY <2>1 DEF PassBegin, NoPass
  <2>2. CASE PassEnd
    BY <2>2 DEF PassEnd, NoPass, EmptyNotification
  <2>3. ASSUME NEW i \in Item, i \in pass.todo, NEW q, q = [pass EXCEPT !.todo = @ \ {i}]
        PROVE  pass.running /\ q \in PassType /\ q.running
    BY <1>0, <2>3 DEF PassType
  <2>4. ASSUME NEW q \in PassType, q.running, NEW i, NEW s, NEW qs, NEW d, AddToTarget(q, i, s, qs, d)
        PROVE  pass'.running
    BY <2>4 DEF AddToTarget, PassType
  <2>5. ASSUME NEW i \in Item, CompareItem(i) PROVE pass'.running
    <3>1. i \in pass.todo
      BY <2>5 DEF CompareItem
    <3>2. CASE ~Differs(i)
      BY <2>3, <2>5, <3>1, <3>2 DEF CompareItem
    <3>3. CASE Differs(i)
      <4> DEFINE p == [pass EXCEPT !.todo = @ \ {i}]
      <4>1. PICK q \in Targets(p) : AddToTarget(q, i, source[i], QueueSize, DiscardOldest)
        BY <2>5, <3>3 DEF CompareItem
      <4>2. p \in PassType /\ p.running
        BY <2>3, <3>1
      <4> HIDE DEF p
      <4>3. q.running /\ q \in PassType
        <5>1. Firsts(Recyclable) \subseteq Nat
          BY Parts DEF Firsts, Recyclable
        <5> QED
          BY <4>1, <4>2, <5>1 DEF Targets, PassType
      <4> QED
        BY <2>4, <4>1, <4>3
    <3> QED
      BY <3>2, <3>3
  <2>6. ASSUME NEW i \in Item, SampleItem(i) PROVE pass'.running
    <3>1. i \in pass.todo /\ AddToTarget([pass EXCEPT !.todo = @ \ {i}], i, last[i], 0, FALSE)
      BY <2>6 DEF SampleItem
    <3> QED
      BY <2>3, <2>4, <3>1
  <2>7. ASSUME NEW i \in Item, SkipItem(i) PROVE pass'.running
    BY <2>3, <2>7 DEF SkipItem
  <2> QED
    BY <1>1, <2>1, <2>2, <2>5, <2>6, <2>7 DEF UpdateThread
<1>2. CASE UNCHANGED pass
  BY <1>2
<1>3. CASE NotificationThread
  BY <1>2, <1>3 DEF NotificationThread, ProcessQueuedPublishRequest, EndSendResponse,
                    EndSendResponseFailed, RemoveAckedDataChangeNotification, threadVars
<1>4. CASE Services
  BY <1>2, <1>4 DEF Services, Publish, Republish, SetPublishingMode, SetMonitoringMode,
                    AddMonitoredItem, DeleteMonitoredItem, threadVars
<1>5. CASE Environment
  BY <1>2, <1>5 DEF Environment, Write, KeepAliveElapses, threadVars
<1>6. CASE UNCHANGED vars
  BY <1>2, <1>6 DEF vars, threadVars
<1> QED
  BY <1>1, <1>3, <1>4, <1>5, <1>6 DEF Next

(* What is published after a transmission was published before or is in    *)
(* the message.                                                            *)
LEMMA PublishedIs ==
    ASSUME IInv, EndSendResponse, NEW i \in Item
    PROVE  \/ published'[i] = published[i]
           \/ \E q \in resp.data : q[2].item = i /\ published'[i] = q[2].smp.at
<1> DEFINE got == {q[2] : q \in resp.data}
           s == [NoSample EXCEPT !.at = published[i]]
           latest == {e \in got : /\ e.item = i
                                  /\ e.smp.at > s.at
                                  /\ \A f \in got : f.item = i => f.smp.at <= e.smp.at}
<1>1. published'[i] = NewestOf(got, i, s).at
  BY DEF EndSendResponse
<1>2. s.at = published[i]
  BY DEF NoSample
<1>3. CASE latest = {}
  BY <1>1, <1>2, <1>3 DEF NewestOf
<1>4. CASE latest # {}
  <2>1. NewestOf(got, i, s) = (CHOOSE e \in latest : TRUE).smp
    BY <1>4 DEF NewestOf
  <2>2. PICK e \in latest : NewestOf(got, i, s) = e.smp
    BY <1>4, <2>1
  <2> QED
    BY <1>1, <2>2
<1> QED
  BY <1>3, <1>4

LEMMA NextInOrder ==
    ASSUME "Sampling" \notin Modes
    PROVE  OInv /\ IInv' /\ [Next]_vars => InOrder'
<1> SUFFICES ASSUME OInv, IInv', [Next]_vars PROVE InOrder'
  OBVIOUS
<1>0. IInv /\ RecordStep /\ SourceOnly /\ Transmits /\ InOrder
  BY NextStep, SourceStep, TransmitStep DEF OInv, DInv, IInv
<1>1. /\ published \in [Item -> Nat] /\ published' \in [Item -> Nat]
      /\ source \in [Item -> Sample] /\ source' \in [Item -> Sample] /\ clock \in Nat
      /\ avail \in [DOMAIN avail -> Notif] /\ avail' \in [DOMAIN avail' -> Notif]
      /\ pass.fresh \in Notif /\ pass'.fresh \in Notif
      /\ resp.data \in SUBSET (Nat \X Entry(Sample))
  BY <1>0 DEF IInv, TypeOK
<1>2. \A i \in Item : source[i].at \in Nat /\ source'[i].at \in Nat /\ source[i].at <= source'[i].at
  BY <1>0, <1>1 DEF SourceOnly, OInv, DInv, Dated, Sample
<1>3. ~pass'.running => pass'.fresh.items = {}
  BY <1>0, PassLeavesFreshEmpty DEF InOrder
<1>4. Sorted(pass'.fresh) /\ InTime(pass'.fresh)
  <2>1. Sorted(EmptyNotification) /\ InTime(EmptyNotification)
    BY DEF EmptyNotification, Sorted, InTime, Unsent
  <2>2. Open(pass.fresh) /\ \A e \in pass.fresh.items : FromSource(e.item, e.smp)
    BY Parts DEF OInv, DInv, Dated, PassIsClean, Open
  <2> QED
    BY <1>0, <1>1, <2>1, <2>2, QueuesInOrder DEF RecordStep, InOrder
<1>5. ASSUME NEW k \in DOMAIN avail' PROVE Sorted(avail'[k]) /\ InTime(avail'[k])
  <2>1. CASE k \in DOMAIN avail
    BY <1>0, <2>1, BecomesInOrder DEF RecordStep
  <2>2. CASE k \notin DOMAIN avail
    BY <1>0, <2>2 DEF RecordStep, InOrder
  <2> QED
    BY <2>1, <2>2
<1>6. ASSUME NEW n \in Notif, NEW e \in Unsent(n) PROVE e.item \in Item /\ e.smp.at \in Nat
  BY NotifParts DEF Unsent, Entry, Sample
<1>7. CASE UNCHANGED <<resp, published>>
  <2>1. \A k \in DOMAIN avail' : InTime(avail[k])'
    BY <1>5, <1>7 DEF InTime
  <2>2. InTime(pass.fresh)'
    BY <1>4, <1>7 DEF InTime
  <2>3. \A i \in Item : published'[i] <= source'[i].at
    BY <1>0, <1>1, <1>2, <1>7 DEF InOrder
  <2>4. \A q \in resp.data : q[2].item \in Item /\ q[2].smp.at \in Nat
    BY <1>1 DEF Entry, Sample
  <2>5. MessageInTime'
    BY <1>0, <1>2, <1>7, <2>4 DEF MessageInTime, InOrder, Before
  <2> QED
    BY <1>3, <1>4, <1>5, <2>1, <2>2, <2>3, <2>5 DEF InOrder, Sorted
<1>8. CASE /\ resp'.phase # "filled" \/ resp'.data = {}
           /\ \A i \in Item : published'[i] \in {published[i], 0}
  <2>1. ASSUME NEW n \in Notif, InTime(n), NEW e \in Unsent(n) PROVE published'[e.item] <= e.smp.at
    BY <1>1, <1>6, <1>8, <2>1 DEF InTime
  <2>2. \A k \in DOMAIN avail' : InTime(avail[k])'
    BY <1>1, <1>5, <1>8, <2>1 DEF InTime
  <2>3. InTime(pass.fresh)'
    BY <1>1, <1>4, <1>8, <2>1 DEF InTime
  <2>4. \A i \in Item : published'[i] <= source'[i].at
    BY <1>0, <1>1, <1>2, <1>8 DEF InOrder
  <2>5. MessageInTime'
    BY <1>8 DEF MessageInTime
  <2> QED
    BY <1>3, <1>4, <1>5, <2>2, <2>3, <2>4, <2>5 DEF InOrder, Sorted
<1>9. CASE /\ ~pass.running /\ resp'.data = Batch
           /\ avail' = [k \in DOMAIN avail |-> MarkSent(avail[k], Taken(k))]
           /\ UNCHANGED <<published, pass, source>>
  <2>1. ASSUME NEW q \in Batch
        PROVE  /\ q[1] = LastKey /\ LastKey \in DOMAIN avail /\ q[2] \in Unsent(avail[LastKey])
               /\ q = <<LastKey, q[2]>>
    <3>1. PICK k \in Unacked : q \in {k} \X Unsent(avail[k])
      BY DEF Batch, Queue
    <3>2. q[1] = LastKey
      BY BatchIsOfLast DEF OInv
    <3> QED
      BY <3>1, <3>2 DEF Unacked
  <2>2. ASSUME NEW k \in DOMAIN avail, NEW e \in Unsent(avail'[k]),
               NEW q \in Batch, q[2].item = e.item
        PROVE  q[2].smp.at <= e.smp.at
    <3>1. avail[k] \in Notif /\ Sorted(avail[k])
      BY <1>0, <1>1 DEF InOrder
    <3>2. e \in Unsent(avail[k]) /\ e \notin Taken(k)
      BY <1>9, <2>2, <3>1, MarkSentSorted
    <3>3. k = LastKey
      <4>1. k \in Nat /\ LastKey \in Nat /\ LastKey \in DOMAIN avail /\ Unsent(avail[LastKey]) # {}
        BY <1>0, <2>1, Parts
      <4>2. ~(k < LastKey) /\ ~(LastKey < k)
        BY <2>1, <3>2, <4>1 DEF OInv, NInv, OnlyLastUnsent
      <4> QED
        BY <4>1, <4>2
    <3>4. /\ q[2] \in Unsent(avail[k]) /\ <<k, q[2]>> \in Batch /\ <<k, e>> \notin Batch
      BY <2>1, <3>2, <3>3 DEF Taken, Unsent
    <3>5. /\ q[2] \in avail[k].items /\ e \in avail[k].items
          /\ q[2].pos \in Nat /\ e.pos \in Nat /\ q[2].smp.at \in Nat /\ e.smp.at \in Nat
      BY <3>1, <3>2, <3>4, NotifParts DEF Unsent, Entry, Sample
    <3>6. ~(e.pos < q[2].pos)
      BY <3>2, <3>4, BatchIsPrefix
    <3>7. q[2].smp.at < e.smp.at
      BY <2>2, <3>1, <3>4, <3>5, <3>6 DEF Sorted
    <3> QED
      BY <3>5, <3>7
  <2>3. \A k \in DOMAIN avail' : InTime(avail[k])'
    BY <1>5, <1>9, <2>2 DEF InTime
  <2>4. InTime(pass.fresh)'
    BY <1>0, <1>9 DEF InTime, InOrder, Unsent
  <2>5. MessageInTime'
    <3> DEFINE l == LastKey
    <3> SUFFICES ASSUME NEW q \in Batch
                 PROVE  /\ published[q[2].item] <= q[2].smp.at
                        /\ q[2].smp.at <= source[q[2].item].at
                        /\ \A r \in Batch :
                              q[2].item = r[2].item /\ Before(q, r) => q[2].smp.at < r[2].smp.at
      BY <1>9 DEF MessageInTime, Before
    <3>1. l \in DOMAIN avail /\ q[2] \in Unsent(avail[l]) /\ Sorted(avail[l]) /\ InTime(avail[l])
      BY <1>0, <2>1 DEF InOrder
    <3>2. q[2] \in avail[l].items /\ q[2] \in Entry(Sample)
      BY <1>1, <3>1, NotifParts DEF Unsent
    <3>3. q[2].smp.at <= source[q[2].item].at
      BY <3>1, <3>2 DEF OInv, DInv, Dated, FromSource
    <3>4. ASSUME NEW r \in Batch, q[2].item = r[2].item, Before(q, r)
          PROVE  q[2].smp.at < r[2].smp.at
      <4>1. r[1] = q[1] /\ r[2] \in avail[l].items /\ r[2] \in Entry(Sample) /\ q[1] \in Nat
        BY <1>0, <1>1, <2>1, <3>1, NotifParts, Parts DEF Unsent
      <4>2. q[2].pos < r[2].pos /\ q[2].pos \in Nat /\ r[2].pos \in Nat
        BY <3>2, <3>4, <4>1 DEF Before, Entry
      <4> QED
        BY <3>1, <3>2, <3>4, <4>1, <4>2 DEF Sorted
    <3> QED
      BY <3>1, <3>3, <3>4 DEF InTime
  <2>6. \A i \in Item : published'[i] <= source'[i].at
    BY <1>0, <1>9 DEF InOrder
  <2> QED
    BY <1>3, <1>4, <1>5, <2>3, <2>4, <2>5, <2>6 DEF InOrder, Sorted
<1>10. CASE EndSendResponse
  <2>1. /\ UNCHANGED <<avail, pass, source>> /\ resp.phase = "filled" /\ resp'.phase = "sent"
    BY <1>0, <1>10, Parts DEF EndSendResponse, threadVars, RespType
  <2>2. ASSUME NEW n \in Notif, InTime(n), NEW e \in Unsent(n) PROVE published'[e.item] <= e.smp.at
    <3>1. e.item \in Item
      BY <1>6
    <3>2. \/ published'[e.item] = published[e.item]
          \/ \E q \in resp.data : q[2].item = e.item /\ published'[e.item] = q[2].smp.at
      BY <1>0, <1>10, <3>1, PublishedIs
    <3> QED
      BY <2>1, <2>2, <3>2 DEF InTime
  <2>3. \A k \in DOMAIN avail' : InTime(avail[k])'
    BY <1>1, <1>5, <2>1, <2>2 DEF InTime
  <2>4. InTime(pass.fresh)'
    BY <1>1, <1>4, <2>1, <2>2 DEF InTime
  <2>5. ASSUME NEW i \in Item PROVE published'[i] <= source'[i].at
    <3>1. \/ published'[i] = published[i]
          \/ \E q \in resp.data : q[2].item = i /\ published'[i] = q[2].smp.at
      BY <1>0, <1>10, PublishedIs
    <3> QED
      BY <1>0, <2>1, <3>1 DEF InOrder, MessageInTime
  <2>6. MessageInTime'
    BY <2>1 DEF MessageInTime
  <2> QED
    BY <1>3, <1>4, <1>5, <2>3, <2>4, <2>5, <2>6 DEF InOrder, Sorted
<1> QED
  BY <1>0, <1>7, <1>8, <1>9, <1>10 DEF Transmits

LEMMA InitInOrder == Init => InOrder
<1> SUFFICES ASSUME Init PROVE InOrder
  OBVIOUS
<1>1. DOMAIN avail = {} /\ pass.fresh.items = {} /\ resp.phase = "none"
  BY DEF Init, NoPass, EmptyNotification, NoResponse
<1>2. \A i \in Item : published[i] = 0 /\ source[i].at = 1
  <2>1. PICK v \in Value : source = [i \in Item |-> [val |-> v, at |-> 1, ovf |-> FALSE]]
    BY DEF Init
  <2> QED
    BY <2>1 DEF Init
<1> QED
  BY <1>1, <1>2 DEF InOrder, Sorted, InTime, Unsent, MessageInTime

(* Publish responses deliver the values of an item in the order of their   *)
(* writes, within a message and from one message to the next, where no     *)
(* item is in Sampling mode (SampleItem queues an old value again, and in  *)
(* a record of its own).                                                   *)
THEOREM ValuesAreDeliveredInOrder ==
    ASSUME "Sampling" \notin Modes
    PROVE  Spec => DeliveredInOrder
<1>1. Init => OInv
  BY InitNumbers, InitDated, InitInOrder DEF OInv
<1>2. OInv /\ [Next]_vars => OInv'
  BY NextKeeps, NextRetains, NextNumbers, NextDated, NextInOrder DEF OInv, NInv, RInv
<1>3. ASSUME OInv, [Next]_vars
      PROVE  [EndSendResponse =>
                 \A q \in resp.data :
                     /\ q[2].smp.at >= published[q[2].item]
                     /\ \A r \in resp.data :
                           q[2].item = r[2].item /\ Before(q, r) => q[2].smp.at < r[2].smp.at]_vars
  <2> SUFFICES ASSUME EndSendResponse, NEW q \in resp.data
               PROVE  /\ q[2].smp.at >= published[q[2].item]
                      /\ \A r \in resp.data :
                            q[2].item = r[2].item /\ Before(q, r) => q[2].smp.at < r[2].smp.at
    OBVIOUS
  <2>1. resp.phase = "filled" /\ MessageInTime
    BY <1>3 DEF EndSendResponse, OInv, InOrder
  <2>2. q[2].smp.at \in Nat /\ published[q[2].item] \in Nat
    BY <1>3 DEF OInv, DInv, IInv, TypeOK, Entry, Sample
  <2> QED
    BY <2>1, <2>2 DEF MessageInTime
<1> QED
  BY <1>1, <1>2, <1>3, PTL DEF Spec, DeliveredInOrder

=============================================================================
