------------------------- MODULE SubscriptionProofs -------------------------
(***************************************************************************)
(* Invariance proofs about Subscription, for every value of its constants. *)
(*                                                                         *)
(* First the records (DataChangeNotification), the types and the structure *)
(* of the retransmission map: IInv.  Then what the client received and has *)
(* not acknowledged (Retransmittable): a message takes the number of the   *)
(* last record of the map while its values come from the first ones, so    *)
(* the proof rests on where the unsent values are, which fill the map from *)
(* its end: RInv.  Then how a value leaves its queue                       *)
(* (UnsentLeavesOnlyByOverflow), from what one step may make of a record   *)
(* and from the times of what is queued: Dated.                            *)
(***************************************************************************)
EXTENDS Subscription, FiniteSetTheorems, WellFoundedInduction, TLAPS

-----------------------------------------------------------------------------
(* Lemmas about one record.                                                *)

(* What a record is made of, and that such parts make a record.            *)
LEMMA NotifParts ==
    ASSUME NEW n \in Notif
    PROVE  /\ n = [acked |-> n.acked, items |-> n.items, next |-> n.next, count |-> n.count]
           /\ n.acked \in BOOLEAN
           /\ n.items \subseteq Entry(Sample)
           /\ n.next \in Nat \ {0}
           /\ n.count \in [Item -> Nat]
BY DEF Notif, Notification

LEMMA NotifMake ==
    ASSUME NEW a \in BOOLEAN, NEW S \in SUBSET Entry(Sample),
           NEW x \in Nat \ {0}, NEW c \in [Item -> Nat]
    PROVE  [acked |-> a, items |-> S, next |-> x, count |-> c] \in Notif
BY DEF Notif, Notification

(* Overwriting an entry, and marking it as sent.                           *)
LEMMA EntryOverwritten ==
    ASSUME NEW e \in Entry(Sample), NEW s \in Sample
    PROVE  /\ [e EXCEPT !.smp = s, !.sent = FALSE] \in Entry(Sample)
           /\ [e EXCEPT !.smp = s, !.sent = FALSE].item = e.item
           /\ [e EXCEPT !.smp = s, !.sent = FALSE].sent = FALSE
BY DEF Entry

LEMMA EntrySent ==
    ASSUME NEW e \in Entry(Sample)
    PROVE  /\ [e EXCEPT !.sent = TRUE] \in Entry(Sample)
           /\ [e EXCEPT !.sent = TRUE].item = e.item
BY DEF Entry

(* The four outcomes of AddMonitoredItemNotification, field by field.      *)
Made(m, a, S, x, c) == m = [acked |-> a, items |-> S, next |-> x, count |-> c]
NewEntry(n, i, s) == [pos |-> n.next, item |-> i, smp |-> s, sent |-> FALSE]
Overwritten(n, i, s, e) ==
    IF IsNewest(e, Of(n, i)) THEN [e EXCEPT !.smp = s, !.sent = FALSE] ELSE e

DropOldest(n, i) == {e \in n.items : ~IsOldest(e, Of(n, i))}
OverwriteNewest(n, i, s) == {Overwritten(n, i, s, e) : e \in n.items}

LEMMA AddOutcomes ==
    ASSUME NEW n \in Notif, NEW i \in Item, NEW s, NEW qs \in Nat, NEW d \in BOOLEAN,
           NEW m, m = AddMonitoredItemNotification(n, i, s, qs, d),
           NEW z, z = Flagged(n, i, s, qs)
    PROVE  \/ m = n /\ IsAlreadyInTheTransmissionList(n, i, s)
           \/ /\ Made(m, n.acked, n.items \cup {NewEntry(n, i, z)}, n.next + 1, [n.count EXCEPT ![i] = @ + 1])
              /\ ~IsAlreadyInTheTransmissionList(n, i, s) /\ ~Full(n, i, qs)
           \/ /\ Made(m, n.acked, DropOldest(n, i) \cup {NewEntry(n, i, z)}, n.next + 1, n.count)
              /\ ~IsAlreadyInTheTransmissionList(n, i, s) /\ Full(n, i, qs)
           \/ /\ Made(m, n.acked, OverwriteNewest(n, i, z), n.next, n.count)
              /\ ~IsAlreadyInTheTransmissionList(n, i, s) /\ Full(n, i, qs)
<1>0. n = [acked |-> n.acked, items |-> n.items, next |-> n.next, count |-> n.count]
  BY NotifParts
<1>1. CASE IsAlreadyInTheTransmissionList(n, i, s)
  BY <1>1 DEF AddMonitoredItemNotification
<1>2. CASE ~IsAlreadyInTheTransmissionList(n, i, s) /\ ~Full(n, i, qs)
  <2>1. Made(m, n.acked, n.items \cup {NewEntry(n, i, z)}, n.next + 1, [n.count EXCEPT ![i] = @ + 1])
    BY <1>0, <1>2 DEF AddMonitoredItemNotification, Push, NewEntry, Made
  <2> QED
    BY <1>2, <2>1
<1>3. CASE ~IsAlreadyInTheTransmissionList(n, i, s) /\ Full(n, i, qs) /\ d
  <2>1. Made(m, n.acked, DropOldest(n, i) \cup {NewEntry(n, i, z)}, n.next + 1, n.count)
    BY <1>0, <1>3 DEF AddMonitoredItemNotification, Push, NewEntry, Made, DropOldest
  <2> QED
    BY <1>3, <2>1
<1>4. CASE ~IsAlreadyInTheTransmissionList(n, i, s) /\ Full(n, i, qs) /\ ~d
  <2>1. Made(m, n.acked, OverwriteNewest(n, i, z), n.next, n.count)
    BY <1>0, <1>4 DEF AddMonitoredItemNotification, Overwritten, Made, OverwriteNewest
  <2> QED
    BY <1>4, <2>1
<1> QED
  BY <1>1, <1>2, <1>3, <1>4

(* Toggling the overflow bits of a sample leaves a sample.                 *)
LEMMA FlaggedIsSample ==
    ASSUME NEW n, NEW i, NEW s \in Sample, NEW qs PROVE Flagged(n, i, s, qs) \in Sample
<1>1. [s EXCEPT !.ovf = ~@] \in Sample
  BY DEF Sample
<1> QED
  BY <1>1 DEF Flagged

(* The entry queueing makes, and the ones it overwrites, are entries; an   *)
(* overwritten entry keeps its item and stays, or becomes, unsent.         *)
LEMMA NewEntryType ==
    ASSUME NEW n \in Notif, NEW i \in Item, NEW s \in Sample
    PROVE  /\ NewEntry(n, i, s) \in Entry(Sample)
           /\ NewEntry(n, i, s).item = i
           /\ NewEntry(n, i, s).sent = FALSE
BY NotifParts DEF NewEntry, Entry

LEMMA OverwrittenKeeps ==
    ASSUME NEW n, NEW i, NEW s \in Sample, NEW e \in Entry(Sample)
    PROVE  /\ Overwritten(n, i, s, e) \in Entry(Sample)
           /\ Overwritten(n, i, s, e).item = e.item
           /\ ~e.sent => ~Overwritten(n, i, s, e).sent
BY EntryOverwritten DEF Overwritten

(* Queueing a sample keeps a record a record, does not acknowledge it,     *)
(* leaves it with something to notify if it had, and leaves every counted  *)
(* handle with an entry: whatever makes room, an entry remains.            *)
LEMMA AddKeeps ==
    ASSUME NEW n \in Notif, NEW i \in Item, NEW s \in Sample,
           NEW qs \in Nat, NEW d \in BOOLEAN,
           NEW m, m = AddMonitoredItemNotification(n, i, s, qs, d)
    PROVE  /\ m \in Notif
           /\ m.acked = n.acked
           /\ IsSomethingToNotify(n) => IsSomethingToNotify(m)
           /\ Backed(n) => Backed(m)
<1>0. /\ n.acked \in BOOLEAN /\ n.items \subseteq Entry(Sample)
      /\ n.next \in Nat \ {0} /\ n.count \in [Item -> Nat] /\ n.next + 1 \in Nat \ {0}
  BY NotifParts
<1> DEFINE z == Flagged(n, i, s, qs)
           e0 == NewEntry(n, i, z)
           rest == DropOldest(n, i)
           over == OverwriteNewest(n, i, z)
<1>z. z \in Sample
  BY FlaggedIsSample
<1>d. \/ m = n
      \/ Made(m, n.acked, n.items \cup {e0}, n.next + 1, [n.count EXCEPT ![i] = @ + 1])
      \/ Made(m, n.acked, rest \cup {e0}, n.next + 1, n.count)
      \/ Made(m, n.acked, over, n.next, n.count)
  BY AddOutcomes
<1> HIDE DEF z
<1>a. e0 \in Entry(Sample) /\ e0.item = i /\ ~e0.sent
  BY <1>0, <1>z, NewEntryType
<1>b. /\ over \in SUBSET Entry(Sample)
      /\ \A e \in n.items : \E f \in over : f.item = e.item /\ (~e.sent => ~f.sent)
  <2>1. ASSUME NEW e \in n.items
        PROVE  LET f == Overwritten(n, i, z, e)
               IN  f \in Entry(Sample) /\ f.item = e.item /\ (~e.sent => ~f.sent)
    <3>1. e \in Entry(Sample)
      BY <1>0
    <3> QED
      BY <1>z, <3>1, OverwrittenKeeps
  <2> QED
    BY <2>1 DEF OverwriteNewest
<1>c. rest \subseteq n.items /\ \A e \in n.items : e.item # i => e \in rest
  BY DEF DropOldest, IsOldest, Of
<1> HIDE DEF e0, over, rest
<1>1. CASE m = n
  BY <1>1
<1>2. CASE Made(m, n.acked, n.items \cup {e0}, n.next + 1, [n.count EXCEPT ![i] = @ + 1])
  <2>1. /\ m.acked = n.acked /\ m.items = n.items \cup {e0}
        /\ m.count = [n.count EXCEPT ![i] = @ + 1]
    BY <1>2 DEF Made
  <2>2. n.items \cup {e0} \in SUBSET Entry(Sample) /\ [n.count EXCEPT ![i] = @ + 1] \in [Item -> Nat]
    BY <1>0, <1>a
  <2>3. m \in Notif
    BY <1>0, <1>2, <2>2, NotifMake DEF Made
  <2>4. IsSomethingToNotify(n) => IsSomethingToNotify(m)
    BY <2>1 DEF IsSomethingToNotify, Unsent
  <2>5. ASSUME Backed(n), NEW j \in Item, m.count[j] > 0 PROVE Of(m, j) # {}
    <3>1. CASE j = i
      BY <1>a, <2>1, <3>1 DEF Of
    <3>2. CASE j # i
      BY <1>0, <2>1, <2>5, <3>2 DEF Backed, Of
    <3> QED
      BY <3>1, <3>2
  <2> QED
    BY <2>1, <2>3, <2>4, <2>5 DEF Backed
<1>3. CASE Made(m, n.acked, rest \cup {e0}, n.next + 1, n.count)
  <2>1. m.acked = n.acked /\ m.items = rest \cup {e0} /\ m.count = n.count
    BY <1>3 DEF Made
  <2>2. rest \cup {e0} \in SUBSET Entry(Sample)
    BY <1>0, <1>a, <1>c
  <2>3. m \in Notif
    BY <1>0, <1>3, <2>2, NotifMake DEF Made
  <2>4. IsSomethingToNotify(n) => IsSomethingToNotify(m)
    BY <1>a, <2>1 DEF IsSomethingToNotify, Unsent
  <2>5. ASSUME Backed(n), NEW j \in Item, m.count[j] > 0 PROVE Of(m, j) # {}
    <3>1. CASE j = i
      BY <1>a, <2>1, <3>1 DEF Of
    <3>2. CASE j # i
      <4>1. PICK e \in n.items : e.item = j
        BY <2>1, <2>5 DEF Backed, Of
      <4>2. e \in m.items
        BY <1>c, <2>1, <3>2, <4>1
      <4> QED
        BY <4>1, <4>2 DEF Of
    <3> QED
      BY <3>1, <3>2
  <2> QED
    BY <2>1, <2>3, <2>4, <2>5 DEF Backed
<1>4. CASE Made(m, n.acked, over, n.next, n.count)
  <2>1. m.acked = n.acked /\ m.items = over /\ m.count = n.count
    BY <1>4 DEF Made
  <2>3. m \in Notif
    BY <1>0, <1>4, <1>b, NotifMake DEF Made
  <2>4. IsSomethingToNotify(n) => IsSomethingToNotify(m)
    BY <1>b, <2>1 DEF IsSomethingToNotify, Unsent
  <2>5. Backed(n) => Backed(m)
    BY <1>b, <2>1 DEF Backed, Of
  <2> QED
    BY <2>1, <2>3, <2>4, <2>5
<1> QED
  BY <1>1, <1>2, <1>3, <1>4, <1>d

(* An acknowledgement keeps the type, the equivalence of "acknowledged"    *)
(* and "empty", and the counts.                                            *)
LEMMA AcknowledgeKeeps ==
    ASSUME NEW n \in Notif, n.acked <=> n.items = {}, Backed(n)
    PROVE  /\ Acknowledge(n) \in Notif
           /\ Acknowledge(n).acked <=> Acknowledge(n).items = {}
           /\ Backed(Acknowledge(n))
<1> DEFINE r == RemoveSent(n)
           c == CountAfterRemoval(n)
<1>1. n.acked \in BOOLEAN /\ n.items \subseteq Entry(Sample) /\ n.count \in [Item -> Nat]
  BY NotifParts
<1>2. c \in [Item -> Nat]
  BY <1>1 DEF CountAfterRemoval
<1>3. Unsent(n) \in SUBSET Entry(Sample)
  BY <1>1 DEF Unsent
<1>4. r \in Notif /\ r.acked = n.acked /\ r.items = Unsent(n) /\ r.count = c
  BY <1>2, <1>3 DEF RemoveSent, Notif, Notification
<1> HIDE DEF r
<1>5. /\ Acknowledge(n) \in Notif
      /\ Acknowledge(n).acked = (n.acked \/ Unsent(n) = {})
      /\ Acknowledge(n).items = Unsent(n)
      /\ Acknowledge(n).count = c
  BY <1>1, <1>4 DEF Acknowledge, Notif, Notification, r
<1>6. n.acked => Unsent(n) = {}
  BY DEF Unsent
<1>7. \A i \in Item : c[i] > 0 => Of(n, i) # {} /\ \A e \in Of(n, i) : ~e.sent
  BY DEF Backed, CountAfterRemoval
<1> HIDE DEF c
<1>8. Backed(Acknowledge(n))
  BY <1>5, <1>7 DEF Backed, Of, Unsent
<1> QED
  BY <1>5, <1>6, <1>8

(* Marking entries as sent keeps the type, the emptiness and the counts.   *)
LEMMA MarkSentKeeps ==
    ASSUME NEW n \in Notif, NEW B, Backed(n)
    PROVE  /\ MarkSent(n, B) \in Notif
           /\ MarkSent(n, B).acked = n.acked
           /\ MarkSent(n, B).items = {} <=> n.items = {}
           /\ Backed(MarkSent(n, B))
<1> DEFINE mark(e) == IF e \in B THEN [e EXCEPT !.sent = TRUE] ELSE e
<1>1. MarkSent(n, B) = [acked |-> n.acked, items |-> {mark(e) : e \in n.items},
                        next |-> n.next, count |-> n.count]
  BY NotifParts DEF MarkSent
<1>2. ASSUME NEW e \in n.items PROVE mark(e) \in Entry(Sample) /\ mark(e).item = e.item
  <2>1. e \in Entry(Sample)
    BY NotifParts
  <2> QED
    BY <2>1, EntrySent
<1> HIDE DEF mark
<1>3. {mark(e) : e \in n.items} \in SUBSET Entry(Sample)
  BY <1>2
<1>4. MarkSent(n, B) \in Notif
  BY <1>1, <1>3, NotifParts, NotifMake
<1>5. Backed(MarkSent(n, B))
  BY <1>1, <1>2 DEF Backed, Of
<1> QED
  BY <1>1, <1>4, <1>5

(* Deleting an item changes nothing in a record that is acknowledged only  *)
(* when empty.                                                             *)
LEMMA RemoveKeeps ==
    ASSUME NEW n \in Notif, NEW i \in Item, n.acked <=> n.items = {}
    PROVE  RemoveMonitoredItemNotification(n, i) = n
<1>1. CASE ~n.acked
  BY <1>1 DEF RemoveMonitoredItemNotification
<1>2. CASE n.acked
  <2>1. {e \in n.items : ~(e.item = i /\ e.sent)} = n.items
    BY <1>2
  <2> QED
    BY <1>2, <2>1, NotifParts DEF RemoveMonitoredItemNotification
<1> QED
  BY <1>1, <1>2

(* The record the constructor makes.                                       *)
LEMMA EmptyKeeps ==
    EmptyNotification \in Notif /\ ~EmptyNotification.acked /\ Backed(EmptyNotification)
<1>1. [i \in Item |-> 0] \in [Item -> Nat] /\ {} \in SUBSET Entry(Sample) /\ 1 \in Nat \ {0}
  OBVIOUS
<1>2. EmptyNotification \in Notif
  BY <1>1, NotifMake DEF EmptyNotification
<1>3. ~EmptyNotification.acked /\ EmptyNotification.count = [i \in Item |-> 0]
  BY DEF EmptyNotification
<1>4. Backed(EmptyNotification)
  BY <1>3 DEF Backed
<1> QED
  BY <1>2, <1>3, <1>4

-----------------------------------------------------------------------------
(* Types of what the notification thread and the client compute.           *)

PassType == [running : BOOLEAN, todo : SUBSET Item,
             target : {"none", "fresh", "recycled"}, key : Nat, fresh : Notif]
RespType == [phase : {"none", "filled", "sent"}, seq : Nat,
             data : SUBSET (Nat \X Entry(Sample)), list : SUBSET Nat]

(* The newest sample among some entries and a given sample is a sample.    *)
LEMMA NewestOfType ==
    ASSUME NEW E \in SUBSET Entry(Sample), NEW i, NEW s \in Sample
    PROVE  NewestOf(E, i, s) \in Sample
<1> DEFINE latest == {e \in E : /\ e.item = i
                                /\ e.smp.at > s.at
                                /\ \A f \in E : f.item = i => f.smp.at <= e.smp.at}
<1>1. CASE latest = {}
  BY <1>1 DEF NewestOf
<1>2. CASE latest # {}
  <2>1. NewestOf(E, i, s) = (CHOOSE e \in latest : TRUE).smp
    BY <1>2 DEF NewestOf
  <2>2. (CHOOSE e \in latest : TRUE) \in E
    BY <1>2
  <2> QED
    BY <2>1, <2>2 DEF Entry
<1> QED
  BY <1>1, <1>2

(* The last number of the map is a number, and 0 when the map is empty.    *)
LEMMA LastKeyType ==
    ASSUME DOMAIN avail \subseteq Nat
    PROVE  LastKey \in Nat
<1>1. CASE Lasts(DOMAIN avail) = {}
  BY <1>1 DEF LastKey
<1>2. CASE Lasts(DOMAIN avail) # {}
  <2>1. LastKey = CHOOSE k \in Lasts(DOMAIN avail) : TRUE
    BY <1>2 DEF LastKey
  <2>2. LastKey \in Lasts(DOMAIN avail)
    BY <1>2, <2>1
  <2> QED
    BY <2>2 DEF Lasts
<1> QED
  BY <1>1, <1>2

(* What a response takes are numbered entries.                             *)
LEMMA BatchType ==
    ASSUME TypeOK
    PROVE  Batch \in SUBSET (Nat \X Entry(Sample)) /\ Unacked \in SUBSET Nat
<1>1. \A k \in DOMAIN avail : k \in Nat /\ Unsent(avail[k]) \subseteq Entry(Sample)
  BY NotifParts DEF TypeOK, Unsent
<1>2. \A q \in Queue : q \in Nat \X Entry(Sample)
  BY <1>1 DEF Queue, Unacked
<1> QED
  BY <1>1, <1>2 DEF Batch, Unacked

-----------------------------------------------------------------------------
(* The inductive invariant, action by action.                              *)

(* A step that leaves the map, the counter and the pass alone has only the *)
(* types and the response to account for.                                  *)
LEMMA SameMap ==
    ASSUME IInv, UNCHANGED threadVars, TypeOK', AnswerHasRequest'
    PROVE  IInv'
BY DEF IInv, threadVars, FreshSequenceNumber, NextSeq, AckedIsEmpty, RecycledRecordIsLive,
       CountIsBacked, PassIsClean

(* Queueing a sample in the target of the pass.                            *)
LEMMA AddToTargetKeeps ==
    ASSUME IInv, NEW q \in PassType, q.running, ~q.fresh.acked, Backed(q.fresh),
           q.target = "recycled" => q.key \in DOMAIN avail /\ IsSomethingToNotify(avail[q.key]),
           NEW i \in Item, NEW s \in Sample, NEW qs \in Nat, NEW d \in BOOLEAN,
           AddToTarget(q, i, s, qs, d)
    PROVE  /\ pass' \in PassType
           /\ DOMAIN avail' = DOMAIN avail
           /\ avail' \in [DOMAIN avail' -> Notif]
           /\ AckedIsEmpty' /\ CountIsBacked' /\ RecycledRecordIsLive' /\ PassIsClean'
<1>0. /\ DOMAIN avail \subseteq Nat \ {0} /\ avail \in [DOMAIN avail -> Notif]
      /\ AckedIsEmpty /\ CountIsBacked
  BY DEF IInv, TypeOK
<1>1. CASE q.target = "recycled"
  <2> DEFINE n == avail[q.key]
             m == AddMonitoredItemNotification(n, i, s, qs, d)
  <2>1. q.key \in DOMAIN avail /\ n \in Notif /\ IsSomethingToNotify(n) /\ Backed(n)
    BY <1>0, <1>1 DEF CountIsBacked
  <2>2. m \in Notif /\ m.acked = n.acked /\ IsSomethingToNotify(m) /\ Backed(m)
    BY <2>1, AddKeeps
  <2>3. pass' = q /\ avail' = [avail EXCEPT ![q.key] = m]
    BY <1>1 DEF AddToTarget
  <2> HIDE DEF m, n
  <2>4. DOMAIN avail' = DOMAIN avail /\ avail' \in [DOMAIN avail' -> Notif]
    BY <1>0, <2>1, <2>2, <2>3
  <2>5. ~m.acked /\ m.items # {}
    BY <2>2 DEF IsSomethingToNotify, Unsent
  <2>6. AckedIsEmpty'
    BY <1>0, <2>1, <2>3, <2>4, <2>5 DEF AckedIsEmpty
  <2>7. CountIsBacked'
    BY <1>0, <2>1, <2>2, <2>3, <2>4 DEF CountIsBacked
  <2>8. RecycledRecordIsLive'
    BY <2>1, <2>2, <2>3 DEF RecycledRecordIsLive
  <2>9. PassIsClean'
    BY <2>3 DEF PassIsClean
  <2> QED
    BY <2>3, <2>4, <2>6, <2>7, <2>8, <2>9
<1>2. CASE q.target # "recycled"
  <2> DEFINE m == AddMonitoredItemNotification(q.fresh, i, s, qs, d)
  <2>1. q.fresh \in Notif
    BY DEF PassType
  <2>2. m \in Notif /\ m.acked = q.fresh.acked /\ Backed(m)
    BY <2>1, AddKeeps
  <2>3. pass' = [q EXCEPT !.target = "fresh", !.fresh = m] /\ avail' = avail
    BY <1>2 DEF AddToTarget
  <2> HIDE DEF m
  <2>4. pass' \in PassType /\ pass'.running = q.running /\ pass'.target = "fresh" /\ pass'.fresh = m
    BY <2>2, <2>3 DEF PassType
  <2>5. AckedIsEmpty' /\ CountIsBacked'
    BY <1>0, <2>3 DEF AckedIsEmpty, CountIsBacked
  <2>6. RecycledRecordIsLive'
    BY <2>4 DEF RecycledRecordIsLive
  <2>7. PassIsClean'
    BY <2>2, <2>4 DEF PassIsClean
  <2> QED
    BY <1>0, <2>3, <2>4, <2>5, <2>6, <2>7
<1> QED
  BY <1>1, <1>2

(* The parts of the invariant the proofs below take apart.                 *)
LEMMA Parts ==
    ASSUME IInv
    PROVE  /\ TypeOK /\ FreshSequenceNumber /\ AckedIsEmpty /\ RecycledRecordIsLive
           /\ CountIsBacked /\ PassIsClean /\ AnswerHasRequest
           /\ DOMAIN avail \subseteq Nat \ {0} /\ avail \in [DOMAIN avail -> Notif]
           /\ pass \in PassType /\ resp \in RespType /\ currentSeq \in Nat
           /\ NextSeq \in Nat \ {0}
           /\ NoSample \in Sample
<1>1. TypeOK
  BY DEF IInv
<1>2. /\ DOMAIN avail \subseteq Nat \ {0} /\ avail \in [DOMAIN avail -> Notif]
      /\ pass \in PassType /\ resp \in RespType /\ currentSeq \in Nat
  BY <1>1 DEF TypeOK, PassType, RespType
<1>3. NextSeq \in Nat \ {0}
  BY <1>2 DEF NextSeq
<1>4. NoSample \in Sample
  BY DEF NoSample, Sample
<1> QED
  BY <1>2, <1>3, <1>4 DEF IInv

LEMMA PassBeginKeeps == ASSUME IInv, PassBegin PROVE IInv'
<1>1. /\ pass' = [NoPass EXCEPT !.running = TRUE, !.todo = monitored]
      /\ UNCHANGED <<source, clock, itemVars, avail, currentSeq, stateVars, queueVars, clientVars>>
  BY DEF PassBegin
<1>2. /\ pass' \in PassType
      /\ pass'.running /\ pass'.target = "none" /\ pass'.fresh = EmptyNotification
  <2>1. NoPass \in PassType /\ NoPass.target = "none" /\ NoPass.fresh = EmptyNotification
    BY EmptyKeeps DEF NoPass, PassType
  <2>2. monitored \in SUBSET Item
    BY DEF IInv, TypeOK
  <2> HIDE DEF NoPass
  <2> QED
    BY <1>1, <2>1, <2>2 DEF PassType
<1>3. TypeOK'
  BY <1>1, <1>2 DEF IInv, TypeOK, PassType, itemVars, stateVars, queueVars, clientVars
<1>4. FreshSequenceNumber' /\ AckedIsEmpty' /\ CountIsBacked'
  BY <1>1, Parts DEF FreshSequenceNumber, NextSeq, AckedIsEmpty, CountIsBacked
<1>5. RecycledRecordIsLive' /\ PassIsClean'
  BY <1>2, EmptyKeeps DEF RecycledRecordIsLive, PassIsClean
<1>6. AnswerHasRequest'
  BY <1>1, Parts DEF AnswerHasRequest, queueVars
<1> QED
  BY <1>3, <1>4, <1>5, <1>6 DEF IInv

(* A step of the pass that only ticks an item off.                         *)
LEMMA TickKeeps ==
    ASSUME IInv, NEW i \in Item, i \in pass.todo,
           pass' = [pass EXCEPT !.todo = @ \ {i}],
           UNCHANGED <<source, clock, itemVars, avail, currentSeq, stateVars, queueVars, clientVars>>
    PROVE  IInv'
<1>1. /\ pass' \in PassType /\ pass'.running = pass.running /\ pass'.target = pass.target
      /\ pass'.key = pass.key /\ pass'.fresh = pass.fresh /\ pass'.todo \subseteq pass.todo
  BY Parts DEF PassType
<1>2. TypeOK'
  BY <1>1 DEF IInv, TypeOK, PassType, itemVars, stateVars, queueVars, clientVars
<1>3. FreshSequenceNumber' /\ AckedIsEmpty' /\ CountIsBacked' /\ RecycledRecordIsLive' /\ PassIsClean'
  BY <1>1, Parts DEF FreshSequenceNumber, NextSeq, AckedIsEmpty, CountIsBacked,
                     RecycledRecordIsLive, PassIsClean
<1>4. AnswerHasRequest'
  BY Parts DEF AnswerHasRequest, queueVars
<1> QED
  BY <1>2, <1>3, <1>4 DEF IInv

(* A step of the pass that queues a sample for item i.                     *)
LEMMA QueueingKeeps ==
    ASSUME IInv, NEW i \in Item, NEW s \in Sample, NEW qs \in Nat, NEW d \in BOOLEAN,
           pass.running, i \in pass.todo,
           NEW q \in PassType, q.running, q.fresh = pass.fresh,
           q.target = "recycled" => q.key \in DOMAIN avail /\ IsSomethingToNotify(avail[q.key]),
           AddToTarget(q, i, s, qs, d),
           last' \in [Item -> Sample],
           UNCHANGED <<source, clock, monitored, mode, currentSeq, stateVars, queueVars, clientVars>>
    PROVE  IInv'
<1>1. ~q.fresh.acked /\ Backed(q.fresh)
  BY Parts DEF PassIsClean
<1>2. /\ pass' \in PassType
      /\ DOMAIN avail' = DOMAIN avail
      /\ avail' \in [DOMAIN avail' -> Notif]
      /\ AckedIsEmpty' /\ CountIsBacked' /\ RecycledRecordIsLive' /\ PassIsClean'
  BY <1>1, AddToTargetKeeps
<1>3. TypeOK'
  BY <1>2 DEF IInv, TypeOK, PassType, stateVars, queueVars, clientVars
<1>4. FreshSequenceNumber'
  BY <1>2, Parts DEF FreshSequenceNumber, NextSeq
<1>5. AnswerHasRequest'
  BY Parts DEF AnswerHasRequest, queueVars
<1> QED
  BY <1>2, <1>3, <1>4, <1>5 DEF IInv

(* The record a detected difference goes to.                               *)
LEMMA TargetOf ==
    ASSUME IInv, NEW i \in pass.todo, NEW q \in Targets([pass EXCEPT !.todo = @ \ {i}])
    PROVE  /\ q \in PassType /\ q.running /\ q.fresh = pass.fresh
           /\ q.target # pass.target => q.target = "recycled" /\ pass.target = "none"
           /\ q.target = "recycled" => q.key \in DOMAIN avail /\ IsSomethingToNotify(avail[q.key])
<1> DEFINE p == [pass EXCEPT !.todo = @ \ {i}]
<1>1. pass.running
  BY Parts DEF PassIsClean, PassType
<1>2. /\ p \in PassType /\ p.running = pass.running /\ p.target = pass.target
      /\ p.key = pass.key /\ p.fresh = pass.fresh
  BY Parts DEF PassType
<1> HIDE DEF p
<1>3. CASE q = p
  <2>1. pass.target = "recycled" => pass.key \in DOMAIN avail /\ IsSomethingToNotify(avail[pass.key])
    BY Parts DEF RecycledRecordIsLive
  <2> QED
    BY <1>1, <1>2, <1>3, <2>1
<1>4. CASE q # p
  <2>1. /\ p.target = "none"
        /\ \E k \in Firsts(Recyclable) : q = [p EXCEPT !.target = "recycled", !.key = k]
    BY <1>4 DEF Targets, p
  <2>2. PICK k \in Firsts(Recyclable) : q = [p EXCEPT !.target = "recycled", !.key = k]
    BY <2>1
  <2>3. k \in Nat /\ k \in DOMAIN avail /\ IsSomethingToNotify(avail[k])
    BY Parts DEF Firsts, Recyclable
  <2> QED
    BY <1>1, <1>2, <2>1, <2>2, <2>3 DEF PassType
<1> QED
  BY <1>3, <1>4

LEMMA CompareItemKeeps == ASSUME IInv, NEW i \in Item, CompareItem(i) PROVE IInv'
<1> DEFINE p == [pass EXCEPT !.todo = @ \ {i}]
<1>0. /\ i \in pass.todo
      /\ UNCHANGED <<source, clock, monitored, mode, currentSeq, stateVars, queueVars, clientVars>>
  BY DEF CompareItem
<1>a. pass.running
  BY <1>0, Parts DEF PassIsClean, PassType
<1>1. CASE Differs(i)
  <2>2. PICK q \in Targets(p) :
            /\ AddToTarget(q, i, source[i], QueueSize, DiscardOldest)
            /\ last' = [last EXCEPT ![i] = Flagged(TargetRecord(q), i, source[i], QueueSize)]
    BY <1>1 DEF CompareItem
  <2>4. /\ q \in PassType /\ q.running /\ q.fresh = pass.fresh
        /\ q.target = "recycled" => q.key \in DOMAIN avail /\ IsSomethingToNotify(avail[q.key])
    BY <1>0, TargetOf
  <2>5. /\ source[i] \in Sample /\ last' \in [Item -> Sample]
    BY <2>2, FlaggedIsSample DEF IInv, TypeOK
  <2> QED
    BY <1>0, <1>a, <2>2, <2>4, <2>5, QueueingKeeps, ConstantsAssumption
<1>2. CASE ~Differs(i)
  <2>1. pass' = p /\ UNCHANGED <<avail, last>>
    BY <1>2 DEF CompareItem
  <2> QED
    BY <1>0, <2>1, TickKeeps DEF itemVars
<1> QED
  BY <1>1, <1>2

LEMMA SampleItemKeeps == ASSUME IInv, NEW i \in Item, SampleItem(i) PROVE IInv'
<1> DEFINE p == [pass EXCEPT !.todo = @ \ {i}]
<1>1. /\ i \in pass.todo
      /\ AddToTarget(p, i, last[i], 0, FALSE)
      /\ UNCHANGED <<source, clock, itemVars, currentSeq, stateVars, queueVars, clientVars>>
  BY DEF SampleItem
<1>a. pass.running
  BY <1>1, Parts DEF PassIsClean, PassType
<1>2. /\ p \in PassType /\ p.running = pass.running /\ p.target = pass.target
      /\ p.key = pass.key /\ p.fresh = pass.fresh
  BY Parts DEF PassType
<1> HIDE DEF p
<1>3. p.target = "recycled" => p.key \in DOMAIN avail /\ IsSomethingToNotify(avail[p.key])
  BY <1>2, Parts DEF RecycledRecordIsLive
<1>4. last[i] \in Sample /\ last' \in [Item -> Sample] /\ 0 \in Nat /\ FALSE \in BOOLEAN
  BY <1>1 DEF IInv, TypeOK, itemVars
<1> QED
  BY <1>1, <1>a, <1>2, <1>3, <1>4, QueueingKeeps DEF itemVars

LEMMA SkipItemKeeps == ASSUME IInv, NEW i \in Item, SkipItem(i) PROVE IInv'
BY TickKeeps DEF SkipItem

(* The end of the pass: the fresh record takes the next number, which no   *)
(* record has.                                                             *)
LEMMA PassEndKeeps == ASSUME IInv, PassEnd PROVE IInv'
<1>1. /\ pass' = NoPass
      /\ UNCHANGED <<source, clock, itemVars, stateVars, queueVars, clientVars>>
  BY DEF PassEnd
<1>2. pass' \in PassType /\ RecycledRecordIsLive' /\ PassIsClean'
  BY <1>1, EmptyKeeps DEF NoPass, PassType, RecycledRecordIsLive, PassIsClean
<1>3. AnswerHasRequest'
  BY <1>1, Parts DEF AnswerHasRequest, queueVars
<1>4. CASE UNCHANGED <<avail, currentSeq>>
  <2>1. TypeOK'
    BY <1>1, <1>2, <1>4 DEF IInv, TypeOK, PassType, itemVars, stateVars, queueVars, clientVars
  <2>2. FreshSequenceNumber' /\ AckedIsEmpty' /\ CountIsBacked'
    BY <1>4, Parts DEF FreshSequenceNumber, NextSeq, AckedIsEmpty, CountIsBacked
  <2> QED
    BY <1>2, <1>3, <2>1, <2>2 DEF IInv
<1>5. CASE ~UNCHANGED <<avail, currentSeq>>
  <2>1. /\ pass.fresh.items # {}
        /\ avail' = [k \in DOMAIN avail \cup {NextSeq} |->
                         IF k = NextSeq THEN pass.fresh ELSE avail[k]]
        /\ currentSeq' = NextSeq + 1
    BY <1>5 DEF PassEnd
  <2>2. pass.fresh \in Notif /\ ~pass.fresh.acked /\ Backed(pass.fresh)
    BY Parts DEF PassType, PassIsClean
  <2>3. /\ DOMAIN avail' \subseteq Nat \ {0} /\ avail' \in [DOMAIN avail' -> Notif]
        /\ currentSeq' \in Nat
    BY <2>1, <2>2, Parts
  <2>4. TypeOK'
    BY <1>1, <1>2, <2>3 DEF IInv, TypeOK, PassType, itemVars, stateVars, queueVars, clientVars
  <2>5. FreshSequenceNumber'
    BY <2>1, Parts DEF FreshSequenceNumber, NextSeq
  <2>6. AckedIsEmpty' /\ CountIsBacked'
    BY <2>1, <2>2, Parts DEF AckedIsEmpty, CountIsBacked
  <2> QED
    BY <1>2, <1>3, <2>4, <2>5, <2>6 DEF IInv
<1> QED
  BY <1>4, <1>5

(* Outside a pass only the records of the map are left to account for.     *)
LEMMA OutsidePass ==
    ASSUME IInv, ~pass.running, UNCHANGED <<pass, currentSeq>>,
           TypeOK', AnswerHasRequest',
           DOMAIN avail' \subseteq DOMAIN avail,
           \A k \in DOMAIN avail' : Backed(avail'[k]) /\ (avail'[k].acked <=> avail'[k].items = {})
    PROVE  IInv'
<1>1. FreshSequenceNumber'
  BY Parts DEF FreshSequenceNumber, NextSeq
<1>2. AckedIsEmpty' /\ CountIsBacked'
  BY DEF AckedIsEmpty, CountIsBacked
<1>3. RecycledRecordIsLive' /\ PassIsClean'
  BY Parts DEF RecycledRecordIsLive, PassIsClean
<1> QED
  BY <1>1, <1>2, <1>3 DEF IInv

LEMMA ProcessQueuedPublishRequestKeeps ==
    ASSUME IInv, ProcessQueuedPublishRequest
    PROVE  IInv'
<1>1. /\ ~pass.running /\ requests > 0
      /\ keepAlive' = KeepAliveFlag
      /\ UNCHANGED <<source, clock, itemVars, currentSeq, pass, keepAliveDue, cold, enabled,
                     requests, failures, clientVars>>
  BY DEF ProcessQueuedPublishRequest
<1>2. KeepAliveFlag \in BOOLEAN
  BY DEF KeepAliveFlag, IInv, TypeOK
<1>3. LastKey \in Nat /\ LastKey + 1 \in Nat /\ currentSeq + 1 \in Nat
  BY Parts, LastKeyType
<1>4. Batch \in SUBSET (Nat \X Entry(Sample)) /\ Unacked \in SUBSET Nat
  BY Parts, BatchType
<1>5. resp' \in RespType
  <2>1. CASE Fill
    BY <1>3, <1>4, <2>1 DEF Fill, RespType, NoResponse
  <2>2. CASE FillDisabled
    BY <1>3, <1>4, <2>2 DEF FillDisabled, RespType, NoResponse
  <2> QED
    BY <2>1, <2>2 DEF ProcessQueuedPublishRequest
<1>6. /\ DOMAIN avail' = DOMAIN avail
      /\ avail' \in [DOMAIN avail' -> Notif]
      /\ \A k \in DOMAIN avail' : Backed(avail'[k]) /\ (avail'[k].acked <=> avail'[k].items = {})
  <2>1. CASE UNCHANGED avail
    BY <2>1, Parts DEF AckedIsEmpty, CountIsBacked
  <2>2. CASE avail' = [k \in DOMAIN avail |-> MarkSent(avail[k], {e \in avail[k].items : <<k, e>> \in Batch})]
    <3>1. ASSUME NEW k \in DOMAIN avail
          PROVE  /\ avail'[k] \in Notif /\ Backed(avail'[k])
                 /\ avail'[k].acked <=> avail'[k].items = {}
      <4>1. /\ avail[k] \in Notif /\ Backed(avail[k])
            /\ avail[k].acked <=> avail[k].items = {}
        BY Parts DEF AckedIsEmpty, CountIsBacked
      <4>2. avail'[k] = MarkSent(avail[k], {e \in avail[k].items : <<k, e>> \in Batch})
        BY <2>2
      <4> QED
        BY <4>1, <4>2, MarkSentKeeps
    <3> QED
      BY <2>2, <3>1
  <2> QED
    BY <2>1, <2>2 DEF ProcessQueuedPublishRequest, Fill, FillDisabled
<1>7. TypeOK'
  BY <1>1, <1>2, <1>5, <1>6 DEF IInv, TypeOK, RespType, itemVars, clientVars
<1>8. AnswerHasRequest'
  BY <1>1 DEF AnswerHasRequest
<1> QED
  BY <1>1, <1>6, <1>7, <1>8, OutsidePass

LEMMA EndSendResponseKeeps == ASSUME IInv, EndSendResponse PROVE IInv'
<1> DEFINE got == {q[2] : q \in resp.data}
<1>1. /\ resp.phase = "filled"
      /\ resp' = [resp EXCEPT !.phase = "sent"]
      /\ requests' = requests - 1
      /\ keepAlive' = FALSE /\ cold' = FALSE /\ keepAliveDue' = FALSE
      /\ client' = [i \in Item |-> NewestOf(got, i, client[i])]
      /\ published' = [i \in Item |-> NewestOf(got, i, [NoSample EXCEPT !.at = published[i]]).at]
      /\ toAck' = IF resp.data = {} THEN toAck ELSE toAck \cup {resp.seq}
      /\ offered' = resp.list
      /\ UNCHANGED <<source, clock, itemVars, threadVars, enabled, failures>>
  BY DEF EndSendResponse
<1>2. got \in SUBSET Entry(Sample)
  BY Parts DEF RespType
<1> HIDE DEF got
<1>3. client' \in [Item -> Sample]
  BY <1>1, <1>2, NewestOfType DEF IInv, TypeOK
<1>4. published' \in [Item -> Nat]
  <2>1. ASSUME NEW i \in Item PROVE NewestOf(got, i, [NoSample EXCEPT !.at = published[i]]).at \in Nat
    <3>1. [NoSample EXCEPT !.at = published[i]] \in Sample
      BY DEF IInv, TypeOK, NoSample, Sample
    <3>2. NewestOf(got, i, [NoSample EXCEPT !.at = published[i]]) \in Sample
      BY <1>2, <3>1, NewestOfType
    <3> QED
      BY <3>2 DEF Sample
  <2> QED
    BY <1>1, <2>1
<1>5. resp' \in RespType /\ resp'.phase = "sent" /\ requests' \in Nat
  <2>1. resp' \in RespType /\ resp'.phase = "sent"
    BY <1>1, Parts DEF RespType
  <2>2. requests \in Nat /\ requests > 0
    BY <1>1, Parts DEF TypeOK, AnswerHasRequest
  <2> QED
    BY <1>1, <2>1, <2>2
<1>6. toAck' \subseteq Nat /\ offered' \subseteq Nat
  BY <1>1, Parts DEF TypeOK, RespType
<1>7. TypeOK'
  BY <1>1, <1>3, <1>4, <1>5, <1>6 DEF IInv, TypeOK, RespType, itemVars, threadVars
<1>8. AnswerHasRequest'
  BY <1>5 DEF AnswerHasRequest
<1> QED
  BY <1>1, <1>7, <1>8, SameMap

LEMMA EndSendResponseFailedKeeps == ASSUME IInv, EndSendResponseFailed PROVE IInv'
<1>1. /\ resp.phase = "filled" /\ failures' = failures + 1
      /\ resp' = NoResponse /\ requests' = requests - 1
      /\ UNCHANGED <<source, clock, itemVars, threadVars, stateVars, clientVars>>
  BY DEF EndSendResponseFailed
<1>2. requests' \in Nat /\ failures' \in Nat
  BY <1>1, Parts DEF TypeOK, AnswerHasRequest
<1>3. resp' \in RespType /\ resp'.phase = "none"
  BY <1>1 DEF RespType, NoResponse
<1>4. TypeOK'
  BY <1>1, <1>2, <1>3 DEF IInv, TypeOK, RespType, itemVars, threadVars, stateVars, clientVars
<1> QED
  BY <1>1, <1>3, <1>4, SameMap DEF AnswerHasRequest

LEMMA RemoveAckedKeeps == ASSUME IInv, RemoveAckedDataChangeNotification PROVE IInv'
<1>1. /\ ~pass.running /\ resp' = NoResponse
      /\ avail' = [k \in Unacked |-> avail[k]]
      /\ UNCHANGED <<source, clock, itemVars, currentSeq, pass, stateVars, requests, failures, clientVars>>
  BY DEF RemoveAckedDataChangeNotification
<1>2. resp' \in RespType /\ resp'.phase = "none"
  BY <1>1 DEF RespType, NoResponse
<1>3. /\ DOMAIN avail' \subseteq DOMAIN avail /\ avail' \in [DOMAIN avail' -> Notif]
      /\ \A k \in DOMAIN avail' : avail'[k] = avail[k]
  BY <1>1, Parts DEF Unacked
<1>4. TypeOK'
  BY <1>1, <1>2, <1>3 DEF IInv, TypeOK, RespType, itemVars, stateVars, clientVars
<1> QED
  BY <1>1, <1>2, <1>3, <1>4, OutsidePass, Parts DEF AnswerHasRequest, AckedIsEmpty, CountIsBacked

LEMMA PublishKeeps == ASSUME IInv, NEW acks, Publish(acks) PROVE IInv'
<1>1. /\ ~pass.running /\ requests' = requests + 1 /\ toAck' = toAck \ acks
      /\ avail' = [k \in DOMAIN avail |-> IF k \in acks THEN Acknowledge(avail[k]) ELSE avail[k]]
      /\ UNCHANGED <<source, clock, itemVars, currentSeq, pass, stateVars, resp, failures,
                     client, published, offered>>
  BY DEF Publish, ServiceMayRun
<1>2. ASSUME NEW k \in DOMAIN avail
      PROVE  /\ avail'[k] \in Notif /\ Backed(avail'[k])
             /\ avail'[k].acked <=> avail'[k].items = {}
  <2>1. /\ avail[k] \in Notif /\ Backed(avail[k])
        /\ avail[k].acked <=> avail[k].items = {}
    BY Parts DEF AckedIsEmpty, CountIsBacked
  <2>2. CASE k \in acks
    <3>1. avail'[k] = Acknowledge(avail[k])
      BY <1>1, <2>2
    <3> QED
      BY <2>1, <3>1, AcknowledgeKeeps
  <2>3. CASE k \notin acks
    BY <1>1, <2>1, <2>3
  <2> QED
    BY <2>2, <2>3
<1>3. DOMAIN avail' = DOMAIN avail /\ avail' \in [DOMAIN avail' -> Notif]
  BY <1>1, <1>2
<1>4. TypeOK'
  BY <1>1, <1>3 DEF IInv, TypeOK, itemVars, stateVars
<1>5. AnswerHasRequest'
  BY <1>1, Parts DEF AnswerHasRequest, TypeOK
<1> QED
  BY <1>1, <1>2, <1>3, <1>4, <1>5, OutsidePass

LEMMA RepublishKeeps == ASSUME IInv, NEW k \in offered, Republish(k) PROVE IInv'
<1>1. /\ keepAliveDue' = FALSE
      /\ UNCHANGED <<source, clock, itemVars, threadVars, keepAlive, cold, enabled, queueVars,
                     published, offered>>
  BY DEF Republish
<1>2. client' \in [Item -> Sample] /\ toAck' \subseteq Nat
  <2>1. CASE k \in Unacked
    <3>1. avail[k].items \in SUBSET Entry(Sample)
      BY <2>1, Parts, NotifParts DEF Unacked
    <3>2. /\ client' = [i \in Item |-> NewestOf(avail[k].items, i, client[i])]
          /\ toAck' = toAck \cup {k}
      BY <2>1 DEF Republish
    <3>3. k \in Nat
      BY DEF IInv, TypeOK
    <3> QED
      BY <3>1, <3>2, <3>3, NewestOfType DEF IInv, TypeOK
  <2>2. CASE k \notin Unacked
    BY <2>2 DEF Republish, IInv, TypeOK
  <2> QED
    BY <2>1, <2>2
<1>3. TypeOK'
  BY <1>1, <1>2 DEF IInv, TypeOK, itemVars, threadVars, queueVars
<1>4. AnswerHasRequest'
  BY <1>1, Parts DEF AnswerHasRequest, queueVars
<1> QED
  BY <1>1, <1>3, <1>4, SameMap

LEMMA SetPublishingModeKeeps == ASSUME IInv, NEW b \in BOOLEAN, SetPublishingMode(b) PROVE IInv'
<1>1. TypeOK'
  BY DEF SetPublishingMode, IInv, TypeOK, itemVars, threadVars, queueVars, clientVars
<1>2. AnswerHasRequest'
  BY Parts DEF SetPublishingMode, AnswerHasRequest, queueVars
<1> QED
  BY <1>1, <1>2, SameMap DEF SetPublishingMode

LEMMA SetMonitoringModeKeeps ==
    ASSUME IInv, NEW i \in Item, NEW m \in Modes, SetMonitoringMode(i, m) PROVE IInv'
<1>1. m \in AllModes
  BY ConstantsAssumption
<1>2. TypeOK'
  BY <1>1 DEF SetMonitoringMode, IInv, TypeOK, threadVars, stateVars, queueVars, clientVars
<1>3. AnswerHasRequest'
  BY Parts DEF SetMonitoringMode, AnswerHasRequest, queueVars
<1> QED
  BY <1>2, <1>3, SameMap DEF SetMonitoringMode

LEMMA AddMonitoredItemKeeps ==
    ASSUME IInv, NEW i \in Item, NEW m \in Modes, AddMonitoredItem(i, m) PROVE IInv'
<1>1. m \in AllModes /\ NoSample \in Sample
  BY ConstantsAssumption, Parts
<1>a. /\ mode' \in [Item -> AllModes] /\ last' \in [Item -> Sample] /\ published' \in [Item -> Nat]
      /\ monitored' \subseteq Item /\ clock' \in Nat
  BY <1>1 DEF AddMonitoredItem, IInv, TypeOK
<1>2. TypeOK'
  BY <1>a DEF AddMonitoredItem, IInv, TypeOK, threadVars, queueVars
<1>3. AnswerHasRequest'
  BY Parts DEF AddMonitoredItem, AnswerHasRequest, queueVars
<1> QED
  BY <1>2, <1>3, SameMap DEF AddMonitoredItem

LEMMA DeleteMonitoredItemKeeps ==
    ASSUME IInv, NEW i \in Item, DeleteMonitoredItem(i) PROVE IInv'
<1> DEFINE cleaned == [k \in DOMAIN avail |-> RemoveMonitoredItemNotification(avail[k], i)]
           kept == {k \in DOMAIN avail : ~(cleaned[k].acked /\ cleaned[k].items = {})}
<1>1. /\ ~pass.running /\ monitored' = monitored \ {i} /\ keepAliveDue' = FALSE
      /\ avail' = [k \in kept |-> cleaned[k]]
      /\ UNCHANGED <<source, clock, mode, last, currentSeq, pass, keepAlive, cold, enabled,
                     queueVars, clientVars>>
  BY DEF DeleteMonitoredItem, ServiceMayRun
<1>2. ASSUME NEW k \in DOMAIN avail PROVE cleaned[k] = avail[k]
  <2>1. avail[k] \in Notif /\ (avail[k].acked <=> avail[k].items = {})
    BY Parts DEF AckedIsEmpty
  <2> QED
    BY <2>1, RemoveKeeps
<1> HIDE DEF cleaned
<1>3. /\ DOMAIN avail' \subseteq DOMAIN avail /\ avail' \in [DOMAIN avail' -> Notif]
      /\ \A k \in DOMAIN avail' : avail'[k] = avail[k]
  BY <1>1, <1>2, Parts
<1>4. TypeOK'
  BY <1>1, <1>3 DEF IInv, TypeOK, queueVars, clientVars
<1>5. AnswerHasRequest'
  BY <1>1, Parts DEF AnswerHasRequest, queueVars
<1> QED
  BY <1>1, <1>3, <1>4, <1>5, OutsidePass, Parts DEF AckedIsEmpty, CountIsBacked

LEMMA WriteKeeps == ASSUME IInv, NEW i \in Item, NEW v \in Value, Write(i, v) PROVE IInv'
<1>1. clock' \in Nat /\ [val |-> v, at |-> clock', ovf |-> FALSE] \in Sample
  BY DEF Write, IInv, TypeOK, Sample
<1>2. TypeOK'
  BY <1>1 DEF Write, IInv, TypeOK, itemVars, threadVars, stateVars, queueVars, clientVars
<1>3. AnswerHasRequest'
  BY Parts DEF Write, AnswerHasRequest, queueVars
<1> QED
  BY <1>2, <1>3, SameMap DEF Write

LEMMA KeepAliveElapsesKeeps == ASSUME IInv, KeepAliveElapses PROVE IInv'
<1>1. TypeOK'
  BY DEF KeepAliveElapses, IInv, TypeOK, itemVars, threadVars, queueVars, clientVars
<1>2. AnswerHasRequest'
  BY Parts DEF KeepAliveElapses, AnswerHasRequest, queueVars
<1> QED
  BY <1>1, <1>2, SameMap DEF KeepAliveElapses

LEMMA StutterKeeps == ASSUME IInv, UNCHANGED vars PROVE IInv'
<1>1. TypeOK'
  BY DEF vars, IInv, TypeOK, itemVars, threadVars, stateVars, queueVars, clientVars
<1>2. AnswerHasRequest'
  BY Parts DEF vars, AnswerHasRequest, queueVars
<1> QED
  BY <1>1, <1>2, SameMap DEF vars

LEMMA InitEstablishes == ASSUME Init PROVE IInv
<1>1. /\ clock = 1 /\ monitored = {}
      /\ mode = [i \in Item |-> "Disabled"] /\ last = [i \in Item |-> NoSample]
      /\ avail = [k \in {} |-> EmptyNotification] /\ currentSeq = 0 /\ pass = NoPass
      /\ enabled \in BOOLEAN /\ keepAlive = FALSE /\ keepAliveDue = TRUE /\ cold = TRUE
      /\ requests = 0 /\ resp = NoResponse /\ failures = 0
      /\ client = [i \in Item |-> NoSample] /\ published = [i \in Item |-> 0]
      /\ toAck = {} /\ offered = {}
  BY DEF Init
<1>2. NoSample \in Sample
  BY DEF NoSample, Sample
<1>3. source \in [Item -> Sample]
  <2>1. PICK v \in Value : source = [i \in Item |-> [val |-> v, at |-> 1, ovf |-> FALSE]]
    BY DEF Init
  <2> QED
    BY <2>1 DEF Sample
<1>4. DOMAIN avail = {} /\ avail \in [DOMAIN avail -> Notif]
  BY <1>1
<1>5. /\ pass \in PassType /\ pass.target = "none" /\ pass.todo = {}
      /\ pass.fresh = EmptyNotification
  BY <1>1, EmptyKeeps DEF NoPass, PassType
<1>6. resp \in RespType /\ resp.phase = "none"
  BY <1>1 DEF NoResponse, RespType
<1>7. TypeOK
  BY <1>1, <1>2, <1>3, <1>4, <1>5, <1>6 DEF TypeOK, PassType, RespType, AllModes
<1>8. FreshSequenceNumber /\ AckedIsEmpty /\ CountIsBacked
  BY <1>4 DEF FreshSequenceNumber, AckedIsEmpty, CountIsBacked
<1>9. RecycledRecordIsLive /\ PassIsClean
  BY <1>5, EmptyKeeps DEF RecycledRecordIsLive, PassIsClean
<1> QED
  BY <1>6, <1>7, <1>8, <1>9 DEF IInv, AnswerHasRequest

(* Every step keeps the invariant.                                         *)
LEMMA NextKeeps == IInv /\ [Next]_vars => IInv'
<1> SUFFICES ASSUME IInv, [Next]_vars PROVE IInv'
  OBVIOUS
<1>1. CASE UpdateThread
  BY <1>1, PassBeginKeeps, CompareItemKeeps, SampleItemKeeps, SkipItemKeeps, PassEndKeeps
     DEF UpdateThread
<1>2. CASE NotificationThread
  BY <1>2, ProcessQueuedPublishRequestKeeps, EndSendResponseKeeps, EndSendResponseFailedKeeps,
     RemoveAckedKeeps DEF NotificationThread
<1>3. CASE Services
  BY <1>3, PublishKeeps, RepublishKeeps, SetPublishingModeKeeps, SetMonitoringModeKeeps,
     AddMonitoredItemKeeps, DeleteMonitoredItemKeeps DEF Services
<1>4. CASE Environment
  BY <1>4, WriteKeeps, KeepAliveElapsesKeeps DEF Environment
<1>5. CASE UNCHANGED vars
  BY <1>5, StutterKeeps
<1> QED
  BY <1>1, <1>2, <1>3, <1>4, <1>5 DEF Next

-----------------------------------------------------------------------------
(* The theorems.                                                           *)

(* The inductive invariant of the retransmission map holds in every        *)
(* behaviour of UpdateDataSubscriptionThread, NotificationDataThread and   *)
(* the services.                                                           *)
THEOREM Invariance == Spec => []IInv
<1>1. Init => IInv
  BY InitEstablishes
<1> QED
  BY <1>1, NextKeeps, PTL DEF Spec

(* The state of CSubscriptionServer and of its records is always of the    *)
(* types the code gives it.                                                *)
THEOREM TypeCorrect == Spec => []TypeOK
<1>1. IInv => TypeOK
  BY DEF IInv
<1> QED
  BY <1>1, Invariance, PTL

(* The insertion of AvailableSequenceNumberAdd at the end of a pass never  *)
(* meets a number in use.                                                  *)
THEOREM SequenceNumbersAreFresh == Spec => []FreshSequenceNumber
<1>1. IInv => FreshSequenceNumber
  BY DEF IInv
<1> QED
  BY <1>1, Invariance, PTL

(* RemoveAckedDataChangeNotification and the clean-up of a pass delete     *)
(* records without entries only, and every record without entries.         *)
THEOREM AcknowledgedRecordsAreEmpty == Spec => []AckedIsEmpty
<1>1. IInv => AckedIsEmpty
  BY DEF IInv
<1> QED
  BY <1>1, Invariance, PTL

(* The pointer of UpdateDataSubscriptionThread to the record it recycles   *)
(* stays valid to the end of the pass.                                     *)
THEOREM RecycledRecordStays == Spec => []RecycledRecordIsLive
<1>1. IInv => RecycledRecordIsLive
  BY DEF IInv
<1> QED
  BY <1>1, Invariance, PTL

(* The counts of m_uiQueueSizesMap never make AddMonitoredItemNotification *)
(* look for an entry that is not there.                                    *)
THEOREM CountsAreBacked == Spec => []CountIsBacked
<1>1. IInv => CountIsBacked
  BY DEF IInv
<1> QED
  BY <1>1, Invariance, PTL

-----------------------------------------------------------------------------
(* What the client received stays in the map.                              *)

(* A record that is newer than one with unsent values has unsent values.   *)
NewerUnsent ==
    \A k, l \in DOMAIN avail : k < l /\ Unsent(avail[k]) # {} => Unsent(avail[l]) # {}

(* The record a pass fills was never part of a message.                    *)
FreshUnsent == \A e \in pass.fresh.items : ~e.sent

(* The number a response is about to carry is the one of a record that can *)
(* be acknowledged.                                                        *)
NumberIsUnacked == resp.phase = "filled" /\ resp.data # {} => resp.seq \in Unacked

(* The map and its records are finite, so that what comes before an entry  *)
(* can be counted.                                                         *)
FiniteQueue ==
    /\ IsFiniteSet(DOMAIN avail)
    /\ \A k \in DOMAIN avail : IsFiniteSet(avail[k].items)
    /\ IsFiniteSet(pass.fresh.items)

(* The inductive invariant.                                                *)
RInv == /\ IInv
        /\ NewerUnsent
        /\ FreshUnsent
        /\ NumberIsUnacked
        /\ FiniteQueue
        /\ Retransmittable

-----------------------------------------------------------------------------
(* Finite sets of numbers, and images of finite sets.                      *)

(* A finite set of numbers has a last element: the one with the least      *)
(* number of elements after it.                                            *)
LEMMA FiniteHasLast ==
    ASSUME NEW S \in SUBSET Nat, S # {}, IsFiniteSet(S)
    PROVE  \E k \in S : \A l \in S : l <= k
<1> DEFINE After(k) == {l \in S : k < l}
           T == {Cardinality(After(k)) : k \in S}
           R == {p \in Nat \X Nat : p[1] < p[2]}
<1>1. \A k \in S : IsFiniteSet(After(k)) /\ Cardinality(After(k)) \in Nat
  BY FS_Subset, FS_CardinalityType
<1>2. IsWellFoundedOn(R, Nat)
  BY NatLessThanWellFounded DEF OpToRel
<1>3. \A x, y \in Nat : x < y => <<x, y>> \in R
  OBVIOUS
<1>4. T \subseteq Nat /\ T # {}
  BY <1>1
<1> HIDE DEF R, T
<1>5. PICK x \in T : \A y \in T : ~(<<y, x>> \in R)
  BY <1>2, <1>4, WFMin
<1>6. PICK k \in S : x = Cardinality(After(k))
  BY DEF T
<1>7. ASSUME NEW l \in S, k < l PROVE FALSE
  <2>1. After(l) \subseteq After(k) /\ l \in After(k) /\ l \notin After(l)
    <3>1. ~(l < l)
      OBVIOUS
    <3>2. \A j \in S : l < j => k < j
      BY <1>7
    <3>3. After(l) \subseteq After(k)
      BY <3>2, Zenon
    <3>4. l \in After(k)
      BY <1>7, Zenon
    <3>5. l \notin After(l)
      BY <3>1, Zenon
    <3> QED
      BY <3>3, <3>4, <3>5
  <2> HIDE DEF After
  <2>2. Cardinality(After(l)) < Cardinality(After(k))
    BY <1>1, <2>1, FS_Subset
  <2>3. Cardinality(After(l)) \in T
    BY DEF T
  <2> QED
    BY <1>1, <1>3, <1>5, <1>6, <2>2, <2>3
<1> QED
  BY <1>7

(* An image of a finite set, given as the range of a function, is finite.  *)
LEMMA FiniteRange ==
    ASSUME NEW f, IsFiniteSet(DOMAIN f), f = [x \in DOMAIN f |-> f[x]]
    PROVE  IsFiniteSet({f[x] : x \in DOMAIN f})
<1> DEFINE T == {f[x] : x \in DOMAIN f}
<1>1. f \in Surjection(DOMAIN f, T)
  BY DEF Surjection
<1> QED
  BY <1>1, FS_Surjection

-----------------------------------------------------------------------------
(* What the operations do to the entries of a record.                      *)

(* Queueing keeps a record finite, leaves unsent values where there were   *)
(* some, and makes no entry a sent one.                                    *)
LEMMA AddEntries ==
    ASSUME NEW n \in Notif, NEW i \in Item, NEW s \in Sample,
           NEW qs \in Nat, NEW d \in BOOLEAN, IsFiniteSet(n.items),
           NEW m, m = AddMonitoredItemNotification(n, i, s, qs, d)
    PROVE  /\ IsFiniteSet(m.items)
           /\ (\A e \in n.items : ~e.sent) => \A e \in m.items : ~e.sent
<1> DEFINE z == Flagged(n, i, s, qs)
           e0 == NewEntry(n, i, z)
           rest == DropOldest(n, i)
           f == [e \in n.items |-> Overwritten(n, i, z, e)]
<1>1. \/ m = n
      \/ Made(m, n.acked, n.items \cup {e0}, n.next + 1, [n.count EXCEPT ![i] = @ + 1])
      \/ Made(m, n.acked, rest \cup {e0}, n.next + 1, n.count)
      \/ Made(m, n.acked, OverwriteNewest(n, i, z), n.next, n.count)
  BY AddOutcomes
<1>2. z \in Sample /\ n.items \subseteq Entry(Sample)
  BY FlaggedIsSample, NotifParts
<1>3. OverwriteNewest(n, i, z) = {f[e] : e \in n.items}
  BY DEF OverwriteNewest
<1> HIDE DEF z
<1>4. ~e0.sent
  BY DEF NewEntry
<1>5. rest \subseteq n.items /\ IsFiniteSet(rest)
  BY FS_Subset DEF DropOldest
<1>6. \A e \in n.items : ~e.sent => ~f[e].sent
  <2> SUFFICES ASSUME NEW e \in n.items, ~e.sent PROVE ~f[e].sent
    OBVIOUS
  <2>1. e \in Entry(Sample)
    BY <1>2
  <2>2. ~Overwritten(n, i, z, e).sent
    BY <1>2, <2>1, OverwrittenKeeps
  <2> QED
    BY <2>2
<1>7. IsFiniteSet({f[e] : e \in n.items})
  <2>1. DOMAIN f = n.items /\ f = [x \in DOMAIN f |-> f[x]]
    OBVIOUS
  <2> HIDE DEF f
  <2> QED
    BY <2>1, FiniteRange
<1> HIDE DEF e0, rest, f
<1>8. IsFiniteSet(n.items \cup {e0}) /\ IsFiniteSet(rest \cup {e0})
  BY <1>5, FS_AddElement
<1>9. \/ m.items = n.items
      \/ m.items = n.items \cup {e0}
      \/ m.items = rest \cup {e0}
      \/ m.items = {f[e] : e \in n.items}
  BY <1>1, <1>3 DEF Made
<1> QED
  BY <1>4, <1>5, <1>6, <1>7, <1>8, <1>9

(* An acknowledgement leaves the unsent entries, and nothing else.         *)
LEMMA AcknowledgeEntries ==
    ASSUME NEW n \in Notif
    PROVE  /\ Acknowledge(n).items = Unsent(n)
           /\ Unsent(Acknowledge(n)) = Unsent(n)
           /\ IsFiniteSet(n.items) => IsFiniteSet(Acknowledge(n).items)
<1>1. Acknowledge(n).items = Unsent(n)
  BY NotifParts DEF Acknowledge, RemoveSent
<1>2. Unsent(n) \subseteq n.items
  BY DEF Unsent
<1>3. Unsent(Acknowledge(n)) = Unsent(n)
  BY <1>1 DEF Unsent
<1> QED
  BY <1>1, <1>2, <1>3, FS_Subset

(* Marking entries takes them from the unsent ones.                        *)
LEMMA MarkSentEntries ==
    ASSUME NEW n \in Notif, NEW B
    PROVE  /\ Unsent(MarkSent(n, B)) = Unsent(n) \ B
           /\ IsFiniteSet(n.items) => IsFiniteSet(MarkSent(n, B).items)
<1> DEFINE mark(e) == IF e \in B THEN [e EXCEPT !.sent = TRUE] ELSE e
<1>0. MarkSent(n, B).items = {mark(e) : e \in n.items}
  <2>1. MarkSent(n, B) = [n EXCEPT !.items = {mark(e) : e \in n.items}]
    BY Zenon DEF MarkSent
  <2> HIDE DEF mark
  <2>2. [n EXCEPT !.items = {mark(e) : e \in n.items}].items = {mark(e) : e \in n.items}
    BY DEF Notif, Notification
  <2> QED
    BY <2>1, <2>2
<1> DEFINE f == [e \in n.items |-> mark(e)]
<1>1. MarkSent(n, B).items = {f[e] : e \in n.items}
  <2> HIDE DEF mark
  <2>1. \A e \in n.items : f[e] = mark(e)
    OBVIOUS
  <2> QED
    BY <1>0, <2>1
<1> HIDE DEF mark
<1>2. DOMAIN f = n.items /\ f = [x \in DOMAIN f |-> f[x]]
  OBVIOUS
<1>3. ASSUME NEW e \in n.items
      PROVE  IF e \in B THEN f[e].sent ELSE f[e] = e
  <2>1. e \in Entry(Sample)
    BY NotifParts
  <2> QED
    BY <2>1 DEF Entry, mark
<1> HIDE DEF f
<1>4. Unsent(MarkSent(n, B)) = Unsent(n) \ B
  BY <1>1, <1>3 DEF Unsent
<1> QED
  BY <1>1, <1>2, <1>4, FiniteRange

-----------------------------------------------------------------------------
(* The inductive invariant, action by action.                              *)

(* A record with unsent values can be acknowledged.                        *)
LEMMA UnsentIsUnacked ==
    ASSUME IInv, NEW k \in DOMAIN avail, Unsent(avail[k]) # {}
    PROVE  k \in Unacked
BY Parts DEF AckedIsEmpty, Unsent, Unacked

(* Steps that leave the map alone.                                         *)
LEMMA UntouchedMap ==
    ASSUME RInv, IInv', UNCHANGED avail, FreshUnsent', IsFiniteSet(pass'.fresh.items),
           NumberIsUnacked', toAck' \subseteq Unacked
    PROVE  RInv'
BY DEF RInv, NewerUnsent, FiniteQueue, Retransmittable, Unacked

(* Steps that leave the map, the pass, the response and the client alone.  *)
LEMMA UntouchedAll ==
    ASSUME RInv, IInv', UNCHANGED <<avail, pass, resp, toAck>>
    PROVE  RInv'
<1>1. FreshUnsent' /\ IsFiniteSet(pass'.fresh.items) /\ NumberIsUnacked' /\ toAck' \subseteq Unacked
  BY DEF RInv, FreshUnsent, FiniteQueue, NumberIsUnacked, Retransmittable, Unacked
<1> QED
  BY <1>1, UntouchedMap

(* Steps that only delete acknowledged records.                            *)
LEMMA AckedDeleted ==
    ASSUME RInv, IInv', UNCHANGED <<pass, toAck>>, resp'.phase # "filled",
           DOMAIN avail' \subseteq DOMAIN avail, Unacked \subseteq DOMAIN avail',
           \A k \in DOMAIN avail' : avail'[k] = avail[k]
    PROVE  RInv'
<1>1. NewerUnsent'
  BY DEF RInv, NewerUnsent
<1>2. FiniteQueue'
  BY FS_Subset DEF RInv, FiniteQueue
<1>3. Retransmittable'
  BY DEF RInv, Retransmittable, Unacked
<1>4. FreshUnsent' /\ NumberIsUnacked'
  BY DEF RInv, FreshUnsent, NumberIsUnacked
<1> QED
  BY <1>1, <1>2, <1>3, <1>4 DEF RInv

(* Queueing a sample in the target of the pass.                            *)
LEMMA QueueingInTarget ==
    ASSUME RInv, IInv', NEW q \in PassType, q.fresh = pass.fresh,
           q.target = "recycled" => q.key \in DOMAIN avail /\ IsSomethingToNotify(avail[q.key]),
           NEW i \in Item, NEW s \in Sample, NEW qs \in Nat, NEW d \in BOOLEAN,
           AddToTarget(q, i, s, qs, d), UNCHANGED <<resp, toAck>>
    PROVE  RInv'
<1>0. IInv /\ avail \in [DOMAIN avail -> Notif] /\ pass.fresh \in Notif
  BY Parts DEF RInv, PassType
<1>1. CASE q.target = "recycled"
  <2> DEFINE n == avail[q.key]
             m == AddMonitoredItemNotification(n, i, s, qs, d)
  <2>1. q.key \in DOMAIN avail /\ n \in Notif /\ IsSomethingToNotify(n) /\ IsFiniteSet(n.items)
    BY <1>0, <1>1 DEF RInv, FiniteQueue
  <2>2. m.acked = n.acked /\ IsSomethingToNotify(m) /\ IsFiniteSet(m.items)
    BY <2>1, AddKeeps, AddEntries
  <2>3. pass' = q /\ avail' = [avail EXCEPT ![q.key] = m]
    BY <1>1 DEF AddToTarget
  <2> HIDE DEF m, n
  <2>4. /\ DOMAIN avail' = DOMAIN avail
        /\ \A k \in DOMAIN avail : avail'[k] = IF k = q.key THEN m ELSE avail[k]
    BY <1>0, <2>1, <2>3
  <2>5. \A k \in DOMAIN avail : Unsent(avail'[k]) # {} <=> Unsent(avail[k]) # {}
    BY <2>1, <2>2, <2>4 DEF IsSomethingToNotify, n
  <2>6. NewerUnsent'
    BY <2>4, <2>5 DEF RInv, NewerUnsent
  <2>7. Unacked' = Unacked
    BY <2>2, <2>4 DEF Unacked, n
  <2>8. Retransmittable' /\ NumberIsUnacked'
    BY <2>7 DEF RInv, Retransmittable, NumberIsUnacked
  <2>9. FiniteQueue' /\ FreshUnsent'
    BY <2>2, <2>3, <2>4 DEF RInv, FiniteQueue, FreshUnsent
  <2> QED
    BY <2>6, <2>8, <2>9 DEF RInv
<1>2. CASE q.target # "recycled"
  <2> DEFINE m == AddMonitoredItemNotification(pass.fresh, i, s, qs, d)
  <2>1. (\A e \in m.items : ~e.sent) /\ IsFiniteSet(m.items)
    BY <1>0, AddEntries DEF RInv, FreshUnsent, FiniteQueue
  <2>2. pass' = [q EXCEPT !.target = "fresh", !.fresh = m] /\ avail' = avail
    BY <1>2 DEF AddToTarget
  <2> HIDE DEF m
  <2>3. pass'.fresh = m
    BY <2>2 DEF PassType
  <2>4. FreshUnsent' /\ IsFiniteSet(pass'.fresh.items)
    BY <2>1, <2>3 DEF FreshUnsent
  <2>5. NumberIsUnacked' /\ toAck' \subseteq Unacked
    BY <2>2 DEF RInv, NumberIsUnacked, Retransmittable, Unacked
  <2> QED
    BY <2>2, <2>4, <2>5, UntouchedMap
<1> QED
  BY <1>1, <1>2

LEMMA PassBeginRetains == ASSUME RInv, IInv', PassBegin PROVE RInv'
<1>1. pass'.fresh = EmptyNotification /\ UNCHANGED <<avail, resp, toAck>>
  BY DEF PassBegin, NoPass, queueVars, clientVars
<1>2. EmptyNotification.items = {}
  BY DEF EmptyNotification
<1>3. FreshUnsent' /\ IsFiniteSet(pass'.fresh.items)
  BY <1>1, <1>2, FS_EmptySet DEF FreshUnsent
<1>4. NumberIsUnacked' /\ toAck' \subseteq Unacked
  BY <1>1 DEF RInv, NumberIsUnacked, Retransmittable, Unacked
<1> QED
  BY <1>1, <1>3, <1>4, UntouchedMap

(* A step of the pass that only ticks an item off.                         *)
LEMMA TickRetains ==
    ASSUME RInv, IInv', NEW i, pass' = [pass EXCEPT !.todo = @ \ {i}],
           UNCHANGED <<avail, resp, toAck>>
    PROVE  RInv'
<1>1. pass'.fresh = pass.fresh
  BY Parts DEF RInv, PassType
<1>2. FreshUnsent' /\ IsFiniteSet(pass'.fresh.items) /\ NumberIsUnacked' /\ toAck' \subseteq Unacked
  BY <1>1 DEF RInv, FreshUnsent, FiniteQueue, NumberIsUnacked, Retransmittable, Unacked
<1> QED
  BY <1>2, UntouchedMap

LEMMA CompareItemRetains == ASSUME RInv, IInv', NEW i \in Item, CompareItem(i) PROVE RInv'
<1>0. IInv /\ i \in pass.todo /\ UNCHANGED <<resp, toAck>> /\ source[i] \in Sample
  BY DEF RInv, CompareItem, queueVars, clientVars, IInv, TypeOK
<1>1. CASE Differs(i)
  <2>1. PICK q \in Targets([pass EXCEPT !.todo = @ \ {i}]) :
            AddToTarget(q, i, source[i], QueueSize, DiscardOldest)
    BY <1>1 DEF CompareItem
  <2>2. /\ q \in PassType /\ q.fresh = pass.fresh
        /\ q.target = "recycled" => q.key \in DOMAIN avail /\ IsSomethingToNotify(avail[q.key])
    BY <1>0, TargetOf
  <2> QED
    BY <1>0, <2>1, <2>2, QueueingInTarget, ConstantsAssumption
<1>2. CASE ~Differs(i)
  BY <1>0, <1>2, TickRetains DEF CompareItem
<1> QED
  BY <1>1, <1>2

LEMMA SampleItemRetains == ASSUME RInv, IInv', NEW i \in Item, SampleItem(i) PROVE RInv'
<1> DEFINE p == [pass EXCEPT !.todo = @ \ {i}]
<1>1. /\ AddToTarget(p, i, last[i], 0, FALSE) /\ UNCHANGED <<resp, toAck>>
      /\ last[i] \in Sample
  BY DEF SampleItem, queueVars, clientVars, RInv, IInv, TypeOK
<1>2. p \in PassType /\ p.target = pass.target /\ p.key = pass.key /\ p.fresh = pass.fresh
  BY Parts DEF RInv, PassType
<1> HIDE DEF p
<1>3. p.target = "recycled" => p.key \in DOMAIN avail /\ IsSomethingToNotify(avail[p.key])
  BY <1>2, Parts DEF RInv, RecycledRecordIsLive
<1> QED
  BY <1>1, <1>2, <1>3, QueueingInTarget

LEMMA SkipItemRetains == ASSUME RInv, IInv', NEW i \in Item, SkipItem(i) PROVE RInv'
BY TickRetains DEF SkipItem, queueVars, clientVars

(* The fresh record is the last of the map, and nothing of it was sent.    *)
LEMMA PassEndRetains == ASSUME RInv, IInv', PassEnd PROVE RInv'
<1>1. pass' = NoPass /\ UNCHANGED <<resp, toAck>>
  BY DEF PassEnd, queueVars, clientVars
<1>2. pass'.fresh.items = {}
  BY <1>1 DEF NoPass, EmptyNotification
<1>3. FreshUnsent' /\ IsFiniteSet(pass'.fresh.items)
  BY <1>2, FS_EmptySet DEF FreshUnsent
<1>4. CASE UNCHANGED avail
  <2>1. NumberIsUnacked' /\ toAck' \subseteq Unacked
    BY <1>1, <1>4 DEF RInv, NumberIsUnacked, Retransmittable, Unacked
  <2> QED
    BY <1>3, <1>4, <2>1, UntouchedMap
<1>5. CASE ~UNCHANGED avail
  <2>1. /\ pass.fresh.items # {}
        /\ avail' = [k \in DOMAIN avail \cup {NextSeq} |->
                         IF k = NextSeq THEN pass.fresh ELSE avail[k]]
    BY <1>5 DEF PassEnd
  <2>2. /\ \A k \in DOMAIN avail : k \in Nat /\ k < NextSeq
        /\ NextSeq \in Nat /\ ~pass.fresh.acked
    BY Parts DEF RInv, FreshSequenceNumber, PassIsClean
  <2>3. Unsent(pass.fresh) # {}
    BY <2>1 DEF RInv, FreshUnsent, Unsent
  <2>4. /\ DOMAIN avail' = DOMAIN avail \cup {NextSeq}
        /\ avail'[NextSeq] = pass.fresh
        /\ \A k \in DOMAIN avail : avail'[k] = avail[k]
    BY <2>1, <2>2
  <2>5. NewerUnsent'
    BY <2>2, <2>3, <2>4 DEF RInv, NewerUnsent
  <2>6. Unacked \subseteq Unacked'
    BY <2>4 DEF Unacked
  <2>7. NumberIsUnacked' /\ Retransmittable'
    BY <1>1, <2>6 DEF RInv, NumberIsUnacked, Retransmittable
  <2>8. FiniteQueue'
    BY <1>3, <2>4, FS_AddElement DEF RInv, FiniteQueue
  <2> QED
    BY <1>3, <2>5, <2>7, <2>8 DEF RInv
<1> QED
  BY <1>4, <1>5

-----------------------------------------------------------------------------
(* The filling of a response.                                              *)

(* The queue of a finite map is finite.                                    *)
LEMMA QueueIsFinite == ASSUME FiniteQueue PROVE IsFiniteSet(Queue)
<1> DEFINE f == [k \in DOMAIN avail |-> avail[k].items]
           S == {f[k] : k \in DOMAIN avail}
           D == DOMAIN avail
           U == UNION S
<1>1. IsFiniteSet(S)
  <2>1. DOMAIN f = DOMAIN avail /\ f = [x \in DOMAIN f |-> f[x]]
    OBVIOUS
  <2> HIDE DEF f
  <2> QED
    BY <2>1, FiniteRange DEF FiniteQueue
<1>2. \A T \in S : IsFiniteSet(T)
  BY DEF FiniteQueue
<1>3. IsFiniteSet(D) /\ IsFiniteSet(U)
  BY <1>1, <1>2, FS_UNION DEF FiniteQueue
<1>4. IsFiniteSet(D \X U)
  <2> HIDE DEF D, U
  <2> QED
    BY <1>3, FS_Product
<1>5. Queue \subseteq D \X U
  <2>1. ASSUME NEW k \in Unacked, NEW e \in Unsent(avail[k])
        PROVE  k \in D /\ e \in U
    <3>1. k \in DOMAIN avail /\ e \in avail[k].items
      BY DEF Unacked, Unsent
    <3>2. f[k] \in S /\ f[k] = avail[k].items
      BY <3>1
    <3> QED
      BY <3>1, <3>2
  <2> HIDE DEF D, U
  <2>2. ASSUME NEW q \in Queue PROVE q \in D \X U
    <3>1. PICK k \in Unacked : q \in {k} \X Unsent(avail[k])
      BY DEF Queue
    <3> QED
      BY <2>1, <3>1
  <2> QED
    BY <2>2
<1> QED
  BY <1>4, <1>5, FS_Subset

(* A response takes from a record only when it takes all of the older ones.*)
LEMMA OldestFirst ==
    ASSUME RInv, NEW k \in DOMAIN avail, NEW l \in DOMAIN avail, k < l,
           NEW e \in Unsent(avail[k]), NEW f \in Unsent(avail[l]),
           <<l, f>> \in Batch
    PROVE  <<k, e>> \in Batch
<1>1. k \in Unacked /\ k \in Nat /\ l \in Nat
  BY UnsentIsUnacked, Parts DEF RInv
<1>2. <<k, e>> \in Queue
  BY <1>1 DEF Queue
<1>3. CASE MaxNotificationsPerPublish = 0
  BY <1>2, <1>3 DEF Batch
<1>4. CASE MaxNotificationsPerPublish # 0
  <2> DEFINE P == {r \in Queue : Before(r, <<k, e>>)}
             Q == {r \in Queue : Before(r, <<l, f>>)}
  <2>1. \A r \in Queue : r[1] \in Nat
    BY Parts DEF RInv, Queue, Unacked
  <2>2. P \subseteq Q
    BY <1>1, <2>1 DEF Before
  <2>3. IsFiniteSet(Q)
    BY QueueIsFinite, FS_Subset DEF RInv
  <2>4. Cardinality(P) <= Cardinality(Q) /\ Cardinality(P) \in Nat /\ Cardinality(Q) \in Nat
    BY <2>2, <2>3, FS_Subset, FS_CardinalityType
  <2>5. Cardinality(Q) < MaxNotificationsPerPublish
    BY <1>4 DEF Batch
  <2> HIDE DEF P, Q
  <2>6. Cardinality(P) < MaxNotificationsPerPublish
    BY <2>4, <2>5, ConstantsAssumption
  <2> QED
    BY <1>2, <2>6 DEF Batch, P
<1> QED
  BY <1>3, <1>4

(* LastKey is the number of the last record, when there is one.            *)
LEMMA LastIsLargest ==
    ASSUME RInv, DOMAIN avail # {}
    PROVE  LastKey \in DOMAIN avail /\ \A k \in DOMAIN avail : k <= LastKey
<1>1. DOMAIN avail \in SUBSET Nat /\ IsFiniteSet(DOMAIN avail)
  BY Parts DEF RInv, FiniteQueue
<1>2. \E l \in DOMAIN avail : \A j \in DOMAIN avail : j <= l
  BY <1>1, FiniteHasLast
<1>3. Lasts(DOMAIN avail) # {}
  BY <1>2 DEF Lasts
<1>4. LastKey \in Lasts(DOMAIN avail)
  BY <1>3 DEF LastKey
<1> QED
  BY <1>4 DEF Lasts

(* The last record of the map is the one a message is numbered after, and  *)
(* has unsent values when any record has.                                  *)
LEMMA LastIsUnsent ==
    ASSUME RInv, NEW k \in DOMAIN avail, Unsent(avail[k]) # {}
    PROVE  LastKey \in DOMAIN avail /\ Unsent(avail[LastKey]) # {}
<1>1. LastKey \in DOMAIN avail /\ k <= LastKey
  BY LastIsLargest
<1>2. k < LastKey \/ k = LastKey
  BY <1>1, Parts DEF RInv
<1> QED
  BY <1>1, <1>2 DEF RInv, NewerUnsent

LEMMA ProcessQueuedPublishRequestRetains ==
    ASSUME RInv, IInv', ProcessQueuedPublishRequest
    PROVE  RInv'
<1>1. UNCHANGED <<pass, toAck>>
  BY DEF ProcessQueuedPublishRequest, clientVars
<1>2. FreshUnsent' /\ IsFiniteSet(pass'.fresh.items)
  BY <1>1 DEF RInv, FreshUnsent, FiniteQueue
<1>3. CASE UNCHANGED avail /\ (resp'.phase = "filled" => resp'.data = {})
  <2>1. NumberIsUnacked' /\ toAck' \subseteq Unacked
    BY <1>1, <1>3 DEF RInv, NumberIsUnacked, Retransmittable
  <2> QED
    BY <1>2, <1>3, <2>1, UntouchedMap
<1>4. CASE /\ Batch # {} /\ resp'.seq = LastKey
           /\ avail' = [k \in DOMAIN avail |->
                            MarkSent(avail[k], {e \in avail[k].items : <<k, e>> \in Batch})]
  <2> DEFINE B(k) == {e \in avail[k].items : <<k, e>> \in Batch}
  <2>1. ASSUME NEW k \in DOMAIN avail
        PROVE  /\ avail'[k].acked = avail[k].acked
               /\ Unsent(avail'[k]) = Unsent(avail[k]) \ B(k)
               /\ IsFiniteSet(avail'[k].items)
    <3>1. avail[k] \in Notif /\ Backed(avail[k]) /\ IsFiniteSet(avail[k].items)
      BY Parts DEF RInv, CountIsBacked, FiniteQueue
    <3>2. avail'[k] = MarkSent(avail[k], B(k))
      BY <1>4
    <3> HIDE DEF B
    <3> QED
      BY <3>1, <3>2, MarkSentKeeps, MarkSentEntries
  <2>2. DOMAIN avail' = DOMAIN avail
    BY <1>4
  <2>3. NewerUnsent'
    <3> SUFFICES ASSUME NEW k \in DOMAIN avail, NEW l \in DOMAIN avail, k < l,
                        Unsent(avail'[k]) # {}
                 PROVE  Unsent(avail'[l]) # {}
      BY <2>2 DEF NewerUnsent
    <3>1. PICK e \in Unsent(avail[k]) : <<k, e>> \notin Batch
      BY <2>1 DEF Unsent
    <3>2. PICK f \in Unsent(avail[l]) : TRUE
      BY <3>1 DEF RInv, NewerUnsent
    <3>3. <<l, f>> \notin Batch
      BY <3>1, OldestFirst
    <3> QED
      BY <2>1, <3>3
  <2>4. Unacked' = Unacked
    BY <2>1, <2>2 DEF Unacked
  <2>5. NumberIsUnacked'
    <3>1. PICK k \in DOMAIN avail : Unsent(avail[k]) # {}
      BY <1>4 DEF Batch, Queue, Unacked
    <3>2. LastKey \in Unacked
      BY <3>1, LastIsUnsent, UnsentIsUnacked DEF RInv
    <3> QED
      BY <1>4, <2>4, <3>2 DEF NumberIsUnacked
  <2>6. Retransmittable'
    BY <1>1, <2>4 DEF RInv, Retransmittable
  <2>7. FiniteQueue'
    BY <1>2, <2>1, <2>2 DEF RInv, FiniteQueue
  <2> QED
    BY <1>2, <2>3, <2>5, <2>6, <2>7 DEF RInv
<1>5. CASE Fill
  <2>1. CASE Batch # {}
    BY <1>4, <1>5, <2>1 DEF Fill
  <2>2. CASE Batch = {}
    BY <1>3, <1>5, <2>2 DEF Fill, NoResponse
  <2> QED
    BY <2>1, <2>2
<1>6. CASE FillDisabled
  BY <1>3, <1>6 DEF FillDisabled, NoResponse
<1> QED
  BY <1>5, <1>6 DEF ProcessQueuedPublishRequest

-----------------------------------------------------------------------------
(* The transmission, the clean-up and the services.                        *)

LEMMA EndSendResponseRetains == ASSUME RInv, IInv', EndSendResponse PROVE RInv'
<1>1. /\ resp.phase = "filled" /\ resp' = [resp EXCEPT !.phase = "sent"]
      /\ toAck' = IF resp.data = {} THEN toAck ELSE toAck \cup {resp.seq}
      /\ UNCHANGED <<avail, pass>>
  BY DEF EndSendResponse, threadVars
<1>2. resp'.phase = "sent"
  BY <1>1, Parts DEF RInv, RespType
<1>3. NumberIsUnacked' /\ toAck' \subseteq Unacked
  BY <1>1, <1>2 DEF RInv, NumberIsUnacked, Retransmittable
<1>4. FreshUnsent' /\ IsFiniteSet(pass'.fresh.items)
  BY <1>1 DEF RInv, FreshUnsent, FiniteQueue
<1> QED
  BY <1>1, <1>3, <1>4, UntouchedMap

LEMMA EndSendResponseFailedRetains == ASSUME RInv, IInv', EndSendResponseFailed PROVE RInv'
<1>1. resp'.phase = "none" /\ UNCHANGED <<avail, pass, toAck>>
  BY DEF EndSendResponseFailed, NoResponse, threadVars, clientVars
<1>2. NumberIsUnacked' /\ toAck' \subseteq Unacked
  BY <1>1 DEF RInv, NumberIsUnacked, Retransmittable
<1>3. FreshUnsent' /\ IsFiniteSet(pass'.fresh.items)
  BY <1>1 DEF RInv, FreshUnsent, FiniteQueue
<1> QED
  BY <1>1, <1>2, <1>3, UntouchedMap

LEMMA RemoveAckedRetains == ASSUME RInv, IInv', RemoveAckedDataChangeNotification PROVE RInv'
<1>1. /\ resp'.phase = "none" /\ UNCHANGED <<pass, toAck>>
      /\ avail' = [k \in Unacked |-> avail[k]]
  BY DEF RemoveAckedDataChangeNotification, NoResponse, clientVars
<1>2. DOMAIN avail' = Unacked /\ Unacked \subseteq DOMAIN avail
  BY <1>1 DEF Unacked
<1> QED
  BY <1>1, <1>2, AckedDeleted

(* An acknowledgement takes sent values only, from records whose numbers   *)
(* the client gives up.                                                    *)
LEMMA PublishRetains == ASSUME RInv, IInv', NEW acks, Publish(acks) PROVE RInv'
<1>1. /\ resp.phase = "none" /\ UNCHANGED <<pass, resp>> /\ toAck' = toAck \ acks
      /\ avail' = [k \in DOMAIN avail |-> IF k \in acks THEN Acknowledge(avail[k]) ELSE avail[k]]
  BY DEF Publish, ServiceMayRun
<1>2. ASSUME NEW k \in DOMAIN avail
      PROVE  /\ Unsent(avail'[k]) = Unsent(avail[k]) /\ IsFiniteSet(avail'[k].items)
             /\ k \notin acks => avail'[k] = avail[k]
  <2>1. avail[k] \in Notif /\ IsFiniteSet(avail[k].items)
    BY Parts DEF RInv, FiniteQueue
  <2>2. CASE k \in acks
    <3>1. avail'[k] = Acknowledge(avail[k])
      BY <1>1, <2>2
    <3> QED
      BY <2>1, <2>2, <3>1, AcknowledgeEntries
  <2>3. CASE k \notin acks
    BY <1>1, <2>1, <2>3
  <2> QED
    BY <2>2, <2>3
<1>3. DOMAIN avail' = DOMAIN avail
  BY <1>1
<1>4. NewerUnsent'
  BY <1>2, <1>3 DEF RInv, NewerUnsent
<1>5. Retransmittable'
  BY <1>1, <1>2, <1>3 DEF RInv, Retransmittable, Unacked
<1>6. FiniteQueue'
  BY <1>1, <1>2, <1>3 DEF RInv, FiniteQueue
<1>7. FreshUnsent' /\ NumberIsUnacked'
  BY <1>1 DEF RInv, FreshUnsent, NumberIsUnacked
<1> QED
  BY <1>4, <1>5, <1>6, <1>7 DEF RInv

LEMMA RepublishRetains == ASSUME RInv, IInv', NEW k \in offered, Republish(k) PROVE RInv'
<1>1. UNCHANGED <<avail, pass, resp>> /\ toAck' \subseteq toAck \cup (Unacked \cap {k})
  BY DEF Republish, threadVars, queueVars
<1>2. NumberIsUnacked' /\ toAck' \subseteq Unacked
  BY <1>1 DEF RInv, NumberIsUnacked, Retransmittable, Unacked
<1>3. FreshUnsent' /\ IsFiniteSet(pass'.fresh.items)
  BY <1>1 DEF RInv, FreshUnsent, FiniteQueue
<1> QED
  BY <1>1, <1>2, <1>3, UntouchedMap

LEMMA DeleteMonitoredItemRetains ==
    ASSUME RInv, IInv', NEW i \in Item, DeleteMonitoredItem(i) PROVE RInv'
<1> DEFINE cleaned == [k \in DOMAIN avail |-> RemoveMonitoredItemNotification(avail[k], i)]
           kept == {k \in DOMAIN avail : ~(cleaned[k].acked /\ cleaned[k].items = {})}
<1>1. /\ resp.phase = "none" /\ UNCHANGED <<pass, resp, toAck>>
      /\ avail' = [k \in kept |-> cleaned[k]]
  BY DEF DeleteMonitoredItem, ServiceMayRun, queueVars, clientVars
<1>2. ASSUME NEW k \in DOMAIN avail PROVE cleaned[k] = avail[k]
  <2>1. avail[k] \in Notif /\ (avail[k].acked <=> avail[k].items = {})
    BY Parts DEF RInv, AckedIsEmpty
  <2> QED
    BY <2>1, RemoveKeeps
<1> HIDE DEF cleaned
<1>3. /\ DOMAIN avail' \subseteq DOMAIN avail /\ Unacked \subseteq DOMAIN avail'
      /\ \A k \in DOMAIN avail' : avail'[k] = avail[k]
  BY <1>1, <1>2 DEF Unacked
<1> QED
  BY <1>1, <1>3, AckedDeleted

(* Every step keeps the invariant.                                         *)
LEMMA NextRetains == RInv /\ IInv' /\ [Next]_vars => RInv'
<1> SUFFICES ASSUME RInv, IInv', [Next]_vars PROVE RInv'
  OBVIOUS
<1>1. CASE UpdateThread
  BY <1>1, PassBeginRetains, CompareItemRetains, SampleItemRetains, SkipItemRetains, PassEndRetains
     DEF UpdateThread
<1>2. CASE NotificationThread
  BY <1>2, ProcessQueuedPublishRequestRetains, EndSendResponseRetains,
     EndSendResponseFailedRetains, RemoveAckedRetains DEF NotificationThread
<1>3. CASE Services
  <2>1. ASSUME NEW b \in BOOLEAN, SetPublishingMode(b) PROVE RInv'
    BY <2>1, UntouchedAll DEF SetPublishingMode, threadVars, queueVars, clientVars
  <2>2. ASSUME NEW i \in Item, NEW m \in Modes, SetMonitoringMode(i, m) PROVE RInv'
    BY <2>2, UntouchedAll DEF SetMonitoringMode, threadVars, queueVars, clientVars
  <2>3. ASSUME NEW i \in Item, NEW m \in Modes, AddMonitoredItem(i, m) PROVE RInv'
    BY <2>3, UntouchedAll DEF AddMonitoredItem, threadVars, queueVars
  <2> QED
    BY <1>3, <2>1, <2>2, <2>3, PublishRetains, RepublishRetains, DeleteMonitoredItemRetains
       DEF Services
<1>4. CASE Environment
  <2>1. ASSUME NEW i \in Item, NEW v \in Value, Write(i, v) PROVE RInv'
    BY <2>1, UntouchedAll DEF Write, threadVars, queueVars, clientVars
  <2>2. ASSUME KeepAliveElapses PROVE RInv'
    BY <2>2, UntouchedAll DEF KeepAliveElapses, threadVars, queueVars, clientVars
  <2> QED
    BY <1>4, <2>1, <2>2 DEF Environment
<1>5. CASE UNCHANGED vars
  BY <1>5, UntouchedAll DEF vars, threadVars, queueVars, clientVars
<1> QED
  BY <1>1, <1>2, <1>3, <1>4, <1>5 DEF Next

LEMMA InitRetains == Init => RInv
<1> SUFFICES ASSUME Init PROVE RInv
  OBVIOUS
<1>1. DOMAIN avail = {} /\ pass = NoPass /\ resp = NoResponse /\ toAck = {}
  BY DEF Init
<1>2. pass.fresh.items = {} /\ resp.phase = "none"
  BY <1>1 DEF NoPass, EmptyNotification, NoResponse
<1>3. FiniteQueue
  BY <1>1, <1>2, FS_EmptySet DEF FiniteQueue
<1>4. NewerUnsent /\ FreshUnsent /\ NumberIsUnacked /\ Retransmittable
  BY <1>1, <1>2 DEF NewerUnsent, FreshUnsent, NumberIsUnacked, Retransmittable
<1> QED
  BY <1>3, <1>4, InitEstablishes DEF RInv

-----------------------------------------------------------------------------
(* What the client received and has not acknowledged is still in the map,  *)
(* unacknowledged, so that Republish returns it.                           *)
THEOREM ReceivedIsRetained == Spec => []Retransmittable
<1>1. RInv /\ [Next]_vars => RInv'
  BY NextKeeps, NextRetains DEF RInv
<1>2. RInv => Retransmittable
  BY DEF RInv
<1> QED
  BY <1>1, <1>2, InitRetains, PTL DEF Spec

(* A record that is newer than one with unsent values has unsent values:   *)
(* responses empty the records in their order, whatever the passes of      *)
(* UpdateDataSubscriptionThread recycle and insert meanwhile.              *)
THEOREM UnsentAreNewest == Spec => []NewerUnsent
<1>1. RInv /\ [Next]_vars => RInv'
  BY NextKeeps, NextRetains DEF RInv
<1>2. RInv => NewerUnsent
  BY DEF RInv
<1> QED
  BY <1>1, <1>2, InitRetains, PTL DEF Spec

-----------------------------------------------------------------------------
(* What a step may make of the records.                                    *)

(* A pass queues a value of an item it still has to visit.                 *)
Queues(o, n) ==
    \E i \in pass.todo :
        \/ /\ mode[i] = "Reporting"
           /\ n = AddMonitoredItemNotification(o, i, source[i], QueueSize, DiscardOldest)
        \/ /\ mode[i] = "Sampling"
           /\ n = AddMonitoredItemNotification(o, i, last[i], 0, FALSE)

(* What a response takes of a record.                                      *)
Taken(k) == {e \in avail[k].items : <<k, e>> \in Batch}

Becomes(k, n) ==
    \/ n = avail[k]
    \/ IsSomethingToNotify(avail[k]) /\ Queues(avail[k], n)
    \/ n = Acknowledge(avail[k])
    \/ n = MarkSent(avail[k], Taken(k)) /\ resp'.phase = "filled" /\ resp'.data = Batch

(* A record goes only when it is empty, comes only from the pass, and      *)
(* changes by an operation of DataChangeNotification.                      *)
RecordStep ==
    /\ \A k \in DOMAIN avail' : k \in DOMAIN avail \/ avail'[k] = pass.fresh
    /\ \A k \in DOMAIN avail : IF k \in DOMAIN avail' THEN Becomes(k, avail'[k])
                                                      ELSE avail[k].items = {}
    /\ pass'.fresh \in {pass.fresh, EmptyNotification} \/ Queues(pass.fresh, pass'.fresh)

LEMMA SameRecordStep ==
    ASSUME UNCHANGED avail, pass'.fresh \in {pass.fresh, EmptyNotification}
    PROVE  RecordStep
BY DEF RecordStep, Becomes

(* Queueing a sample in the target of the pass.                            *)
LEMMA QueueingStep ==
    ASSUME IInv, NEW q \in PassType, q.fresh = pass.fresh,
           q.target = "recycled" => q.key \in DOMAIN avail /\ IsSomethingToNotify(avail[q.key]),
           NEW i \in pass.todo, NEW s, NEW qs, NEW d,
           AddToTarget(q, i, s, qs, d),
           \/ mode[i] = "Reporting" /\ s = source[i] /\ qs = QueueSize /\ d = DiscardOldest
           \/ mode[i] = "Sampling" /\ s = last[i] /\ qs = 0 /\ d = FALSE
    PROVE  RecordStep
<1>1. CASE q.target = "recycled"
  <2> DEFINE m == AddMonitoredItemNotification(avail[q.key], i, s, qs, d)
  <2>1. pass' = q /\ avail' = [avail EXCEPT ![q.key] = m]
    BY <1>1 DEF AddToTarget
  <2>2. Queues(avail[q.key], m)
    BY DEF Queues
  <2> HIDE DEF m
  <2>3. /\ DOMAIN avail' = DOMAIN avail
        /\ \A k \in DOMAIN avail : avail'[k] = IF k = q.key THEN m ELSE avail[k]
    BY <2>1, Parts
  <2>4. \A k \in DOMAIN avail : Becomes(k, avail'[k])
    BY <1>1, <2>2, <2>3 DEF Becomes
  <2> QED
    BY <2>1, <2>3, <2>4 DEF RecordStep
<1>2. CASE q.target # "recycled"
  <2> DEFINE m == AddMonitoredItemNotification(pass.fresh, i, s, qs, d)
  <2>1. pass' = [q EXCEPT !.target = "fresh", !.fresh = m] /\ avail' = avail
    BY <1>2 DEF AddToTarget
  <2>2. Queues(pass.fresh, m)
    BY DEF Queues
  <2> HIDE DEF m
  <2>3. pass'.fresh = m
    BY <2>1 DEF PassType
  <2> QED
    BY <2>1, <2>2, <2>3 DEF RecordStep, Becomes
<1> QED
  BY <1>1, <1>2

LEMMA CompareItemStep == ASSUME IInv, NEW i \in Item, CompareItem(i) PROVE RecordStep
<1> DEFINE p == [pass EXCEPT !.todo = @ \ {i}]
<1>0. i \in pass.todo /\ mode[i] = "Reporting" /\ p.fresh = pass.fresh
  BY Parts DEF CompareItem, PassType
<1>1. CASE Differs(i)
  <2>1. PICK q \in Targets(p) : AddToTarget(q, i, source[i], QueueSize, DiscardOldest)
    BY <1>1 DEF CompareItem
  <2> QED
    BY <1>0, <2>1, TargetOf, QueueingStep
<1>2. CASE ~Differs(i)
  <2>1. pass' = p /\ UNCHANGED avail
    BY <1>2 DEF CompareItem
  <2> HIDE DEF p
  <2> QED
    BY <1>0, <2>1, SameRecordStep
<1> QED
  BY <1>1, <1>2

LEMMA SampleItemStep == ASSUME IInv, NEW i \in Item, SampleItem(i) PROVE RecordStep
<1> DEFINE p == [pass EXCEPT !.todo = @ \ {i}]
<1>1. i \in pass.todo /\ mode[i] = "Sampling" /\ AddToTarget(p, i, last[i], 0, FALSE)
  BY DEF SampleItem
<1>2. /\ p \in PassType /\ p.fresh = pass.fresh
      /\ p.target = "recycled" => p.key \in DOMAIN avail /\ IsSomethingToNotify(avail[p.key])
  BY Parts DEF PassType, RecycledRecordIsLive
<1> HIDE DEF p
<1> QED
  BY <1>1, <1>2, QueueingStep

LEMMA PassEndStep == ASSUME IInv, PassEnd PROVE RecordStep
<1>1. pass'.fresh = EmptyNotification
  BY DEF PassEnd, NoPass
<1>2. CASE UNCHANGED avail
  BY <1>1, <1>2, SameRecordStep
<1>3. CASE ~UNCHANGED avail
  <2>1. /\ NextSeq \notin DOMAIN avail
        /\ avail' = [k \in DOMAIN avail \cup {NextSeq} |->
                         IF k = NextSeq THEN pass.fresh ELSE avail[k]]
    BY <1>3 DEF PassEnd
  <2> QED
    BY <1>1, <2>1 DEF RecordStep, Becomes
<1> QED
  BY <1>2, <1>3

LEMMA ProcessQueuedPublishRequestStep ==
    ASSUME IInv, ProcessQueuedPublishRequest PROVE RecordStep
<1>1. pass' = pass
  BY DEF ProcessQueuedPublishRequest
<1>2. CASE Fill /\ Batch # {}
  <2>1. /\ resp'.phase = "filled" /\ resp'.data = Batch
        /\ avail' = [k \in DOMAIN avail |-> MarkSent(avail[k], Taken(k))]
    BY <1>2 DEF Fill, Taken
  <2> QED
    BY <1>1, <2>1 DEF RecordStep, Becomes
<1>3. CASE UNCHANGED avail
  BY <1>1, <1>3, SameRecordStep
<1> QED
  BY <1>2, <1>3 DEF ProcessQueuedPublishRequest, Fill, FillDisabled

LEMMA RemoveAckedStep == ASSUME IInv, RemoveAckedDataChangeNotification PROVE RecordStep
<1>1. pass' = pass /\ avail' = [k \in Unacked |-> avail[k]]
  BY DEF RemoveAckedDataChangeNotification
<1>2. \A k \in DOMAIN avail : k \notin Unacked => avail[k].items = {}
  BY Parts DEF Unacked, AckedIsEmpty
<1> QED
  BY <1>1, <1>2 DEF RecordStep, Becomes, Unacked

LEMMA PublishStep == ASSUME IInv, NEW acks, Publish(acks) PROVE RecordStep
<1>1. /\ pass' = pass
      /\ avail' = [k \in DOMAIN avail |-> IF k \in acks THEN Acknowledge(avail[k]) ELSE avail[k]]
  BY DEF Publish
<1> QED
  BY <1>1 DEF RecordStep, Becomes

LEMMA DeleteMonitoredItemStep ==
    ASSUME IInv, NEW i \in Item, DeleteMonitoredItem(i) PROVE RecordStep
<1> DEFINE cleaned == [k \in DOMAIN avail |-> RemoveMonitoredItemNotification(avail[k], i)]
           kept == {k \in DOMAIN avail : ~(cleaned[k].acked /\ cleaned[k].items = {})}
<1>1. pass' = pass /\ avail' = [k \in kept |-> cleaned[k]]
  BY DEF DeleteMonitoredItem
<1>2. ASSUME NEW k \in DOMAIN avail PROVE cleaned[k] = avail[k]
  <2>1. avail[k] \in Notif /\ (avail[k].acked <=> avail[k].items = {})
    BY Parts DEF AckedIsEmpty
  <2> QED
    BY <2>1, RemoveKeeps
<1> HIDE DEF cleaned
<1> QED
  BY <1>1, <1>2 DEF RecordStep, Becomes

LEMMA NextStep == ASSUME IInv, [Next]_vars PROVE RecordStep
<1>1. CASE UpdateThread
  <2>1. ASSUME PassBegin PROVE RecordStep
    BY <2>1, SameRecordStep DEF PassBegin, NoPass
  <2>2. ASSUME NEW i \in Item, SkipItem(i) PROVE RecordStep
    BY <2>2, SameRecordStep, Parts DEF SkipItem, PassType
  <2> QED
    BY <1>1, <2>1, <2>2, CompareItemStep, SampleItemStep, PassEndStep DEF UpdateThread
<1>2. CASE NotificationThread
  <2>1. ASSUME EndSendResponse \/ EndSendResponseFailed PROVE RecordStep
    BY <2>1, SameRecordStep DEF EndSendResponse, EndSendResponseFailed, threadVars
  <2> QED
    BY <1>2, <2>1, ProcessQueuedPublishRequestStep, RemoveAckedStep DEF NotificationThread
<1>3. CASE Services
  <2>1. ASSUME NEW k \in offered, Republish(k) PROVE RecordStep
    BY <2>1, SameRecordStep DEF Republish, threadVars
  <2>2. ASSUME NEW b \in BOOLEAN, SetPublishingMode(b) PROVE RecordStep
    BY <2>2, SameRecordStep DEF SetPublishingMode, threadVars
  <2>3. ASSUME NEW i \in Item, NEW m \in Modes, SetMonitoringMode(i, m) \/ AddMonitoredItem(i, m)
        PROVE  RecordStep
    BY <2>3, SameRecordStep DEF SetMonitoringMode, AddMonitoredItem, threadVars
  <2> QED
    BY <1>3, <2>1, <2>2, <2>3, PublishStep, DeleteMonitoredItemStep DEF Services
<1>4. CASE Environment
  BY <1>4, SameRecordStep DEF Environment, Write, KeepAliveElapses, threadVars
<1>5. CASE UNCHANGED vars
  BY <1>5, SameRecordStep DEF vars, threadVars
<1> QED
  BY <1>1, <1>2, <1>3, <1>4, <1>5 DEF Next

-----------------------------------------------------------------------------
(* The times of queued values.                                             *)

(* A sample of item i is not newer than its node, and of the time of the   *)
(* node's value only with that value.                                      *)
FromSource(i, s) == /\ s.at <= source[i].at
                    /\ s.at = source[i].at => s.val = source[i].val

Dated ==
    /\ \A i \in Item : source[i].at \in 1..clock /\ FromSource(i, last[i])
    /\ \A k \in DOMAIN avail : \A e \in avail[k].items : FromSource(e.item, e.smp)
    /\ \A e \in pass.fresh.items : FromSource(e.item, e.smp)

DInv == IInv /\ Dated

(* What a step may make of the nodes and of the values of the items.       *)
SourceOnly ==
    /\ clock' \in {clock, clock + 1}
    /\ \A i \in Item : \/ source'[i] = source[i]
                       \/ source'[i].at = clock + 1 /\ clock' = clock + 1
    /\ \A i \in Item : \/ last'[i] = last[i]
                       \/ last'[i] = NoSample
                       \/ \E n : last'[i] = Flagged(n, i, source[i], QueueSize)

LEMMA SourceStep == ASSUME TypeOK, [Next]_vars PROVE SourceOnly
<1>0. source \in [Item -> Sample] /\ last \in [Item -> Sample]
  BY DEF TypeOK
<1>1. ASSUME UNCHANGED <<source, clock, last>> PROVE SourceOnly
  BY <1>1 DEF SourceOnly
<1>2. CASE UpdateThread
  <2>1. ASSUME NEW i \in Item, CompareItem(i) PROVE SourceOnly
    <3>1. UNCHANGED <<source, clock>>
      BY <2>1 DEF CompareItem
    <3>2. \/ last' = last
          \/ \E n : last' = [last EXCEPT ![i] = Flagged(n, i, source[i], QueueSize)]
      BY <2>1 DEF CompareItem
    <3> QED
      BY <1>0, <3>1, <3>2 DEF SourceOnly
  <2>2. ASSUME NEW i \in Item, SampleItem(i) \/ SkipItem(i) PROVE SourceOnly
    BY <1>1, <2>2 DEF SampleItem, SkipItem, itemVars
  <2> QED
    BY <1>1, <1>2, <2>1, <2>2 DEF UpdateThread, PassBegin, PassEnd, itemVars
<1>3. CASE NotificationThread
  BY <1>1, <1>3 DEF NotificationThread, ProcessQueuedPublishRequest, EndSendResponse,
                    EndSendResponseFailed, RemoveAckedDataChangeNotification, itemVars
<1>4. CASE Services
  <2>1. ASSUME NEW i \in Item, NEW m \in Modes, AddMonitoredItem(i, m) PROVE SourceOnly
    <3>1. clock' = clock + 1 /\ source' = source /\ last' = [last EXCEPT ![i] = NoSample]
      BY <2>1 DEF AddMonitoredItem
    <3> QED
      BY <1>0, <3>1 DEF SourceOnly
  <2>2. ASSUME NEW i \in Item, NEW m \in Modes, SetMonitoringMode(i, m) PROVE SourceOnly
    BY <1>1, <2>2 DEF SetMonitoringMode
  <2> QED
    BY <1>1, <1>4, <2>1, <2>2 DEF Services, Publish, Republish, SetPublishingMode,
                                  DeleteMonitoredItem, itemVars
<1>5. CASE Environment
  <2>1. ASSUME NEW i \in Item, NEW v \in Value, Write(i, v) PROVE SourceOnly
    <3>1. /\ clock' = clock + 1 /\ last' = last
          /\ source' = [source EXCEPT ![i] = [val |-> v, at |-> clock + 1, ovf |-> FALSE]]
      BY <2>1 DEF Write, itemVars
    <3> QED
      BY <1>0, <3>1 DEF SourceOnly
  <2> QED
    BY <1>1, <1>5, <2>1 DEF Environment, KeepAliveElapses, itemVars
<1>6. CASE UNCHANGED vars
  BY <1>1, <1>6 DEF vars, itemVars
<1> QED
  BY <1>2, <1>3, <1>4, <1>5, <1>6 DEF Next

(* Every entry after the queueing of a sample has the sample of an earlier *)
(* one or the new one; marking and acknowledging make no entries.          *)
LEMMA AddOrigin ==
    ASSUME NEW n \in Notif, NEW i \in Item, NEW s \in Sample, NEW qs \in Nat, NEW d \in BOOLEAN,
           NEW e \in AddMonitoredItemNotification(n, i, s, qs, d).items
    PROVE  \/ \E f \in n.items : f.item = e.item /\ f.smp = e.smp
           \/ e.item = i /\ e.smp = Flagged(n, i, s, qs)
<1> DEFINE m == AddMonitoredItemNotification(n, i, s, qs, d)
           z == Flagged(n, i, s, qs)
<1>1. \/ m = n
      \/ m.items = n.items \cup {NewEntry(n, i, z)}
      \/ m.items = DropOldest(n, i) \cup {NewEntry(n, i, z)}
      \/ m.items = OverwriteNewest(n, i, z)
  BY AddOutcomes DEF Made
<1>2. n.items \subseteq Entry(Sample) /\ z \in Sample
  BY NotifParts, FlaggedIsSample
<1> HIDE DEF m, z
<1>3. ASSUME NEW f \in n.items, e = Overwritten(n, i, z, f)
      PROVE  e.item = f.item /\ (e.smp = f.smp \/ (f.item = i /\ e.smp = z))
  BY <1>2, <1>3 DEF Overwritten, IsNewest, Of, Entry
<1> QED
  BY <1>1, <1>3 DEF m, z, NewEntry, DropOldest, OverwriteNewest

LEMMA MarkSentOrigin ==
    ASSUME NEW n \in Notif, NEW B
    PROVE  MarkSent(n, B).items = {IF e \in B THEN [e EXCEPT !.sent = TRUE] ELSE e : e \in n.items}
<1> DEFINE mark(e) == IF e \in B THEN [e EXCEPT !.sent = TRUE] ELSE e
<1>1. MarkSent(n, B) = [n EXCEPT !.items = {mark(e) : e \in n.items}]
  BY Zenon DEF MarkSent
<1> HIDE DEF mark
<1>2. [n EXCEPT !.items = {mark(e) : e \in n.items}].items = {mark(e) : e \in n.items}
  BY DEF Notif, Notification
<1> QED
  BY <1>1, <1>2 DEF mark

LEMMA FlaggedFromSource ==
    ASSUME NEW i \in Item, NEW s \in Sample, FromSource(i, s), NEW n, NEW qs
    PROVE  FromSource(i, Flagged(n, i, s, qs)) /\ Flagged(n, i, s, qs).at = s.at
BY DEF Flagged, FromSource, Sample

(* What is from a node stays from it: a new value has a later time.        *)
LEMMA FromSourceStays ==
    ASSUME DInv, SourceOnly, NEW i \in Item, NEW s \in Sample, FromSource(i, s)
    PROVE  FromSource(i, s)'
<1>1. s.at \in Nat /\ s.at <= source[i].at /\ source[i].at <= clock /\ source[i].at \in Nat /\ clock \in Nat
  BY DEF DInv, Dated, IInv, TypeOK, Sample, FromSource
<1>2. CASE source'[i] = source[i]
  BY <1>2 DEF FromSource
<1>3. CASE source'[i].at = clock + 1
  BY <1>1, <1>3 DEF FromSource
<1> QED
  BY <1>2, <1>3 DEF SourceOnly

(* A queued sample is from its node.                                       *)
LEMMA QueuesFromSource ==
    ASSUME DInv, NEW n \in Notif, \A e \in n.items : FromSource(e.item, e.smp),
           NEW m, Queues(n, m), NEW e \in m.items
    PROVE  FromSource(e.item, e.smp)
<1>1. /\ source \in [Item -> Sample] /\ last \in [Item -> Sample]
      /\ pass.todo \subseteq Item /\ QueueSize \in Nat /\ DiscardOldest \in BOOLEAN
  BY ConstantsAssumption, Parts DEF DInv, TypeOK, PassType
<1>2. PICK i \in Item, s \in Sample, qs \in Nat, d \in BOOLEAN :
          m = AddMonitoredItemNotification(n, i, s, qs, d) /\ (s = source[i] \/ s = last[i])
  BY <1>1 DEF Queues
<1>3. FromSource(i, s)
  BY <1>1, <1>2 DEF DInv, Dated, FromSource
<1>4. \/ \E f \in n.items : f.item = e.item /\ f.smp = e.smp
      \/ e.item = i /\ e.smp = Flagged(n, i, s, qs)
  BY <1>2, AddOrigin
<1> QED
  BY <1>3, <1>4, FlaggedFromSource

(* Entries a step leaves in a record are from their nodes.                 *)
LEMMA BecomesFromSource ==
    ASSUME DInv, NEW k \in DOMAIN avail, NEW m, Becomes(k, m), NEW e \in m.items
    PROVE  FromSource(e.item, e.smp)
<1>0. avail[k] \in Notif /\ \A f \in avail[k].items : f \in Entry(Sample) /\ FromSource(f.item, f.smp)
  BY Parts, NotifParts DEF DInv, Dated
<1>1. CASE m = avail[k]
  BY <1>0, <1>1
<1>2. CASE Queues(avail[k], m)
  BY <1>0, <1>2, QueuesFromSource
<1>3. CASE m = Acknowledge(avail[k])
  BY <1>0, <1>3, AcknowledgeEntries DEF Unsent
<1>4. CASE m = MarkSent(avail[k], Taken(k))
  <2>1. PICK f \in avail[k].items : e = IF f \in Taken(k) THEN [f EXCEPT !.sent = TRUE] ELSE f
    BY <1>0, <1>4, MarkSentOrigin
  <2>2. e.item = f.item /\ e.smp = f.smp
    BY <1>0, <2>1 DEF Entry
  <2> QED
    BY <1>0, <2>2
<1> QED
  BY <1>1, <1>2, <1>3, <1>4 DEF Becomes

LEMMA NextDated == DInv /\ IInv' /\ [Next]_vars => DInv'
<1> SUFFICES ASSUME DInv, IInv', [Next]_vars PROVE Dated'
  BY DEF DInv
<1>0. IInv /\ RecordStep /\ SourceOnly
  BY NextStep, SourceStep, Parts DEF DInv
<1>1. /\ source \in [Item -> Sample] /\ last \in [Item -> Sample] /\ clock \in Nat
      /\ source' \in [Item -> Sample] /\ last' \in [Item -> Sample]
  BY <1>0 DEF IInv, TypeOK
<1>2. ASSUME NEW i \in Item PROVE source'[i].at \in 1..clock'
  <2>1. source[i].at \in 1..clock /\ clock' \in Nat
    BY <1>0, <1>1 DEF DInv, Dated, SourceOnly
  <2> QED
    BY <1>0, <1>1, <2>1 DEF SourceOnly
<1>3. ASSUME NEW i \in Item PROVE FromSource(i, last[i])'
  <2>0. NoSample.at = 0
    BY DEF NoSample
  <2>1. CASE last'[i] = NoSample
    BY <1>2, <2>0, <2>1 DEF FromSource
  <2>2. PICK s : s = last'[i]
    OBVIOUS
  <2>3. ASSUME FromSource(i, s) PROVE FromSource(i, s)'
    BY <1>0, <1>1, <2>2, <2>3, FromSourceStays
  <2>4. CASE last'[i] = last[i]
    BY <2>2, <2>3, <2>4 DEF DInv, Dated, FromSource
  <2>5. ASSUME NEW n, last'[i] = Flagged(n, i, source[i], QueueSize) PROVE FromSource(i, s)
    <3>1. source[i] \in Sample /\ FromSource(i, source[i])
      BY <1>1 DEF FromSource, Sample
    <3> QED
      BY <2>2, <2>5, <3>1, FlaggedFromSource
  <2> QED
    BY <1>0, <2>1, <2>2, <2>3, <2>4, <2>5 DEF SourceOnly, FromSource
<1>4. ASSUME NEW m, m \in Notif, NEW e \in m.items, FromSource(e.item, e.smp)
      PROVE  FromSource(e.item, e.smp)'
  <2>1. e.item \in Item /\ e.smp \in Sample
    BY <1>4, NotifParts DEF Entry
  <2> QED
    BY <1>0, <1>4, <2>1, FromSourceStays
<1>5. ASSUME NEW e \in pass'.fresh.items PROVE FromSource(e.item, e.smp)'
  <2>1. pass.fresh \in Notif /\ EmptyNotification.items = {} /\ pass'.fresh \in Notif
    BY <1>0, Parts DEF PassType, EmptyNotification, IInv, TypeOK
  <2>2. CASE pass'.fresh = pass.fresh
    BY <1>4, <1>5, <2>1, <2>2 DEF DInv, Dated
  <2>3. CASE Queues(pass.fresh, pass'.fresh)
    BY <1>4, <2>1, <2>3, QueuesFromSource DEF DInv, Dated
  <2> QED
    BY <1>0, <1>5, <2>1, <2>2, <2>3 DEF RecordStep
<1>6. ASSUME NEW k \in DOMAIN avail', NEW e \in avail'[k].items PROVE FromSource(e.item, e.smp)'
  <2>1. avail'[k] \in Notif /\ pass.fresh \in Notif
    BY <1>0, Parts DEF IInv, TypeOK, PassType
  <2>2. CASE k \notin DOMAIN avail
    <3>1. avail'[k] = pass.fresh
      BY <1>0, <2>2 DEF RecordStep
    <3> QED
      BY <1>4, <2>1, <3>1 DEF DInv, Dated
  <2>3. CASE k \in DOMAIN avail
    <3>1. Becomes(k, avail'[k])
      BY <1>0, <2>3 DEF RecordStep
    <3>2. FromSource(e.item, e.smp)
      BY <2>3, <3>1, BecomesFromSource
    <3> QED
      BY <1>4, <2>1, <3>2
  <2> QED
    BY <2>2, <2>3
<1> QED
  BY <1>2, <1>3, <1>5, <1>6 DEF Dated

LEMMA InitDated == Init => DInv
<1> SUFFICES ASSUME Init PROVE DInv
  OBVIOUS
<1>1. IInv
  BY InitEstablishes
<1>2. \A i \in Item : source[i].at = 1 /\ last[i].at = 0 /\ clock = 1
  <2>1. PICK v \in Value : source = [i \in Item |-> [val |-> v, at |-> 1, ovf |-> FALSE]]
    BY DEF Init
  <2>2. clock = 1 /\ last = [i \in Item |-> NoSample] /\ NoSample.at = 0
    BY DEF Init, NoSample
  <2> QED
    BY <2>1, <2>2
<1>3. DOMAIN avail = {} /\ pass.fresh.items = {}
  BY DEF Init, NoPass, EmptyNotification
<1>4. Dated
  BY <1>2, <1>3 DEF Dated, FromSource
<1> QED
  BY <1>1, <1>4 DEF DInv

(* What is queued of an item, and what the pass last found of it, is from  *)
(* its node: not newer than its value, and of its time only if equal to it.*)
THEOREM TimesOfValues == Spec => []Dated
<1>1. Init => DInv
  BY InitDated
<1>2. DInv /\ IInv' /\ [Next]_vars => DInv'
  BY NextDated
<1>3. Spec => []IInv
  BY Invariance
<1>4. DInv => Dated
  BY DEF DInv
<1> QED
  BY <1>1, <1>2, <1>3, <1>4, PTL DEF Spec

-----------------------------------------------------------------------------
(* What pushes a value out of a queue is a later value of the item.        *)

(* A value of the node that is not queued yet is later than what is.       *)
LEMMA NotQueuedIsLater ==
    ASSUME NEW n \in Notif, ~n.acked, \A e \in n.items : FromSource(e.item, e.smp),
           NEW i \in Item, source[i] \in Sample, ~IsAlreadyInTheTransmissionList(n, i, source[i]),
           NEW e \in Of(n, i)
    PROVE  e.smp.at < source[i].at
<1>1. e \in Entry(Sample) /\ e.item = i /\ FromSource(i, e.smp)
  BY NotifParts DEF Of
<1>2. e.smp.at \in Nat /\ source[i].at \in Nat
  BY <1>1 DEF Entry, Sample
<1>3. ~SameReport(e.smp, source[i])
  BY DEF IsAlreadyInTheTransmissionList
<1>4. e.smp.at # source[i].at
  BY <1>1, <1>3 DEF SameReport, FromSource
<1> QED
  BY <1>1, <1>2, <1>4 DEF FromSource

(* What queueing makes of a record, when z is what is queued of the        *)
(* sample; only a full queue makes room.                                   *)
NotQueued(n, i, s) == ~IsAlreadyInTheTransmissionList(n, i, s)
Pushes(n, m, i, z, S) == /\ m.items = S \cup {NewEntry(n, i, z)}
                         /\ m.next = n.next + 1
Overwrites(n, m, i, z) == /\ m.items = OverwriteNewest(n, i, z)
                          /\ m.next = n.next

LEMMA AddFields ==
    ASSUME NEW n \in Notif, NEW i \in Item, NEW s, NEW qs \in Nat, NEW d \in BOOLEAN,
           NEW m, m = AddMonitoredItemNotification(n, i, s, qs, d),
           NEW z, z = Flagged(n, i, s, qs)
    PROVE  \/ m = n
           \/ /\ NotQueued(n, i, s) /\ ~Full(n, i, qs)
              /\ Pushes(n, m, i, z, n.items) /\ m.count = [n.count EXCEPT ![i] = @ + 1]
           \/ /\ NotQueued(n, i, s) /\ Full(n, i, qs)
              /\ Pushes(n, m, i, z, DropOldest(n, i)) /\ m.count = n.count
           \/ /\ NotQueued(n, i, s) /\ Full(n, i, qs)
              /\ Overwrites(n, m, i, z) /\ m.count = n.count
BY AddOutcomes DEF NotQueued, Pushes, Overwrites, Made

(* The same, of the entries only.                                          *)
Makes(n, i, s, qs) == NotQueued(n, i, s) /\ Full(n, i, qs)

LEMMA AddItems ==
    ASSUME NEW n \in Notif, NEW i \in Item, NEW s, NEW qs \in Nat, NEW d \in BOOLEAN,
           NEW m, m = AddMonitoredItemNotification(n, i, s, qs, d),
           NEW z, z = Flagged(n, i, s, qs)
    PROVE  \/ m = n
           \/ NotQueued(n, i, s) /\ Pushes(n, m, i, z, n.items)
           \/ Makes(n, i, s, qs) /\ Pushes(n, m, i, z, DropOldest(n, i))
           \/ Makes(n, i, s, qs) /\ Overwrites(n, m, i, z)
BY AddFields DEF Makes

LEMMA AddKeepsOrReplaces ==
    ASSUME NEW n \in Notif, IsSomethingToNotify(n), \A f \in n.items : FromSource(f.item, f.smp),
           NEW i \in Item, NEW s \in Sample, NEW qs \in Nat, NEW d \in BOOLEAN,
           s = source[i] \/ qs = 0,
           NEW m, m = AddMonitoredItemNotification(n, i, s, qs, d), NEW e \in n.items
    PROVE  e \in m.items \/ \E f \in Of(m, e.item) : f.smp.at > e.smp.at
<1>0. e \in Entry(Sample)
  BY NotifParts
<1>1. PICK z : z = Flagged(n, i, s, qs)
  OBVIOUS
<1> DEFINE e0 == NewEntry(n, i, z)
<1>2. z \in Sample /\ z.at = s.at /\ s.at \in Nat /\ e.smp.at \in Nat
  <2>1. [s EXCEPT !.ovf = ~@].at = s.at
    BY DEF Sample
  <2> QED
    BY <1>0, <1>1, <2>1, FlaggedIsSample DEF Flagged, Entry, Sample
<1>3. \/ m = n
      \/ m.items = n.items \cup {e0}
      \/ Makes(n, i, s, qs) /\ m.items = DropOldest(n, i) \cup {e0}
      \/ Makes(n, i, s, qs) /\ m.items = OverwriteNewest(n, i, z)
  BY <1>1, AddItems DEF Pushes, Overwrites
<1>4. ASSUME Makes(n, i, s, qs), e.item = i
      PROVE  z.at > e.smp.at
  <2>1. s = source[i]
    BY <1>4 DEF Full, Makes
  <2>2. e.smp.at < source[i].at
    BY <1>0, <1>4, <2>1, NotQueuedIsLater DEF Of, IsSomethingToNotify, NotQueued, Makes
  <2> QED
    BY <1>2, <2>1, <2>2
<1>5. e0.item = i /\ e0.smp = z
  BY DEF NewEntry
<1> HIDE DEF e0
<1>6. CASE Makes(n, i, s, qs) /\ m.items = DropOldest(n, i) \cup {e0}
  <2>1. CASE e.item = i
    BY <1>4, <1>5, <1>6, <2>1 DEF Of
  <2>2. CASE e.item # i
    BY <1>6, <2>2 DEF DropOldest, IsOldest, Of
  <2> QED
    BY <2>1, <2>2
<1>7. CASE Makes(n, i, s, qs) /\ m.items = OverwriteNewest(n, i, z)
  <2>1. Overwritten(n, i, z, e) \in m.items
    BY <1>7 DEF OverwriteNewest
  <2>2. CASE IsNewest(e, Of(n, i))
    <3>1. e.item = i /\ Overwritten(n, i, z, e) = [e EXCEPT !.smp = z, !.sent = FALSE]
      BY <2>2 DEF IsNewest, Of, Overwritten
    <3>2. Overwritten(n, i, z, e).item = i /\ Overwritten(n, i, z, e).smp = z
      BY <1>0, <3>1 DEF Entry
    <3> QED
      BY <1>4, <1>7, <2>1, <3>1, <3>2 DEF Of
  <2>3. CASE ~IsNewest(e, Of(n, i))
    BY <2>1, <2>3 DEF Overwritten
  <2> QED
    BY <2>2, <2>3
<1> QED
  BY <1>3, <1>6, <1>7

LEMMA QueuesKeepsOrReplaces ==
    ASSUME DInv, NEW n \in Notif, IsSomethingToNotify(n), \A f \in n.items : FromSource(f.item, f.smp),
           NEW m, Queues(n, m), NEW e \in n.items
    PROVE  e \in m.items \/ \E f \in Of(m, e.item) : f.smp.at > e.smp.at
<1>1. /\ source \in [Item -> Sample] /\ last \in [Item -> Sample]
      /\ pass.todo \subseteq Item /\ QueueSize \in Nat /\ DiscardOldest \in BOOLEAN
  BY ConstantsAssumption, Parts DEF DInv, TypeOK, PassType
<1>2. PICK i \in Item, s \in Sample, qs \in Nat, d \in BOOLEAN :
          /\ m = AddMonitoredItemNotification(n, i, s, qs, d)
          /\ s = source[i] \/ qs = 0
  BY <1>1 DEF Queues
<1> QED
  BY <1>2, AddKeepsOrReplaces

(* UnsentLeavesOnlyByOverflow, step by step.                               *)
LEMMA UnsentLeavesStep ==
    ASSUME DInv, [Next]_vars, NEW k \in DOMAIN avail, NEW e \in Unsent(avail[k])
    PROVE  /\ k \in DOMAIN avail'
           /\ \/ e \in avail'[k].items
              \/ [e EXCEPT !.sent = TRUE] \in avail'[k].items /\ <<k, e>> \in resp'.data
              \/ LaterOf(k, e)
<1>0. /\ IInv /\ RecordStep /\ avail[k] \in Notif /\ e \in avail[k].items /\ ~e.sent
      /\ \A f \in avail[k].items : FromSource(f.item, f.smp)
  BY NextStep, Parts DEF DInv, Dated, Unsent
<1>1. k \in DOMAIN avail' /\ Becomes(k, avail'[k])
  BY <1>0 DEF RecordStep
<1>2. CASE IsSomethingToNotify(avail[k]) /\ Queues(avail[k], avail'[k])
  <2>1. e \in avail'[k].items \/ \E f \in Of(avail'[k], e.item) : f.smp.at > e.smp.at
    BY <1>0, <1>2, QueuesKeepsOrReplaces
  <2> QED
    BY <1>1, <2>1 DEF LaterOf
<1>3. CASE avail'[k] = Acknowledge(avail[k])
  BY <1>0, <1>1, <1>3, AcknowledgeEntries
<1>4. CASE avail'[k] = MarkSent(avail[k], Taken(k)) /\ resp'.data = Batch
  <2>1. (IF e \in Taken(k) THEN [e EXCEPT !.sent = TRUE] ELSE e) \in avail'[k].items
    BY <1>0, <1>4, MarkSentOrigin
  <2> QED
    BY <1>1, <1>4, <2>1 DEF Taken
<1> QED
  BY <1>0, <1>1, <1>2, <1>3, <1>4 DEF Becomes

(* A queued value that was not sent leaves its queue only by being put in  *)
(* a message or pushed out by a later value of its item, in every mode and *)
(* whether reports carry their times or not: a value of the time of one    *)
(* that is queued is that value, and AddMonitoredItemNotification finds it.*)
THEOREM UnsentLeavesQueue == Spec => UnsentLeavesOnlyByOverflow
<1>1. ASSUME DInv, [Next]_vars
      PROVE  [\A k \in DOMAIN avail : \A e \in Unsent(avail[k]) :
                 /\ k \in DOMAIN avail'
                 /\ \/ e \in avail'[k].items
                    \/ [e EXCEPT !.sent = TRUE] \in avail'[k].items /\ <<k, e>> \in resp'.data
                    \/ LaterOf(k, e)]_vars
  BY <1>1, UnsentLeavesStep
<1>2. Init => DInv
  BY InitDated
<1>3. DInv /\ IInv' /\ [Next]_vars => DInv'
  BY NextDated
<1>4. Spec => []IInv
  BY Invariance
<1> QED
  BY <1>1, <1>2, <1>3, <1>4, PTL DEF Spec, UnsentLeavesOnlyByOverflow

=============================================================================
