------------------------ MODULE VPISchedulerProofs ------------------------
(***************************************************************************)
(* Proofs about VPIScheduler: no write of a client is lost, repeated or    *)
(* overtaken on its way to the device.                                     *)
(*                                                                         *)
(* What the VPI took, followed by what is queued, is what clients wrote.   *)
(* Only AddWriteObject and WriteTaken touch the three; the second removes  *)
(* as many values as were counted before the mutex of the queue was taken, *)
(* which the queue still has then (CountIsQueued).                         *)
(***************************************************************************)
EXTENDS VPIScheduler, SequenceTheorems, TLAPS

-----------------------------------------------------------------------------
(* Sequences: the queue and its first n values.                            *)

(* The first values of a sequence and the rest make up the sequence.       *)
LEMMA CutInTwo ==
    ASSUME NEW S, NEW q \in Seq(S), NEW n \in 1..Len(q)
    PROVE  /\ SubSeq(q, 1, n) \in Seq(S)
           /\ RemoveWritten(q, n) \in Seq(S)
           /\ SubSeq(q, 1, n) \o RemoveWritten(q, n) = q
<1>1. Len(q) \in Nat
    BY LenProperties
<1>2. \A i \in 1..Len(q) : q[i] \in S
    BY ElementOfSeq
<1>3. SubSeq(q, 1, n) \in Seq(S)
    <2>1. \A i \in 1..n : q[i] \in S
        BY <1>1, <1>2
    <2> QED BY <1>1, <2>1, SubSeqProperties
<1>4. SubSeq(q, n + 1, Len(q)) \in Seq(S)
    <2>1. \A i \in (n + 1)..Len(q) : q[i] \in S
        BY <1>1, <1>2
    <2>2. n + 1 \in Int /\ Len(q) \in Int
        BY <1>1
    <2> QED BY <2>1, <2>2, SubSeqProperties
<1>5. SubSeq(q, 1, n) \o SubSeq(q, n + 1, Len(q)) = SubSeq(q, 1, Len(q))
    <2>1. 1 \in 1..Len(q) + 1 /\ n \in 1 - 1..Len(q) /\ Len(q) \in n..Len(q)
        BY <1>1
    <2> QED BY <2>1, ConcatAdjacentSubSeq
<1> QED BY <1>3, <1>4, <1>5, SubSeqFull DEF RemoveWritten

(* Taking the first values of the queue over to a history keeps the whole. *)
LEMMA TakeOver ==
    ASSUME NEW S, NEW h \in Seq(S), NEW q \in Seq(S), NEW n \in 1..Len(q)
    PROVE  (h \o SubSeq(q, 1, n)) \o RemoveWritten(q, n) = h \o q
<1>1. ASSUME NEW first \in Seq(S), NEW rest \in Seq(S), first \o rest = q
      PROVE  (h \o first) \o rest = h \o q
    <2>1. (h \o first) \o rest = h \o (first \o rest)
        BY ConcatAssociative
    <2> QED BY <1>1, <2>1
<1> HIDE DEF RemoveWritten
<1> QED BY <1>1, CutInTwo

(* Queueing a value appends it to the whole.                               *)
LEMMA QueueOne ==
    ASSUME NEW S, NEW h \in Seq(S), NEW q \in Seq(S), NEW v \in S
    PROVE  /\ Append(q, v) \in Seq(S)
           /\ Len(Append(q, v)) = Len(q) + 1
           /\ Append(h \o q, v) = h \o Append(q, v)
<1>1. <<v>> \in Seq(S)
    OBVIOUS
<1>2. Append(q, v) = q \o <<v>> /\ h \o q \in Seq(S)
    BY AppendIsConcat, ConcatProperties
<1>3. Append(h \o q, v) = (h \o q) \o <<v>>
    BY <1>2, AppendIsConcat
<1>4. (h \o q) \o <<v>> = h \o (q \o <<v>>)
    BY <1>1, ConcatAssociative
<1> QED BY <1>2, <1>3, <1>4, AppendProperties

-----------------------------------------------------------------------------
(* The invariant, one lemma per action or group of actions.                *)

LEMMA InitInvariant == Init => IInv
<1> SUFFICES ASSUME Init PROVE IInv
    OBVIOUS
<1>1. TypeOK
    BY EmptySeq DEF Init, TypeOK, Quality, Status, Answer
<1>2. TakenOnceInOrder
    BY ConcatEmptySeq, EmptySeq DEF Init, TakenOnceInOrder
<1> QED BY <1>1, <1>2 DEF Init, IInv, CountIsQueued

(* A queued value goes to the end, and the queue only gets longer.         *)
LEMMA AddWriteObjectStep ==
    ASSUME IInv, NEW v \in Value, AddWriteObject(v)
    PROVE  IInv'
<1> USE DEF IInv, AddWriteObject, threadVars, startVars, history
<1>1. Append(queue, v) \in Seq(Value) /\ Len(Append(queue, v)) = Len(queue) + 1
    BY QueueOne DEF TypeOK
<1>2. TypeOK'
    <2>1. sent' \in Seq(Value) /\ service' \in {<<w>> : w \in Value}
        BY AppendProperties DEF TypeOK
    <2> QED BY <1>1, <2>1 DEF TypeOK
<1>3. TakenOnceInOrder'
    <2>1. taken \in Seq(Value) /\ queue \in Seq(Value) /\ sent = taken \o queue
        BY DEF TypeOK, TakenOnceInOrder
    <2>2. Append(taken \o queue, v) = taken \o Append(queue, v)
        BY <2>1, QueueOne
    <2> QED BY <2>1, <2>2 DEF TakenOnceInOrder
<1>4. CountIsQueued'
    <2>1. Len(queue) \in Nat
        BY LenProperties DEF TypeOK
    <2> QED BY <1>1, <2>1 DEF CountIsQueued
<1> QED BY <1>2, <1>3, <1>4

(* What was taken is removed, and nothing else.                            *)
LEMMA WriteTakenStep ==
    ASSUME IInv, WriteTaken
    PROVE  IInv'
<1> USE DEF IInv, WriteTaken, WriteDone, threadVars, startVars, history
<1>1. queue \in Seq(Value) /\ taken \in Seq(Value) /\ writer.n \in 1..Len(queue)
    BY DEF TypeOK, CountIsQueued
<1>2. /\ SubSeq(queue, 1, writer.n) \in Seq(Value)
      /\ RemoveWritten(queue, writer.n) \in Seq(Value)
    BY <1>1, CutInTwo
<1>3. queue[writer.n] \in Value
    BY <1>1, ElementOfSeq
<1>4. TypeOK'
    <2>1. taken' \in Seq(Value) /\ queue' \in Seq(Value) /\ device' \in Value
        BY <1>1, <1>2, <1>3, ConcatProperties
    <2>2. cache' \in [val : Value, quality : Quality]
        BY DEF TypeOK, Quality
    <2>3. writer' \in [at : {"idle", "counted", "calling"}, n : Nat]
        OBVIOUS
    <2> QED BY <2>1, <2>2, <2>3 DEF TypeOK
<1>5. TakenOnceInOrder'
    BY <1>1, TakeOver DEF TakenOnceInOrder
<1>6. CountIsQueued'
    BY DEF CountIsQueued
<1> QED BY <1>4, <1>5, <1>6

(* What was not taken stays.                                               *)
LEMMA WriteKeptStep ==
    ASSUME IInv, WriteRefused \/ WriteNeedsWarmStart
    PROVE  IInv'
<1> USE DEF IInv, WriteDone, threadVars, startVars, history
<1>1. /\ WriteDone(queue)
      /\ Fails
      /\ device' \in Reached
      /\ UNCHANGED taken
      /\ cache' \in {cache, [cache EXCEPT !.quality = "Bad"]}
    BY DEF WriteRefused, WriteNeedsWarmStart
<1>2. device' \in Value
    <2>1. \A i \in 1..writer.n : queue[i] \in Value
        BY <1>1, ElementOfSeq, LenProperties DEF TypeOK, CountIsQueued
    <2> QED BY <1>1, <2>1 DEF Reached, TypeOK
<1>3. TypeOK'
    <2>1. cache' \in [val : Value, quality : Quality] /\ failures' \in Nat
        BY <1>1 DEF TypeOK, Quality, Fails
    <2>2. writer' \in [at : {"idle", "counted", "calling"}, n : Nat]
        BY <1>1
    <2> QED BY <1>1, <1>2, <2>1, <2>2 DEF TypeOK
<1>4. TakenOnceInOrder' /\ CountIsQueued'
    BY <1>1 DEF TakenOnceInOrder, CountIsQueued
<1> QED BY <1>3, <1>4

(* The count is taken of a queue that is not empty.                        *)
LEMMA CountStep ==
    ASSUME IInv, CountWrites \/ LockWrites
    PROVE  IInv'
<1> USE DEF IInv, threadVars, startVars, history
<1>1. CASE CountWrites
    <2>1. Len(queue) \in Nat /\ Len(queue) \in 1..Len(queue)
        BY <1>1, EmptySeq DEF CountWrites, TypeOK
    <2>2. TypeOK'
        BY <1>1, <2>1 DEF CountWrites, TypeOK
    <2> QED BY <1>1, <2>1, <2>2 DEF CountWrites, TakenOnceInOrder, CountIsQueued
<1>2. CASE LockWrites
    <2>1. TypeOK'
        BY <1>2 DEF LockWrites, TypeOK
    <2> QED BY <1>2, <2>1 DEF LockWrites, TakenOnceInOrder, CountIsQueued, TypeOK
<1> QED BY <1>1, <1>2

(* All other steps leave the queue, the count and the histories alone.     *)
LEMMA OtherStep ==
    ASSUME IInv, UNCHANGED <<queue, writer, history>>, TypeOK'
    PROVE  IInv'
BY DEF IInv, TakenOnceInOrder, CountIsQueued, history

LEMMA ReaderStep ==
    ASSUME IInv, VpiReaderThread
    PROVE  IInv'
<1> USE DEF IInv, Reader, Fails, startVars, history
<1> DEFINE readers == [at : {"idle", "ColdStart", "WarmStart", "reading", "read"},
                       val : Value, answer : Answer]
<1>1. CASE BeginRound
    <2>1. reader' \in readers
        BY <1>1 DEF BeginRound, TypeOK, Start, AfterStart
    <2> QED BY <1>1, <2>1, OtherStep DEF BeginRound, TypeOK
<1>2. ASSUME NEW answer \in Answer, Started(answer) PROVE IInv'
    <2>1. reader' \in readers
        <3>1. reader' = [reader EXCEPT !.at = AfterStart]
            BY <1>2 DEF Started
        <3> QED BY <3>1 DEF TypeOK, AfterStart
    <2>2. failures' \in Nat
        BY <1>2 DEF Started, TypeOK
    <2>3. coldStarted' \in BOOLEAN
        BY <1>2 DEF Started, TypeOK
    <2>4. status' \in Status
        BY <1>2 DEF Started, Status, Answer
    <2> QED BY <1>2, <2>1, <2>2, <2>3, <2>4, OtherStep DEF Started, TypeOK
<1>3. ASSUME NEW answer \in Answer, ReadValue(answer) PROVE IInv'
    <2>1. reader' \in readers /\ failures' \in Nat
        BY <1>3 DEF ReadValue, TypeOK
    <2> QED BY <1>3, <2>1, OtherStep DEF ReadValue, TypeOK
<1>4. CASE TransferRead
    <2>1. reader' \in readers
        BY <1>4 DEF TransferRead, TypeOK
    <2>2. reader.answer \in Answer /\ reader.val \in Value
        BY DEF TypeOK
    <2>3. cache' \in [val : Value, quality : Quality] /\ status' \in Status
        <3>1. CASE reader.answer = "Good"
            BY <1>4, <2>2, <3>1 DEF TransferRead, CacheRead, TypeOK, Quality, Status
        <3>2. CASE reader.answer = "WarmStartNeed"
            BY <1>4, <2>2, <3>2 DEF TransferRead, TypeOK, Quality, Status
        <3>3. CASE reader.answer = "Bad"
            BY <1>4, <2>2, <3>3 DEF TransferRead, TypeOK, Quality, Status
        <3> QED BY <2>2, <3>1, <3>2, <3>3 DEF Answer
    <2> QED BY <1>4, <2>1, <2>3, OtherStep DEF TransferRead, TypeOK
<1> QED BY <1>1, <1>2, <1>3, <1>4 DEF VpiReaderThread

(* The service thread, the callback and the device.                        *)
LEMMA OutsideStep ==
    ASSUME IInv,
           Write \/ VpiNotifyCallback \/ RequestWarmStart \/ \E v \in Value : DeviceChanges(v)
    PROVE  IInv'
<1> USE DEF IInv, threadVars, startVars, history
<1>1. CASE Write
    <2>1. Head(service) \in Value
        BY <1>1 DEF Write, TypeOK
    <2>2. cache' \in [val : Value, quality : Quality]
        BY <1>1, <2>1 DEF Write, TypeOK, Quality
    <2> QED BY <1>1, <2>2, OtherStep DEF Write, TypeOK
<1>2. CASE VpiNotifyCallback
    BY <1>2, OtherStep DEF VpiNotifyCallback, TypeOK, Quality
<1>3. CASE RequestWarmStart
    BY <1>3, OtherStep DEF RequestWarmStart, Fails, TypeOK, Quality, Status
<1>4. ASSUME NEW v \in Value, DeviceChanges(v) PROVE IInv'
    BY <1>4, OtherStep DEF DeviceChanges, TypeOK
<1> QED BY <1>1, <1>2, <1>3, <1>4

LEMMA NextInvariant == IInv /\ [Next]_vars => IInv'
<1> SUFFICES ASSUME IInv, [Next]_vars PROVE IInv'
    OBVIOUS
<1>1. CASE \E v \in Value : AddWriteObject(v)
    BY <1>1, AddWriteObjectStep
<1>2. CASE VpiWriterThread
    BY <1>2, CountStep, WriteTakenStep, WriteKeptStep DEF VpiWriterThread
<1>3. CASE VpiReaderThread
    BY <1>3, ReaderStep
<1>4. CASE Write \/ VpiNotifyCallback \/ RequestWarmStart \/ \E v \in Value : DeviceChanges(v)
    BY <1>4, OutsideStep
<1>5. CASE UNCHANGED vars
    BY <1>5 DEF vars, threadVars, startVars, history, IInv, TypeOK, TakenOnceInOrder, CountIsQueued
<1> QED BY <1>1, <1>2, <1>3, <1>4, <1>5 DEF Next

-----------------------------------------------------------------------------
(* The theorems.                                                           *)

(* The inductive invariant of the queue of writes holds in every state.    *)
THEOREM Invariance == Spec => []IInv
BY InitInvariant, NextInvariant, PTL DEF Spec

(* VpiWriterThread takes every write of a client to the device once and in *)
(* order, whatever is queued between its unlocked count and its call, and  *)
(* whatever calls fail.                                                    *)
THEOREM WritesAreTaken == Spec => []TakenOnceInOrder
<1>1. IInv => TakenOnceInOrder
    BY DEF IInv
<1> QED BY <1>1, Invariance, PTL
=============================================================================
