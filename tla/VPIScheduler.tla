---------------------------- MODULE VPIScheduler ----------------------------
(***************************************************************************)
(* One device behind a VPI (the library that speaks to it) with one tag,   *)
(* and the four threads that meet on it: VpiReaderThread polls the device  *)
(* into the cache and starts it, VpiWriterThread takes to the device what  *)
(* clients wrote, the service thread writes the cache and queues the same  *)
(* value for the device, and a thread of the VPI calls VpiNotifyCallback.  *)
(*                                                                         *)
(* The queue of writes has a mutex; so has the cache, but only the service *)
(* thread and the callback take it.  The calls into the VPI take time and  *)
(* are made without the mutex of the cache: the callback and the service   *)
(* may come between a call and the use of its result.                      *)
(*                                                                         *)
(* A value is one model value; of the status codes the model keeps what    *)
(* the threads decide on.  The VPI is loaded (LoadVpi) and its tag known   *)
(* to it when the model begins; stopping is left out.                      *)
(***************************************************************************)
EXTENDS Naturals, Sequences

CONSTANTS
    Value,        \* values of the variable
    Mode,         \* AccessMode of the device: POLL, SUBSCRIBE or BOTH
    MaxWrites,    \* bound: writes of clients
    MaxChanges,   \* bound: changes of the value by the device itself
    MaxFailures   \* bound: calls the VPI does not answer with Good, and its requests for a start

ASSUME ConstantsAssumption ==
    /\ Mode \in {"POLL", "SUBSCRIBE", "BOTH"}
    /\ MaxWrites \in Nat /\ MaxChanges \in Nat /\ MaxFailures \in Nat

VARIABLES
    device,       \* the value the device has
    cache,        \* CUAVariable::m_pDataValue: the value and its quality
    queue,        \* m_VpiWriteObjects
    service,      \* the value the service thread has queued and not yet cached
    writer,       \* VpiWriterThread
    reader,       \* VpiReaderThread
    coldStarted,  \* CVpiFuncCaller::m_bColdStartDone
    status,       \* CVpiDevice::m_InternalStatus
    sent,         \* the values clients wrote, in order
    taken,        \* the values the VPI took with Good, in order
    changes,      \* changes of the device so far
    failures      \* calls that failed so far

threadVars == <<service, writer, reader>>
startVars  == <<coldStarted, status>>
history    == <<sent, taken>>
vars == <<device, cache, queue, threadVars, startVars, history, changes, failures>>

Quality == {"Good", "Uncertain", "Bad"}
Status  == {"Good", "Uncertain", "Bad", "WarmStartNeed"}
Answer  == {"Good", "Bad", "WarmStartNeed"}

Fails == failures < MaxFailures /\ failures' = failures + 1

-----------------------------------------------------------------------------
(* Server_BeginWrite, under the mutex of the cache.                        *)

(* AddWriteObject: the value is queued for the device...                   *)
AddWriteObject(v) ==
    /\ service = <<>>
    /\ writer.at # "calling"
    /\ Len(sent) < MaxWrites
    /\ queue' = Append(queue, v)
    /\ sent' = Append(sent, v)
    /\ service' = <<v>>
    /\ UNCHANGED <<device, cache, writer, reader, startVars, taken, changes, failures>>

(* ...and written to the cache after that, unless CUAVariable::Write       *)
(* refuses it: the access level or the type does not fit.                  *)
Write ==
    /\ service # <<>>
    /\ cache' \in {cache, [val |-> Head(service), quality |-> "Good"]}
    /\ service' = <<>>
    /\ UNCHANGED <<device, queue, writer, reader, startVars, history, changes, failures>>

-----------------------------------------------------------------------------
(* VpiWriterThread.                                                        *)

(* The size of the queue is read before its mutex is taken.                *)
CountWrites ==
    /\ writer.at = "idle"
    /\ queue # <<>>
    /\ writer' = [at |-> "counted", n |-> Len(queue)]
    /\ UNCHANGED <<device, cache, queue, service, reader, startVars, history, changes, failures>>

LockWrites ==
    /\ writer.at = "counted"
    /\ writer' = [writer EXCEPT !.at = "calling"]
    /\ UNCHANGED <<device, cache, queue, service, reader, startVars, history, changes, failures>>

(* Variant: the queue is cleared after a call that succeeded. *)
ClearWrites(q, n) == <<>>

(* Variant: one value is deleted for each call. *)
RemoveFirst(q, n) == Tail(q)

(* What the call wrote is marked and deleted; what was queued after the    *)
(* count stays.                                                            *)
RemoveWritten(q, n) == SubSeq(q, n + 1, Len(q))

(* A call may have reached the device, in part or whole, and fail.         *)
Reached == {device} \cup {queue[i] : i \in 1..writer.n}

WriteDone(q) ==
    /\ writer.at = "calling"
    /\ queue' = q
    /\ writer' = [at |-> "idle", n |-> 0]
    /\ UNCHANGED <<service, reader, startVars, sent, changes>>

(* WriteValue answers Good.  The status code the cache gets is the one the *)
(* value was made with, UncertainInitialValue.                             *)
WriteTaken ==
    /\ WriteDone(RemoveWritten(queue, writer.n))
    /\ device' = queue[writer.n]
    /\ taken' = taken \o SubSeq(queue, 1, writer.n)
    /\ cache' = [cache EXCEPT !.quality = "Uncertain"]
    /\ UNCHANGED failures

(* WriteValue answers an error: all that is queued stays.                  *)
WriteRefused ==
    /\ WriteDone(queue)
    /\ Fails
    /\ device' \in Reached
    /\ cache' = [cache EXCEPT !.quality = "Bad"]
    /\ UNCHANGED taken

(* WriteValue answers WarmStartNeed: the thread calls WarmStart itself.    *)
WriteNeedsWarmStart ==
    /\ WriteDone(queue)
    /\ Fails
    /\ device' \in Reached
    /\ UNCHANGED <<cache, taken>>

-----------------------------------------------------------------------------
(* VpiReaderThread.                                                        *)

(* What the thread does next in a round: it starts the device first, and   *)
(* reads it in any case, unless the device is in subscription mode.        *)
Start ==
    IF ~coldStarted THEN "ColdStart"
    ELSE IF status = "WarmStartNeed" THEN "WarmStart"
    ELSE "none"

AfterStart == IF Mode = "SUBSCRIBE" THEN "idle" ELSE "reading"

Reader(at) == reader' = [reader EXCEPT !.at = at]

BeginRound ==
    /\ reader.at = "idle"
    /\ Reader(IF Start = "none" THEN AfterStart ELSE Start)
    /\ UNCHANGED <<device, cache, queue, service, writer, startVars, history, changes, failures>>

(* ColdStart and WarmStart return, and their result becomes the status of  *)
(* the device: WarmStartNeed asks for a warm start in the next round, but  *)
(* the device that is not cold started yet is cold started again.          *)
Started(answer) ==
    /\ reader.at \in {"ColdStart", "WarmStart"}
    /\ IF answer = "Good" THEN UNCHANGED failures ELSE Fails
    /\ coldStarted' = (coldStarted \/ (reader.at = "ColdStart" /\ answer = "Good"))
    /\ status' = answer
    /\ Reader(AfterStart)
    /\ UNCHANGED <<device, cache, queue, service, writer, history, changes>>

(* ReadValue returns, with the value the device had during the call.       *)
ReadValue(answer) ==
    /\ reader.at = "reading"
    /\ IF answer = "Good" THEN UNCHANGED failures ELSE Fails
    /\ reader' = [at |-> "read", val |-> device, answer |-> answer]
    /\ UNCHANGED <<device, cache, queue, service, writer, startVars, history, changes>>

(* Variant: a read leaves the quality as it is. *)
CacheReadValue == [cache EXCEPT !.val = reader.val]

CacheRead == [val |-> reader.val, quality |-> "Good"]

(* The result is transferred to the cache, or an error to the quality of   *)
(* the value.  The code sets the value before its quality, one after the   *)
(* other and without the mutex of the cache; here they change in one step. *)
TransferRead ==
    /\ reader.at = "read"
    /\ CASE reader.answer = "Good" -> cache' = CacheRead /\ status' = "Good"
         [] reader.answer = "WarmStartNeed" -> status' = "WarmStartNeed" /\ UNCHANGED cache
         [] reader.answer = "Bad" -> cache' = [cache EXCEPT !.quality = "Bad"] /\ UNCHANGED status
    /\ Reader("idle")
    /\ UNCHANGED <<device, queue, service, writer, coldStarted, history, changes, failures>>

-----------------------------------------------------------------------------
(* VpiNotifyCallback, and the device.                                      *)

VpiNotifyCallback ==
    /\ service = <<>>
    /\ Mode # "POLL"
    /\ cache' = [val |-> device, quality |-> "Good"]
    /\ UNCHANGED <<device, queue, threadVars, startVars, history, changes, failures>>

(* A notification with the status WarmStartNeed, which a VPI may send in   *)
(* every mode, asks for a warm start; its value is cached with it.         *)
RequestWarmStart ==
    /\ service = <<>>
    /\ Fails
    /\ status' = "WarmStartNeed"
    /\ cache' = [val |-> device, quality |-> "Bad"]
    /\ UNCHANGED <<device, queue, threadVars, coldStarted, history, changes>>

DeviceChanges(v) ==
    /\ changes < MaxChanges
    /\ changes' = changes + 1
    /\ device' = v
    /\ UNCHANGED <<cache, queue, threadVars, startVars, history, failures>>

-----------------------------------------------------------------------------
(* The end of the configuration file has called ColdStart once already.    *)
Init ==
    /\ device \in Value
    /\ cache \in [val : Value, quality : {"Uncertain"}]
    /\ queue = <<>>
    /\ service = <<>>
    /\ writer = [at |-> "idle", n |-> 0]
    /\ reader = [at |-> "idle", val |-> device, answer |-> "Good"]
    /\ coldStarted \in BOOLEAN
    /\ status = IF coldStarted THEN "Good" ELSE "Uncertain"
    /\ sent = <<>>
    /\ taken = <<>>
    /\ changes = 0
    /\ failures = 0

VpiWriterThread == \/ CountWrites \/ LockWrites
                   \/ WriteTaken \/ WriteRefused \/ WriteNeedsWarmStart

VpiReaderThread == \/ BeginRound
                   \/ \E answer \in Answer : Started(answer) \/ ReadValue(answer)
                   \/ TransferRead

Next == \/ \E v \in Value : AddWriteObject(v) \/ DeviceChanges(v)
        \/ Write
        \/ VpiWriterThread
        \/ VpiReaderThread
        \/ VpiNotifyCallback
        \/ RequestWarmStart

Spec == Init /\ [][Next]_vars

(* Fairness.  Both threads run in loops with a timed wait, nobody keeps    *)
(* them from their next step for ever, and the call in progress of a       *)
(* service ends.  Clients and device need do nothing.                      *)
Fairness == WF_vars(VpiWriterThread) /\ WF_vars(VpiReaderThread) /\ WF_vars(Write)

FairSpec == Spec /\ Fairness

-----------------------------------------------------------------------------
(* Properties.                                                             *)

TypeOK ==
    /\ device \in Value
    /\ cache \in [val : Value, quality : Quality]
    /\ queue \in Seq(Value)
    /\ service \in {<<>>} \cup {<<v>> : v \in Value}
    /\ writer \in [at : {"idle", "counted", "calling"}, n : Nat]
    /\ reader \in [at : {"idle", "ColdStart", "WarmStart", "reading", "read"},
                   val : Value, answer : Answer]
    /\ coldStarted \in BOOLEAN
    /\ status \in Status
    /\ sent \in Seq(Value) /\ taken \in Seq(Value)
    /\ changes \in Nat /\ failures \in Nat

(* Every value a client wrote is taken by the VPI once and in order, or    *)
(* still waits, although the number to write is read before the mutex of   *)
(* the queue is taken, more may be queued in between, and a call that      *)
(* fails is repeated with all that waits by then.                          *)
TakenOnceInOrder == sent = taken \o queue

(* The inductive invariant: the queue does not shrink below the count.     *)
CountIsQueued == writer.at # "idle" => writer.n \in 1..Len(queue)

IInv == TypeOK /\ TakenOnceInOrder /\ CountIsQueued

(* Every value a client wrote is taken, if not every call fails.           *)
EventuallyTaken ==
    \A k \in 1..MaxWrites : Len(sent) >= k ~> Len(taken) >= k

(* When clients and device rest, the cache ends up with the value of the   *)
(* device, with a good quality, although a read may be transferred after a *)
(* later write or notification, and writes and failures change the quality *)
(* from another thread.                                                    *)
CacheFollowsDevice == <>[](cache = [val |-> device, quality |-> "Good"])

-----------------------------------------------------------------------------
(* What comments of the code say and the runs refute.                      *)

(* VpiFuncCaller.cpp 210: a VPI calls the callback "in case he wants to    *)
(* request a WarmStart from an asyncronous part of the Vpi".  A request    *)
(* that was made is dropped only when the device is started.               *)
RequestIsKept ==
    [][status = "WarmStartNeed" /\ status' # "WarmStartNeed"
         => reader.at \in {"ColdStart", "WarmStart"}]_vars
=============================================================================
