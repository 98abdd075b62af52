---------------------------- MODULE AsyncRequests ----------------------------
(***************************************************************************)
(* The Read, HistoryRead, Call, QueryFirst and QueryNext requests of one   *)
(* session: five vectors of CSessionServer, each with a mutex of its own,  *)
(* filled by the service thread, served by AsyncRequestThread, and deleted *)
(* with the session.                                                       *)
(*                                                                         *)
(* A round of AsyncRequestThread takes the five mutexes in turn; of the    *)
(* reads it serves all, of each other kind the first.  The destructor      *)
(* empties the vectors, stops the thread (a timed wait, made while it      *)
(* holds m_hReadMutex), and deletes the vectors and the mutexes.           *)
(*                                                                         *)
(* While the destructor runs no service is in the session: SessionTable    *)
(* has the calls that are, and what they meet.  What a request reads or    *)
(* calls, and the semaphore m_hAsyncRequest, which only shortens a sleep,  *)
(* are left out.                                                           *)
(***************************************************************************)
EXTENDS OrderedSet

CONSTANTS
    Request,       \* requests; a name is reused once no thread knows the request
    Kind,          \* the services the clients use
    None,          \* no request
    MaxFailures    \* bound: responses that cannot be built or sent

Kinds == {"Read", "HistoryRead", "Call", "QueryFirst", "QueryNext"}

ASSUME ConstantsAssumption ==
    /\ None \notin Request
    /\ Kind \subseteq Kinds
    /\ MaxFailures \in Nat

VARIABLES
    queue,       \* m_pReadMessages, m_pHistoryReadMessages, ...: one per kind
    deleted,     \* CQueueRequest::m_bDeleted
    stripped,    \* the internal request is null (EncodeableObjectDelete)
    service,     \* the service thread
    thread,      \* AsyncRequestThread
    run,         \* m_bRunAsyncRequestThread
    destructor,  \* the step ~CSessionServer is at
    lists,       \* the vectors that were not deleted
    releases,    \* calls that release the endpoint context of the request
    fate,        \* what became of the request, as its client sees it
    failures     \* responses not built or not sent so far

requestVars == <<queue, deleted, stripped>>
sessionVars == <<run, destructor, lists>>
stackVars   == <<releases, fate, failures>>
vars == <<requestVars, service, thread, sessionVars, stackVars>>

Idle == [kind |-> "none", req |-> None]

(* The mutex of a queue is held while the thread serves the queue, and     *)
(* m_hReadMutex while StopAsyncRequestThread waits for the thread.         *)
MutexFree(k) == /\ ~(thread.holds /\ thread.at = k)
                /\ ~(destructor = "join" /\ k = "Read")

-----------------------------------------------------------------------------
(* The service thread.                                                     *)

(* RemoveAll...RequestDeleted: what is marked is erased.                   *)
RemoveAllDeleted(k) == Keep(queue[k], Request \ deleted)

(* Server_BeginRead and its like, up to the sweep: the session was found,  *)
(* the requests already served are erased.                                 *)
BeginRequest(r, k) ==
    /\ service = Idle
    /\ destructor = "none"
    /\ MutexFree(k)
    /\ \A j \in Kinds : r \notin queue[j].members
    /\ queue' = [queue EXCEPT ![k] = RemoveAllDeleted(k)]
    /\ service' = [kind |-> k, req |-> r]
    /\ deleted' = deleted \ {r}
    /\ stripped' = stripped \ {r}
    /\ releases' = [releases EXCEPT ![r] = 0]
    /\ fate' = [fate EXCEPT ![r] = "open"]
    /\ UNCHANGED <<thread, sessionVars, failures>>

(* QueueReadMessage and its like: push_back under the mutex.               *)
QueueMessage ==
    /\ service # Idle
    /\ MutexFree(service.kind)
    /\ queue' = [queue EXCEPT ![service.kind] = PushBack(@, service.req)]
    /\ service' = Idle
    /\ UNCHANGED <<deleted, stripped, thread, sessionVars, stackVars>>

(* FindSession fails, for a session that ended or is of another channel:   *)
(* the callback returns an error and ends no response.                     *)
UnknownSession(r) ==
    /\ service = Idle
    /\ \A j \in Kinds : r \notin queue[j].members
    /\ releases' = [releases EXCEPT ![r] = 0]
    /\ fate' = [fate EXCEPT ![r] = "open"]
    /\ UNCHANGED <<requestVars, service, thread, sessionVars, failures>>

-----------------------------------------------------------------------------
(* AsyncRequestThread.                                                     *)

(* The round visits the queues in this order.                              *)
After == [k \in Kinds |->
            CASE k = "Read" -> "HistoryRead"
              [] k = "HistoryRead" -> "Call"
              [] k = "Call" -> "QueryFirst"
              [] k = "QueryFirst" -> "QueryNext"
              [] k = "QueryNext" -> "asleep"]

(* The test of the loop, after the sleep.                                  *)
WakeUp ==
    /\ thread.at = "asleep"
    /\ thread' = [thread EXCEPT !.at = IF run THEN "Read" ELSE "stopped"]
    /\ UNCHANGED <<requestVars, service, sessionVars, stackVars>>

(* Variant: the loop looks at the head of the queue only. *)
UnservedHead(k) == First(queue[k], Request) \ deleted

(* Variant: a round serves all the requests of any kind. *)
UnservedAll(k) == queue[k].members \ deleted

(* The requests a round serves: of the reads all, else the first.          *)
Unserved(k) ==
    IF k = "Read" THEN queue[k].members \ deleted
    ELSE First(queue[k], Request \ deleted)

LockQueue ==
    /\ thread.at \in Kinds
    /\ ~thread.holds
    /\ MutexFree(thread.at)
    /\ thread' = [thread EXCEPT !.holds = TRUE, !.todo = Unserved(thread.at)]
    /\ UNCHANGED <<requestVars, service, sessionVars, stackVars>>

(* The request whose turn it is.                                           *)
Serving(r) == /\ thread.at \in Kinds
              /\ thread.holds
              /\ r \in First(queue[thread.at], thread.todo)

Served(r) == thread' = [thread EXCEPT !.todo = @ \ {r}]

(* EncodeableObjectDelete deletes the request of a read or a history read  *)
(* in any case, the one of a call or a query never.                        *)
EncodeableObjectDelete(r) ==
    stripped' = IF thread.at \in {"Read", "HistoryRead"} THEN stripped \cup {r} ELSE stripped

(* Variant: the answered request is not marked. *)
AnswerWithoutMark(r) ==
    /\ Serving(r)
    /\ r \notin stripped
    /\ releases' = [releases EXCEPT ![r] = @ + 1]
    /\ fate' = [fate EXCEPT ![r] = "answered"]
    /\ Served(r)
    /\ UNCHANGED <<requestVars, service, sessionVars, failures>>

(* ProcessQueued...Request: the response is begun, filled and ended, the   *)
(* request marked.  One whose own message is gone cannot be served: the    *)
(* header is filled from a null pointer, and the process ends.             *)
Answer(r) ==
    /\ Serving(r)
    /\ r \notin stripped
    /\ releases' = [releases EXCEPT ![r] = @ + 1]
    /\ fate' = [fate EXCEPT ![r] = "answered"]
    /\ deleted' = deleted \cup {r}
    /\ EncodeableObjectDelete(r)
    /\ Served(r)
    /\ UNCHANGED <<queue, service, sessionVars, failures>>

(* EndSendResponse fails: the stack released the context all the same, and *)
(* the request is marked.                                                  *)
EndSendResponseFailed(r) ==
    /\ Serving(r)
    /\ r \notin stripped
    /\ failures < MaxFailures
    /\ failures' = failures + 1
    /\ releases' = [releases EXCEPT ![r] = @ + 1]
    /\ fate' = [fate EXCEPT ![r] = "undelivered"]
    /\ deleted' = deleted \cup {r}
    /\ EncodeableObjectDelete(r)
    /\ Served(r)
    /\ UNCHANGED <<queue, service, sessionVars>>

(* BeginSendResponse fails: the request stays in the queue, unmarked.      *)
BeginSendResponseFailed(r) ==
    /\ Serving(r)
    /\ failures < MaxFailures
    /\ failures' = failures + 1
    /\ EncodeableObjectDelete(r)
    /\ Served(r)
    /\ UNCHANGED <<queue, deleted, service, sessionVars, releases, fate>>

UnlockQueue ==
    /\ thread.at \in Kinds
    /\ thread.holds
    /\ thread.todo = {}
    /\ thread' = [thread EXCEPT !.at = After[@], !.holds = FALSE]
    /\ UNCHANGED <<requestVars, service, sessionVars, stackVars>>

-----------------------------------------------------------------------------
(* The destructor of the session.                                          *)

BeginDestructor ==
    /\ destructor = "none"
    /\ service = Idle
    /\ destructor' = "Read"
    /\ UNCHANGED <<requestVars, service, thread, run, lists, stackVars>>

(* Variant: the vector is emptied without its mutex. *)
RemoveAllUnlocked ==
    /\ destructor \in Kinds
    /\ queue' = [queue EXCEPT ![destructor] = Empty]
    /\ destructor' = IF destructor = "QueryNext" THEN "stop" ELSE After[destructor]
    /\ UNCHANGED <<deleted, stripped, service, thread, run, lists, stackVars>>

(* RemoveAllReadRequest and its like: every request is deleted, served or  *)
(* not, and its context in the stack stays.                                *)
RemoveAllRequest ==
    /\ destructor \in Kinds
    /\ MutexFree(destructor)
    /\ queue' = [queue EXCEPT ![destructor] = Empty]
    /\ destructor' = IF destructor = "QueryNext" THEN "stop" ELSE After[destructor]
    /\ UNCHANGED <<deleted, stripped, service, thread, run, lists, stackVars>>

(* StopAsyncRequestThread: the flag first, then the mutex.                 *)
StopAsyncRequestThread ==
    /\ destructor = "stop"
    /\ run' = FALSE
    /\ destructor' = "lock"
    /\ UNCHANGED <<requestVars, service, thread, lists, stackVars>>

LockReadMutex ==
    /\ destructor = "lock"
    /\ MutexFree("Read")
    /\ destructor' = "join"
    /\ UNCHANGED <<requestVars, service, thread, run, lists, stackVars>>

(* The thread stopped, or the wait of 15 seconds elapsed.  The queues are  *)
(* empty by then, so a round takes no time: only the thread that waits for *)
(* m_hReadMutex, which the destructor holds, is that slow.                 *)
Join ==
    /\ destructor = "join"
    /\ thread.at = "stopped"
    /\ destructor' = "lists"
    /\ UNCHANGED <<requestVars, service, thread, run, lists, stackVars>>

(* Variant: the destructor waits for as long as it takes. *)
JoinUntimed ==
    /\ destructor = "join"
    /\ thread.at = "stopped"
    /\ destructor' = "lists"
    /\ UNCHANGED <<requestVars, service, thread, run, lists, stackVars>>

JoinTimesOut ==
    /\ destructor = "join"
    /\ thread.at = "Read" /\ ~thread.holds
    /\ destructor' = "lists"
    /\ UNCHANGED <<requestVars, service, thread, run, lists, stackVars>>

(* The vectors of reads, calls and history reads are deleted under their   *)
(* mutexes, in this order, then the others.                                *)
DeleteList(k) ==
    /\ destructor = "lists"
    /\ k \in lists
    /\ CASE k = "Read"        -> MutexFree(k)
         [] k = "Call"        -> "Read" \notin lists /\ MutexFree(k)
         [] k = "HistoryRead" -> "Call" \notin lists /\ MutexFree(k)
         [] k = "QueryNext"   -> "HistoryRead" \notin lists
         [] k = "QueryFirst"  -> "QueryNext" \notin lists
    /\ lists' = lists \ {k}
    /\ destructor' = IF lists = {k} THEN "done" ELSE "lists"
    /\ UNCHANGED <<requestVars, service, thread, run, stackVars>>

-----------------------------------------------------------------------------
Init ==
    /\ queue = [k \in Kinds |-> Empty]
    /\ deleted = {}
    /\ stripped = {}
    /\ service = Idle
    /\ thread = [at |-> "asleep", holds |-> FALSE, todo |-> {}]
    /\ run = TRUE
    /\ destructor = "none"
    /\ lists = Kinds
    /\ releases = [r \in Request |-> 0]
    /\ fate = [r \in Request |-> "new"]
    /\ failures = 0

ServiceThread == \/ \E r \in Request, k \in Kind : BeginRequest(r, k)
                 \/ QueueMessage
                 \/ \E r \in Request : UnknownSession(r)

Process(r) == Answer(r) \/ EndSendResponseFailed(r) \/ BeginSendResponseFailed(r)

AsyncRequestThread == \/ WakeUp
                      \/ LockQueue
                      \/ \E r \in Request : Process(r)
                      \/ UnlockQueue

Destructor == \/ RemoveAllRequest
              \/ StopAsyncRequestThread
              \/ LockReadMutex
              \/ Join
              \/ JoinTimesOut
              \/ \E k \in Kinds : DeleteList(k)

Next == ServiceThread \/ AsyncRequestThread \/ BeginDestructor \/ Destructor

Spec == Init /\ [][Next]_vars

(***************************************************************************)
(* Fairness.  The thread sleeps for an interval at most and nobody keeps   *)
(* a mutex from it but the destructor, which lets go of it after 15        *)
(* seconds: weak fairness.  The service thread and the destructor wait for *)
(* mutexes that are free again and again: strong fairness.  No client has  *)
(* to send a request, and no session to end.                               *)
(***************************************************************************)
Fairness == /\ WF_vars(AsyncRequestThread)
            /\ SF_vars(QueueMessage)
            /\ SF_vars(Destructor)

FairSpec == Spec /\ Fairness

-----------------------------------------------------------------------------
(* Properties.                                                             *)

TypeOK ==
    /\ queue \in [Kinds -> OrderedSets(Request)] /\ \A k \in Kinds : IsOrdered(queue[k])
    /\ deleted \subseteq Request
    /\ stripped \subseteq Request
    /\ service \in [kind : Kinds, req : Request] \cup {Idle}
    /\ thread \in [at : Kinds \cup {"asleep", "stopped"}, holds : BOOLEAN, todo : SUBSET Request]
    /\ run \in BOOLEAN
    /\ destructor \in Kinds \cup {"none", "stop", "lock", "join", "lists", "done"}
    /\ lists \subseteq Kinds
    /\ releases \in [Request -> Nat]
    /\ fate \in [Request -> {"new", "open", "answered", "undelivered"}]
    /\ failures \in Nat

Queued(r) == \E k \in Kinds : r \in queue[k].members

(* The requests a round still has to serve are in their queue, unmarked:   *)
(* neither the sweep of the service thread, which deletes the marked ones, *)
(* nor the destructor, which deletes all, meets one of them.               *)
ServedIsQueued ==
    thread.todo # {} => /\ thread.at \in Kinds
                        /\ thread.todo \subseteq queue[thread.at].members \ deleted

(* A request is answered once, whatever rounds, sweeps and failures do:    *)
(* the stack frees its context exactly when its fate is decided.           *)
AnsweredOnce ==
    \A r \in Request : releases[r] = IF fate[r] \in {"answered", "undelivered"} THEN 1 ELSE 0

(* The inductive invariant.  A request is in one place at a time; what is  *)
(* not marked was not answered; and whatever comes before a request the    *)
(* round still has to serve is marked, or still to be served, or a read    *)
(* whose response could not be begun.                                      *)
OneQueue ==
    /\ \A j, k \in Kinds : j # k => queue[j].members \cap queue[k].members = {}
    /\ service # Idle => ~Queued(service.req) /\ service.req \notin deleted

UnmarkedIsOpen ==
    \A r \in Request \ deleted :
        Queued(r) \/ r = service.req => fate[r] = "open" /\ releases[r] = 0

HeldInTurn ==
    /\ ~thread.holds => thread.todo = {}
    /\ thread.at # "Read" => \A q, r \in thread.todo : q = r
    /\ thread.at \in Kinds =>
          \A r \in thread.todo, q \in queue[thread.at].members :
              <<q, r>> \in queue[thread.at].before
                 => \/ q \in deleted \cup thread.todo
                    \/ thread.at = "Read" /\ q \in stripped

IInv == TypeOK /\ OneQueue /\ UnmarkedIsOpen /\ HeldInTurn /\ ServedIsQueued /\ AnsweredOnce

(* Requests of one kind are answered in the order they were queued; only    *)
(* a read whose response could not be begun is overtaken, by the reads of  *)
(* the same round.                                                         *)
AnsweredInOrder ==
    [][\A k \in Kinds : \A q, r \in queue[k].members :
          <<q, r>> \in queue[k].before /\ fate[r] = "open" /\ fate'[r] # "open"
             => q \in deleted \/ (k = "Read" /\ q \in stripped)]_vars

(* The process is about to end, on a request it stripped and did not       *)
(* answer.                                                                 *)
Doomed == \E r \in stripped \ deleted : Queued(r)

(* A queued request is answered, unless the session is deleted or the      *)
(* process about to end: a call or a query whose response could not be     *)
(* begun is served again.                                                  *)
EventuallyAnswered ==
    \A r \in Request :
        (Queued(r) /\ fate[r] = "open")
            ~> (fate[r] # "open" \/ destructor # "none" \/ Doomed)

(* Deleting a session comes to an end, although it stops a thread that may *)
(* be waiting for a mutex the destructor holds.                            *)
DestructionEnds == destructor # "none" ~> (destructor = "done" \/ Doomed)

=============================================================================
