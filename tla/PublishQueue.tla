---------------------------- MODULE PublishQueue ----------------------------
(***************************************************************************)
(* The publish requests of one session: CSessionServer::m_PublishRequests  *)
(* with the threads that share it.                                         *)
(*                                                                         *)
(*   the service thread     runs one call at a time (the stack is          *)
(*                          configured without thread pools, so one socket *)
(*                          thread per endpoint runs its services):        *)
(*                          Publish, Create-, Modify- and                  *)
(*                          DeleteSubscription;                            *)
(*   the notification       NotificationDataThread: clean up what timed    *)
(*   thread                 out, then give each subscription the first     *)
(*                          usable request;                                *)
(*   the lifetime thread    SubscriptionsLifeTimeCountThread: removes a    *)
(*                          subscription whose lifetime elapsed.           *)
(*                                                                         *)
(* Two mutexes: m_hSubscriptionListMutex is held by the notification       *)
(* thread for a whole round (notif.phase = "serving") and otherwise inside *)
(* single actions; m_hPublishMutex is held inside single actions only, so  *)
(* the pointer GetFirstPublishRequest returns (notif.held) is used after   *)
(* the mutex that guarded its choice was released and taken again.  The    *)
(* semaphore m_hPublishSem only delays (every wait on it is timed and its  *)
(* result only traced), and is left out.                                   *)
(*                                                                         *)
(* What a subscription has to say is in Subscription.tla; here it is a     *)
(* flag, due.  Of the stack, a context counts the calls that release it.   *)
(***************************************************************************)
EXTENDS OrderedSet, FiniteSets

CONSTANTS
    Request,       \* publish requests; a name is reused once it left the server
    Subscription,
    Priority,      \* the priorities the clients ask for
    None,          \* no request
    MaxCodes,      \* bound: status codes of expired subscriptions
    MaxFailures    \* bound: responses that cannot be built or sent

ASSUME ConstantsAssumption ==
    /\ None \notin Request
    /\ IsFiniteSet(Request)
    /\ Priority \subseteq Nat
    /\ Priority # {}
    /\ MaxCodes \in Nat
    /\ MaxFailures \in Nat

VARIABLES
    subs,         \* m_SubscriptionList
    priority,     \* CSubscriptionServer::m_cPriority
    due,          \* subscriptions with something to notify
    statusCodes,  \* m_StatusCodes: one entry per expired subscription
    queue,        \* m_PublishRequests
    deleted,      \* CQueueRequest::m_bDeleted
    response,     \* m_pInternalPublishResponse is not null
    stripped,     \* m_pInternalPublishRequest is null (EncodeableObjectDelete)
    expired,      \* the TimeoutHint of the request elapsed
    notif,        \* NotificationDataThread
    service,      \* the service thread
    releases,     \* calls that release the endpoint context of the request
    fate,         \* what became of the request, as its client sees it
    failures      \* responses not built or not sent so far

subVars     == <<subs, priority, due, statusCodes>>
requestVars == <<queue, deleted, response, stripped, expired>>
stackVars   == <<releases, fate, failures>>
vars == <<subVars, requestVars, notif, service, stackVars>>

IdleService == [op |-> "none", req |-> None]
IdleNotif   == [phase |-> "idle", todo |-> {}, held |-> None]

SubscriptionListMutexFree == notif.phase # "serving"

(* CQueuedPublishMessage::IsTimeouted: a request whose message was deleted *)
(* counts as timed out.                                                    *)
IsTimeouted(r) == r \in expired \cup stripped

Release(S) == [r \in Request |-> IF r \in S THEN releases[r] + 1 ELSE releases[r]]

Decide(S, f) == [r \in Request |-> IF r \in S THEN f ELSE fate[r]]

-----------------------------------------------------------------------------
(* The service thread: Publish.                                            *)

(* Server_BeginPublish and the start of ProcessPublishRequest: the size of *)
(* the subscription list is read without its mutex.                        *)
BeginPublish(r) ==
    /\ service.op = "none"
    /\ r \notin queue.members
    /\ service' = [op  |-> IF subs.members = {} THEN "refuse" ELSE "queue",
                   req |-> r]
    /\ fate' = Decide({r}, "open")
    /\ releases' = [releases EXCEPT ![r] = 0]
    /\ deleted' = deleted \ {r}
    /\ response' = response \ {r}
    /\ stripped' = stripped \ {r}
    /\ expired' = expired \ {r}
    /\ UNCHANGED <<subVars, queue, notif, failures>>

(* NotifyWhenNoSubscription: answered with BadNoSubscription, and with one *)
(* of the status codes of the subscriptions that expired.                  *)
NotifyWhenNoSubscription ==
    /\ service.op = "refuse"
    /\ service' = [service EXCEPT !.op = "sweep"]
    /\ statusCodes' = IF statusCodes > 0 THEN statusCodes - 1 ELSE 0
    /\ releases' = Release({service.req})
    /\ fate' = Decide({service.req}, "noSubscription")
    /\ UNCHANGED <<subs, priority, due, requestVars, notif, failures>>

(* The same when the transmission fails: the stack released the context,   *)
(* and the error makes Server_BeginPublish release it after the sweep.     *)
NotifyWhenNoSubscriptionFailed ==
    /\ service.op = "refuse"
    /\ failures < MaxFailures
    /\ failures' = failures + 1
    /\ service' = [service EXCEPT !.op = "sweepAndFault"]
    /\ statusCodes' = IF statusCodes > 0 THEN statusCodes - 1 ELSE 0
    /\ releases' = Release({service.req})
    /\ fate' = Decide({service.req}, "undelivered")
    /\ UNCHANGED <<subs, priority, due, requestVars, notif>>

(* The same when the response cannot be built.                             *)
NotifyWhenNoSubscriptionUnbuilt ==
    /\ service.op = "refuse"
    /\ failures < MaxFailures
    /\ failures' = failures + 1
    /\ service' = [service EXCEPT !.op = "sweepAndFault"]
    /\ fate' = Decide({service.req}, "undelivered")
    /\ UNCHANGED <<subVars, requestVars, notif, releases>>

(* Variant: the request goes to the front. *)
QueuePublishRequestInFront ==
    /\ service.op = "queue"
    /\ SubscriptionListMutexFree
    /\ queue' = PushFront(queue, service.req)
    /\ service' = [service EXCEPT !.op = "sweep"]
    /\ UNCHANGED <<subVars, deleted, response, stripped, expired, notif, stackVars>>

(* Under both mutexes: acknowledge (Subscription.tla) and push_back.  The  *)
(* list is not looked at again.                                            *)
QueuePublishRequest ==
    /\ service.op = "queue"
    /\ SubscriptionListMutexFree
    /\ queue' = PushBack(queue, service.req)
    /\ service' = [service EXCEPT !.op = "sweep"]
    /\ UNCHANGED <<subVars, deleted, response, stripped, expired, notif, stackVars>>

(* Variant: a request that timed out is erased as well. *)
RemoveTimeoutedToo ==
    /\ service.op \in {"sweep", "sweepAndFault"}
    /\ queue' = Keep(queue, Request \ (deleted \cup expired))
    /\ service' = IdleService
    /\ releases' = IF service.op = "sweepAndFault" THEN Release({service.req}) ELSE releases
    /\ UNCHANGED <<subVars, deleted, response, stripped, expired, notif, fate, failures>>

(* RemoveAllPublishRequestDeleted, and the end of Server_BeginPublish.     *)
RemoveAllPublishRequestDeleted ==
    /\ service.op \in {"sweep", "sweepAndFault"}
    /\ queue' = Keep(queue, Request \ deleted)
    /\ service' = IdleService
    /\ releases' = IF service.op = "sweepAndFault" THEN Release({service.req}) ELSE releases
    /\ UNCHANGED <<subVars, deleted, response, stripped, expired, notif, fate, failures>>

-----------------------------------------------------------------------------
(* The subscription list.                                                  *)

(* CreateSubscription, up to AddSubscription: push_back under the mutex.   *)
(* A new subscription is in the cold state, so it has something to notify. *)
CreateSubscription(s, p) ==
    /\ service.op = "none"
    /\ SubscriptionListMutexFree
    /\ s \notin subs.members
    /\ subs' = PushBack(subs, s)
    /\ priority' = [priority EXCEPT ![s] = p]
    /\ due' = due \cup {s}
    /\ service' = [service EXCEPT !.op = "sort"]
    /\ UNCHANGED <<statusCodes, requestVars, notif, stackVars>>

(* The end of CreateSubscription: the mutex is taken again to sort.        *)
SortSubscription ==
    /\ service.op = "sort"
    /\ SubscriptionListMutexFree
    /\ subs' = SortedBy(subs, priority)
    /\ service' = IdleService
    /\ UNCHANGED <<priority, due, statusCodes, requestVars, notif, stackVars>>

(* Variant: the list is not sorted again. *)
ModifyWithoutSort(s, p) ==
    /\ service.op = "none"
    /\ SubscriptionListMutexFree
    /\ s \in subs.members
    /\ priority' = [priority EXCEPT ![s] = p]
    /\ UNCHANGED <<subs, due, statusCodes, requestVars, notif, service, stackVars>>

ModifySubscription(s, p) ==
    /\ service.op = "none"
    /\ SubscriptionListMutexFree
    /\ s \in subs.members
    /\ priority' = [priority EXCEPT ![s] = p]
    /\ subs' = SortedBy(subs, priority')
    /\ UNCHANGED <<due, statusCodes, requestVars, notif, service, stackVars>>

(***************************************************************************)
(* RemoveAllPublishRequest answers every request that is not marked        *)
(* deleted, timed out or not: with BadNoSubscription when it has no        *)
(* response under construction (the response may fail to be built, or to   *)
(* be sent), by cancelling it otherwise.  Then all are erased.             *)
(***************************************************************************)
RemoveAllPublishRequest ==
    LET live == queue.members \ deleted
        open == live \ response
    IN  \E unbuilt, unsent \in SUBSET open :
            /\ unbuilt \cap unsent = {}
            /\ failures + Cardinality(unbuilt \cup unsent) <= MaxFailures
            /\ failures' = failures + Cardinality(unbuilt \cup unsent)
            /\ releases' = Release(live \ unbuilt)
            /\ fate' = [r \in Request |->
                          IF r \in unbuilt \cup unsent \cup (live \ open) THEN "undelivered"
                          ELSE IF r \in open THEN "noSubscription"
                          ELSE fate[r]]
            /\ queue' = Empty
            /\ UNCHANGED response

(* RemoveSubscription: the last one takes the queue with it.               *)
RemoveSubscription(s) ==
    /\ s \in subs.members
    /\ subs' = Keep(subs, Subscription \ {s})
    /\ due' = due \ {s}
    /\ IF subs.members = {s}
       THEN RemoveAllPublishRequest
       ELSE UNCHANGED <<queue, response, releases, fate, failures>>
    /\ UNCHANGED <<priority, deleted, stripped, expired, notif, service>>

(* DeleteSubscriptions, through RemoveSubscriptionBySubscriptionId.        *)
DeleteSubscription(s) ==
    /\ service.op = "none"
    /\ SubscriptionListMutexFree
    /\ RemoveSubscription(s)
    /\ UNCHANGED statusCodes

(* SubscriptionsLifeTimeCountThread, for a subscription whose lifetime     *)
(* count is reached.                                                       *)
ExpireSubscription(s) ==
    /\ SubscriptionListMutexFree
    /\ statusCodes < MaxCodes
    /\ statusCodes' = statusCodes + 1
    /\ RemoveSubscription(s)

-----------------------------------------------------------------------------
(* The notification thread.                                                *)

(* CleanupTimeoutedPublishRequest: EndSendResponse has an effect only on a *)
(* request that still has a response.                                      *)
CleanupTimeoutedPublishRequest ==
    LET gone == {r \in queue.members : IsTimeouted(r)}
    IN  /\ notif.phase = "idle"
        /\ notif' = [notif EXCEPT !.phase = "clean"]
        /\ releases' = Release(gone \cap response)
        /\ fate' = Decide({r \in gone : fate[r] = "open"}, "dropped")
        /\ queue' = Keep(queue, Request \ gone)
        /\ UNCHANGED <<subVars, deleted, response, stripped, expired, service, failures>>

(* The mutex of the subscription list is taken for the round.              *)
BeginRound ==
    /\ notif.phase = "clean"
    /\ notif' = IF subs.members = {} THEN IdleNotif
                ELSE [phase |-> "serving", todo |-> subs.members, held |-> None]
    /\ UNCHANGED <<subVars, requestVars, service, stackVars>>

(* The subscription whose turn it is.                                      *)
Turn == First(subs, notif.todo)

Usable == {r \in queue.members : ~IsTimeouted(r) /\ r \notin deleted}

(* The requests the search of GetFirstPublishRequest walks past.           *)
WalkedPast == {r \in queue.members : \A u \in First(queue, Usable) : <<r, u>> \in queue.before}

(* Variants: a request marked deleted is used again; the last request of   *)
(* the queue is used, as by GetLastPublishRequest.                         *)
GetFirstPublishRequestAny ==
    LET found == First(queue, {r \in queue.members : ~IsTimeouted(r)})
    IN  /\ notif.phase = "serving"
        /\ notif.held = None
        /\ \E s \in Turn :
              notif' = IF found = {} THEN [notif EXCEPT !.todo = @ \ {s}]
                       ELSE [notif EXCEPT !.held = CHOOSE r \in found : TRUE]
        /\ UNCHANGED <<subVars, requestVars, service, stackVars>>

GetLastPublishRequest ==
    LET usable == queue.members \ deleted
        found  == {r \in usable : \A q \in usable : <<r, q>> \notin queue.before}
    IN  /\ notif.phase = "serving"
        /\ notif.held = None
        /\ \E s \in Turn :
              notif' = IF found = {} THEN [notif EXCEPT !.todo = @ \ {s}]
                       ELSE [notif EXCEPT !.held = CHOOSE r \in found : TRUE]
        /\ UNCHANGED <<subVars, requestVars, service, stackVars>>

(* GetFirstPublishRequest, under m_hPublishMutex: IsTimeouted marks the    *)
(* timed-out requests it meets as deleted.  Without a usable request the   *)
(* subscription is late.                                                   *)
GetFirstPublishRequest ==
    LET found == First(queue, Usable)
        late  == (WalkedPast \cap expired) \ deleted
    IN  /\ notif.phase = "serving"
        /\ notif.held = None
        /\ deleted' = deleted \cup late
        /\ fate' = Decide(late, "dropped")
        /\ \E s \in Turn :
              notif' = IF found = {} THEN [notif EXCEPT !.todo = @ \ {s}]
                       ELSE [notif EXCEPT !.held = CHOOSE r \in found : TRUE]
        /\ UNCHANGED <<subVars, queue, response, stripped, expired, service, releases, failures>>

(* The request is done with; the next subscription has its turn.           *)
NextTurn(s) == notif' = [notif EXCEPT !.todo = @ \ {s}, !.held = None]

Serving(s) == /\ notif.phase = "serving"
              /\ notif.held # None
              /\ s \in Turn

(* BeginSendResponse fails: the request stays queued without a response.   *)
BeginSendResponseFailed(s) ==
    /\ Serving(s)
    /\ failures < MaxFailures
    /\ failures' = failures + 1
    /\ response' = response \ {notif.held}
    /\ NextTurn(s)
    /\ UNCHANGED <<subVars, queue, deleted, stripped, expired, service, releases, fate>>

(* Variant: the response of an idle subscription is kept. *)
KeepPublishResponse(s) ==
    /\ Serving(s)
    /\ s \notin due
    /\ response' = response \cup {notif.held}
    /\ NextTurn(s)
    /\ UNCHANGED <<subVars, queue, deleted, stripped, expired, service, stackVars>>

(* Nothing to notify: the response is taken back, the request waits.       *)
ResetPublishResponse(s) ==
    /\ Serving(s)
    /\ s \notin due
    /\ response' = response \ {notif.held}
    /\ NextTurn(s)
    /\ UNCHANGED <<subVars, queue, deleted, stripped, expired, service, stackVars>>

(* Variant: the answered request is not marked. *)
AnswerWithoutMark(s) ==
    /\ Serving(s)
    /\ s \in due
    /\ due' \in {due, due \ {s}}
    /\ response' = response \ {notif.held}
    /\ releases' = Release({notif.held})
    /\ fate' = Decide({notif.held}, "data")
    /\ NextTurn(s)
    /\ UNCHANGED <<subs, priority, statusCodes, queue, deleted, stripped, expired, service, failures>>

(* EndSendResponse succeeds: the request is marked and its messages are    *)
(* deleted; with a limit per message more may be left to notify.           *)
EndSendResponse(s) ==
    /\ Serving(s)
    /\ s \in due
    /\ due' \in {due, due \ {s}}
    /\ deleted' = deleted \cup {notif.held}
    /\ stripped' = stripped \cup {notif.held}
    /\ response' = response \ {notif.held}
    /\ releases' = Release({notif.held})
    /\ fate' = Decide({notif.held}, "data")
    /\ NextTurn(s)
    /\ UNCHANGED <<subs, priority, statusCodes, queue, expired, service, failures>>

(* EndSendResponse fails: the stack released the context, the request is   *)
(* marked, its response stays.                                             *)
EndSendResponseFailed(s) ==
    /\ Serving(s)
    /\ s \in due
    /\ failures < MaxFailures
    /\ failures' = failures + 1
    /\ due' \in {due, due \ {s}}
    /\ deleted' = deleted \cup {notif.held}
    /\ response' = response \cup {notif.held}
    /\ releases' = Release({notif.held})
    /\ fate' = Decide({notif.held}, "undelivered")
    /\ NextTurn(s)
    /\ UNCHANGED <<subs, priority, statusCodes, queue, stripped, expired, service>>

(* The mutex is released; the thread sleeps until its interval elapses or  *)
(* a publish request wakes it up.                                          *)
EndRound ==
    /\ notif.phase = "serving"
    /\ notif.todo = {}
    /\ notif' = IdleNotif
    /\ UNCHANGED <<subVars, requestVars, service, stackVars>>

-----------------------------------------------------------------------------
(* The environment: data or a keep-alive becomes due, a timeout elapses.   *)

BecomeDue(s) ==
    /\ s \in subs.members \ due
    /\ due' = due \cup {s}
    /\ UNCHANGED <<subs, priority, statusCodes, requestVars, notif, service, stackVars>>

TimeoutElapses(r) ==
    /\ r \in (queue.members \cup {service.req}) \ expired
    /\ r \in Request
    /\ expired' = expired \cup {r}
    /\ UNCHANGED <<subVars, queue, deleted, response, stripped, notif, service, stackVars>>

-----------------------------------------------------------------------------
Init ==
    /\ subs = Empty
    /\ priority \in [Subscription -> Priority]
    /\ due = {}
    /\ statusCodes = 0
    /\ queue = Empty
    /\ deleted = {}
    /\ response = {}
    /\ stripped = {}
    /\ expired = {}
    /\ notif = IdleNotif
    /\ service = IdleService
    /\ releases = [r \in Request |-> 0]
    /\ fate = [r \in Request |-> "new"]
    /\ failures = 0

Answering(s) == \/ BeginSendResponseFailed(s)
                \/ ResetPublishResponse(s)
                \/ EndSendResponse(s)
                \/ EndSendResponseFailed(s)

NotificationDataThread == \/ CleanupTimeoutedPublishRequest
                          \/ BeginRound
                          \/ GetFirstPublishRequest
                          \/ \E s \in Subscription : Answering(s)
                          \/ EndRound

Publishing == \/ NotifyWhenNoSubscription
              \/ NotifyWhenNoSubscriptionFailed
              \/ NotifyWhenNoSubscriptionUnbuilt
              \/ QueuePublishRequest
              \/ RemoveAllPublishRequestDeleted

ServiceThread == \/ \E r \in Request : BeginPublish(r)
                 \/ Publishing
                 \/ \E s \in Subscription, p \in Priority :
                       CreateSubscription(s, p) \/ ModifySubscription(s, p)
                 \/ SortSubscription
                 \/ \E s \in Subscription : DeleteSubscription(s)

LifetimeThread == \E s \in Subscription : ExpireSubscription(s)

Environment == \/ \E s \in Subscription : BecomeDue(s)
               \/ \E r \in Request : TimeoutElapses(r)

Next == NotificationDataThread \/ ServiceThread \/ LifetimeThread \/ Environment

Spec == Init /\ [][Next]_vars

(***************************************************************************)
(* Fairness.  The notification thread is woken by its interval at the      *)
(* latest, and only the service and lifetime threads can hold what it      *)
(* needs, within one step: weak fairness.  The service thread may wait for *)
(* the subscription list while rounds go on: strong fairness.  Keep-alives *)
(* make a subscription due again and again.  Nothing is assumed of the     *)
(* clients, the lifetimes and the timeouts of the requests.                *)
(***************************************************************************)
Fairness ==
    /\ WF_vars(NotificationDataThread)
    /\ SF_vars(Publishing)
    /\ SF_vars(SortSubscription)
    /\ \A s \in Subscription : WF_vars(BecomeDue(s))

FairSpec == Spec /\ Fairness

-----------------------------------------------------------------------------
(* Properties.                                                             *)

TypeOK ==
    /\ subs \in OrderedSets(Subscription) /\ IsOrdered(subs)
    /\ priority \in [Subscription -> Priority]
    /\ due \subseteq subs.members
    /\ statusCodes \in Nat
    /\ queue \in OrderedSets(Request) /\ IsOrdered(queue)
    /\ deleted \subseteq Request
    /\ response \subseteq Request
    /\ stripped \subseteq Request
    /\ expired \subseteq Request
    /\ notif \in [phase : {"idle", "clean", "serving"}, todo : SUBSET Subscription,
                  held : Request \cup {None}]
    /\ service \in [op : {"none", "refuse", "queue", "sweep", "sweepAndFault", "sort"},
                    req : Request \cup {None}]
    /\ releases \in [Request -> Nat]
    /\ fate \in [Request -> {"new", "open", "dropped", "data", "noSubscription", "undelivered"}]
    /\ failures \in Nat

(* The pointer the notification thread holds across the gap between        *)
(* GetFirstPublishRequest and its own use of the mutex still points to a   *)
(* queued request that nobody marked, the oldest of them: no other thread  *)
(* marks requests, and the sweep of the service thread erases marked ones  *)
(* only.                                                                   *)
HeldIsFirst == notif.held # None => notif.held \in First(queue, Request \ deleted)

(* Between two answers no request that may still be used has a response    *)
(* under construction: the clean-up of timed-out requests and the removal  *)
(* of the last subscription never meet one.                                *)
NoLiveResponse == queue.members \cap response \subseteq deleted

(* A request is waiting for an answer exactly as long as a thread can      *)
(* still reach it: it is queued and not marked, or with the service        *)
(* thread.                                                                 *)
OpenIsReachable ==
    \A r \in Request :
        fate[r] = "open" <=> \/ r \in queue.members /\ r \notin deleted
                             \/ service.req = r /\ service.op \in {"refuse", "queue"}

(* The stack frees a context once for every request that was answered.     *)
AnsweredOnce ==
    \A r \in Request : fate[r] \in {"data", "noSubscription"} => releases[r] = 1

(* Outside CreateSubscription, which sorts after it released the mutex,    *)
(* the subscriptions are served by priority.                               *)
ServedByPriority ==
    service.op # "sort" =>
        \A s, t \in subs.members : priority[s] > priority[t] => <<s, t>> \in subs.before

(* The request of the service thread is not queued yet, or again.          *)
ServedIsNotQueued ==
    /\ service.op \in {"refuse", "queue"} =>
          service.req \in Request \ (queue.members \cup deleted \cup response \cup stripped)
    /\ service.op = "sweepAndFault" =>
          service.req \in Request \ queue.members /\ fate[service.req] = "undelivered"

(* A queued request without messages is marked; one that still has its     *)
(* response could not be sent.                                             *)
QueuedIsWhole ==
    /\ queue.members \cap stripped \subseteq deleted
    /\ \A r \in queue.members \cap response : fate[r] = "undelivered"

OpenIsUnreleased == \A r \in Request : fate[r] = "open" => releases[r] = 0

HeldWhileServing == notif.held # None => notif.phase = "serving"

(* The inductive invariant: what the threads rely on of each other.        *)
IInv == /\ TypeOK
        /\ HeldIsFirst
        /\ HeldWhileServing
        /\ NoLiveResponse
        /\ OpenIsReachable
        /\ OpenIsUnreleased
        /\ AnsweredOnce
        /\ ServedIsNotQueued
        /\ QueuedIsWhole
        /\ ServedByPriority

(* The abstract specification: requests are answered in the order of their *)
(* arrival, each gets one fate, and only one whose timeout elapsed leaves  *)
(* without an answer.                                                      *)
Service == INSTANCE PublishService WITH line <- Keep(queue, Request \ deleted)
ImplementsPublishService == Service!Spec

(* A request is answered, unless its timeout elapses or the session has no *)
(* subscription at some point.                                             *)
EventuallyAnswered ==
    \A r \in Request :
        fate[r] = "open" ~> (fate[r] # "open" \/ r \in expired \/ subs.members = {})

=============================================================================
