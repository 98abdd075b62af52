------------------------- MODULE PublishQueueProofs -------------------------
(***************************************************************************)
(* Proofs about PublishQueue, for any requests, subscriptions, priorities  *)
(* and bounds: the inductive invariant, one lemma per action, and the      *)
(* refinement of PublishService, one lemma per action that is not a        *)
(* stutter there.                                                          *)
(***************************************************************************)
EXTENDS PublishQueue, OrderedSetProofs, FiniteSetTheorems

USE ConstantsAssumption

RequestInvariant ==
    /\ HeldIsFirst
    /\ HeldWhileServing
    /\ NoLiveResponse
    /\ OpenIsReachable
    /\ OpenIsUnreleased
    /\ AnsweredOnce
    /\ ServedIsNotQueued
    /\ QueuedIsWhole

-----------------------------------------------------------------------------
LEMMA InvariantParts == IInv <=> TypeOK /\ RequestInvariant /\ ServedByPriority
BY DEF IInv, RequestInvariant

LEMMA PriorityIsInt == \A p \in Priority : p \in Int
<1>1. Priority \subseteq Nat
  BY ConstantsAssumption
<1> QED
  BY <1>1

LEMMA InitInvariant == Init => IInv
<1> SUFFICES ASSUME Init PROVE IInv
  OBVIOUS
<1>1. Empty.members = {} /\ \A S : Empty \in OrderedSets(S) /\ IsOrdered(Empty)
  BY EmptyIsList
<1>2. TypeOK
  BY <1>1 DEF Init, TypeOK, IdleNotif, IdleService
<1>3. HeldIsFirst /\ HeldWhileServing /\ NoLiveResponse
  BY <1>1 DEF Init, HeldIsFirst, HeldWhileServing, NoLiveResponse, IdleNotif
<1>4. OpenIsReachable /\ OpenIsUnreleased /\ AnsweredOnce
  BY <1>1 DEF Init, OpenIsReachable, OpenIsUnreleased, AnsweredOnce, IdleService
<1>5. ServedIsNotQueued /\ QueuedIsWhole /\ ServedByPriority
  BY <1>1 DEF Init, ServedIsNotQueued, QueuedIsWhole, ServedByPriority, IdleService
<1> QED
  BY <1>2, <1>3, <1>4, <1>5 DEF IInv

(* A step about subscriptions leaves the requests alone.                   *)
LEMMA SameRequests ==
    ASSUME IInv, UNCHANGED <<queue, deleted, response, stripped, releases, fate, notif>>,
           \/ service' = service
           \/ /\ service.op \notin {"refuse", "queue", "sweepAndFault"}
              /\ service'.op \notin {"refuse", "queue", "sweepAndFault"}
    PROVE  RequestInvariant'
<1> USE DEF IInv
<1>1. HeldIsFirst' /\ HeldWhileServing' /\ NoLiveResponse'
  BY DEF HeldIsFirst, HeldWhileServing, NoLiveResponse
<1>2. OpenIsReachable' /\ OpenIsUnreleased' /\ AnsweredOnce'
  BY DEF OpenIsReachable, OpenIsUnreleased, AnsweredOnce
<1>3. ServedIsNotQueued' /\ QueuedIsWhole'
  BY DEF ServedIsNotQueued, QueuedIsWhole
<1> QED
  BY <1>1, <1>2, <1>3 DEF RequestInvariant

(* A step about requests leaves the subscriptions alone.                   *)
LEMMA SamePriorities ==
    ASSUME ServedByPriority, UNCHANGED <<subs, priority>>, service'.op # "sort" => service.op # "sort"
    PROVE  ServedByPriority'
BY DEF ServedByPriority

-----------------------------------------------------------------------------
(* The service thread: Publish.                                            *)
LEMMA BeginPublishStep ==
    ASSUME IInv, NEW r \in Request, BeginPublish(r)
    PROVE  IInv'
<1> USE DEF IInv
<1>1. /\ service.op = "none" /\ r \notin queue.members
      /\ service'.op \in {"refuse", "queue"} /\ service'.req = r
      /\ service' = [op |-> service'.op, req |-> r]
      /\ fate' = [q \in Request |-> IF q = r THEN "open" ELSE fate[q]]
      /\ releases' = [releases EXCEPT ![r] = 0]
      /\ deleted' = deleted \ {r} /\ response' = response \ {r}
      /\ stripped' = stripped \ {r} /\ expired' = expired \ {r}
      /\ UNCHANGED <<subVars, queue, notif, failures>>
  BY DEF BeginPublish, Decide
<1> HIDE DEF IInv
<1>2. TypeOK'
  BY <1>1 DEF IInv, TypeOK, subVars
<1>3. HeldIsFirst' /\ HeldWhileServing' /\ NoLiveResponse'
  BY <1>1 DEF IInv, TypeOK, OrderedSets, HeldIsFirst, HeldWhileServing, NoLiveResponse, First
<1>4. OpenIsReachable' /\ OpenIsUnreleased' /\ AnsweredOnce'
  BY <1>1 DEF IInv, TypeOK, OpenIsReachable, OpenIsUnreleased, AnsweredOnce
<1>5. ServedIsNotQueued' /\ QueuedIsWhole'
  BY <1>1 DEF IInv, TypeOK, OrderedSets, ServedIsNotQueued, QueuedIsWhole
<1>6. ServedByPriority'
  BY <1>1, SamePriorities DEF IInv, subVars
<1> QED
  BY <1>2, <1>3, <1>4, <1>5, <1>6 DEF IInv

(* The three ways NotifyWhenNoSubscription ends.                           *)
LEMMA NotifyWhenNoSubscriptionStep ==
    ASSUME IInv,
           \/ NotifyWhenNoSubscription
           \/ NotifyWhenNoSubscriptionFailed
           \/ NotifyWhenNoSubscriptionUnbuilt
    PROVE  IInv'
<1> DEFINE r == service.req
<1>1. /\ service.op = "refuse" /\ r \in Request
      /\ r \notin queue.members /\ r \notin deleted /\ r \notin response /\ r \notin stripped
      /\ fate[r] = "open" /\ releases[r] = 0
  <2>1. service.op = "refuse"
    BY DEF NotifyWhenNoSubscription, NotifyWhenNoSubscriptionFailed, NotifyWhenNoSubscriptionUnbuilt
  <2> QED
    BY <2>1 DEF IInv, ServedIsNotQueued, OpenIsReachable, OpenIsUnreleased
<1>2. /\ UNCHANGED <<subs, priority, due, requestVars, notif>>
      /\ statusCodes' \in Nat /\ failures' \in Nat
      /\ service' \in {[service EXCEPT !.op = o] : o \in {"sweep", "sweepAndFault"}}
      /\ \E f \in {"noSubscription", "undelivered"} :
            /\ fate' = [q \in Request |-> IF q = r THEN f ELSE fate[q]]
            /\ service'.op = "sweepAndFault" => f = "undelivered"
            /\ releases' = releases \/ releases' = [q \in Request |-> IF q = r THEN releases[q] + 1 ELSE releases[q]]
            /\ f = "noSubscription" => releases' # releases
  <2>1. service \in [op : {"none", "refuse", "queue", "sweep", "sweepAndFault", "sort"}, req : Request \cup {None}]
        /\ releases \in [Request -> Nat] /\ statusCodes \in Nat /\ failures \in Nat
    BY DEF IInv, TypeOK
  <2>2. CASE NotifyWhenNoSubscription
    <3>1. releases' = [q \in Request |-> IF q = r THEN releases[q] + 1 ELSE releases[q]]
      BY <2>2 DEF NotifyWhenNoSubscription, Release
    <3>2. releases'[r] = 1
      BY <1>1, <3>1
    <3> QED
      BY <1>1, <2>1, <2>2, <3>1, <3>2 DEF NotifyWhenNoSubscription, Decide
  <2>3. CASE NotifyWhenNoSubscriptionFailed
    BY <1>1, <2>1, <2>3 DEF NotifyWhenNoSubscriptionFailed, Decide, Release
  <2>4. CASE NotifyWhenNoSubscriptionUnbuilt
    BY <1>1, <2>1, <2>4 DEF NotifyWhenNoSubscriptionUnbuilt, Decide, subVars
  <2> QED
    BY <2>2, <2>3, <2>4
<1>3. PICK f \in {"noSubscription", "undelivered"} :
            /\ fate' = [q \in Request |-> IF q = r THEN f ELSE fate[q]]
            /\ service'.op = "sweepAndFault" => f = "undelivered"
            /\ releases' = releases \/ releases' = [q \in Request |-> IF q = r THEN releases[q] + 1 ELSE releases[q]]
            /\ f = "noSubscription" => releases' # releases
  BY <1>2
<1>4. service'.op \in {"sweep", "sweepAndFault"} /\ service'.req = r
  BY <1>2 DEF IInv, TypeOK
<1>5. TypeOK'
  BY <1>1, <1>2, <1>3, <1>4 DEF IInv, TypeOK, requestVars
<1>6. HeldIsFirst' /\ HeldWhileServing' /\ NoLiveResponse'
  BY <1>2 DEF IInv, HeldIsFirst, HeldWhileServing, NoLiveResponse, requestVars
<1>7. OpenIsReachable' /\ OpenIsUnreleased' /\ AnsweredOnce'
  BY <1>1, <1>2, <1>3, <1>4
     DEF IInv, TypeOK, OpenIsReachable, OpenIsUnreleased, AnsweredOnce, requestVars
<1>8. ServedIsNotQueued' /\ QueuedIsWhole'
  BY <1>1, <1>2, <1>3, <1>4 DEF IInv, TypeOK, OrderedSets, ServedIsNotQueued, QueuedIsWhole, requestVars
<1>9. ServedByPriority'
  BY <1>1, <1>2, <1>4, SamePriorities DEF IInv
<1> QED
  BY <1>5, <1>6, <1>7, <1>8, <1>9 DEF IInv

LEMMA QueuePublishRequestStep ==
    ASSUME IInv, QueuePublishRequest
    PROVE  IInv'
<1> DEFINE r == service.req
<1>1. /\ service.op = "queue" /\ r \in Request
      /\ r \notin queue.members /\ r \notin deleted /\ r \notin response /\ r \notin stripped
      /\ fate[r] = "open"
  BY DEF QueuePublishRequest, IInv, ServedIsNotQueued, OpenIsReachable
<1>2. /\ PushBack(queue, r) \in OrderedSets(Request) /\ IsOrdered(PushBack(queue, r))
      /\ PushBack(queue, r).members = queue.members \cup {r}
  BY <1>1, PushBackIsList DEF IInv, TypeOK
<1>3. /\ queue' = PushBack(queue, r)
      /\ service'.op = "sweep" /\ service' = [service EXCEPT !.op = "sweep"]
      /\ UNCHANGED <<subs, priority, due, statusCodes, deleted, response, stripped, expired, notif,
                     releases, fate, failures>>
  BY DEF QueuePublishRequest, IInv, TypeOK, subVars, stackVars
<1>4. TypeOK'
  BY <1>2, <1>3 DEF IInv, TypeOK
<1>5. HeldIsFirst' /\ HeldWhileServing' /\ NoLiveResponse'
  BY <1>1, <1>2, <1>3, FirstStays
     DEF IInv, TypeOK, HeldIsFirst, HeldWhileServing, NoLiveResponse
<1>6. OpenIsReachable' /\ OpenIsUnreleased' /\ AnsweredOnce'
  BY <1>1, <1>2, <1>3 DEF IInv, OpenIsReachable, OpenIsUnreleased, AnsweredOnce
<1>7. ServedIsNotQueued' /\ QueuedIsWhole'
  BY <1>1, <1>2, <1>3 DEF IInv, ServedIsNotQueued, QueuedIsWhole
<1>8. ServedByPriority'
  BY <1>1, <1>3, SamePriorities DEF IInv
<1> QED
  BY <1>4, <1>5, <1>6, <1>7, <1>8 DEF IInv

LEMMA RemoveAllPublishRequestDeletedStep ==
    ASSUME IInv, RemoveAllPublishRequestDeleted
    PROVE  IInv'
<1> DEFINE r == service.req
<1>1. /\ Keep(queue, Request \ deleted) \in OrderedSets(Request)
      /\ IsOrdered(Keep(queue, Request \ deleted))
      /\ Keep(queue, Request \ deleted).members = queue.members \cap (Request \ deleted)
  BY KeepIsList DEF IInv, TypeOK
<1>2. /\ service.op \in {"sweep", "sweepAndFault"}
      /\ queue' = Keep(queue, Request \ deleted)
      /\ service' = [op |-> "none", req |-> None]
      /\ UNCHANGED <<subs, priority, due, statusCodes, deleted, response, stripped, expired, notif,
                     fate, failures>>
  BY DEF RemoveAllPublishRequestDeleted, subVars, IdleService
<1>3. /\ releases' \in [Request -> Nat]
      /\ \A q \in Request : fate[q] # "undelivered" => releases'[q] = releases[q]
  <2>1. service.op = "sweepAndFault" => fate[r] = "undelivered"
    BY DEF IInv, ServedIsNotQueued
  <2> QED
    BY <2>1 DEF RemoveAllPublishRequestDeleted, Release, IInv, TypeOK
<1>4. TypeOK'
  BY <1>1, <1>2, <1>3 DEF IInv, TypeOK
<1>5. HeldIsFirst' /\ HeldWhileServing' /\ NoLiveResponse'
  <2>1. notif.held # None => notif.held \in Request \ deleted
    BY DEF IInv, HeldIsFirst, First
  <2> QED
    BY <1>1, <1>2, <2>1, FirstStays
       DEF IInv, TypeOK, HeldIsFirst, HeldWhileServing, NoLiveResponse
<1>6. OpenIsReachable' /\ OpenIsUnreleased' /\ AnsweredOnce'
  BY <1>1, <1>2, <1>3 DEF IInv, TypeOK, OpenIsReachable, OpenIsUnreleased, AnsweredOnce
<1>7. ServedIsNotQueued' /\ QueuedIsWhole'
  BY <1>1, <1>2 DEF IInv, ServedIsNotQueued, QueuedIsWhole
<1>8. ServedByPriority'
  BY <1>2, SamePriorities DEF IInv
<1> QED
  BY <1>4, <1>5, <1>6, <1>7, <1>8 DEF IInv

-----------------------------------------------------------------------------
(* The subscription list.                                                  *)
LEMMA CreateSubscriptionStep ==
    ASSUME IInv, NEW s \in Subscription, NEW p \in Priority, CreateSubscription(s, p)
    PROVE  IInv'
<1>1. /\ PushBack(subs, s) \in OrderedSets(Subscription) /\ IsOrdered(PushBack(subs, s))
      /\ PushBack(subs, s).members = subs.members \cup {s}
  BY PushBackIsList DEF CreateSubscription, IInv, TypeOK
<1>2. /\ service.op = "none" /\ service'.op = "sort" /\ service' = [service EXCEPT !.op = "sort"]
      /\ subs' = PushBack(subs, s) /\ priority' = [priority EXCEPT ![s] = p] /\ due' = due \cup {s}
      /\ UNCHANGED <<statusCodes, queue, deleted, response, stripped, expired, notif,
                     releases, fate, failures>>
  BY DEF CreateSubscription, IInv, TypeOK, requestVars, stackVars
<1>3. TypeOK'
  BY <1>1, <1>2 DEF IInv, TypeOK
<1>4. RequestInvariant'
  BY <1>2, SameRequests
<1>5. ServedByPriority'
  BY <1>2 DEF ServedByPriority
<1> QED
  BY <1>3, <1>4, <1>5, InvariantParts DEF IInv, RequestInvariant

(* CreateSubscription and ModifySubscription sort.                         *)
LEMMA SortSubscriptionStep ==
    ASSUME IInv, SortSubscription
    PROVE  IInv'
<1>1. \A s \in Subscription : priority[s] \in Int
  BY PriorityIsInt DEF IInv, TypeOK
<1>2. /\ SortedBy(subs, priority) \in OrderedSets(Subscription)
      /\ IsOrdered(SortedBy(subs, priority))
      /\ SortedBy(subs, priority).members = subs.members
      /\ \A s, t \in subs.members :
            priority[s] > priority[t] => <<s, t>> \in SortedBy(subs, priority).before
  BY <1>1, SortedByIsSorted DEF IInv, TypeOK
<1>3. /\ service.op = "sort" /\ service'.op = "none" /\ service' = [op |-> "none", req |-> None]
      /\ subs' = SortedBy(subs, priority)
      /\ UNCHANGED <<priority, due, statusCodes, queue, deleted, response, stripped, expired, notif,
                     releases, fate, failures>>
  BY DEF SortSubscription, requestVars, stackVars, IdleService
<1>4. TypeOK'
  BY <1>2, <1>3 DEF IInv, TypeOK
<1>5. RequestInvariant'
  BY <1>3, SameRequests
<1>6. ServedByPriority'
  BY <1>2, <1>3 DEF ServedByPriority
<1> QED
  BY <1>4, <1>5, <1>6 DEF IInv, RequestInvariant

LEMMA ModifySubscriptionStep ==
    ASSUME IInv, NEW s \in Subscription, NEW p \in Priority, ModifySubscription(s, p)
    PROVE  IInv'
<1>1. /\ priority' = [priority EXCEPT ![s] = p] /\ priority' \in [Subscription -> Priority]
      /\ subs' = SortedBy(subs, priority')
      /\ UNCHANGED <<due, statusCodes, queue, deleted, response, stripped, expired, notif, service,
                     releases, fate, failures>>
  BY DEF ModifySubscription, IInv, TypeOK, requestVars, stackVars
<1>2. \A t \in Subscription : priority'[t] \in Int
  BY <1>1, PriorityIsInt
<1>3. /\ SortedBy(subs, priority') \in OrderedSets(Subscription)
      /\ IsOrdered(SortedBy(subs, priority'))
      /\ SortedBy(subs, priority').members = subs.members
      /\ \A t, u \in subs.members :
            priority'[t] > priority'[u] => <<t, u>> \in SortedBy(subs, priority').before
  BY <1>2, SortedByIsSorted DEF IInv, TypeOK
<1>4. TypeOK'
  BY <1>1, <1>3 DEF IInv, TypeOK
<1>5. RequestInvariant'
  BY <1>1, SameRequests
<1>6. ServedByPriority'
  BY <1>1, <1>3 DEF ServedByPriority
<1> QED
  BY <1>4, <1>5, <1>6 DEF IInv, RequestInvariant

(* What RemoveAllPublishRequest answers is what is open in the queue.      *)
LEMMA RemoveAllAnswers ==
    ASSUME IInv, RemoveAllPublishRequest
    PROVE  /\ queue' = Empty /\ response' = response /\ failures' \in Nat
           /\ releases' \in [Request -> Nat]
           /\ \E unsent \in SUBSET (queue.members \ deleted) :
                 /\ fate' = [r \in Request |-> IF r \in unsent THEN "undelivered"
                                               ELSE IF r \in queue.members \ deleted THEN "noSubscription"
                                               ELSE fate[r]]
                 /\ \A r \in Request : r \notin unsent =>
                       releases'[r] = IF r \in queue.members \ deleted THEN releases[r] + 1 ELSE releases[r]
<1> DEFINE live == queue.members \ deleted
           open == live \ response
<1>1. PICK unbuilt \in SUBSET open, unsent \in SUBSET open :
            /\ failures' = failures + Cardinality(unbuilt \cup unsent)
            /\ releases' = Release(live \ unbuilt)
            /\ fate' = [r \in Request |->
                          IF r \in unbuilt \cup unsent \cup (live \ open) THEN "undelivered"
                          ELSE IF r \in open THEN "noSubscription"
                          ELSE fate[r]]
            /\ queue' = Empty
            /\ UNCHANGED response
  BY DEF RemoveAllPublishRequest
<1>2. live = open
  BY DEF IInv, NoLiveResponse
<1>3. IsFiniteSet(unbuilt \cup unsent)
  <2>1. unbuilt \cup unsent \subseteq Request
    BY DEF IInv, TypeOK, OrderedSets
  <2> QED
    BY <2>1, FS_Subset
<1>4. failures' \in Nat
  BY <1>1, <1>3, FS_CardinalityType DEF IInv, TypeOK
<1>5. releases' = [r \in Request |-> IF r \in live \ unbuilt THEN releases[r] + 1 ELSE releases[r]]
  BY <1>1 DEF Release
<1>6. releases' \in [Request -> Nat]
  BY <1>5 DEF IInv, TypeOK
<1> DEFINE none == unbuilt \cup unsent
<1>7. /\ none \in SUBSET live
      /\ fate' = [r \in Request |-> IF r \in none THEN "undelivered"
                                    ELSE IF r \in live THEN "noSubscription" ELSE fate[r]]
      /\ \A r \in Request : r \notin none =>
            releases'[r] = IF r \in live THEN releases[r] + 1 ELSE releases[r]
  BY <1>1, <1>2, <1>5
<1> QED
  BY <1>1, <1>4, <1>6, <1>7

LEMMA RemoveSubscriptionStep ==
    ASSUME IInv, NEW s \in Subscription, SubscriptionListMutexFree, RemoveSubscription(s),
           statusCodes' \in Nat
    PROVE  IInv'
<1>1. /\ Keep(subs, Subscription \ {s}) \in OrderedSets(Subscription)
      /\ IsOrdered(Keep(subs, Subscription \ {s}))
      /\ Keep(subs, Subscription \ {s}).members = subs.members \cap (Subscription \ {s})
  BY KeepIsList DEF IInv, TypeOK
<1>2. /\ subs' = Keep(subs, Subscription \ {s}) /\ due' = due \ {s}
      /\ UNCHANGED <<priority, deleted, stripped, expired, notif, service>>
  BY DEF RemoveSubscription
<1>3. due' \subseteq subs'.members /\ due' \subseteq Subscription
  BY <1>1, <1>2 DEF IInv, TypeOK, OrderedSets
<1>4. ServedByPriority'
  BY <1>1, <1>2 DEF IInv, ServedByPriority, Keep
<1>5. CASE subs.members # {s}
  <2>1. UNCHANGED <<queue, response, releases, fate, failures>>
    BY <1>5 DEF RemoveSubscription
  <2>2. TypeOK'
    BY <1>1, <1>2, <1>3, <2>1 DEF IInv, TypeOK
  <2>3. RequestInvariant'
    BY <1>2, <2>1, SameRequests
  <2> QED
    BY <1>4, <2>2, <2>3 DEF IInv, RequestInvariant
<1>6. CASE subs.members = {s}
  <2> DEFINE live == queue.members \ deleted
  <2>1. RemoveAllPublishRequest
    BY <1>6 DEF RemoveSubscription
  <2>2. /\ queue' = Empty /\ response' = response /\ failures' \in Nat
        /\ releases' \in [Request -> Nat]
    BY <2>1, RemoveAllAnswers
  <2>3. PICK unsent \in SUBSET live :
           /\ fate' = [r \in Request |-> IF r \in unsent THEN "undelivered"
                                         ELSE IF r \in live THEN "noSubscription" ELSE fate[r]]
           /\ \A r \in Request : r \notin unsent =>
                 releases'[r] = IF r \in live THEN releases[r] + 1 ELSE releases[r]
    BY <2>1, RemoveAllAnswers
  <2>4. queue'.members = {} /\ queue' \in OrderedSets(Request) /\ IsOrdered(queue')
    BY <2>2, EmptyIsList
  <2>5. fate' \in [Request -> {"new", "open", "dropped", "data", "noSubscription", "undelivered"}]
    BY <2>3 DEF IInv, TypeOK
  <2>6. TypeOK'
    BY <1>1, <1>2, <1>3, <2>2, <2>4, <2>5 DEF IInv, TypeOK
  <2>7. notif.held = None
    BY DEF SubscriptionListMutexFree, IInv, HeldWhileServing
  <2>8. HeldIsFirst' /\ HeldWhileServing' /\ NoLiveResponse'
    BY <1>2, <2>4, <2>7 DEF HeldIsFirst, HeldWhileServing, NoLiveResponse
  <2>9. \A r \in Request : r \in live => fate[r] = "open" /\ releases[r] = 0
    BY DEF IInv, OpenIsReachable, OpenIsUnreleased
  <2>10. OpenIsReachable'
    <3> SUFFICES ASSUME NEW r \in Request
                 PROVE  fate'[r] = "open" <=> service.req = r /\ service.op \in {"refuse", "queue"}
      BY <1>2, <2>4 DEF OpenIsReachable
    <3>1. service.req = r /\ service.op \in {"refuse", "queue"} => r \notin live
      BY DEF IInv, ServedIsNotQueued
    <3> QED
      BY <2>3, <3>1 DEF IInv, OpenIsReachable
  <2>11. OpenIsUnreleased' /\ AnsweredOnce'
    BY <2>3, <2>9 DEF IInv, TypeOK, OpenIsUnreleased, AnsweredOnce
  <2>12. ServedIsNotQueued' /\ QueuedIsWhole'
    BY <1>2, <2>2, <2>3, <2>4 DEF IInv, ServedIsNotQueued, QueuedIsWhole
  <2> QED
    BY <1>4, <2>6, <2>8, <2>10, <2>11, <2>12 DEF IInv
<1> QED
  BY <1>5, <1>6

LEMMA DeleteSubscriptionStep ==
    ASSUME IInv, NEW s \in Subscription, DeleteSubscription(s)
    PROVE  IInv'
<1>1. /\ SubscriptionListMutexFree /\ RemoveSubscription(s)
      /\ statusCodes' \in Nat
  BY DEF DeleteSubscription, IInv, TypeOK
<1> QED
  BY <1>1, RemoveSubscriptionStep

LEMMA ExpireSubscriptionStep ==
    ASSUME IInv, NEW s \in Subscription, ExpireSubscription(s)
    PROVE  IInv'
<1>1. /\ SubscriptionListMutexFree /\ RemoveSubscription(s)
      /\ statusCodes' \in Nat
  BY DEF ExpireSubscription, IInv, TypeOK
<1> QED
  BY <1>1, RemoveSubscriptionStep

-----------------------------------------------------------------------------
(* The notification thread.                                                *)

(* The clean-up finds the open requests among those it erases timed out.   *)
LEMMA CleanedAreExpired ==
    ASSUME IInv, NEW r \in queue.members, IsTimeouted(r), fate[r] = "open"
    PROVE  r \in expired /\ r \notin deleted
<1>1. r \in Request
  BY DEF IInv, TypeOK, OrderedSets
<1>2. r \notin deleted
  BY <1>1 DEF IInv, OpenIsReachable, ServedIsNotQueued
<1> QED
  BY <1>2 DEF IsTimeouted, IInv, QueuedIsWhole

LEMMA CleanupStep ==
    ASSUME IInv, CleanupTimeoutedPublishRequest
    PROVE  IInv'
<1> DEFINE gone == {r \in queue.members : IsTimeouted(r)}
<1>1. /\ Keep(queue, Request \ gone) \in OrderedSets(Request)
      /\ IsOrdered(Keep(queue, Request \ gone))
      /\ Keep(queue, Request \ gone).members = queue.members \cap (Request \ gone)
  BY KeepIsList DEF IInv, TypeOK
<1>2. /\ notif.phase = "idle" /\ notif' = [notif EXCEPT !.phase = "clean"]
      /\ releases' = [r \in Request |-> IF r \in gone \cap response THEN releases[r] + 1 ELSE releases[r]]
      /\ fate' = [r \in Request |-> IF r \in gone /\ fate[r] = "open" THEN "dropped" ELSE fate[r]]
      /\ queue' = Keep(queue, Request \ gone)
      /\ UNCHANGED <<subs, priority, due, statusCodes, deleted, response, stripped, expired, service, failures>>
  BY DEF CleanupTimeoutedPublishRequest, Release, Decide, subVars
<1>3. notif.held = None /\ notif'.held = None
  BY <1>2 DEF IInv, TypeOK, HeldWhileServing
<1>4. \A r \in Request : r \in gone \cap response => fate[r] = "undelivered"
  BY DEF IInv, QueuedIsWhole
<1> HIDE DEF gone
<1>5. TypeOK'
  BY <1>1, <1>2 DEF IInv, TypeOK
<1>6. HeldIsFirst' /\ HeldWhileServing' /\ NoLiveResponse'
  BY <1>1, <1>2, <1>3 DEF IInv, HeldIsFirst, HeldWhileServing, NoLiveResponse
<1>7. OpenIsReachable'
  <2> SUFFICES ASSUME NEW r \in Request
               PROVE  fate'[r] = "open" <=> \/ r \in queue'.members /\ r \notin deleted
                                            \/ service.req = r /\ service.op \in {"refuse", "queue"}
    BY <1>2 DEF OpenIsReachable
  <2>1. service.req = r /\ service.op \in {"refuse", "queue"} => r \notin gone
    BY DEF IInv, ServedIsNotQueued, gone
  <2>2. r \in queue'.members <=> r \in queue.members /\ r \notin gone
    BY <1>1, <1>2
  <2> QED
    BY <1>2, <2>1, <2>2 DEF IInv, OpenIsReachable
<1>8. OpenIsUnreleased' /\ AnsweredOnce'
  BY <1>2, <1>4 DEF IInv, TypeOK, OpenIsUnreleased, AnsweredOnce
<1>9. ServedIsNotQueued' /\ QueuedIsWhole'
  BY <1>1, <1>2 DEF IInv, ServedIsNotQueued, QueuedIsWhole, OrderedSets, TypeOK
<1>10. ServedByPriority'
  BY <1>2, SamePriorities DEF IInv
<1> QED
  BY <1>5, <1>6, <1>7, <1>8, <1>9, <1>10 DEF IInv

(* The requests it walks past and finds timed out are open ones; what is   *)
(* found is first among those nobody marked.                               *)
LEMMA FoundIsFirst ==
    ASSUME IInv
    PROVE  LET late == (WalkedPast \cap expired) \ deleted
           IN  /\ late \subseteq queue.members \cap Request
               /\ \A r \in late : fate[r] = "open"
               /\ First(queue, Usable) \subseteq First(queue, Request \ (deleted \cup late))
<1> DEFINE late == (WalkedPast \cap expired) \ deleted
<1>1. queue.members \subseteq Request /\ IsOrdered(queue)
  BY DEF IInv, TypeOK, OrderedSets
<1>2. late \subseteq queue.members \cap Request
  BY <1>1 DEF WalkedPast
<1>3. \A r \in late : fate[r] = "open"
  BY <1>2 DEF IInv, OpenIsReachable
<1>4. ASSUME NEW u \in First(queue, Usable) PROVE u \in First(queue, Request \ (deleted \cup late))
  <2>1. u \in queue.members /\ u \notin deleted /\ ~IsTimeouted(u)
    BY DEF First, Usable
  <2>2. u \notin late
    BY <2>1 DEF IsTimeouted
  <2>3. ASSUME NEW r \in queue.members, r \notin deleted, r \notin late, <<r, u>> \in queue.before
        PROVE  FALSE
    <3>1. \A v \in First(queue, Usable) : v = u
      BY <1>1, FirstIsFirst
    <3>2. r \in WalkedPast
      BY <2>3, <3>1 DEF WalkedPast
    <3>3. r \notin expired /\ r \notin stripped
      BY <2>3, <3>2 DEF IInv, QueuedIsWhole
    <3>4. r \in Usable
      BY <2>3, <3>3 DEF Usable, IsTimeouted
    <3> QED
      BY <1>1, <2>3, <3>4, FirstIsFirst
  <2> QED
    BY <1>1, <2>1, <2>2, <2>3 DEF First
<1> QED
  BY <1>2, <1>3, <1>4

LEMMA GetFirstStep ==
    ASSUME IInv, GetFirstPublishRequest
    PROVE  IInv'
<1> DEFINE late == (WalkedPast \cap expired) \ deleted
<1>1. /\ late \subseteq queue.members \cap Request
      /\ \A r \in late : fate[r] = "open"
      /\ First(queue, Usable) \subseteq First(queue, Request \ (deleted \cup late))
  BY FoundIsFirst
<1>2. /\ notif.phase = "serving" /\ notif.held = None
      /\ deleted' = deleted \cup late
      /\ fate' = [r \in Request |-> IF r \in late THEN "dropped" ELSE fate[r]]
      /\ UNCHANGED <<subs, priority, due, statusCodes, queue, response, stripped, expired, service,
                     releases, failures>>
  BY DEF GetFirstPublishRequest, Decide, subVars
<1> HIDE DEF late
<1>3. /\ notif' \in [phase : {"idle", "clean", "serving"}, todo : SUBSET Subscription,
                     held : Request \cup {None}]
      /\ notif'.phase = "serving"
      /\ notif'.held # None => notif'.held \in First(queue, Usable)
  <2>1. PICK s \in Turn :
           notif' = IF First(queue, Usable) = {} THEN [notif EXCEPT !.todo = @ \ {s}]
                    ELSE [notif EXCEPT !.held = CHOOSE r \in First(queue, Usable) : TRUE]
    BY DEF GetFirstPublishRequest
  <2>2. notif \in [phase : {"idle", "clean", "serving"}, todo : SUBSET Subscription, held : Request \cup {None}]
    BY DEF IInv, TypeOK
  <2>3. First(queue, Usable) \subseteq Request
    BY DEF First, IInv, TypeOK, OrderedSets
  <2>4. First(queue, Usable) # {} => (CHOOSE r \in First(queue, Usable) : TRUE) \in First(queue, Usable)
    OBVIOUS
  <2> QED
    BY <1>2, <2>1, <2>2, <2>3, <2>4
<1>4. TypeOK'
  BY <1>1, <1>2, <1>3 DEF IInv, TypeOK
<1>5. HeldIsFirst' /\ HeldWhileServing' /\ NoLiveResponse'
  BY <1>1, <1>2, <1>3 DEF IInv, HeldIsFirst, HeldWhileServing, NoLiveResponse
<1>6. OpenIsReachable'
  <2> SUFFICES ASSUME NEW r \in Request
               PROVE  fate'[r] = "open" <=> \/ r \in queue.members /\ r \notin deleted'
                                            \/ service.req = r /\ service.op \in {"refuse", "queue"}
    BY <1>2 DEF OpenIsReachable
  <2>1. service.req = r /\ service.op \in {"refuse", "queue"} => r \notin late
    BY <1>1 DEF IInv, ServedIsNotQueued
  <2> QED
    BY <1>2, <2>1 DEF IInv, OpenIsReachable
<1>7. OpenIsUnreleased' /\ AnsweredOnce'
  BY <1>1, <1>2 DEF IInv, TypeOK, OpenIsUnreleased, AnsweredOnce
<1>8. ServedIsNotQueued' /\ QueuedIsWhole'
  BY <1>1, <1>2 DEF IInv, TypeOK, OrderedSets, ServedIsNotQueued, QueuedIsWhole, NoLiveResponse
<1>9. ServedByPriority'
  BY <1>2, SamePriorities DEF IInv
<1> QED
  BY <1>4, <1>5, <1>6, <1>7, <1>8, <1>9 DEF IInv

(* The thread holds a request that is queued, open and not released.       *)
LEMMA HeldIsOpen ==
    ASSUME IInv, notif.held # None
    PROVE  /\ notif.held \in Request \cap queue.members /\ notif.held \notin deleted
           /\ notif.held \notin response /\ notif.held \notin stripped
           /\ fate[notif.held] = "open" /\ releases[notif.held] = 0
           /\ notif.held \in First(queue, Request \ deleted)
<1>1. /\ notif.held \in First(queue, Request \ deleted)
      /\ notif.held \in Request \cap queue.members /\ notif.held \notin deleted
  BY DEF IInv, HeldIsFirst, First
<1>2. fate[notif.held] = "open" /\ notif.held \notin response /\ notif.held \notin stripped
  BY <1>1 DEF IInv, OpenIsReachable, NoLiveResponse, QueuedIsWhole
<1> QED
  BY <1>1, <1>2 DEF IInv, OpenIsUnreleased

LEMMA NextTurnType ==
    ASSUME IInv, NEW s, NextTurn(s)
    PROVE  /\ notif' \in [phase : {"idle", "clean", "serving"}, todo : SUBSET Subscription,
                          held : Request \cup {None}]
           /\ notif'.held = None
BY DEF IInv, TypeOK, NextTurn

(* The beginning and the end of a round.                                   *)
LEMMA RoundStep ==
    ASSUME IInv, BeginRound \/ EndRound
    PROVE  IInv'
<1>1. UNCHANGED <<subs, priority, due, statusCodes, queue, deleted, response, stripped, expired,
                  service, releases, fate, failures>>
  BY DEF BeginRound, EndRound, subVars, requestVars, stackVars
<1>2. /\ notif' \in [phase : {"idle", "clean", "serving"}, todo : SUBSET Subscription,
                     held : Request \cup {None}]
      /\ notif'.held = None
  BY DEF BeginRound, EndRound, IdleNotif, IInv, TypeOK, OrderedSets
<1>3. TypeOK'
  BY <1>1, <1>2 DEF IInv, TypeOK
<1>4. HeldIsFirst' /\ HeldWhileServing' /\ NoLiveResponse'
  BY <1>1, <1>2 DEF IInv, HeldIsFirst, HeldWhileServing, NoLiveResponse
<1>5. OpenIsReachable' /\ OpenIsUnreleased' /\ AnsweredOnce'
  BY <1>1 DEF IInv, OpenIsReachable, OpenIsUnreleased, AnsweredOnce
<1>6. ServedIsNotQueued' /\ QueuedIsWhole'
  BY <1>1 DEF IInv, ServedIsNotQueued, QueuedIsWhole
<1>7. ServedByPriority'
  BY <1>1, SamePriorities DEF IInv
<1> QED
  BY <1>3, <1>4, <1>5, <1>6, <1>7 DEF IInv

(* Nothing is sent: the response is given up, the request stays.           *)
LEMMA UnsentStep ==
    ASSUME IInv, NEW s \in Subscription, BeginSendResponseFailed(s) \/ ResetPublishResponse(s)
    PROVE  IInv'
<1>1. /\ UNCHANGED <<subs, priority, due, statusCodes, queue, deleted, stripped, expired, service,
                     releases, fate>>
      /\ response' = response \ {notif.held} /\ failures' \in Nat /\ NextTurn(s)
  BY DEF BeginSendResponseFailed, ResetPublishResponse, subVars, stackVars, IInv, TypeOK
<1>2. /\ notif' \in [phase : {"idle", "clean", "serving"}, todo : SUBSET Subscription,
                     held : Request \cup {None}]
      /\ notif'.held = None
  BY <1>1, NextTurnType
<1>3. TypeOK'
  BY <1>1, <1>2 DEF IInv, TypeOK
<1>4. HeldIsFirst' /\ HeldWhileServing' /\ NoLiveResponse'
  BY <1>1, <1>2 DEF IInv, HeldIsFirst, HeldWhileServing, NoLiveResponse
<1>5. OpenIsReachable' /\ OpenIsUnreleased' /\ AnsweredOnce'
  BY <1>1 DEF IInv, OpenIsReachable, OpenIsUnreleased, AnsweredOnce
<1>6. ServedIsNotQueued' /\ QueuedIsWhole'
  BY <1>1 DEF IInv, ServedIsNotQueued, QueuedIsWhole
<1>7. ServedByPriority'
  BY <1>1, SamePriorities DEF IInv
<1> QED
  BY <1>3, <1>4, <1>5, <1>6, <1>7 DEF IInv

(* The request is answered, or lost in the attempt.                        *)
LEMMA SentStep ==
    ASSUME IInv, NEW s \in Subscription, EndSendResponse(s) \/ EndSendResponseFailed(s)
    PROVE  IInv'
<1> DEFINE r == notif.held
<1>1. /\ r \in Request /\ r \in queue.members /\ r \notin deleted
      /\ r \notin response /\ r \notin stripped /\ fate[r] = "open" /\ releases[r] = 0
  BY HeldIsOpen DEF EndSendResponse, EndSendResponseFailed, Serving
<1>2. /\ UNCHANGED <<subs, priority, statusCodes, queue, expired, service>>
      /\ due' \in {due, due \ {s}} /\ failures' \in Nat /\ NextTurn(s)
      /\ deleted' = deleted \cup {r}
      /\ releases' = [q \in Request |-> IF q = r THEN releases[q] + 1 ELSE releases[q]]
  BY DEF EndSendResponse, EndSendResponseFailed, Release, IInv, TypeOK
<1>3. /\ stripped' \subseteq stripped \cup {r}
      /\ \/ /\ fate' = [q \in Request |-> IF q = r THEN "data" ELSE fate[q]]
            /\ response' = response \ {r}
         \/ /\ fate' = [q \in Request |-> IF q = r THEN "undelivered" ELSE fate[q]]
            /\ response' = response \cup {r}
  BY DEF EndSendResponse, EndSendResponseFailed, Decide
<1>4. /\ notif' \in [phase : {"idle", "clean", "serving"}, todo : SUBSET Subscription,
                     held : Request \cup {None}]
      /\ notif'.held = None
  BY <1>2, NextTurnType
<1> HIDE DEF r
<1>5. TypeOK'
  <2>1. /\ fate' \in [Request -> {"new", "open", "dropped", "data", "noSubscription", "undelivered"}]
        /\ releases' \in [Request -> Nat]
    BY <1>2, <1>3 DEF IInv, TypeOK
  <2> QED
    BY <1>1, <1>2, <1>3, <1>4, <2>1 DEF IInv, TypeOK
<1>6. HeldIsFirst' /\ HeldWhileServing' /\ NoLiveResponse'
  BY <1>1, <1>2, <1>3, <1>4 DEF IInv, HeldIsFirst, HeldWhileServing, NoLiveResponse
<1>7. OpenIsReachable'
  <2> SUFFICES ASSUME NEW q \in Request
               PROVE  fate'[q] = "open" <=> \/ q \in queue.members /\ q \notin deleted'
                                            \/ service.req = q /\ service.op \in {"refuse", "queue"}
    BY <1>2 DEF OpenIsReachable
  <2>1. service.req = q /\ service.op \in {"refuse", "queue"} => q # r
    BY <1>1 DEF IInv, ServedIsNotQueued
  <2> QED
    BY <1>2, <1>3, <2>1 DEF IInv, OpenIsReachable
<1>8. OpenIsUnreleased' /\ AnsweredOnce'
  BY <1>1, <1>2, <1>3 DEF IInv, TypeOK, OpenIsUnreleased, AnsweredOnce
<1>9. ServedIsNotQueued' /\ QueuedIsWhole'
  BY <1>1, <1>2, <1>3 DEF IInv, TypeOK, OrderedSets, ServedIsNotQueued, QueuedIsWhole
<1>10. ServedByPriority'
  BY <1>2, SamePriorities DEF IInv
<1> QED
  BY <1>5, <1>6, <1>7, <1>8, <1>9, <1>10 DEF IInv

-----------------------------------------------------------------------------
(* The environment.                                                        *)
LEMMA EnvironmentStep ==
    ASSUME IInv, Environment
    PROVE  IInv'
<1>1. /\ UNCHANGED <<subs, priority, statusCodes, queue, deleted, response, stripped, notif, service,
                     releases, fate, failures>>
      /\ due' \subseteq subs.members /\ expired' \subseteq Request
  <2>1. CASE \E s \in Subscription : BecomeDue(s)
    BY <2>1 DEF BecomeDue, requestVars, stackVars, IInv, TypeOK
  <2>2. CASE \E r \in Request : TimeoutElapses(r)
    BY <2>2 DEF TimeoutElapses, subVars, stackVars, IInv, TypeOK
  <2> QED
    BY <2>1, <2>2 DEF Environment
<1>2. TypeOK'
  BY <1>1 DEF IInv, TypeOK
<1>3. RequestInvariant'
  BY <1>1, SameRequests
<1>4. ServedByPriority'
  BY <1>1, SamePriorities DEF IInv
<1> QED
  BY <1>2, <1>3, <1>4 DEF IInv, RequestInvariant

LEMMA StutterStep ==
    ASSUME IInv, UNCHANGED vars
    PROVE  IInv'
<1>1. UNCHANGED <<subs, priority, due, statusCodes, queue, deleted, response, stripped, expired,
                  notif, service, releases, fate, failures>>
  BY DEF vars, subVars, requestVars, stackVars
<1>2. TypeOK' /\ RequestInvariant' /\ ServedByPriority'
  BY <1>1, SameRequests, SamePriorities DEF IInv, TypeOK
<1> QED
  BY <1>2 DEF IInv, RequestInvariant

LEMMA NextInvariant == IInv /\ [Next]_vars => IInv'
<1> SUFFICES ASSUME IInv, [Next]_vars PROVE IInv'
  OBVIOUS
<1>1. CASE NotificationDataThread
  BY <1>1, CleanupStep, RoundStep, GetFirstStep, UnsentStep, SentStep
     DEF NotificationDataThread, Answering
<1>2. CASE ServiceThread
  BY <1>2, BeginPublishStep, NotifyWhenNoSubscriptionStep, QueuePublishRequestStep,
     RemoveAllPublishRequestDeletedStep, CreateSubscriptionStep, ModifySubscriptionStep,
     SortSubscriptionStep, DeleteSubscriptionStep
     DEF ServiceThread, Publishing
<1>3. CASE LifetimeThread
  BY <1>3, ExpireSubscriptionStep DEF LifetimeThread
<1>4. CASE Environment
  BY <1>4, EnvironmentStep
<1>5. CASE UNCHANGED vars
  BY <1>5, StutterStep
<1> QED
  BY <1>1, <1>2, <1>3, <1>4, <1>5 DEF Next

-----------------------------------------------------------------------------
(* The refinement of PublishService: the line is the queue without what is *)
(* marked deleted.                                                         *)
Line == Keep(queue, Request \ deleted)

LEMMA LineIsList ==
    ASSUME IInv
    PROVE  Line.members = queue.members \ deleted
<1>1. Line.members = queue.members \cap (Request \ deleted)
  BY DEF Line, Keep
<1>2. queue.members \subseteq Request
  BY DEF IInv, TypeOK, OrderedSets
<1> QED
  BY <1>1, <1>2

(* Without a change to the queue, the marks or the fates nothing happened. *)
LEMMA NothingHappened ==
    ASSUME Line' = Line, UNCHANGED <<fate, expired>>
    PROVE  UNCHANGED Service!vars
BY DEF Service!vars, Line

LEMMA BeginPublishReceives ==
    ASSUME IInv, NEW r \in Request, BeginPublish(r)
    PROVE  Service!Receive(r)
<1>1. /\ service.op = "none" /\ r \notin queue.members
      /\ queue' = queue /\ deleted' = deleted \ {r} /\ expired' = expired \ {r}
      /\ fate' = [fate EXCEPT ![r] = "open"]
  BY DEF BeginPublish, Decide, IInv, TypeOK
<1>2. fate[r] # "open"
  BY <1>1 DEF IInv, OpenIsReachable
<1>3. Keep(queue, Request \ deleted) = Keep(queue, Request \ deleted')
  BY <1>1, KeepDepends DEF IInv, TypeOK
<1> QED
  BY <1>1, <1>2, <1>3 DEF Service!Receive

LEMMA NotifyRefuses ==
    ASSUME IInv,
           \/ NotifyWhenNoSubscription
           \/ NotifyWhenNoSubscriptionFailed
           \/ NotifyWhenNoSubscriptionUnbuilt
    PROVE  \E r \in Request : Service!Refuse(r)
<1> DEFINE r == service.req
<1>1. /\ service.op = "refuse"
      /\ UNCHANGED <<queue, deleted, expired>>
      /\ \E a \in {"noSubscription", "undelivered"} : fate' = [fate EXCEPT ![r] = a]
  BY DEF NotifyWhenNoSubscription, NotifyWhenNoSubscriptionFailed, NotifyWhenNoSubscriptionUnbuilt,
         Decide, requestVars, IInv, TypeOK
<1>2. r \in Request /\ r \notin queue.members /\ fate[r] = "open"
  BY <1>1 DEF IInv, ServedIsNotQueued, OpenIsReachable
<1>3. r \notin Keep(queue, Request \ deleted).members
  BY <1>2, LineIsList DEF Line
<1> QED
  BY <1>1, <1>2, <1>3 DEF Service!Refuse

LEMMA QueueEnqueues ==
    ASSUME IInv, QueuePublishRequest
    PROVE  \E r \in Request : Service!Enqueue(r)
<1> DEFINE r == service.req
<1>1. /\ service.op = "queue" /\ queue' = PushBack(queue, r)
      /\ UNCHANGED <<deleted, expired, fate>>
  BY DEF QueuePublishRequest, stackVars
<1>2. r \in Request /\ r \notin queue.members /\ r \notin deleted /\ fate[r] = "open"
  BY <1>1 DEF IInv, ServedIsNotQueued, OpenIsReachable
<1>3. r \notin Keep(queue, Request \ deleted).members
  BY <1>2, LineIsList DEF Line
<1>4. Keep(PushBack(queue, r), Request \ deleted) = PushBack(Keep(queue, Request \ deleted), r)
  <2> DEFINE S == Request \ deleted
  <2>1. r \in S
    BY <1>2
  <2> HIDE DEF S, r
  <2>2. (queue.members \cup {r}) \cap S = (queue.members \cap S) \cup {r}
    BY <2>1
  <2>3. (queue.before \cup (queue.members \X {r})) \cap (S \X S)
          = (queue.before \cap (S \X S)) \cup ((queue.members \cap S) \X {r})
    BY <2>1
  <2> QED
    BY <2>2, <2>3 DEF Keep, PushBack, S
<1> QED
  BY <1>1, <1>2, <1>3, <1>4 DEF Service!Enqueue, Service!PushBack, PushBack

(* The sweep of the service thread erases only what is out of the line.    *)
LEMMA SweepIsUnseen ==
    ASSUME IInv, RemoveAllPublishRequestDeleted
    PROVE  UNCHANGED Service!vars
<1>1. /\ queue' = Keep(queue, Request \ deleted) /\ UNCHANGED <<deleted, fate, expired>>
  BY DEF RemoveAllPublishRequestDeleted
<1>2. Line' = Line
  <2>1. Keep(Keep(queue, Request \ deleted), Request \ deleted)
          = Keep(queue, (Request \ deleted) \cap (Request \ deleted))
    BY KeepTwice
  <2> QED
    BY <1>1, <2>1 DEF Line
<1> QED
  BY <1>1, <1>2, NothingHappened

LEMMA RemoveSubscriptionDismisses ==
    ASSUME IInv, NEW s \in Subscription, RemoveSubscription(s)
    PROVE  Service!Dismiss \/ UNCHANGED Service!vars
<1>1. UNCHANGED <<deleted, expired>>
  BY DEF RemoveSubscription
<1>2. CASE subs.members # {s}
  <2>1. UNCHANGED <<queue, fate>>
    BY <1>2 DEF RemoveSubscription
  <2> QED
    BY <1>1, <2>1, NothingHappened DEF Line
<1>3. CASE subs.members = {s}
  <2> DEFINE live == queue.members \ deleted
  <2>1. RemoveAllPublishRequest
    BY <1>3 DEF RemoveSubscription
  <2>2. queue' = Empty
    BY <2>1, RemoveAllAnswers
  <2>3. PICK unsent \in SUBSET live :
           fate' = [r \in Request |-> IF r \in unsent THEN "undelivered"
                                      ELSE IF r \in live THEN "noSubscription" ELSE fate[r]]
    BY <2>1, RemoveAllAnswers
  <2>4. Keep(queue', Request \ deleted') = Service!Empty
    BY <2>2 DEF Keep, Empty, Service!Empty
  <2>5. Keep(queue, Request \ deleted).members = live
    BY LineIsList DEF Line
  <2> QED
    BY <1>1, <2>3, <2>4, <2>5 DEF Service!Dismiss
<1> QED
  BY <1>2, <1>3

(* What is erased or marked, and was in the line, was timed out.           *)
LEMMA DropFromLine ==
    ASSUME IInv, NEW S \in SUBSET (Line.members \cap expired),
           Line' = Keep(queue, (Request \ deleted) \ S),
           fate' = [r \in Request |-> IF r \in S THEN "dropped" ELSE fate[r]],
           expired' = expired
    PROVE  (\E T \in SUBSET Request : Service!Drop(T)) \/ UNCHANGED Service!vars
<1>1. S \in SUBSET Request
  BY DEF IInv, TypeOK
<1>2. Line' = Keep(Line, Request \ S)
  <2>1. (Request \ deleted) \cap (Request \ S) = (Request \ deleted) \ S
    OBVIOUS
  <2> QED
    BY <2>1, KeepTwice DEF Line
<1>3. CASE S = {}
  <2>1. fate' = fate /\ Line' = Line
    BY <1>3 DEF IInv, TypeOK, Line
  <2> QED
    BY <2>1, NothingHappened
<1>4. CASE S # {}
  <2>1. Line' = Service!Keep(Line, Request \ S)
    BY <1>2 DEF Service!Keep, Keep
  <2>2. Service!Drop(S)
    BY <1>4, <2>1 DEF Service!Drop, Line
  <2> QED
    BY <1>1, <2>2
<1> QED
  BY <1>3, <1>4

LEMMA CleanupDrops ==
    ASSUME IInv, CleanupTimeoutedPublishRequest
    PROVE  (\E T \in SUBSET Request : Service!Drop(T)) \/ UNCHANGED Service!vars
<1> DEFINE gone == {r \in queue.members : IsTimeouted(r)}
           S == {r \in gone : fate[r] = "open"}
<1>1. /\ fate' = [r \in Request |-> IF r \in S THEN "dropped" ELSE fate[r]]
      /\ queue' = Keep(queue, Request \ gone) /\ UNCHANGED <<deleted, expired>>
  BY DEF CleanupTimeoutedPublishRequest, Decide
<1>2. S \subseteq Line.members \cap expired
  BY CleanedAreExpired, LineIsList
<1>3. \A r \in gone : r \notin S => r \in deleted
  BY DEF IInv, OpenIsReachable, TypeOK, OrderedSets
<1>4. Line' = Keep(queue, (Request \ deleted) \ S)
  <2>1. Line' = Keep(queue, (Request \ gone) \cap (Request \ deleted))
    BY <1>1, KeepTwice DEF Line
  <2>2. (Request \ gone) \cap (Request \ deleted) = (Request \ deleted) \ S
    BY <1>3
  <2> QED
    BY <2>1, <2>2
<1> HIDE DEF S, gone
<1> QED
  BY <1>1, <1>2, <1>4, DropFromLine

LEMMA GetFirstDrops ==
    ASSUME IInv, GetFirstPublishRequest
    PROVE  (\E T \in SUBSET Request : Service!Drop(T)) \/ UNCHANGED Service!vars
<1> DEFINE late == (WalkedPast \cap expired) \ deleted
<1>1. /\ fate' = [r \in Request |-> IF r \in late THEN "dropped" ELSE fate[r]]
      /\ deleted' = deleted \cup late /\ UNCHANGED <<queue, expired>>
  BY DEF GetFirstPublishRequest, Decide
<1>2. late \subseteq Line.members \cap expired
  BY LineIsList DEF WalkedPast
<1>3. Line' = Keep(queue, (Request \ deleted) \ late)
  <2>1. Request \ (deleted \cup late) = (Request \ deleted) \ late
    OBVIOUS
  <2> QED
    BY <1>1, <2>1 DEF Line
<1> HIDE DEF late
<1> QED
  BY <1>1, <1>2, <1>3, DropFromLine

LEMMA SendDelivers ==
    ASSUME IInv, NEW s, EndSendResponse(s) \/ EndSendResponseFailed(s)
    PROVE  \E r \in Request : Service!Deliver(r)
<1> DEFINE r == notif.held
<1>1. r \in Request /\ r \in First(queue, Request \ deleted)
  BY HeldIsOpen DEF EndSendResponse, EndSendResponseFailed, Serving
<1>2. /\ deleted' = deleted \cup {r} /\ UNCHANGED <<queue, expired>>
      /\ \E a \in {"data", "undelivered"} : fate' = [fate EXCEPT ![r] = a]
  BY DEF EndSendResponse, EndSendResponseFailed, Decide, IInv, TypeOK
<1> HIDE DEF r
<1>3. r \in Service!First(Keep(queue, Request \ deleted), Request)
  BY <1>1 DEF First, Service!First, Keep
<1>4. Keep(queue', Request \ deleted') = Service!Keep(Keep(queue, Request \ deleted), Request \ {r})
  <2>1. Keep(Keep(queue, Request \ deleted), Request \ {r})
          = Keep(queue, (Request \ deleted) \cap (Request \ {r}))
    BY KeepTwice
  <2>2. (Request \ deleted) \cap (Request \ {r}) = Request \ (deleted \cup {r})
    OBVIOUS
  <2> QED
    BY <1>2, <2>1, <2>2 DEF Keep, Service!Keep
<1> QED
  BY <1>1, <1>2, <1>3, <1>4 DEF Service!Deliver

(* The steps the service does not show.                                    *)
LEMMA Unseen ==
    ASSUME UNCHANGED <<queue, deleted, fate, expired>>
    PROVE  UNCHANGED Service!vars
BY NothingHappened DEF Line

LEMMA StepSimulation == IInv /\ [Next]_vars => [Service!Next]_(Service!vars)
<1> SUFFICES ASSUME IInv, [Next]_vars PROVE Service!Next \/ UNCHANGED Service!vars
  OBVIOUS
<1>1. CASE NotificationDataThread
  <2>1. CASE CleanupTimeoutedPublishRequest \/ GetFirstPublishRequest
    BY <2>1, CleanupDrops, GetFirstDrops DEF Service!Next
  <2>2. CASE \E s \in Subscription : EndSendResponse(s) \/ EndSendResponseFailed(s)
    BY <2>2, SendDelivers DEF Service!Next
  <2>3. CASE \/ BeginRound \/ EndRound
             \/ \E s \in Subscription : BeginSendResponseFailed(s) \/ ResetPublishResponse(s)
    <3>1. UNCHANGED <<queue, deleted, fate, expired>>
      BY <2>3 DEF BeginRound, EndRound, BeginSendResponseFailed, ResetPublishResponse,
                  requestVars, stackVars
    <3> QED
      BY <3>1, Unseen
  <2> QED
    BY <1>1, <2>1, <2>2, <2>3 DEF NotificationDataThread, Answering
<1>2. CASE ServiceThread
  <2>1. CASE \E r \in Request : BeginPublish(r)
    BY <2>1, BeginPublishReceives DEF Service!Next
  <2>2. CASE \/ NotifyWhenNoSubscription
             \/ NotifyWhenNoSubscriptionFailed
             \/ NotifyWhenNoSubscriptionUnbuilt
    BY <2>2, NotifyRefuses DEF Service!Next
  <2>3. CASE QueuePublishRequest
    BY <2>3, QueueEnqueues DEF Service!Next
  <2>4. CASE RemoveAllPublishRequestDeleted
    BY <2>4, SweepIsUnseen
  <2>5. CASE \/ SortSubscription
             \/ \E s \in Subscription, p \in Priority : CreateSubscription(s, p) \/ ModifySubscription(s, p)
    <3>1. UNCHANGED <<queue, deleted, fate, expired>>
      BY <2>5 DEF SortSubscription, CreateSubscription, ModifySubscription, requestVars, stackVars
    <3> QED
      BY <3>1, Unseen
  <2>6. CASE \E s \in Subscription : DeleteSubscription(s)
    BY <2>6, RemoveSubscriptionDismisses DEF DeleteSubscription, Service!Next
  <2> QED
    BY <1>2, <2>1, <2>2, <2>3, <2>4, <2>5, <2>6 DEF ServiceThread, Publishing
<1>3. CASE LifetimeThread
  BY <1>3, RemoveSubscriptionDismisses DEF LifetimeThread, ExpireSubscription, Service!Next
<1>4. CASE Environment
  <2>1. CASE \E s \in Subscription : BecomeDue(s)
    BY <2>1, Unseen DEF BecomeDue, requestVars, stackVars
  <2>2. CASE \E r \in Request : TimeoutElapses(r)
    <3>1. PICK r \in Request : TimeoutElapses(r)
      BY <2>2
    <3>2. Service!Expire(r)
      BY <3>1 DEF TimeoutElapses, Service!Expire, stackVars
    <3> QED
      BY <3>2 DEF Service!Next
  <2> QED
    BY <1>4, <2>1, <2>2 DEF Environment
<1>5. CASE UNCHANGED vars
  BY <1>5, Unseen DEF vars, requestVars, stackVars
<1> QED
  BY <1>1, <1>2, <1>3, <1>4, <1>5 DEF Next

LEMMA InitSimulation == Init => Service!Init
BY DEF Init, Service!Init, Empty, Service!Empty, Keep

-----------------------------------------------------------------------------
(* The invariant of the publish queue holds in every state the service,    *)
(* notification and lifetime threads reach together.                       *)
THEOREM Invariance == Spec => []IInv
BY InitInvariant, NextInvariant, PTL DEF Spec

(* The request NotificationDataThread found, and uses after the mutex was  *)
(* released, is still in the queue, unmarked, and the oldest such.         *)
THEOREM HeldStaysFirst == Spec => []HeldIsFirst
<1>1. IInv => HeldIsFirst
  BY DEF IInv
<1> QED
  BY <1>1, Invariance, PTL

(* No response is under construction in a request that is still waiting.   *)
THEOREM NoResponseLeft == Spec => []NoLiveResponse
<1>1. IInv => NoLiveResponse
  BY DEF IInv
<1> QED
  BY <1>1, Invariance, PTL

(* A request without an answer is in reach of a thread.                    *)
THEOREM NoneIsStranded == Spec => []OpenIsReachable
<1>1. IInv => OpenIsReachable
  BY DEF IInv
<1> QED
  BY <1>1, Invariance, PTL

(* An answered request had its context released once.                      *)
THEOREM AnsweredAtMostOnce == Spec => []AnsweredOnce
<1>1. IInv => AnsweredOnce
  BY DEF IInv
<1> QED
  BY <1>1, Invariance, PTL

(* Subscriptions are in the order of their priorities, but for the gap in  *)
(* CreateSubscription.                                                     *)
THEOREM PriorityOrder == Spec => []ServedByPriority
<1>1. IInv => ServedByPriority
  BY DEF IInv
<1> QED
  BY <1>1, Invariance, PTL

(* The queue, its marks and its threads implement the first-in first-out   *)
(* service.                                                                *)
THEOREM Refinement == Spec => ImplementsPublishService
<1>1. IInv /\ [Next]_vars => [Service!Next]_(Service!vars)
  BY StepSimulation
<1> QED
  BY <1>1, InitSimulation, Invariance, PTL DEF Spec, ImplementsPublishService, Service!Spec
=============================================================================
