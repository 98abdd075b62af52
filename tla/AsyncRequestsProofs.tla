------------------------- MODULE AsyncRequestsProofs -------------------------
(***************************************************************************)
(* Invariance proofs about AsyncRequests, for any requests, kinds and      *)
(* number of failures: one lemma per action or group of actions, then the  *)
(* theorems.                                                               *)
(***************************************************************************)
EXTENDS AsyncRequests, OrderedSetProofs

USE ConstantsAssumption

ThreadType == [at : Kinds \cup {"asleep", "stopped"}, holds : BOOLEAN, todo : SUBSET Request]

-----------------------------------------------------------------------------
LEMMA InitInvariant == Init => IInv
<1> SUFFICES ASSUME Init PROVE IInv
  OBVIOUS
<1>1. \A k \in Kinds : queue[k] = Empty
  BY DEF Init
<1>2. Empty.members = {} /\ Empty \in OrderedSets(Request) /\ IsOrdered(Empty)
  BY EmptyIsList
<1>3. TypeOK
  BY <1>1, <1>2 DEF Init, TypeOK, Idle
<1>4. \A r : ~Queued(r)
  BY <1>1, <1>2 DEF Queued
<1>5. UnmarkedIsOpen
  BY <1>4 DEF UnmarkedIsOpen, Init, Idle
<1>6. OneQueue /\ HeldInTurn /\ ServedIsQueued /\ AnsweredOnce
  BY <1>1, <1>2 DEF OneQueue, HeldInTurn, ServedIsQueued, AnsweredOnce, Init, Kinds
<1> QED
  BY <1>3, <1>5, <1>6 DEF IInv

-----------------------------------------------------------------------------
(* The service thread.                                                     *)
LEMMA BeginRequestStep ==
    ASSUME IInv, NEW r \in Request, NEW k \in Kind, BeginRequest(r, k)
    PROVE  IInv'
<1> USE DEF IInv
<1>1. k \in Kinds /\ None \notin Request
  OBVIOUS
<1>2. DEFINE l == RemoveAllDeleted(k)
<1>3. /\ l \in OrderedSets(Request) /\ IsOrdered(l)
      /\ l.members \subseteq queue[k].members
  <2>1. queue[k] \in OrderedSets(Request) /\ IsOrdered(queue[k])
    BY <1>1 DEF TypeOK
  <2>2. /\ Keep(queue[k], Request \ deleted) \in OrderedSets(Request)
        /\ IsOrdered(Keep(queue[k], Request \ deleted))
        /\ Keep(queue[k], Request \ deleted).members = queue[k].members \cap (Request \ deleted)
    BY <2>1, KeepIsList
  <2> QED
    BY <2>2 DEF RemoveAllDeleted
<1>4. /\ queue' = [queue EXCEPT ![k] = l] /\ queue'[k] = l
      /\ \A j \in Kinds : j # k => queue'[j] = queue[j]
      /\ \A j \in Kinds : queue'[j].members \subseteq queue[j].members
  BY <1>1, <1>3 DEF BeginRequest, TypeOK
<1>5. /\ service' = [kind |-> k, req |-> r] /\ service' # Idle
      /\ deleted' = deleted \ {r} /\ stripped' = stripped \ {r}
      /\ releases' = [releases EXCEPT ![r] = 0] /\ fate' = [fate EXCEPT ![r] = "open"]
      /\ thread' = thread /\ run' = run /\ destructor' = destructor
      /\ lists' = lists /\ failures' = failures
  BY <1>1 DEF BeginRequest, sessionVars, Idle
<1>6. \A j \in Kinds : r \notin queue[j].members
  BY DEF BeginRequest
<1>7. thread.at = k => thread.todo = {}
  BY <1>1 DEF BeginRequest, MutexFree, HeldInTurn, TypeOK, ThreadType
<1>8. TypeOK'
  BY <1>1, <1>3, <1>4, <1>5 DEF TypeOK
<1>9. OneQueue'
  BY <1>4, <1>5, <1>6 DEF OneQueue, Queued
<1>10. UnmarkedIsOpen'
  <2> SUFFICES ASSUME NEW q \in Request, q \notin deleted', Queued(q)' \/ q = service'.req
               PROVE  fate'[q] = "open" /\ releases'[q] = 0
    BY DEF UnmarkedIsOpen
  <2>1. CASE q = r
    BY <1>5, <2>1 DEF TypeOK
  <2>2. CASE q # r
    <3>1. Queued(q) /\ q \notin deleted
      BY <1>4, <1>5, <2>2 DEF Queued
    <3> QED
      BY <1>5, <2>2, <3>1 DEF UnmarkedIsOpen, TypeOK
  <2> QED
    BY <2>1, <2>2
<1>11. HeldInTurn'
  BY <1>4, <1>5, <1>6, <1>7 DEF HeldInTurn, ServedIsQueued
<1>12. ServedIsQueued'
  BY <1>4, <1>5, <1>7 DEF ServedIsQueued
<1>13. AnsweredOnce'
  BY <1>5 DEF AnsweredOnce, TypeOK
<1> QED
  BY <1>8, <1>9, <1>10, <1>11, <1>12, <1>13

LEMMA QueueMessageStep ==
    ASSUME IInv, QueueMessage
    PROVE  IInv'
<1> USE DEF IInv
<1> DEFINE k == service.kind
           r == service.req
<1>1. k \in Kinds /\ r \in Request /\ \A j \in Kinds : r \notin queue[j].members
  BY DEF QueueMessage, TypeOK, OneQueue, Queued, Idle
<1> DEFINE l == PushBack(queue[k], r)
<1>2. l \in OrderedSets(Request) /\ IsOrdered(l) /\ l.members = queue[k].members \cup {r}
  BY <1>1, PushBackIsList DEF TypeOK
<1>3. /\ queue' = [queue EXCEPT ![k] = l] /\ queue'[k] = l
      /\ \A j \in Kinds : j # k => queue'[j] = queue[j]
  BY <1>1 DEF QueueMessage, TypeOK
<1>4. /\ service' = Idle
      /\ deleted' = deleted /\ stripped' = stripped /\ releases' = releases
      /\ fate' = fate /\ thread' = thread /\ run' = run
      /\ destructor' = destructor /\ lists' = lists /\ failures' = failures
  BY DEF QueueMessage, sessionVars, stackVars
<1>5. thread.at = k => thread.todo = {}
  BY <1>1 DEF QueueMessage, MutexFree, HeldInTurn, TypeOK, ThreadType
<1>6. TypeOK'
  BY <1>1, <1>2, <1>3, <1>4 DEF TypeOK
<1>7. OneQueue'
  BY <1>1, <1>2, <1>3, <1>4 DEF OneQueue
<1>8. UnmarkedIsOpen'
  BY <1>1, <1>2, <1>3, <1>4 DEF UnmarkedIsOpen, Queued, Idle
<1>9. HeldInTurn'
  BY <1>3, <1>4, <1>5 DEF HeldInTurn
<1>10. ServedIsQueued'
  BY <1>3, <1>4, <1>5 DEF ServedIsQueued
<1>11. AnsweredOnce'
  BY <1>4 DEF AnsweredOnce
<1> QED
  BY <1>6, <1>7, <1>8, <1>9, <1>10, <1>11

LEMMA UnknownSessionStep ==
    ASSUME IInv, NEW r \in Request, UnknownSession(r)
    PROVE  IInv'
<1> USE DEF IInv
<1>1. /\ releases' = [releases EXCEPT ![r] = 0] /\ fate' = [fate EXCEPT ![r] = "open"]
      /\ UNCHANGED <<queue, deleted, stripped, service, thread, run, destructor, lists, failures>>
  BY DEF UnknownSession, requestVars, sessionVars
<1>2. TypeOK' /\ AnsweredOnce' /\ UnmarkedIsOpen'
  BY <1>1 DEF TypeOK, AnsweredOnce, UnmarkedIsOpen, Queued
<1>3. OneQueue' /\ HeldInTurn' /\ ServedIsQueued'
  BY <1>1 DEF OneQueue, Queued, HeldInTurn, ServedIsQueued
<1> QED
  BY <1>2, <1>3

-----------------------------------------------------------------------------
(* AsyncRequestThread.                                                     *)
LEMMA RoundStep ==
    ASSUME IInv, WakeUp \/ UnlockQueue
    PROVE  IInv'
<1> USE DEF IInv
<1>1. UNCHANGED <<queue, deleted, stripped, service, run, destructor, lists, releases, fate, failures>>
  BY DEF WakeUp, UnlockQueue, requestVars, sessionVars, stackVars
<1>2. /\ thread' \in ThreadType /\ thread'.todo = {}
  BY DEF WakeUp, UnlockQueue, TypeOK, ThreadType, HeldInTurn, ServedIsQueued, After, Kinds
<1>3. TypeOK'
  BY <1>1, <1>2 DEF TypeOK, ThreadType
<1>4. HeldInTurn' /\ ServedIsQueued'
  BY <1>2 DEF HeldInTurn, ServedIsQueued
<1>5. OneQueue' /\ UnmarkedIsOpen' /\ AnsweredOnce'
  BY <1>1 DEF OneQueue, Queued, UnmarkedIsOpen, AnsweredOnce
<1> QED
  BY <1>3, <1>4, <1>5

LEMMA LockQueueStep ==
    ASSUME IInv, LockQueue
    PROVE  IInv'
<1> USE DEF IInv
<1> DEFINE k == thread.at
<1>1. k \in Kinds /\ IsOrdered(queue[k])
  BY DEF LockQueue, TypeOK
<1>2. UNCHANGED <<queue, deleted, stripped, service, run, destructor, lists, releases, fate, failures>>
  BY DEF LockQueue, requestVars, sessionVars, stackVars
<1>3. thread'.at = k /\ thread'.holds = TRUE /\ thread'.todo = Unserved(k)
  BY DEF LockQueue, TypeOK
<1>4. /\ Unserved(k) \subseteq queue[k].members \ deleted
      /\ k # "Read" => \A q, r \in Unserved(k) : q = r
      /\ \A r \in Unserved(k), q \in queue[k].members :
            <<q, r>> \in queue[k].before => q \in deleted \cup Unserved(k)
  <2>1. queue[k].members \subseteq Request
    BY <1>1 DEF TypeOK, OrderedSets
  <2>2. CASE k = "Read"
    BY <2>2 DEF Unserved
  <2>3. CASE k # "Read"
    <3>1. Unserved(k) = First(queue[k], Request \ deleted)
      BY <2>3 DEF Unserved
    <3>2. /\ First(queue[k], Request \ deleted) \subseteq queue[k].members \cap (Request \ deleted)
          /\ \A x, y \in First(queue[k], Request \ deleted) : x = y
          /\ \A x \in First(queue[k], Request \ deleted), y \in queue[k].members :
                <<y, x>> \in queue[k].before => y \notin Request \ deleted
      BY <1>1, FirstIsFirst
    <3> QED
      BY <2>1, <3>1, <3>2
  <2> QED
    BY <2>2, <2>3
<1>5. TypeOK'
  <2>1. thread' \in ThreadType
    BY <1>1, <1>4 DEF LockQueue, TypeOK, ThreadType, OrderedSets
  <2> QED
    BY <1>2, <2>1 DEF TypeOK, ThreadType
<1>6. HeldInTurn' /\ ServedIsQueued'
  BY <1>1, <1>2, <1>3, <1>4 DEF HeldInTurn, ServedIsQueued
<1>7. OneQueue' /\ UnmarkedIsOpen' /\ AnsweredOnce'
  BY <1>2 DEF OneQueue, Queued, UnmarkedIsOpen, AnsweredOnce
<1> QED
  BY <1>5, <1>6, <1>7

(* The request a step serves: in its queue, open, and before the others    *)
(* the round still has to serve.                                           *)
LEMMA ServedRequest ==
    ASSUME IInv, NEW r \in Request, Serving(r)
    PROVE  /\ thread.at \in Kinds /\ thread.holds
           /\ r \in thread.todo /\ r \in queue[thread.at].members /\ r \notin deleted
           /\ fate[r] = "open" /\ releases[r] = 0
           /\ \A q \in queue[thread.at].members :
                 <<q, r>> \in queue[thread.at].before
                    => q \in deleted \/ (thread.at = "Read" /\ q \in stripped)
<1> USE DEF IInv
<1>1. thread.at \in Kinds /\ thread.holds /\ r \in First(queue[thread.at], thread.todo)
  BY DEF Serving
<1>2. /\ r \in thread.todo /\ r \in queue[thread.at].members
      /\ \A q \in queue[thread.at].members : <<q, r>> \in queue[thread.at].before => q \notin thread.todo
  BY <1>1 DEF First
<1>3. r \notin deleted /\ Queued(r)
  BY <1>1, <1>2 DEF ServedIsQueued, Queued
<1>4. fate[r] = "open" /\ releases[r] = 0
  BY <1>3 DEF UnmarkedIsOpen
<1>5. ASSUME NEW q \in queue[thread.at].members, <<q, r>> \in queue[thread.at].before
      PROVE  q \in deleted \/ (thread.at = "Read" /\ q \in stripped)
  <2>1. q \in deleted \cup thread.todo \/ (thread.at = "Read" /\ q \in stripped)
    BY <1>1, <1>2, <1>5 DEF HeldInTurn
  <2>2. q \notin thread.todo
    BY <1>2, <1>5
  <2> QED
    BY <2>1, <2>2
<1> QED
  BY <1>1, <1>2, <1>3, <1>4, <1>5

LEMMA ProcessStep ==
    ASSUME IInv, NEW r \in Request, Process(r)
    PROVE  IInv'
<1> USE DEF IInv
<1> DEFINE k == thread.at
<1>1. Serving(r) /\ Served(r) /\ EncodeableObjectDelete(r)
  BY DEF Process, Answer, EndSendResponseFailed, BeginSendResponseFailed
<1>2. UNCHANGED <<queue, service, run, destructor, lists>>
  BY DEF Process, Answer, EndSendResponseFailed, BeginSendResponseFailed, sessionVars
<1>3. /\ k \in Kinds /\ thread.holds /\ r \in thread.todo
      /\ r \in queue[k].members /\ r \notin deleted /\ fate[r] = "open" /\ releases[r] = 0
  BY <1>1, ServedRequest
<1>4. thread'.at = k /\ thread'.holds = TRUE /\ thread'.todo = thread.todo \ {r}
      /\ thread' \in ThreadType
  BY <1>1, <1>3 DEF Served, TypeOK, ThreadType
<1>5. /\ stripped' \in SUBSET Request /\ stripped \subseteq stripped'
      /\ k \in {"Read", "HistoryRead"} => r \in stripped'
  BY <1>1 DEF EncodeableObjectDelete, TypeOK
<1>6. \/ /\ deleted' = deleted \cup {r}
         /\ releases' = [releases EXCEPT ![r] = @ + 1]
         /\ \E f \in {"answered", "undelivered"} : fate' = [fate EXCEPT ![r] = f]
      \/ deleted' = deleted /\ releases' = releases /\ fate' = fate /\ r \in thread.todo
  BY <1>3 DEF Process, Answer, EndSendResponseFailed, BeginSendResponseFailed
<1>7. failures' \in Nat
  BY DEF Process, Answer, EndSendResponseFailed, BeginSendResponseFailed, TypeOK
<1>8. TypeOK'
  <2>1. releases' \in [Request -> Nat] /\ fate' \in [Request -> {"new", "open", "answered", "undelivered"}]
        /\ deleted' \subseteq Request
    BY <1>6 DEF TypeOK
  <2> QED
    BY <1>2, <1>4, <1>5, <1>7, <2>1 DEF TypeOK, ThreadType
<1>9. service # Idle => service.req # r
  BY <1>3 DEF OneQueue, Queued
<1>10. OneQueue'
  BY <1>2, <1>6, <1>9 DEF OneQueue, Queued
<1>11. UnmarkedIsOpen'
  <2> SUFFICES ASSUME NEW q \in Request, q \notin deleted', Queued(q)' \/ q = service'.req
               PROVE  fate'[q] = "open" /\ releases'[q] = 0
    BY DEF UnmarkedIsOpen
  <2>1. fate[q] = "open" /\ releases[q] = 0
    BY <1>2, <1>6 DEF UnmarkedIsOpen, Queued
  <2> QED
    BY <1>6, <2>1 DEF TypeOK
<1>12. AnsweredOnce'
  BY <1>3, <1>6 DEF AnsweredOnce, TypeOK
<1>13. ServedIsQueued'
  BY <1>2, <1>3, <1>4, <1>6 DEF ServedIsQueued
<1>14. HeldInTurn'
  <2>1. CASE k = "Read"
    BY <1>2, <1>3, <1>4, <1>5, <1>6, <2>1 DEF HeldInTurn
  <2>2. CASE k # "Read"
    <3>1. thread'.todo = {}
      BY <1>3, <1>4, <2>2 DEF HeldInTurn
    <3> QED
      BY <3>1 DEF HeldInTurn
  <2> QED
    BY <2>1, <2>2
<1> QED
  BY <1>8, <1>10, <1>11, <1>12, <1>13, <1>14

-----------------------------------------------------------------------------
(* The destructor.                                                         *)
LEMMA RemoveAllRequestStep ==
    ASSUME IInv, RemoveAllRequest
    PROVE  IInv'
<1> USE DEF IInv
<1> DEFINE k == destructor
<1>1. k \in Kinds /\ (thread.at = k => thread.todo = {})
  BY DEF RemoveAllRequest, MutexFree, HeldInTurn, TypeOK, ThreadType
<1>2. /\ queue' = [queue EXCEPT ![k] = Empty] /\ queue'[k] = Empty
      /\ \A j \in Kinds : j # k => queue'[j] = queue[j]
  BY <1>1 DEF RemoveAllRequest, TypeOK
<1>3. UNCHANGED <<deleted, stripped, service, thread, run, lists, releases, fate, failures>>
  BY DEF RemoveAllRequest, stackVars
<1>4. Empty \in OrderedSets(Request) /\ IsOrdered(Empty) /\ Empty.members = {}
  BY EmptyIsList
<1>5. destructor' \in Kinds \cup {"none", "stop", "lock", "join", "lists", "done"}
  BY <1>1 DEF RemoveAllRequest, After, Kinds
<1>6. TypeOK'
  BY <1>1, <1>2, <1>3, <1>4, <1>5 DEF TypeOK
<1>7. \A q : Queued(q)' => Queued(q)
  BY <1>2, <1>4 DEF Queued
<1>8. OneQueue' /\ UnmarkedIsOpen' /\ AnsweredOnce'
  BY <1>2, <1>3, <1>4, <1>7 DEF OneQueue, UnmarkedIsOpen, AnsweredOnce
<1>9. HeldInTurn' /\ ServedIsQueued'
  BY <1>1, <1>2, <1>3 DEF HeldInTurn, ServedIsQueued
<1> QED
  BY <1>6, <1>8, <1>9

LEMMA DestructorStep ==
    ASSUME IInv,
           \/ BeginDestructor \/ StopAsyncRequestThread \/ LockReadMutex
           \/ Join \/ JoinTimesOut \/ \E k \in Kinds : DeleteList(k)
    PROVE  IInv'
<1> USE DEF IInv
<1>1. UNCHANGED <<queue, deleted, stripped, service, thread, releases, fate, failures>>
  BY DEF BeginDestructor, StopAsyncRequestThread, LockReadMutex, Join, JoinTimesOut,
         DeleteList, requestVars, stackVars
<1>2. /\ run' \in BOOLEAN /\ lists' \subseteq Kinds
      /\ destructor' \in Kinds \cup {"none", "stop", "lock", "join", "lists", "done"}
  BY DEF BeginDestructor, StopAsyncRequestThread, LockReadMutex, Join, JoinTimesOut,
         DeleteList, TypeOK, Kinds
<1>3. TypeOK'
  BY <1>1, <1>2 DEF TypeOK
<1>4. OneQueue' /\ UnmarkedIsOpen' /\ HeldInTurn' /\ ServedIsQueued' /\ AnsweredOnce'
  BY <1>1 DEF OneQueue, Queued, UnmarkedIsOpen, HeldInTurn, ServedIsQueued, AnsweredOnce
<1> QED
  BY <1>3, <1>4

LEMMA NextInvariant == IInv /\ [Next]_vars => IInv'
<1> SUFFICES ASSUME IInv, [Next]_vars PROVE IInv'
  OBVIOUS
<1>1. CASE ServiceThread
  BY <1>1, BeginRequestStep, QueueMessageStep, UnknownSessionStep DEF ServiceThread
<1>2. CASE AsyncRequestThread
  BY <1>2, RoundStep, LockQueueStep, ProcessStep DEF AsyncRequestThread
<1>3. CASE BeginDestructor \/ Destructor
  BY <1>3, RemoveAllRequestStep, DestructorStep DEF Destructor
<1>4. CASE UNCHANGED vars
  BY <1>4 DEF IInv, TypeOK, OneQueue, Queued, UnmarkedIsOpen, HeldInTurn, ServedIsQueued,
              AnsweredOnce, vars, requestVars, sessionVars, stackVars
<1> QED
  BY <1>1, <1>2, <1>3, <1>4 DEF Next

-----------------------------------------------------------------------------
(* The invariant of the asynchronous requests holds in every state the     *)
(* service thread, AsyncRequestThread and ~CSessionServer reach.           *)
THEOREM Invariance == Spec => []IInv
BY InitInvariant, NextInvariant, PTL DEF Spec

(* No request the thread still has to serve is erased under it, by the     *)
(* sweep of a service or by the destructor.                                *)
THEOREM ServedStaysQueued == Spec => []ServedIsQueued
<1>1. IInv => ServedIsQueued
  BY DEF IInv
<1> QED
  BY <1>1, Invariance, PTL

(* The context of a request is released once, when its answer is decided.  *)
THEOREM AnsweredAtMostOnce == Spec => []AnsweredOnce
<1>1. IInv => AnsweredOnce
  BY DEF IInv
<1> QED
  BY <1>1, Invariance, PTL

(* Every step of the system answers the requests of a kind in the order in *)
(* which they were queued.                                                 *)
THEOREM InOrderOfArrival == Spec => AnsweredInOrder
<1> DEFINE InOrder ==
      \A k \in Kinds : \A q, r \in queue[k].members :
          <<q, r>> \in queue[k].before /\ fate[r] = "open" /\ fate'[r] # "open"
             => q \in deleted \/ (k = "Read" /\ q \in stripped)
<1>1. IInv /\ [Next]_vars => [InOrder]_vars
  <2> SUFFICES ASSUME IInv, Next,
                      NEW k \in Kinds, NEW q \in queue[k].members, NEW r \in queue[k].members,
                      <<q, r>> \in queue[k].before, fate[r] = "open", fate'[r] # "open"
               PROVE  q \in deleted \/ (k = "Read" /\ q \in stripped)
    OBVIOUS
  <2>1. r \in Request
    BY DEF IInv, TypeOK, OrderedSets
  <2>2. Process(r)
    <3>1. \A s \in Request : (\E j \in Kind : BeginRequest(s, j)) \/ UnknownSession(s) => fate'[r] = fate[r] \/ fate'[r] = "open"
      BY <2>1 DEF BeginRequest, UnknownSession, IInv, TypeOK
    <3>2. \A s \in Request : s # r /\ Process(s) => fate'[r] = fate[r]
      BY <2>1 DEF Process, Answer, EndSendResponseFailed, BeginSendResponseFailed, IInv, TypeOK
    <3>3. ~UNCHANGED fate
      OBVIOUS
    <3>4. \E s \in Request : \/ Process(s) \/ UnknownSession(s)
                             \/ \E j \in Kind : BeginRequest(s, j)
      BY <3>3 DEF Next, ServiceThread, AsyncRequestThread, Destructor, QueueMessage, WakeUp,
                  LockQueue, UnlockQueue, BeginDestructor, RemoveAllRequest,
                  StopAsyncRequestThread, LockReadMutex, Join, JoinTimesOut, DeleteList, stackVars
    <3>5. fate'[r] # fate[r] /\ fate'[r] # "open"
      OBVIOUS
    <3>6. PICK s \in Request : Process(s) \/ UnknownSession(s) \/ \E j \in Kind : BeginRequest(s, j)
      BY <3>4
    <3> QED
      BY <3>1, <3>2, <3>5, <3>6
  <2>3. Serving(r)
    BY <2>2 DEF Process, Answer, EndSendResponseFailed, BeginSendResponseFailed
  <2>4. thread.at = k
    BY <2>1, <2>3, ServedRequest DEF IInv, OneQueue
  <2> QED
    BY <2>1, <2>3, <2>4, ServedRequest
<1> QED
  BY <1>1, Invariance, PTL DEF Spec, AnsweredInOrder
=============================================================================
