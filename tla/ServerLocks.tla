----------------------------- MODULE ServerLocks -----------------------------
(***************************************************************************)
(* The mutexes of a session and of its subscription, and the threads that  *)
(* take them: which thread holds what while it waits for what, and which   *)
(* lists it reads or changes there.  The values are in the other modules;  *)
(* this one has the order of locks, for every operation at once.           *)
(*                                                                         *)
(* A script is what a thread does from a lock, with nothing held, to the   *)
(* unlock that leaves nothing held; an operation of several such sections  *)
(* is several scripts, which a thread runs in any order.  A script is a    *)
(* sequence of points; a point is what the thread holds and touches there. *)
(* A thread reaches the next point when nobody else holds what that point  *)
(* holds.  The mutexes of the stack can be taken again by their owner, as  *)
(* sets can.                                                               *)
(*                                                                         *)
(* A session that was deleted is followed by a new one, and the threads of *)
(* the session go on as those of the new one.  The waits for semaphores    *)
(* are timed, all of them, and left out.  So are mutexes that cannot close *)
(* a circle: m_hMutex, which is taken first; those of the other            *)
(* asynchronous requests and of one record, under which no other is taken  *)
(* and nothing of this module is touched; and that of the events engine,   *)
(* which UpdatePass holds around "events" when it notifies an event        *)
(* (SubscriptionServer.cpp 1394-1441), and which no thread takes with      *)
(* "events" held.  The data are the lists of subscriptions, publish        *)
(* requests, calls, items and events, and the map of records ("numbers");  *)
(* a read of a size is not an access.                                      *)
(***************************************************************************)
EXTENDS Sequences, Integers

CONSTANTS Methods,      \* the methods clients call
          Diagnostics   \* the server diagnostics are on (i=2294); by default they are off

ASSUME ConstantsAssumption ==
    /\ Methods \subseteq {"Lua", "Acknowledge", "GetMonitoredItems"}
    /\ Diagnostics \in BOOLEAN

Thread == {"service", "notification", "lifetime", "update", "async", "sessions"}

VARIABLES at,     \* the point each thread is at
          todo    \* the points it will go through

vars == <<at, todo>>

-----------------------------------------------------------------------------
(* Scripts.                                                                *)

Point(reads, writes) == [holds |-> {}, reads |-> reads, writes |-> writes]

Pause == Point({}, {})
Reads(d) == <<Point({d}, {})>>
Writes(d) == <<Point({}, {d})>>

(* Lock m, run the script, unlock m.  One mutex is taken at a time.        *)
With(m, script) ==
    LET inside == IF script # <<>> /\ Head(script).holds = {} THEN script ELSE <<Pause>> \o script
    IN  [i \in DOMAIN inside |-> [inside[i] EXCEPT !.holds = @ \cup {m}]]

WhenDiagnosed(script) == IF Diagnostics THEN script ELSE <<>>

(* The mutexes are named for what they protect: "sessions" is              *)
(* m_hSessionsMutex, "list" m_hSubscriptionListMutex, "publish"            *)
(* m_hPublishMutex, "call" m_hCallMutex, "cache" m_ServerCacheMutex of the *)
(* address space, "diagnostics" m_SubscriptionDiagnosticsMutex; of the     *)
(* subscription "items", "status", "events", "changes" and "numbers".      *)

-----------------------------------------------------------------------------
(* A subscription.                                                         *)

(* UpdateSubscriptionDiagnosticsDataType.                                  *)
UpdateDiagnostics == WhenDiagnosed(With("cache", <<>>))

(* RemoveInSubscriptionDiagnosticsArray, which looks for the subscription  *)
(* again, from the list of sessions on.                                    *)
RemoveDiagnostics ==
    WhenDiagnosed(
           With("diagnostics", <<>>)
        \o With("cache", With("sessions", <<>>)
                         \o With("list", Reads("subscriptions") \o With("items", <<>>))))

(* ~CSubscriptionServer.                                                   *)
DeleteSubscription ==
       With("numbers", Writes("numbers"))
    \o With("items", Writes("items"))
    \o RemoveDiagnostics
    \o With("changes", <<>>) \o With("status", <<>>)
    \o With("events", Writes("events"))
    \o With("numbers", Writes("numbers"))

(* ProcessQueuedPublishRequestEx.                                          *)
FillResponse ==
    With("items", With("status", With("events", With("changes",
        With("numbers", Reads("numbers") \o Writes("events"))))))

(* RemoveAckedDataChangeNotification and its like.                         *)
RemoveAcked ==
       With("changes", With("numbers", Writes("numbers")))
    \o With("status", <<>>)
    \o With("events", Writes("events"))

(* AckDataChangeNotification: a number it does not find makes it look at   *)
(* the three lists again, together.                                        *)
AckFound ==
       With("changes", With("numbers", Writes("numbers")))
    \o With("events", Writes("events"))
    \o With("status", <<>>)

AckUnknown ==
       AckFound
    \o With("numbers", With("events", With("status", Reads("numbers") \o Reads("events"))))

(* A pass of UpdateDataSubscriptionThread, which may notify an event; it   *)
(* then holds the mutex of the events engine around that of the events.    *)
UpdatePass ==
    {With("items", Reads("items")
        \o With("numbers", Reads("numbers") \o event \o With("status", <<>>) \o Writes("numbers")))
        : event \in {<<>>, With("events", Writes("events"))}}

-----------------------------------------------------------------------------
(* A session.                                                              *)

RemoveSubscription(last) ==
       DeleteSubscription \o Writes("subscriptions")
    \o IF last THEN With("publish", Writes("requests")) ELSE <<>>

(* ~CSessionServer.                                                        *)
DeleteSession ==
       With("list", DeleteSubscription \o Writes("subscriptions"))
    \o With("publish", Writes("requests"))
    \o With("call", Writes("calls"))
    \o UpdateDiagnostics
    \o With("publish", Writes("requests"))

(* A round of NotificationDataThread: no request, nothing to notify, or a  *)
(* response.                                                               *)
NotificationRound ==
    LET GetFirst == Reads("subscriptions") \o With("publish", Reads("requests"))
        Answer(rest) == With("publish", Reads("requests") \o FillResponse \o rest)
    IN  {With("publish", Writes("requests"))} \cup
        {With("list", round) :
            round \in {GetFirst, GetFirst \o Answer(<<>>), GetFirst \o Answer(UpdateDiagnostics \o RemoveAcked)}}

(* A round of SubscriptionsLifeTimeCountThread.                            *)
LifetimeRound ==
    {With("list", Reads("subscriptions") \o expired) :
        expired \in {<<>>, RemoveSubscription(TRUE), RemoveSubscription(FALSE)}}

(* Variant: the queue is locked before the list. *)
ProcessPublishRequestSwapped ==
    {With("publish", With("list", ack \o Writes("requests"))) : ack \in {<<>>, AckFound, AckUnknown}}

(* ProcessPublishRequest, with or without an acknowledgement: that copies  *)
(* the map of records, without its mutex, to see whether it is empty.      *)
AckPublishRequest(ack) ==
    Reads("subscriptions") \o Reads("numbers") \o UpdateDiagnostics \o ack

ProcessPublishRequest ==
    {With("publish", Writes("requests")), With("list", Reads("subscriptions") \o UpdateDiagnostics)}
    \cup {With("list", With("publish", ack \o Writes("requests"))) :
              ack \in {<<>>, AckPublishRequest(AckFound), AckPublishRequest(AckUnknown)}}

(* The services about a subscription.                                      *)
Republish ==
    With("list", Reads("subscriptions") \o With("changes", With("numbers", Reads("numbers"))))

ModifySubscription ==
    With("list", Reads("subscriptions") \o With("items", With("changes", <<>>)) \o Writes("subscriptions"))

SetPublishingMode == With("list", Reads("subscriptions") \o UpdateDiagnostics)

CreateSubscription ==
    {With("list", Writes("subscriptions")), With("list", Reads("subscriptions")),
     With("diagnostics", <<>>), With("cache", <<>>)}

DeleteSubscriptions ==
    {With("list", Reads("subscriptions") \o RemoveSubscription(last)) : last \in BOOLEAN}

(* Variant: the items are created under the mutex of the list alone. *)
CreateUnderListMutex == With("list", Reads("subscriptions") \o Writes("items"))

CreateMonitoredItems == With("list", Reads("subscriptions") \o With("items", Writes("items")))

DeleteMonitoredItems ==
    With("list", Reads("subscriptions")
        \o With("items", Writes("items") \o With("numbers", Writes("numbers"))))

SetMonitoringMode == With("list", Reads("subscriptions") \o With("items", Writes("items")))

(* QueueCallMessage, after RemoveAllCallRequestDeleted.                    *)
QueueCallMessage == With("call", Writes("calls"))

(* The methods of alarms go through the subscriptions of this session,     *)
(* then of every session; neither walk takes the mutex of the list.        *)
Method(m) ==
    CASE m = "Lua" -> <<>>
      [] m = "Acknowledge" ->
            Reads("subscriptions") \o With("events", Reads("events"))
            \o With("sessions", Reads("subscriptions") \o With("events", Writes("events")))
      [] m = "GetMonitoredItems" -> Reads("subscriptions") \o With("items", Reads("items"))

(* A round of AsyncRequestThread.                                          *)
AsyncRound == {With("call", Reads("calls") \o Method(m)) : m \in Methods}

-----------------------------------------------------------------------------
(* The server.                                                             *)

(* FindSession, with which every service begins.                           *)
FindSession == With("sessions", <<>>)

(* Server_BeginWrite, and the write that switches the diagnostics.         *)
Write == {With("cache", <<>>)} \cup
         IF Diagnostics
         THEN {With("cache", With("sessions", With("list", Reads("subscriptions") \o With("diagnostics", <<>>))))}
         ELSE {}

(* CloseSession ends its own session. *)
CloseSession == With("sessions", DeleteSession)

Service ==
    ProcessPublishRequest \cup DeleteSubscriptions \cup CreateSubscription \cup Write \cup
    {FindSession, CloseSession, Republish, ModifySubscription, SetPublishingMode,
     CreateMonitoredItems, DeleteMonitoredItems, SetMonitoringMode, QueueCallMessage}

(* A round of SessionsTimeoutThread.                                       *)
SessionsRound == {With("sessions", ended) : ended \in {<<>>, DeleteSession}}

Jobs(t) == CASE t = "service" -> Service
             [] t = "notification" -> NotificationRound
             [] t = "lifetime" -> LifetimeRound
             [] t = "update" -> UpdatePass
             [] t = "async" -> AsyncRound
             [] t = "sessions" -> SessionsRound

-----------------------------------------------------------------------------
Init == /\ at = [t \in Thread |-> Pause]
        /\ todo = [t \in Thread |-> <<>>]

(* Nobody else holds a mutex of the point.                                 *)
Free(t, point) == \A u \in Thread \ {t} : at[u].holds \cap point.holds = {}

(* A thread that holds nothing enters its next section.                    *)
Begin(t) ==
    /\ at[t] = Pause /\ todo[t] = <<>>
    /\ \E script \in Jobs(t) :
          /\ Free(t, Head(script))
          /\ at' = [at EXCEPT ![t] = Head(script)]
          /\ todo' = [todo EXCEPT ![t] = Tail(script)]

(* Before it takes a mutex, it lets go of those it needs no more.          *)
Release(t) ==
    /\ todo[t] # <<>>
    /\ LET next == Head(todo[t]).holds
       IN  /\ ~(at[t].holds \subseteq next) /\ ~(next \subseteq at[t].holds)
           /\ at' = [at EXCEPT ![t] = [Pause EXCEPT !.holds = at[t].holds \cap next]]
    /\ UNCHANGED todo

Proceed(t) ==
    /\ todo[t] # <<>>
    /\ LET next == Head(todo[t])
       IN  /\ at[t].holds \subseteq next.holds \/ next.holds \subseteq at[t].holds
           /\ Free(t, next)
           /\ at' = [at EXCEPT ![t] = next]
    /\ todo' = [todo EXCEPT ![t] = Tail(@)]

End(t) ==
    /\ todo[t] = <<>>
    /\ at[t] # Pause
    /\ at' = [at EXCEPT ![t] = Pause]
    /\ UNCHANGED todo

Next == \E t \in Thread : Begin(t) \/ Release(t) \/ Proceed(t) \/ End(t)

Spec == Init /\ [][Next]_vars

-----------------------------------------------------------------------------
(* Properties.                                                             *)

(* The thread t wants a mutex that u holds.                                *)
Blocks(u, t) == /\ todo[t] # <<>>
                /\ at[t].holds \subseteq Head(todo[t]).holds
                /\ at[u].holds \cap Head(todo[t]).holds # {}

(* No threads wait for each other, in a circle of any length, whatever     *)
(* operations of the server meet: the mutexes are taken in more than one   *)
(* order, and a third one must keep those that do so apart.                *)
NoDeadlock ==
    \A S \in (SUBSET Thread) \ {{}} : \E t \in S : \A u \in S \ {t} : ~Blocks(u, t)

(* No thread changes a list while another walks or changes it.  (The map   *)
(* of records, "numbers", is copied without its mutex: only the changes    *)
(* are kept apart.)                                                        *)
NoRace ==
    \A t, u \in Thread : t # u =>
        /\ at[t].writes \cap at[u].writes = {}
        /\ at[t].writes \cap (at[u].reads \ {"numbers"}) = {}
=============================================================================
