-------------------------- MODULE ServerLocksProofs --------------------------
(***************************************************************************)
(* The threads of a session exclude each other where they change a list    *)
(* (NoRace) and never wait for each other in a circle (NoDeadlock).        *)
(*                                                                         *)
(* Both are properties of the scripts.  A script is put together from      *)
(* shorter ones, inside the mutexes that are already held: each proof      *)
(* first shows what With and \o make of such a script, then goes through   *)
(* the operations once, then through the steps of a thread.                *)
(***************************************************************************)
EXTENDS ServerLocks, SequenceTheorems, WellFoundedInduction, TLAPS

Mutex == {"sessions", "list", "publish", "call", "cache", "diagnostics",
          "items", "status", "events", "changes", "numbers"}
List == {"subscriptions", "requests", "calls", "items", "events", "numbers"}

PointType == [holds : SUBSET Mutex, reads : SUBSET List, writes : SUBSET List]

LEMMA Names ==
    /\ "sessions" \in Mutex /\ "list" \in Mutex /\ "publish" \in Mutex /\ "call" \in Mutex
    /\ "cache" \in Mutex /\ "diagnostics" \in Mutex /\ "items" \in Mutex /\ "status" \in Mutex
    /\ "events" \in Mutex /\ "changes" \in Mutex /\ "numbers" \in Mutex
    /\ "subscriptions" \in List /\ "requests" \in List /\ "calls" \in List
    /\ "items" \in List /\ "events" \in List /\ "numbers" \in List
BY DEF Mutex, List

-----------------------------------------------------------------------------
(* Scripts as sequences.                                                   *)

Inside(s) == IF s # <<>> /\ Head(s).holds = {} THEN s ELSE <<Pause>> \o s

LEMMA PauseType == Pause \in PointType /\ Pause.holds = {} /\ Pause.reads = {} /\ Pause.writes = {}
BY DEF Pause, Point, PointType

LEMMA OnePoint ==
    ASSUME NEW p \in PointType
    PROVE  /\ <<p>> \in Seq(PointType) /\ Len(<<p>>) = 1 /\ <<p>>[1] = p
OBVIOUS

LEMMA InsideType ==
    ASSUME NEW s \in Seq(PointType)
    PROVE  /\ Inside(s) \in Seq(PointType) /\ Len(Inside(s)) \in Nat \ {0}
           /\ Inside(s)[1].holds = {}
<1>1. CASE s # <<>> /\ Head(s).holds = {}
  <2>1. Inside(s) = s /\ Len(s) \in Nat \ {0}
    BY <1>1, EmptySeq DEF Inside
  <2>2. Head(s) = s[1]
    OBVIOUS
  <2> QED
    BY <1>1, <2>1, <2>2
<1>2. CASE ~(s # <<>> /\ Head(s).holds = {})
  <2>1. Inside(s) = <<Pause>> \o s
    BY <1>2 DEF Inside
  <2>2. /\ <<Pause>> \in Seq(PointType) /\ Len(<<Pause>>) = 1 /\ <<Pause>>[1] = Pause
        /\ Len(s) \in Nat
    BY PauseType, OnePoint, LenProperties
  <2>3. /\ <<Pause>> \o s \in Seq(PointType) /\ Len(<<Pause>> \o s) = 1 + Len(s)
        /\ (<<Pause>> \o s)[1] = Pause
    BY <2>2, ConcatProperties
  <2> QED
    BY <2>1, <2>2, <2>3, PauseType
<1> QED
  BY <1>1, <1>2

(* A script under a mutex: the points of the one inside, holding it.       *)
LEMMA WithPoints ==
    ASSUME NEW m \in Mutex, NEW s \in Seq(PointType)
    PROVE  /\ With(m, s) \in Seq(PointType)
           /\ Len(With(m, s)) = Len(Inside(s)) /\ Len(With(m, s)) \in Nat \ {0}
           /\ With(m, s)[1].holds = {m}
           /\ \A j \in 1..Len(With(m, s)) :
                 /\ Inside(s)[j] \in PointType
                 /\ With(m, s)[j] = [Inside(s)[j] EXCEPT !.holds = @ \cup {m}]
                 /\ With(m, s)[j].holds = Inside(s)[j].holds \cup {m}
                 /\ With(m, s)[j].reads = Inside(s)[j].reads
                 /\ With(m, s)[j].writes = Inside(s)[j].writes
<1> DEFINE inside == Inside(s)
           w == [i \in DOMAIN inside |-> [inside[i] EXCEPT !.holds = @ \cup {m}]]
<1>1. With(m, s) = w
  BY DEF With, Inside
<1>2. /\ inside \in Seq(PointType) /\ Len(inside) \in Nat \ {0} /\ inside[1].holds = {}
      /\ DOMAIN inside = 1..Len(inside) /\ \A j \in 1..Len(inside) : inside[j] \in PointType
  BY InsideType, LenProperties
<1> HIDE DEF inside
<1>3. ASSUME NEW p \in PointType
      PROVE  /\ [p EXCEPT !.holds = @ \cup {m}] \in PointType
             /\ [p EXCEPT !.holds = @ \cup {m}].holds = p.holds \cup {m}
             /\ [p EXCEPT !.holds = @ \cup {m}].reads = p.reads
             /\ [p EXCEPT !.holds = @ \cup {m}].writes = p.writes
  BY DEF PointType
<1>4. w \in [1..Len(inside) -> PointType] /\ Len(inside) \in Nat
  BY <1>2, <1>3
<1>5. w \in Seq(PointType) /\ Len(w) = Len(inside)
  BY <1>4
<1>6. \A j \in 1..Len(inside) : w[j] = [inside[j] EXCEPT !.holds = @ \cup {m}]
  BY <1>2
<1> HIDE DEF w
<1>7. 1 \in 1..Len(inside)
  BY <1>2
<1> QED
  BY <1>1, <1>2, <1>3, <1>5, <1>6, <1>7 DEF inside

-----------------------------------------------------------------------------
(* Every list is changed under its mutex.                                  *)

Guard(d) == CASE d = "subscriptions" -> "list"
              [] d = "requests" -> "publish"
              [] d = "calls" -> "call"
              [] OTHER -> d

(* The point touches nothing whose mutex is neither in G nor held there.   *)
Guarded(G, p) == \A d \in p.writes \cup (p.reads \ {"numbers"}) : Guard(d) \in G \cup p.holds

Keeps(G, s) == s \in Seq(PointType) /\ \A j \in 1..Len(s) : Guarded(G, s[j])

LEMMA KeepsNothing == ASSUME NEW G PROVE Keeps(G, <<>>)
BY DEF Keeps

LEMMA KeepsReads == ASSUME NEW G, NEW d \in List, d = "numbers" \/ Guard(d) \in G PROVE Keeps(G, Reads(d))
<1>1. Point({d}, {}) \in PointType /\ Guarded(G, Point({d}, {}))
  BY DEF Point, PointType, Guarded
<1> QED
  BY <1>1, OnePoint DEF Reads, Keeps

LEMMA KeepsWrites == ASSUME NEW G, NEW d \in List, Guard(d) \in G PROVE Keeps(G, Writes(d))
<1> DEFINE p == Point({}, {d})
<1>1. p \in PointType /\ Guarded(G, p)
  BY DEF Point, PointType, Guarded
<1>2. Writes(d) = <<p>>
  BY DEF Writes
<1> HIDE DEF p
<1>3. <<p>> \in Seq(PointType) /\ Len(<<p>>) = 1 /\ <<p>>[1] = p
  BY <1>1, OnePoint
<1>4. \A j \in 1..Len(<<p>>) : Guarded(G, <<p>>[j])
  BY <1>1, <1>3
<1> QED
  BY <1>2, <1>3, <1>4 DEF Keeps

LEMMA KeepsBoth == ASSUME NEW G, NEW s, NEW t, Keeps(G, s), Keeps(G, t) PROVE Keeps(G, s \o t)
<1>1. s \in Seq(PointType) /\ t \in Seq(PointType) /\ Len(s) \in Nat /\ Len(t) \in Nat
  BY LenProperties DEF Keeps
<1>2. /\ s \o t \in Seq(PointType) /\ Len(s \o t) = Len(s) + Len(t)
      /\ \A j \in 1..Len(s) + Len(t) : (s \o t)[j] = IF j <= Len(s) THEN s[j] ELSE t[j - Len(s)]
  BY <1>1, ConcatProperties
<1>3. ASSUME NEW j \in 1..Len(s \o t) PROVE Guarded(G, (s \o t)[j])
  <2>1. CASE j <= Len(s)
    BY <1>1, <1>2, <2>1 DEF Keeps
  <2>2. CASE ~(j <= Len(s))
    <3>1. j - Len(s) \in 1..Len(t) /\ (s \o t)[j] = t[j - Len(s)]
      BY <1>1, <1>2, <2>2
    <3> QED
      BY <3>1 DEF Keeps
  <2> QED
    BY <2>1, <2>2
<1> QED
  BY <1>2, <1>3 DEF Keeps

LEMMA KeepsWith ==
    ASSUME NEW G, NEW m \in Mutex, NEW s, Keeps(G \cup {m}, s)
    PROVE  Keeps(G, With(m, s)) /\ With(m, s) # <<>>
<1>1. s \in Seq(PointType)
  BY DEF Keeps
<1>2. ASSUME NEW j \in 1..Len(Inside(s)) PROVE Guarded(G \cup {m}, Inside(s)[j])
  <2>1. Keeps(G \cup {m}, <<Pause>>)
    BY PauseType, OnePoint DEF Keeps, Guarded
  <2>2. Keeps(G \cup {m}, <<Pause>> \o s)
    BY <2>1, KeepsBoth
  <2>3. Keeps(G \cup {m}, Inside(s))
    BY <2>2 DEF Inside
  <2> QED
    BY <2>3 DEF Keeps
<1>3. /\ With(m, s) \in Seq(PointType) /\ Len(With(m, s)) = Len(Inside(s))
      /\ Len(With(m, s)) \in Nat \ {0}
  BY <1>1, WithPoints
<1>4. ASSUME NEW j \in 1..Len(With(m, s)) PROVE Guarded(G, With(m, s)[j])
  <2> DEFINE p == Inside(s)[j]
             q == With(m, s)[j]
  <2>1. q.holds = p.holds \cup {m} /\ q.reads = p.reads /\ q.writes = p.writes
    BY <1>1, WithPoints
  <2>2. Guarded(G \cup {m}, p)
    BY <1>2, <1>3
  <2> HIDE DEF p, q
  <2>3. Guarded(G, q)
    BY <2>1, <2>2 DEF Guarded
  <2> QED
    BY <2>3 DEF q
<1>5. With(m, s) # <<>>
  BY <1>3, EmptySeq
<1> QED
  BY <1>3, <1>4, <1>5 DEF Keeps

(* What is written or read under the mutex that guards it.                 *)
LEMMA KeepsGuarded ==
    ASSUME NEW G, NEW d \in List, NEW m \in Mutex, Guard(d) = m
    PROVE  /\ Keeps(G, With(m, Writes(d))) /\ Keeps(G, With(m, Reads(d))) /\ Keeps(G, With(m, <<>>))
<1>1. Keeps(G \cup {m}, Writes(d)) /\ Keeps(G \cup {m}, Reads(d)) /\ Keeps(G \cup {m}, <<>>)
  BY Names, KeepsWrites, KeepsReads, KeepsNothing
<1> QED
  BY <1>1, Names, KeepsWith

LEMMA KeepsTouch ==
    ASSUME NEW G
    PROVE  /\ Guard("subscriptions") = "list" /\ Guard("requests") = "publish" /\ Guard("calls") = "call"
           /\ Guard("items") = "items" /\ Guard("events") = "events" /\ Guard("numbers") = "numbers"
           /\ Keeps(G, With("numbers", Writes("numbers"))) /\ Keeps(G, With("numbers", Reads("numbers")))
           /\ Keeps(G, With("items", Writes("items"))) /\ Keeps(G, With("items", <<>>))
           /\ Keeps(G, With("events", Writes("events")))
           /\ Keeps(G, With("publish", Writes("requests"))) /\ Keeps(G, With("publish", Reads("requests")))
           /\ Keeps(G, With("call", Writes("calls"))) /\ Keeps(G, With("call", Reads("calls")))
           /\ Keeps(G, With("list", Reads("subscriptions"))) /\ Keeps(G, With("list", Writes("subscriptions")))
<1>1. /\ Guard("subscriptions") = "list" /\ Guard("requests") = "publish" /\ Guard("calls") = "call"
      /\ Guard("items") = "items" /\ Guard("events") = "events" /\ Guard("numbers") = "numbers"
  BY DEF Guard
<1> QED
  BY <1>1, Names, KeepsGuarded

LEMMA KeepsEmpty ==
    ASSUME NEW G, NEW m \in Mutex PROVE Keeps(G, With(m, <<>>))
BY KeepsNothing, KeepsWith

LEMMA KeepsUpdateDiagnostics == ASSUME NEW G PROVE Keeps(G, UpdateDiagnostics)
BY Names, KeepsNothing, KeepsEmpty DEF UpdateDiagnostics, WhenDiagnosed

LEMMA KeepsRemoveDiagnostics == ASSUME NEW G PROVE Keeps(G, RemoveDiagnostics)
<1> DEFINE walk == With("list", Reads("subscriptions") \o With("items", <<>>))
           cache == With("cache", With("sessions", <<>>) \o walk)
<1>1. Keeps((G \cup {"cache"}) \cup {"list"}, Reads("subscriptions"))
  BY Names, KeepsReads, KeepsTouch
<1>2. Keeps((G \cup {"cache"}) \cup {"list"}, Reads("subscriptions") \o With("items", <<>>))
  BY <1>1, Names, KeepsEmpty, KeepsBoth
<1>3. Keeps(G \cup {"cache"}, walk)
  BY <1>2, Names, KeepsWith
<1>4. Keeps(G \cup {"cache"}, With("sessions", <<>>) \o walk)
  BY <1>3, Names, KeepsEmpty, KeepsBoth
<1>5. Keeps(G, cache)
  BY <1>4, Names, KeepsWith
<1>6. Keeps(G, With("diagnostics", <<>>) \o cache)
  BY <1>5, Names, KeepsEmpty, KeepsBoth
<1> QED
  BY <1>6, KeepsNothing DEF RemoveDiagnostics, WhenDiagnosed

LEMMA KeepsDeleteSubscription == ASSUME NEW G PROVE Keeps(G, DeleteSubscription)
<1> DEFINE a == With("numbers", Writes("numbers"))
           b == a \o With("items", Writes("items"))
           c == b \o RemoveDiagnostics
           d == c \o With("changes", <<>>)
           e == d \o With("status", <<>>)
           f == e \o With("events", Writes("events"))
<1>1. Keeps(G, b)
  BY Names, KeepsTouch, KeepsBoth
<1>2. Keeps(G, c)
  BY <1>1, KeepsRemoveDiagnostics, KeepsBoth
<1>3. Keeps(G, d)
  BY <1>2, Names, KeepsEmpty, KeepsBoth
<1>4. Keeps(G, e)
  BY <1>3, Names, KeepsEmpty, KeepsBoth
<1>5. Keeps(G, f)
  BY <1>4, Names, KeepsTouch, KeepsBoth
<1>6. Keeps(G, f \o With("numbers", Writes("numbers")))
  BY <1>5, Names, KeepsTouch, KeepsBoth
<1>7. DeleteSubscription = f \o With("numbers", Writes("numbers"))
  BY ConcatAssociative DEF DeleteSubscription
<1> QED
  BY <1>6, <1>7

LEMMA KeepsFillResponse == ASSUME NEW G PROVE Keeps(G, FillResponse)
<1> DEFINE a == With("numbers", Reads("numbers") \o Writes("events"))
           b == With("changes", a)
           c == With("events", b)
           d == With("status", c)
           I == G \cup {"items"}
           S == I \cup {"status"}
           E == S \cup {"events"}
           C == E \cup {"changes"}
<1>1. Guard("events") \in C \cup {"numbers"}
  BY DEF Guard
<1>2. Keeps(C \cup {"numbers"}, Writes("events")) /\ Keeps(C \cup {"numbers"}, Reads("numbers"))
  BY <1>1, Names, KeepsWrites, KeepsReads
<1>3. Keeps(C, a)
  BY <1>2, Names, KeepsBoth, KeepsWith
<1>4. Keeps(E, b)
  BY <1>3, Names, KeepsWith
<1>5. Keeps(S, c)
  BY <1>4, Names, KeepsWith
<1>6. Keeps(I, d)
  BY <1>5, Names, KeepsWith
<1> QED
  BY <1>6, Names, KeepsWith DEF FillResponse

LEMMA KeepsRemoveAcked == ASSUME NEW G PROVE Keeps(G, RemoveAcked)
<1> DEFINE a == With("changes", With("numbers", Writes("numbers")))
<1>1. Keeps(G, a)
  BY Names, KeepsTouch, KeepsWith
<1>2. Keeps(G, a \o With("status", <<>>))
  BY <1>1, Names, KeepsEmpty, KeepsBoth
<1>3. Keeps(G, (a \o With("status", <<>>)) \o With("events", Writes("events")))
  BY <1>2, KeepsTouch, KeepsBoth
<1> QED
  BY <1>3 DEF RemoveAcked

LEMMA KeepsAckFound == ASSUME NEW G PROVE Keeps(G, AckFound)
<1> DEFINE a == With("changes", With("numbers", Writes("numbers")))
<1>1. Keeps(G, a)
  BY Names, KeepsTouch, KeepsWith
<1>2. Keeps(G, a \o With("events", Writes("events")))
  BY <1>1, KeepsTouch, KeepsBoth
<1>3. Keeps(G, (a \o With("events", Writes("events"))) \o With("status", <<>>))
  BY <1>2, Names, KeepsEmpty, KeepsBoth
<1> QED
  BY <1>3 DEF AckFound

LEMMA KeepsAckUnknown == ASSUME NEW G PROVE Keeps(G, AckUnknown)
<1> DEFINE N == G \cup {"numbers"}
           E == N \cup {"events"}
           S == E \cup {"status"}
           look == With("status", Reads("numbers") \o Reads("events"))
<1>1. Guard("events") \in S
  BY DEF Guard
<1>2. Keeps(S, Reads("numbers")) /\ Keeps(S, Reads("events"))
  BY <1>1, Names, KeepsReads
<1>3. Keeps(E, look)
  BY <1>2, Names, KeepsBoth, KeepsWith
<1>4. Keeps(N, With("events", look))
  BY <1>3, Names, KeepsWith
<1>5. Keeps(G, With("numbers", With("events", look)))
  BY <1>4, Names, KeepsWith
<1> QED
  BY <1>5, KeepsAckFound, KeepsBoth DEF AckUnknown

LEMMA KeepsUpdatePass == \A s \in UpdatePass : Keeps({}, s) /\ s # <<>>
<1> DEFINE I == {} \cup {"items"}
           N == I \cup {"numbers"}
<1> SUFFICES ASSUME NEW event \in {<<>>, With("events", Writes("events"))}
             PROVE  LET s == With("items", Reads("items")
                               \o With("numbers", Reads("numbers") \o event \o With("status", <<>>)
                                                  \o Writes("numbers")))
                    IN  Keeps({}, s) /\ s # <<>>
  BY DEF UpdatePass
<1>1. Keeps(N, event)
  BY KeepsNothing, KeepsTouch
<1>2. Guard("items") \in I /\ Guard("numbers") \in N
  BY DEF Guard
<1>3. Keeps(N, Reads("numbers")) /\ Keeps(N, Writes("numbers")) /\ Keeps(I, Reads("items"))
  BY <1>2, Names, KeepsReads, KeepsWrites
<1>4. Keeps(N, Reads("numbers") \o event)
  BY <1>1, <1>3, KeepsBoth
<1>5. Keeps(N, (Reads("numbers") \o event) \o With("status", <<>>))
  BY <1>4, Names, KeepsEmpty, KeepsBoth
<1>6. Keeps(N, ((Reads("numbers") \o event) \o With("status", <<>>)) \o Writes("numbers"))
  BY <1>5, <1>3, KeepsBoth
<1>7. Keeps(I, With("numbers", ((Reads("numbers") \o event) \o With("status", <<>>)) \o Writes("numbers")))
  BY <1>6, Names, KeepsWith
<1> QED
  BY <1>3, <1>7, Names, KeepsBoth, KeepsWith

LEMMA KeepsRemoveSubscription ==
    ASSUME NEW G, "list" \in G, NEW last PROVE Keeps(G, RemoveSubscription(last))
<1>1. Guard("subscriptions") \in G
  BY DEF Guard
<1>2. Keeps(G, DeleteSubscription \o Writes("subscriptions"))
  BY <1>1, Names, KeepsWrites, KeepsDeleteSubscription, KeepsBoth
<1>3. Keeps(G, IF last THEN With("publish", Writes("requests")) ELSE <<>>)
  BY KeepsTouch, KeepsNothing
<1> QED
  BY <1>2, <1>3, KeepsBoth DEF RemoveSubscription

LEMMA KeepsDeleteSession == ASSUME NEW G PROVE Keeps(G, DeleteSession)
<1> DEFINE L == G \cup {"list"}
           a == With("list", DeleteSubscription \o Writes("subscriptions"))
           b == a \o With("publish", Writes("requests"))
           c == b \o With("call", Writes("calls"))
           d == c \o UpdateDiagnostics
<1>1. Guard("subscriptions") \in L
  BY DEF Guard
<1>2. Keeps(L, DeleteSubscription \o Writes("subscriptions"))
  BY <1>1, Names, KeepsWrites, KeepsDeleteSubscription, KeepsBoth
<1>3. Keeps(G, a)
  BY <1>2, Names, KeepsWith
<1>4. Keeps(G, b)
  BY <1>3, KeepsTouch, KeepsBoth
<1>5. Keeps(G, c)
  BY <1>4, KeepsTouch, KeepsBoth
<1>6. Keeps(G, d)
  BY <1>5, KeepsUpdateDiagnostics, KeepsBoth
<1>7. Keeps(G, d \o With("publish", Writes("requests")))
  BY <1>6, KeepsTouch, KeepsBoth
<1> QED
  BY <1>7 DEF DeleteSession

(* What a thread may run: it is never empty.                               *)
Guards(jobs) == \A s \in jobs : Keeps({}, s) /\ s # <<>>

LEMMA KeepsWalk == Keeps({"list"}, Reads("subscriptions")) /\ Keeps({"list"}, Writes("subscriptions"))
<1>1. Guard("subscriptions") \in {"list"}
  BY DEF Guard
<1> QED
  BY <1>1, Names, KeepsReads, KeepsWrites

LEMMA KeepsUnderList ==
    ASSUME NEW s, Keeps({"list"}, s) PROVE Keeps({}, With("list", s)) /\ With("list", s) # <<>>
<1>1. Keeps({} \cup {"list"}, s)
  OBVIOUS
<1> QED
  BY <1>1, Names, KeepsWith

LEMMA KeepsNotificationRound == Guards(NotificationRound)
<1> DEFINE P == {"list"} \cup {"publish"}
           GetFirst == Reads("subscriptions") \o With("publish", Reads("requests"))
           Answer(rest) == With("publish", Reads("requests") \o FillResponse \o rest)
<1>1. Guard("requests") \in P
  BY DEF Guard
<1>2. Keeps(P, Reads("requests") \o FillResponse)
  BY <1>1, Names, KeepsReads, KeepsFillResponse, KeepsBoth
<1>3. ASSUME NEW rest, Keeps(P, rest) PROVE Keeps({"list"}, GetFirst \o Answer(rest))
  <2>1. Keeps(P, (Reads("requests") \o FillResponse) \o rest)
    BY <1>2, <1>3, KeepsBoth
  <2>2. Keeps({"list"}, Answer(rest))
    BY <2>1, Names, KeepsWith
  <2>3. Keeps({"list"}, GetFirst)
    BY KeepsWalk, KeepsTouch, KeepsBoth
  <2> HIDE DEF GetFirst, Answer
  <2> QED
    BY <2>2, <2>3, KeepsBoth
<1>4. Keeps(P, UpdateDiagnostics \o RemoveAcked)
  BY KeepsUpdateDiagnostics, KeepsRemoveAcked, KeepsBoth
<1>5. Keeps({"list"}, GetFirst)
  BY KeepsWalk, KeepsTouch, KeepsBoth
<1>6. Keeps({"list"}, GetFirst \o Answer(<<>>))
  BY <1>3, KeepsNothing
<1>7. Keeps({"list"}, GetFirst \o Answer(UpdateDiagnostics \o RemoveAcked))
  BY <1>3, <1>4
<1>8. Keeps({}, With("publish", Writes("requests"))) /\ With("publish", Writes("requests")) # <<>>
  <2>1. Guard("requests") \in {} \cup {"publish"}
    BY DEF Guard
  <2> QED
    BY <2>1, Names, KeepsWrites, KeepsWith
<1>9. NotificationRound = {With("publish", Writes("requests"))} \cup
        {With("list", round) :
            round \in {GetFirst, GetFirst \o Answer(<<>>), GetFirst \o Answer(UpdateDiagnostics \o RemoveAcked)}}
  BY DEF NotificationRound
<1> HIDE DEF GetFirst, Answer
<1> QED
  BY <1>5, <1>6, <1>7, <1>8, <1>9, KeepsUnderList DEF Guards

LEMMA KeepsLifetimeRound == Guards(LifetimeRound)
<1>1. ASSUME NEW expired \in {<<>>, RemoveSubscription(TRUE), RemoveSubscription(FALSE)}
      PROVE  Keeps({"list"}, Reads("subscriptions") \o expired)
  <2>1. Keeps({"list"}, expired)
    BY KeepsNothing, KeepsRemoveSubscription
  <2> QED
    BY <2>1, KeepsWalk, KeepsBoth
<1> QED
  BY <1>1, KeepsUnderList DEF LifetimeRound, Guards

LEMMA KeepsProcessPublishRequest == Guards(ProcessPublishRequest)
<1> DEFINE P == {"list"} \cup {"publish"}
<1>1. Guard("requests") \in P /\ Guard("subscriptions") \in P /\ Guard("requests") \in {} \cup {"publish"}
  BY DEF Guard
<1>2. Keeps(P, Writes("requests")) /\ Keeps(P, Reads("subscriptions")) /\ Keeps(P, Reads("numbers"))
  BY <1>1, Names, KeepsWrites, KeepsReads
<1>3. ASSUME NEW ack, Keeps(P, ack) PROVE Keeps(P, AckPublishRequest(ack))
  <2>1. Keeps(P, Reads("subscriptions") \o Reads("numbers"))
    BY <1>2, KeepsBoth
  <2>2. Keeps(P, (Reads("subscriptions") \o Reads("numbers")) \o UpdateDiagnostics)
    BY <2>1, KeepsUpdateDiagnostics, KeepsBoth
  <2>3. Keeps(P, ((Reads("subscriptions") \o Reads("numbers")) \o UpdateDiagnostics) \o ack)
    BY <2>2, <1>3, KeepsBoth
  <2> QED
    BY <2>3 DEF AckPublishRequest
<1>4. ASSUME NEW ack \in {<<>>, AckPublishRequest(AckFound), AckPublishRequest(AckUnknown)}
      PROVE  Keeps({"list"}, With("publish", ack \o Writes("requests")))
  <2>1. Keeps(P, ack)
    BY <1>3, KeepsNothing, KeepsAckFound, KeepsAckUnknown
  <2>2. Keeps(P, ack \o Writes("requests"))
    BY <2>1, <1>2, KeepsBoth
  <2> QED
    BY <2>2, Names, KeepsWith
<1>5. Keeps({}, With("publish", Writes("requests"))) /\ With("publish", Writes("requests")) # <<>>
  BY <1>1, Names, KeepsWrites, KeepsWith
<1>6. Keeps({"list"}, Reads("subscriptions") \o UpdateDiagnostics)
  BY KeepsWalk, KeepsUpdateDiagnostics, KeepsBoth
<1> QED
  BY <1>4, <1>5, <1>6, KeepsUnderList DEF ProcessPublishRequest, Guards

LEMMA KeepsServices ==
    /\ Guards(DeleteSubscriptions) /\ Guards(CreateSubscription)
    /\ Guards({FindSession, Republish, ModifySubscription, SetPublishingMode,
               CreateMonitoredItems, DeleteMonitoredItems, SetMonitoringMode, QueueCallMessage})
<1> DEFINE I == {"list"} \cup {"items"}
<1>1. Guards(DeleteSubscriptions)
  <2>1. ASSUME NEW last \in BOOLEAN PROVE Keeps({"list"}, Reads("subscriptions") \o RemoveSubscription(last))
    BY KeepsWalk, KeepsRemoveSubscription, KeepsBoth
  <2> QED
    BY <2>1, KeepsUnderList DEF DeleteSubscriptions, Guards
<1>2. ASSUME NEW m \in Mutex PROVE Keeps({}, With(m, <<>>)) /\ With(m, <<>>) # <<>>
  BY KeepsNothing, KeepsWith
<1>3. Guards(CreateSubscription)
  BY <1>2, Names, KeepsWalk, KeepsUnderList DEF CreateSubscription, Guards
<1>4. Keeps({"list"}, Reads("subscriptions") \o With("changes", With("numbers", Reads("numbers"))))
  BY Names, KeepsWalk, KeepsTouch, KeepsWith, KeepsBoth
<1>5. Keeps({"list"}, Reads("subscriptions") \o With("items", With("changes", <<>>)) \o Writes("subscriptions"))
  <2>1. Keeps({"list"}, With("items", With("changes", <<>>)))
    BY Names, KeepsEmpty, KeepsWith
  <2>2. Keeps({"list"}, Reads("subscriptions") \o With("items", With("changes", <<>>)))
    BY <2>1, KeepsWalk, KeepsBoth
  <2> QED
    BY <2>2, KeepsWalk, KeepsBoth
<1>6. Keeps({"list"}, Reads("subscriptions") \o UpdateDiagnostics)
  BY KeepsWalk, KeepsUpdateDiagnostics, KeepsBoth
<1>7. Keeps({"list"}, Reads("subscriptions") \o With("items", Writes("items")))
  BY KeepsWalk, KeepsTouch, KeepsBoth
<1>8. Keeps({"list"}, Reads("subscriptions") \o With("items", Writes("items") \o With("numbers", Writes("numbers"))))
  <2>1. Guard("items") \in I
    BY DEF Guard
  <2>2. Keeps(I, Writes("items") \o With("numbers", Writes("numbers")))
    BY <2>1, Names, KeepsWrites, KeepsTouch, KeepsBoth
  <2>3. Keeps({"list"}, With("items", Writes("items") \o With("numbers", Writes("numbers"))))
    BY <2>2, Names, KeepsWith
  <2> QED
    BY <2>3, KeepsWalk, KeepsBoth
<1>9. Keeps({}, QueueCallMessage) /\ QueueCallMessage # <<>>
  <2>1. Guard("calls") \in {} \cup {"call"}
    BY DEF Guard
  <2> QED
    BY <2>1, Names, KeepsWrites, KeepsWith DEF QueueCallMessage
<1> QED
  BY <1>1, <1>2, <1>3, <1>4, <1>5, <1>6, <1>7, <1>8, <1>9, Names, KeepsUnderList
     DEF Guards, FindSession, Republish, ModifySubscription, SetPublishingMode,
         CreateMonitoredItems, DeleteMonitoredItems, SetMonitoringMode

LEMMA KeepsServer == Guards(Write) /\ Guards({CloseSession}) /\ Guards(SessionsRound)
<1> DEFINE C == {} \cup {"cache"}
           S == C \cup {"sessions"}
           walk == With("list", Reads("subscriptions") \o With("diagnostics", <<>>))
<1>1. Guard("subscriptions") \in S \cup {"list"}
  BY DEF Guard
<1>2. Keeps(S \cup {"list"}, Reads("subscriptions") \o With("diagnostics", <<>>))
  BY <1>1, Names, KeepsReads, KeepsEmpty, KeepsBoth
<1>3. Keeps(S, walk)
  BY <1>2, Names, KeepsWith
<1>4. Keeps(C, With("sessions", walk))
  BY <1>3, Names, KeepsWith
<1>5. Keeps({}, With("cache", With("sessions", walk))) /\ With("cache", With("sessions", walk)) # <<>>
  BY <1>4, Names, KeepsWith
<1>6. Keeps({}, With("cache", <<>>)) /\ With("cache", <<>>) # <<>>
  BY Names, KeepsNothing, KeepsWith
<1>7. Guards(Write)
  BY <1>5, <1>6 DEF Write, Guards
<1>8. ASSUME NEW ended \in {<<>>, DeleteSession}
      PROVE  Keeps({}, With("sessions", ended)) /\ With("sessions", ended) # <<>>
  <2>1. Keeps({} \cup {"sessions"}, ended)
    BY KeepsNothing, KeepsDeleteSession
  <2> QED
    BY <2>1, Names, KeepsWith
<1> QED
  BY <1>7, <1>8 DEF SessionsRound, CloseSession, Guards

LEMMA KeepsAsyncRound == ASSUME Methods \subseteq {"Lua"} PROVE Guards(AsyncRound)
<1>1. Guard("calls") \in {} \cup {"call"} /\ Method("Lua") = <<>>
  BY DEF Guard, Method
<1>2. Keeps({} \cup {"call"}, Reads("calls") \o <<>>)
  BY <1>1, Names, KeepsReads, KeepsNothing, KeepsBoth
<1>3. Keeps({}, With("call", Reads("calls") \o <<>>)) /\ With("call", Reads("calls") \o <<>>) # <<>>
  BY <1>2, Names, KeepsWith
<1> QED
  BY <1>1, <1>3 DEF AsyncRound, Guards

LEMMA KeepsJobs ==
    ASSUME Methods \subseteq {"Lua"}, NEW t \in Thread PROVE Guards(Jobs(t))
<1>1. Guards(Service)
  BY KeepsProcessPublishRequest, KeepsServices, KeepsServer DEF Service, Guards
<1>2. Guards(UpdatePass)
  BY KeepsUpdatePass DEF Guards
<1> QED
  BY <1>1, <1>2, KeepsNotificationRound, KeepsLifetimeRound, KeepsAsyncRound, KeepsServer DEF Jobs, Thread

-----------------------------------------------------------------------------
(* The steps of a thread.                                                  *)

Typed == at \in [Thread -> PointType] /\ todo \in [Thread -> Seq(PointType)]

Excluded == \A t, u \in Thread : t # u => at[t].holds \cap at[u].holds = {}

JobsTyped == \A t \in Thread : \A s \in Jobs(t) : s \in Seq(PointType) /\ s # <<>>

Partly(t) == [Pause EXCEPT !.holds = at[t].holds \cap Head(todo[t]).holds]

LEMMA PartlyType ==
    ASSUME Typed, NEW t \in Thread, todo[t] # <<>>
    PROVE  /\ Partly(t) \in PointType /\ Partly(t).holds = at[t].holds \cap Head(todo[t]).holds
           /\ Partly(t).reads = {} /\ Partly(t).writes = {}
<1>1. at[t] \in PointType /\ Head(todo[t]) \in PointType
  BY HeadTailProperties DEF Typed
<1> QED
  BY <1>1, PauseType DEF Partly, PointType

(* One thread moves, to a point that nobody else keeps it from.            *)
LEMMA Moves ==
    ASSUME Typed, Excluded, JobsTyped, Next
    PROVE  \E t \in Thread :
             /\ Typed' /\ Excluded'
             /\ \A u \in Thread \ {t} : at'[u] = at[u] /\ todo'[u] = todo[u]
             /\ \/ at[t] = Pause /\ \E s \in Jobs(t) : at'[t] = Head(s) /\ todo'[t] = Tail(s)
                \/ todo[t] # <<>> /\ at'[t] = Partly(t) /\ todo'[t] = todo[t]
                   /\ ~(at[t].holds \subseteq Head(todo[t]).holds)
                   /\ ~(Head(todo[t]).holds \subseteq at[t].holds)
                \/ todo[t] # <<>> /\ at'[t] = Head(todo[t]) /\ todo'[t] = Tail(todo[t])
                \/ todo[t] = <<>> /\ at'[t] = Pause /\ todo'[t] = todo[t]
<1> USE DEF Typed
<1>1. PICK t \in Thread : Begin(t) \/ Release(t) \/ Proceed(t) \/ End(t)
  BY DEF Next
<1> DEFINE Exact == \A u \in Thread \ {t} : at'[u] = at[u] /\ todo'[u] = todo[u]
<1>6. ASSUME Exact, Free(t, at'[t]) PROVE Excluded'
  <2> SUFFICES ASSUME NEW v \in Thread, NEW u \in Thread, v # u PROVE at'[v].holds \cap at'[u].holds = {}
    BY DEF Excluded
  <2>1. CASE v = t
    BY <1>6, <2>1 DEF Free
  <2>2. CASE u = t
    BY <1>6, <2>2 DEF Free
  <2>3. CASE v # t /\ u # t
    BY <1>6, <2>3 DEF Excluded
  <2> QED
    BY <2>1, <2>2, <2>3
<1>2. CASE Begin(t)
  <2>1. PICK s \in Jobs(t) : /\ Free(t, Head(s)) /\ at' = [at EXCEPT ![t] = Head(s)]
                             /\ todo' = [todo EXCEPT ![t] = Tail(s)] /\ at[t] = Pause
    BY <1>2 DEF Begin
  <2>2. Head(s) \in PointType /\ Tail(s) \in Seq(PointType)
    BY HeadTailProperties DEF JobsTyped
  <2>3. Typed' /\ at'[t] = Head(s) /\ todo'[t] = Tail(s)
        /\ Exact
    BY <2>1, <2>2
  <2> QED
    BY <2>1, <2>3, <1>6
<1>3. CASE Release(t)
  <2>1. /\ todo[t] # <<>> /\ at' = [at EXCEPT ![t] = Partly(t)] /\ todo' = todo
        /\ ~(at[t].holds \subseteq Head(todo[t]).holds)
        /\ ~(Head(todo[t]).holds \subseteq at[t].holds)
    BY <1>3 DEF Release, Partly
  <2>2. Partly(t) \in PointType
    BY <2>1, PartlyType
  <2>3. Typed' /\ at'[t] = Partly(t) /\ Exact
    BY <2>1, <2>2
  <2>4. Free(t, Partly(t))
    BY <2>1, PartlyType DEF Free, Excluded
  <2> QED
    BY <2>1, <2>3, <2>4, <1>6
<1>4. CASE Proceed(t)
  <2>1. /\ todo[t] # <<>> /\ Free(t, Head(todo[t])) /\ at' = [at EXCEPT ![t] = Head(todo[t])]
        /\ todo' = [todo EXCEPT ![t] = Tail(todo[t])]
    BY <1>4 DEF Proceed
  <2>2. Head(todo[t]) \in PointType /\ Tail(todo[t]) \in Seq(PointType)
    BY <2>1, HeadTailProperties
  <2>3. Typed' /\ at'[t] = Head(todo[t]) /\ todo'[t] = Tail(todo[t])
        /\ Exact
    BY <2>1, <2>2
  <2> QED
    BY <2>1, <2>3, <1>6
<1>5. CASE End(t)
  <2>1. todo[t] = <<>> /\ at' = [at EXCEPT ![t] = Pause] /\ todo' = todo
    BY <1>5 DEF End
  <2>2. Typed' /\ at'[t] = Pause /\ Exact
    BY <2>1, PauseType
  <2> QED
    BY <2>1, <2>2, <1>6, PauseType DEF Free
<1> QED
  BY <1>1, <1>2, <1>3, <1>4, <1>5
-----------------------------------------------------------------------------
LInv == /\ Typed /\ Excluded
        /\ \A t \in Thread : Guarded({}, at[t]) /\ Keeps({}, todo[t])

LEMMA LInvStep ==
    ASSUME Methods \subseteq {"Lua"}, LInv, [Next]_vars PROVE LInv'
<1>1. CASE UNCHANGED vars
  BY <1>1 DEF vars, LInv, Typed, Excluded
<1>2. CASE Next
  <2>1. JobsTyped
    BY KeepsJobs DEF JobsTyped, Guards, Keeps
  <2>2. PICK t \in Thread : 
             /\ Typed' /\ Excluded'
             /\ \A u \in Thread \ {t} : at'[u] = at[u] /\ todo'[u] = todo[u]
             /\ \/ at[t] = Pause /\ \E s \in Jobs(t) : at'[t] = Head(s) /\ todo'[t] = Tail(s)
                \/ todo[t] # <<>> /\ at'[t] = Partly(t) /\ todo'[t] = todo[t]
                \/ todo[t] # <<>> /\ at'[t] = Head(todo[t]) /\ todo'[t] = Tail(todo[t])
                \/ todo[t] = <<>> /\ at'[t] = Pause /\ todo'[t] = todo[t]
    BY <1>2, <2>1, Moves DEF LInv
  <2>3. ASSUME NEW s, Keeps({}, s), s # <<>> PROVE Guarded({}, Head(s)) /\ Keeps({}, Tail(s))
    <3>1. s \in Seq(PointType)
      BY <2>3 DEF Keeps
    <3>2. Len(s) \in Nat \ {0} /\ Tail(s) \in Seq(PointType) /\ Len(Tail(s)) = Len(s) - 1
          /\ \A j \in 1..Len(Tail(s)) : Tail(s)[j] = s[j + 1]
      BY <2>3, <3>1, HeadTailProperties, EmptySeq
    <3>3. Head(s) = s[1]
      OBVIOUS
    <3> QED
      BY <2>3, <3>2, <3>3 DEF Keeps
  <2>4. Guarded({}, at'[t]) /\ Keeps({}, todo'[t])
    <3>1. CASE at[t] = Pause /\ \E s \in Jobs(t) : at'[t] = Head(s) /\ todo'[t] = Tail(s)
      BY <2>3, <3>1, KeepsJobs DEF Guards
    <3>2. CASE todo[t] # <<>> /\ at'[t] = Partly(t) /\ todo'[t] = todo[t]
      BY <3>2, PartlyType DEF LInv, Guarded
    <3>3. CASE todo[t] # <<>> /\ at'[t] = Head(todo[t]) /\ todo'[t] = Tail(todo[t])
      BY <2>3, <3>3 DEF LInv
    <3>4. CASE todo[t] = <<>> /\ at'[t] = Pause /\ todo'[t] = todo[t]
      BY <3>4, PauseType DEF LInv, Guarded
    <3> QED
      BY <2>2, <3>1, <3>2, <3>3, <3>4
  <2> QED
    BY <2>2, <2>4 DEF LInv
<1> QED
  BY <1>1, <1>2

LEMMA LInvExcludes == ASSUME LInv PROVE NoRace
<1> SUFFICES ASSUME NEW t \in Thread, NEW u \in Thread, t # u,
                    NEW d, d \in at[t].writes, d \in at[u].writes \cup (at[u].reads \ {"numbers"})
             PROVE  FALSE
  BY DEF NoRace
<1>1. Guard(d) \in at[t].holds /\ Guard(d) \in at[u].holds
  BY DEF LInv, Guarded
<1> QED
  BY <1>1 DEF LInv, Excluded

(* No thread changes a list of the session or of its subscriptions while   *)
(* another one walks or changes it, with or without the diagnostics, as    *)
(* long as the methods that clients call are those of scripts.  What it    *)
(* rests on is that every access stands under the mutex of its list.       *)
THEOREM ListsAreNotChangedWhileWalked ==
    ASSUME Methods \subseteq {"Lua"} PROVE Spec => []NoRace
<1>1. Init => LInv
  <2> SUFFICES ASSUME Init PROVE LInv
    OBVIOUS
  <2>1. Typed /\ \A t \in Thread : at[t] = Pause /\ todo[t] = <<>>
    BY PauseType DEF Init, Typed
  <2> QED
    BY <2>1, PauseType, KeepsNothing DEF LInv, Excluded, Guarded
<1>2. LInv /\ [Next]_vars => LInv'
  BY LInvStep
<1>3. LInv => NoRace
  BY LInvExcludes
<1> QED
  BY <1>1, <1>2, <1>3, PTL DEF Spec

-----------------------------------------------------------------------------
(* The mutexes are taken in an order, except inside the mutexes of the     *)
(* list and of the items together, where those of Chain are taken in       *)
(* another one; and those of Chain are taken inside one of the two.        *)

Outer == {"list", "items"}
Chain == {"status", "events", "changes", "numbers"}

Rank(m) == CASE m = "sessions" -> 0
             [] m = "list" -> 1
             [] m = "publish" -> 2
             [] m = "call" -> 3
             [] m = "items" -> 4
             [] m = "changes" -> 5
             [] m = "numbers" -> 6
             [] m = "events" -> 7
             [] m = "status" -> 8
             [] OTHER -> 9

Nested(held) == held \cap Chain # {} => held \cap Outer # {}

Ordered(held, wanted) ==
    IF Outer \subseteq held THEN wanted \subseteq Chain
    ELSE \A m \in wanted, h \in held : Rank(h) < Rank(m)

(* From a point that holds "from" to one that holds "to".                  *)
Passes(from, to) == Nested(from \cap to) /\ Ordered(from \cap to, to \ from)

Enters(G, m) == Nested(G \cup {m}) /\ (m \in G \/ Ordered(G, {m}))

(* The script, under the mutexes of G, takes the others in order.          *)
Follows(G, s) ==
    /\ s \in Seq(PointType)
    /\ \A j \in 1..Len(s) : Nested(G \cup s[j].holds)
    /\ \A j \in 1..Len(s) - 1 : Passes(G \cup s[j].holds, G \cup s[j + 1].holds)
    /\ s # <<>> => \/ s[1].holds = {}
                   \/ \E m \in Mutex : s[1].holds = {m} /\ Enters(G, m)

LEMMA FollowsNothing == ASSUME NEW G PROVE Follows(G, <<>>)
BY DEF Follows

LEMMA FollowsOne == ASSUME NEW G, Nested(G), NEW p \in PointType, p.holds = {} PROVE Follows(G, <<p>>)
<1>1. <<p>> \in Seq(PointType) /\ Len(<<p>>) = 1 /\ <<p>>[1] = p
  BY OnePoint
<1>2. G \cup p.holds = G
  OBVIOUS
<1>3. ASSUME NEW j \in 1..Len(<<p>>) PROVE Nested(G \cup <<p>>[j].holds)
  <2>1. j = 1
    BY <1>1
  <2>2. G \cup <<p>>[j].holds = G
    BY <2>1, <1>1, <1>2
  <2> QED
    BY <2>2
<1>4. \A j \in 1..Len(<<p>>) - 1 : FALSE
  BY <1>1
<1> QED
  BY <1>1, <1>3, <1>4 DEF Follows

LEMMA FollowsTouch ==
    ASSUME NEW G, Nested(G), NEW d \in List
    PROVE  Follows(G, Reads(d)) /\ Follows(G, Writes(d)) /\ Follows(G, <<Pause>>)
<1> DEFINE r == Point({d}, {})
           w == Point({}, {d})
<1>1. r \in PointType /\ r.holds = {} /\ w \in PointType /\ w.holds = {}
  BY DEF Point, PointType
<1>2. Reads(d) = <<r>> /\ Writes(d) = <<w>>
  BY DEF Reads, Writes
<1> HIDE DEF r, w
<1> QED
  BY <1>1, <1>2, FollowsOne, PauseType

(* Into the first point of what comes next, whatever is held before it.    *)
LEMMA PassesInto ==
    ASSUME NEW G, Nested(G), NEW from, NEW first,
           first = {} \/ \E m \in Mutex : first = {m} /\ Enters(G, m)
    PROVE  Passes(G \cup from, G \cup first)
<1>1. CASE first = {}
  <2>1. (G \cup from) \cap (G \cup first) = G /\ (G \cup first) \ (G \cup from) = {}
    BY <1>1
  <2>2. Ordered(G, {})
    BY DEF Ordered
  <2> QED
    BY <2>1, <2>2 DEF Passes
<1>2. ASSUME NEW m \in Mutex, first = {m}, Enters(G, m) PROVE Passes(G \cup from, G \cup first)
  <2>1. CASE m \in G
    <3>1. (G \cup from) \cap (G \cup first) = G /\ (G \cup first) \ (G \cup from) = {}
      BY <1>2, <2>1
    <3>2. Ordered(G, {})
      BY DEF Ordered
    <3> QED
      BY <3>1, <3>2 DEF Passes
  <2>2. CASE m \notin G /\ m \in from
    <3>1. (G \cup from) \cap (G \cup first) = G \cup {m} /\ (G \cup first) \ (G \cup from) = {}
      BY <1>2, <2>2
    <3>2. Ordered(G \cup {m}, {})
      BY DEF Ordered
    <3> QED
      BY <3>1, <3>2, <1>2 DEF Passes, Enters
  <2>3. CASE m \notin G /\ m \notin from
    <3>1. (G \cup from) \cap (G \cup first) = G /\ (G \cup first) \ (G \cup from) = {m}
      BY <1>2, <2>3
    <3> QED
      BY <3>1, <2>3, <1>2 DEF Passes, Enters
  <2> QED
    BY <2>1, <2>2, <2>3
<1> QED
  BY <1>1, <1>2

LEMMA FollowsBoth ==
    ASSUME NEW G, Nested(G), NEW s, NEW t, Follows(G, s), Follows(G, t) PROVE Follows(G, s \o t)
<1> DEFINE j0 == Len(s)
<1>1. s \in Seq(PointType) /\ t \in Seq(PointType) /\ Len(s) \in Nat /\ Len(t) \in Nat
  BY LenProperties DEF Follows
<1>2. /\ s \o t \in Seq(PointType) /\ Len(s \o t) = Len(s) + Len(t)
      /\ \A j \in 1..Len(s) + Len(t) : (s \o t)[j] = IF j <= Len(s) THEN s[j] ELSE t[j - Len(s)]
  BY <1>1, ConcatProperties
<1>3. CASE s = <<>>
  BY <1>1, <1>3, ConcatEmptySeq
<1>4. CASE t = <<>>
  BY <1>1, <1>4, ConcatEmptySeq
<1>5. CASE s # <<>> /\ t # <<>>
  <2>1. Len(s) > 0 /\ Len(t) > 0
    BY <1>1, <1>5, EmptySeq
  <2> DEFINE st == s \o t
  <2>2. /\ Len(st) = Len(s) + Len(t) /\ st \in Seq(PointType)
        /\ \A j \in 1..Len(s) : st[j] = s[j]
        /\ \A j \in Len(s) + 1 .. Len(s) + Len(t) : st[j] = t[j - Len(s)]
    BY <1>1, <1>2
  <2> HIDE DEF st
  <2>3. ASSUME NEW j \in 1..Len(st) PROVE Nested(G \cup st[j].holds)
    <3>1. CASE j <= Len(s)
      <4>1. j \in 1..Len(s) /\ st[j] = s[j]
        BY <2>2, <3>1
      <4> QED
        BY <4>1 DEF Follows
    <3>2. CASE ~(j <= Len(s))
      <4>1. j - Len(s) \in 1..Len(t) /\ st[j] = t[j - Len(s)]
        BY <1>1, <2>2, <3>2
      <4> QED
        BY <4>1 DEF Follows
    <3> QED
      BY <3>1, <3>2
  <2>4. ASSUME NEW j \in 1..Len(st) - 1 PROVE Passes(G \cup st[j].holds, G \cup st[j + 1].holds)
    <3>1. CASE j < Len(s)
      <4>1. j \in 1..Len(s) - 1 /\ st[j] = s[j] /\ st[j + 1] = s[j + 1]
        BY <1>1, <2>2, <3>1
      <4> QED
        BY <4>1 DEF Follows
    <3>2. CASE j = Len(s)
      <4>1. st[j + 1] = t[1]
        BY <1>1, <2>1, <2>2, <3>2
      <4>2. t[1].holds = {} \/ \E m \in Mutex : t[1].holds = {m} /\ Enters(G, m)
        BY <1>5 DEF Follows
      <4> QED
        BY <4>1, <4>2, PassesInto
    <3>3. CASE j > Len(s)
      <4> DEFINE i == j - Len(s)
      <4>1. i \in 1..Len(t) - 1 /\ st[j] = t[i] /\ st[j + 1] = t[i + 1]
        <5>1. i \in 1..Len(t) - 1 /\ j \in Len(s) + 1 .. Len(s) + Len(t)
              /\ j + 1 \in Len(s) + 1 .. Len(s) + Len(t) /\ (j + 1) - Len(s) = i + 1
          BY <1>1, <2>2, <3>3
        <5> QED
          BY <5>1, <2>2
      <4> HIDE DEF i
      <4> QED
        BY <4>1 DEF Follows
    <3> QED
      BY <1>1, <2>2, <3>1, <3>2, <3>3
  <2>5. st[1] = s[1]
    BY <1>1, <2>1, <2>2
  <2>6. s[1].holds = {} \/ \E m \in Mutex : s[1].holds = {m} /\ Enters(G, m)
    BY <1>5 DEF Follows
  <2> QED
    BY <2>2, <2>3, <2>4, <2>5, <2>6 DEF Follows, st
<1> QED
  BY <1>3, <1>4, <1>5

LEMMA FollowsWith ==
    ASSUME NEW G, NEW m \in Mutex, Enters(G, m), NEW s, Follows(G \cup {m}, s)
    PROVE  Follows(G, With(m, s)) /\ With(m, s) # <<>>
<1> DEFINE M == G \cup {m}
           w == With(m, s)
           inside == Inside(s)
<1>1. s \in Seq(PointType) /\ Nested(M)
  BY DEF Follows, Enters
<1>2. Follows(M, inside)
  <2>1. "items" \in List
    BY Names
  <2>2. Follows(M, <<Pause>>)
    BY <1>1, <2>1, FollowsTouch
  <2>3. Follows(M, <<Pause>> \o s)
    BY <1>1, <2>2, FollowsBoth
  <2> QED
    BY <2>3 DEF Inside
<1>3. /\ w \in Seq(PointType) /\ Len(w) = Len(inside) /\ Len(w) \in Nat \ {0} /\ w[1].holds = {m}
      /\ \A j \in 1..Len(w) : w[j].holds = inside[j].holds \cup {m}
  BY <1>1, WithPoints
<1> HIDE DEF w, inside
<1>4. \A j \in 1..Len(w) : G \cup w[j].holds = M \cup inside[j].holds
  BY <1>3
<1> HIDE DEF M
<1>5. \A j \in 1..Len(w) : Nested(G \cup w[j].holds)
  BY <1>2, <1>3, <1>4 DEF Follows
<1>6. ASSUME NEW j \in 1..Len(w) - 1 PROVE Passes(G \cup w[j].holds, G \cup w[j + 1].holds)
  <2>1. j \in 1..Len(w) /\ j + 1 \in 1..Len(w) /\ j \in 1..Len(inside) - 1
    BY <1>3
  <2>2. Passes(M \cup inside[j].holds, M \cup inside[j + 1].holds)
    BY <1>2, <2>1 DEF Follows
  <2> QED
    BY <1>4, <2>1, <2>2
<1>7. w # <<>>
  BY <1>3, EmptySeq
<1> QED
  BY <1>3, <1>5, <1>6, <1>7 DEF Follows, w

LEMMA Ranks ==
    /\ Rank("sessions") = 0 /\ Rank("list") = 1 /\ Rank("publish") = 2 /\ Rank("call") = 3
    /\ Rank("items") = 4 /\ Rank("changes") = 5 /\ Rank("numbers") = 6 /\ Rank("events") = 7
    /\ Rank("status") = 8 /\ \A m \in Mutex : Rank(m) \in 0..9
<1>1. /\ Rank("sessions") = 0 /\ Rank("list") = 1 /\ Rank("publish") = 2 /\ Rank("call") = 3
      /\ Rank("items") = 4 /\ Rank("changes") = 5 /\ Rank("numbers") = 6 /\ Rank("events") = 7
      /\ Rank("status") = 8 /\ Rank("cache") = 9 /\ Rank("diagnostics") = 9
  BY DEF Rank
<1> QED
  BY <1>1 DEF Mutex

(* A mutex that ranks above all that is held.                              *)
LEMMA EntersByRank ==
    ASSUME NEW G, NEW m \in Mutex, \A h \in G : Rank(h) < Rank(m),
           \/ m \in Chain /\ G \cap Outer # {}
           \/ m \notin Chain /\ Nested(G) /\ ~(Outer \subseteq G)
    PROVE  Enters(G, m)
<1>1. Nested(G \cup {m})
  BY DEF Nested
<1>2. Ordered(G, {m})
  BY DEF Ordered
<1> QED
  BY <1>1, <1>2 DEF Enters

(* What is held when the subscriptions of a session are gone through.      *)
Listed(G) == G \subseteq {"sessions", "list", "publish"} /\ "list" \in G

LEMMA EntersListed ==
    ASSUME NEW G, Listed(G)
    PROVE  /\ Nested(G) /\ Enters(G, "items") /\ Enters(G, "changes") /\ Enters(G, "numbers")
           /\ Enters(G, "events") /\ Enters(G, "status")
           /\ Enters(G \cup {"changes"}, "numbers") /\ Nested(G \cup {"items"})
<1>1. \A h \in G : Rank(h) <= 2
  BY Ranks DEF Listed
<1>2. Nested(G) /\ Nested(G \cup {"items"}) /\ G \cap Outer # {} /\ ~(Outer \subseteq G)
  BY DEF Nested, Listed, Outer, Chain
<1>3. \A h \in G : Rank(h) \in Int
  BY Ranks DEF Listed
<1>4. /\ \A h \in G : Rank(h) < Rank("items") /\ Rank(h) < Rank("changes") /\ Rank(h) < Rank("numbers")
                       /\ Rank(h) < Rank("events") /\ Rank(h) < Rank("status")
      /\ Rank("changes") < Rank("numbers")
  BY <1>1, <1>3, Ranks
<1>5. "items" \notin Chain /\ "changes" \in Chain /\ "numbers" \in Chain /\ "events" \in Chain /\ "status" \in Chain
  BY DEF Chain
<1>6. Enters(G, "items")
  BY <1>2, <1>4, <1>5, Names, EntersByRank
<1>7. Enters(G, "changes") /\ Enters(G, "numbers") /\ Enters(G, "events") /\ Enters(G, "status")
  BY <1>2, <1>4, <1>5, Names, EntersByRank
<1>8. Enters(G \cup {"changes"}, "numbers")
  <2>1. (G \cup {"changes"}) \cap Outer # {} /\ \A h \in G \cup {"changes"} : Rank(h) < Rank("numbers")
    BY <1>2, <1>4
  <2> QED
    BY <2>1, <1>5, Names, EntersByRank
<1> QED
  BY <1>2, <1>6, <1>7, <1>8

(* Inside the two outer mutexes those of Chain come in any order.          *)
LEMMA EntersGated ==
    ASSUME NEW G, "list" \in G, "items" \in G, NEW m \in Chain
    PROVE  Nested(G) /\ Enters(G, m)
<1>1. Nested(G) /\ Nested(G \cup {m}) /\ Outer \subseteq G
  BY DEF Nested, Outer
<1> QED
  BY <1>1 DEF Enters, Ordered

LEMMA FollowsTouching ==
    ASSUME NEW G, NEW m \in Mutex, Enters(G, m), NEW d \in List
    PROVE  /\ Follows(G, With(m, Writes(d))) /\ Follows(G, With(m, Reads(d))) /\ Follows(G, With(m, <<>>))
           /\ With(m, Writes(d)) # <<>> /\ With(m, <<>>) # <<>>
<1>1. Nested(G \cup {m})
  BY DEF Enters
<1>2. Follows(G \cup {m}, Writes(d)) /\ Follows(G \cup {m}, Reads(d)) /\ Follows(G \cup {m}, <<>>)
  BY <1>1, FollowsTouch, FollowsNothing
<1> QED
  BY <1>2, FollowsWith

LEMMA NoDiagnostics == ASSUME ~Diagnostics PROVE UpdateDiagnostics = <<>> /\ RemoveDiagnostics = <<>>
BY DEF UpdateDiagnostics, RemoveDiagnostics, WhenDiagnosed

LEMMA FollowsDeleteSubscription ==
    ASSUME ~Diagnostics, NEW G, Listed(G) PROVE Follows(G, DeleteSubscription)
<1> DEFINE a == With("numbers", Writes("numbers"))
           b == a \o With("items", Writes("items"))
           c == b \o RemoveDiagnostics
           d == c \o With("changes", <<>>)
           e == d \o With("status", <<>>)
           f == e \o With("events", Writes("events"))
<1> USE EntersListed
<1>1. Nested(G) /\ Follows(G, a) /\ Follows(G, With("items", Writes("items")))
  BY Names, FollowsTouching
<1>2. Follows(G, b)
  BY <1>1, FollowsBoth
<1>3. Follows(G, c)
  BY <1>1, <1>2, NoDiagnostics, FollowsNothing, FollowsBoth
<1>4. Follows(G, With("changes", <<>>)) /\ Follows(G, With("status", <<>>)) /\ Follows(G, With("events", Writes("events")))
  BY Names, FollowsTouching
<1>5. Follows(G, d)
  BY <1>1, <1>3, <1>4, FollowsBoth
<1>6. Follows(G, e)
  BY <1>1, <1>5, <1>4, FollowsBoth
<1>7. Follows(G, f)
  BY <1>1, <1>6, <1>4, FollowsBoth
<1>8. Follows(G, f \o a)
  BY <1>1, <1>7, FollowsBoth
<1> QED
  BY <1>8 DEF DeleteSubscription

LEMMA FollowsFillResponse == ASSUME NEW G, Listed(G) PROVE Follows(G, FillResponse)
<1> DEFINE I == G \cup {"items"}
           S == I \cup {"status"}
           E == S \cup {"events"}
           C == E \cup {"changes"}
           a == With("numbers", Reads("numbers") \o Writes("events"))
           b == With("changes", a)
           c == With("events", b)
           d == With("status", c)
<1>1. "status" \in Chain /\ "events" \in Chain /\ "changes" \in Chain /\ "numbers" \in Chain
  BY DEF Chain
<1>2. "list" \in I /\ "items" \in I /\ "list" \in S /\ "items" \in S /\ "list" \in E /\ "items" \in E
      /\ "list" \in C /\ "items" \in C
  BY DEF Listed
<1>3. Enters(I, "status") /\ Enters(S, "events") /\ Enters(E, "changes") /\ Enters(C, "numbers")
      /\ Nested(C \cup {"numbers"})
  BY <1>1, <1>2, EntersGated DEF Enters
<1> HIDE DEF C
<1>4. Follows(C \cup {"numbers"}, Reads("numbers") \o Writes("events"))
  BY <1>3, Names, FollowsTouch, FollowsBoth
<1>5. Follows(C, a)
  BY <1>3, <1>4, Names, FollowsWith
<1> HIDE DEF a, E
<1>6. Follows(E, b)
  BY <1>3, <1>5, Names, FollowsWith DEF C
<1> HIDE DEF b, S
<1>7. Follows(S, c)
  BY <1>3, <1>6, Names, FollowsWith DEF E
<1> HIDE DEF c, I
<1>8. Follows(I, d)
  BY <1>3, <1>7, Names, FollowsWith DEF S
<1> HIDE DEF d
<1>9. Follows(G, With("items", d))
  BY <1>8, Names, EntersListed, FollowsWith DEF I
<1> QED
  BY <1>9 DEF FillResponse, a, b, c, d

LEMMA FollowsAcknowledged ==
    ASSUME NEW G, Listed(G)
    PROVE  Follows(G, RemoveAcked) /\ Follows(G, AckFound) /\ Follows(G, AckUnknown)
<1> DEFINE a == With("changes", With("numbers", Writes("numbers")))
           N == G \cup {"numbers"}
           E == N \cup {"events"}
           look == With("status", Reads("numbers") \o Reads("events"))
<1>1. Follows(G \cup {"changes"}, With("numbers", Writes("numbers")))
  BY Names, EntersListed, FollowsTouching
<1>2. Nested(G) /\ Follows(G, a)
  BY <1>1, Names, EntersListed, FollowsWith
<1>3. Follows(G, With("status", <<>>)) /\ Follows(G, With("events", Writes("events")))
  BY Names, EntersListed, FollowsTouching
<1> HIDE DEF a
<1>4. Follows(G, (a \o With("status", <<>>)) \o With("events", Writes("events")))
  <2>1. Follows(G, a \o With("status", <<>>))
    BY <1>2, <1>3, FollowsBoth
  <2> QED
    BY <2>1, <1>2, <1>3, FollowsBoth
<1>5. Follows(G, (a \o With("events", Writes("events"))) \o With("status", <<>>))
  <2>1. Follows(G, a \o With("events", Writes("events")))
    BY <1>2, <1>3, FollowsBoth
  <2> QED
    BY <2>1, <1>2, <1>3, FollowsBoth
<1>6. Enters(N, "events") /\ Enters(E, "status")
  <2>1. /\ \A h \in G : Rank(h) <= 2 /\ Rank(h) \in Int
        /\ Rank("numbers") = 6 /\ Rank("events") = 7 /\ Rank("status") = 8
    BY Ranks DEF Listed
  <2>2. \A h \in N : Rank(h) < Rank("events")
    BY <2>1
  <2>3. \A h \in E : Rank(h) < Rank("status")
    BY <2>1
  <2>4. N \cap Outer # {} /\ E \cap Outer # {} /\ "events" \in Chain /\ "status" \in Chain
    BY DEF Listed, Outer, Chain
  <2> HIDE DEF N, E
  <2> QED
    BY <2>2, <2>3, <2>4, Names, EntersByRank
<1>7. Nested(E \cup {"status"})
  BY <1>6 DEF Enters
<1>8. Follows(E \cup {"status"}, Reads("numbers") \o Reads("events"))
  BY <1>7, Names, FollowsTouch, FollowsBoth
<1> HIDE DEF E
<1>9. Follows(E, look)
  BY <1>6, <1>8, Names, FollowsWith
<1> HIDE DEF look
<1>10. Follows(N, With("events", look))
  BY <1>6, <1>9, Names, FollowsWith DEF E
<1>11. Follows(G, With("numbers", With("events", look)))
  BY <1>10, Names, EntersListed, FollowsWith
<1>12. Follows(G, AckFound)
  BY <1>5 DEF AckFound, a
<1>13. Follows(G, AckUnknown)
  BY <1>2, <1>11, <1>12, FollowsBoth DEF AckUnknown, look
<1> QED
  BY <1>4, <1>12, <1>13 DEF RemoveAcked, a

LEMMA EntersFirst ==
    ASSUME NEW m \in Mutex \ Chain PROVE Enters({}, m) /\ Nested({})
<1>1. Nested({}) /\ ~(Outer \subseteq {}) /\ \A h \in {} : Rank(h) < Rank(m)
  BY DEF Nested, Outer
<1> QED
  BY <1>1, EntersByRank

LEMMA EntersMore ==
    /\ Listed({"list"}) /\ Listed({"list", "publish"}) /\ Listed({"sessions", "list"})
    /\ Enters({"list"}, "publish")
    /\ Nested({"sessions"}) /\ Enters({"sessions"}, "list") /\ Enters({"sessions"}, "publish")
    /\ Enters({"sessions"}, "call") /\ Enters({"call"}, "items")
    /\ Enters({"items"}, "numbers") /\ Enters({"items", "numbers"}, "events")
    /\ Enters({"items", "numbers"}, "status") /\ Enters({"list", "items"}, "changes")
    /\ Enters({"list", "items"}, "numbers")
<1>1. Listed({"list"}) /\ Listed({"list", "publish"}) /\ Listed({"sessions", "list"})
  BY DEF Listed
<1>2. /\ Nested({"list"}) /\ Nested({"sessions"}) /\ Nested({"call"})
      /\ ~(Outer \subseteq {"list"}) /\ ~(Outer \subseteq {"sessions"}) /\ ~(Outer \subseteq {"call"})
      /\ {"items"} \cap Outer # {} /\ {"items", "numbers"} \cap Outer # {}
      /\ "publish" \notin Chain /\ "list" \notin Chain /\ "call" \notin Chain /\ "items" \notin Chain
      /\ "numbers" \in Chain /\ "events" \in Chain /\ "status" \in Chain /\ "changes" \in Chain
  BY DEF Nested, Outer, Chain
<1>3. Enters({"list"}, "publish")
  <2>1. \A h \in {"list"} : Rank(h) < Rank("publish")
    BY Ranks
  <2> QED
    BY <1>2, <2>1, Names, EntersByRank
<1>4. Enters({"sessions"}, "list") /\ Enters({"sessions"}, "publish") /\ Enters({"sessions"}, "call")
  <2>1. \A h \in {"sessions"} : Rank(h) < Rank("list") /\ Rank(h) < Rank("publish") /\ Rank(h) < Rank("call")
    BY Ranks
  <2> QED
    BY <1>2, <2>1, Names, EntersByRank
<1>5. Enters({"call"}, "items")
  <2>1. \A h \in {"call"} : Rank(h) < Rank("items")
    BY Ranks
  <2> QED
    BY <1>2, <2>1, Names, EntersByRank
<1>6. Enters({"items"}, "numbers")
  <2>1. \A h \in {"items"} : Rank(h) < Rank("numbers")
    BY Ranks
  <2> QED
    BY <1>2, <2>1, Names, EntersByRank
<1>7. Enters({"items", "numbers"}, "events") /\ Enters({"items", "numbers"}, "status")
  <2>1. \A h \in {"items", "numbers"} : Rank(h) < Rank("events") /\ Rank(h) < Rank("status")
    BY Ranks
  <2> QED
    BY <1>2, <2>1, Names, EntersByRank
<1>8. Enters({"list", "items"}, "changes") /\ Enters({"list", "items"}, "numbers")
  <2>1. "list" \in {"list", "items"} /\ "items" \in {"list", "items"}
    OBVIOUS
  <2> QED
    BY <1>2, <2>1, EntersGated
<1> QED
  BY <1>1, <1>2, <1>3, <1>4, <1>5, <1>6, <1>7, <1>8

LEMMA Sets ==
    /\ {} \cup {"list"} = {"list"} /\ {} \cup {"sessions"} = {"sessions"} /\ {} \cup {"items"} = {"items"}
    /\ {} \cup {"call"} = {"call"} /\ {} \cup {"publish"} = {"publish"} /\ {} \cup {"cache"} = {"cache"}
    /\ {"list"} \cup {"publish"} = {"list", "publish"} /\ {"sessions"} \cup {"list"} = {"sessions", "list"}
    /\ {"items"} \cup {"numbers"} = {"items", "numbers"} /\ {"list"} \cup {"items"} = {"list", "items"}
    /\ \A m \in {"list", "sessions", "items", "call", "publish", "cache", "diagnostics"} : m \in Mutex \ Chain
BY DEF Mutex, Chain

(* What a thread may run, from a state in which it holds nothing.          *)
InOrderOfLocks(jobs) == \A s \in jobs : Follows({}, s) /\ s # <<>>

LEMMA FollowsUnderList ==
    ASSUME NEW s, Follows({"list"}, s) PROVE Follows({}, With("list", s)) /\ With("list", s) # <<>>
<1>1. Enters({}, "list") /\ Follows({} \cup {"list"}, s)
  BY Sets, EntersFirst
<1> QED
  BY <1>1, Names, FollowsWith

LEMMA FollowsWalk ==
    /\ Nested({"list"}) /\ Nested({"list", "publish"})
    /\ Follows({"list"}, Reads("subscriptions")) /\ Follows({"list"}, Writes("subscriptions"))
    /\ Follows({"list"}, With("publish", Reads("requests")))
    /\ Follows({"list"}, With("publish", Writes("requests")))
<1>1. Nested({"list"}) /\ Nested({"list", "publish"}) /\ Enters({"list"}, "publish")
  BY EntersMore, EntersListed
<1> QED
  BY <1>1, Names, FollowsTouch, FollowsTouching

LEMMA FollowsAlone ==
    ASSUME NEW m \in {"list", "sessions", "items", "call", "publish", "cache", "diagnostics"}, NEW d \in List
    PROVE  /\ Follows({}, With(m, Writes(d))) /\ With(m, Writes(d)) # <<>>
           /\ Follows({}, With(m, <<>>)) /\ With(m, <<>>) # <<>>
<1>1. m \in Mutex /\ Enters({}, m)
  BY Sets, EntersFirst
<1> QED
  BY <1>1, FollowsTouching

LEMMA FollowsUpdatePass == InOrderOfLocks(UpdatePass)
<1> DEFINE N == {"items", "numbers"}
           pass(event) == ((Reads("numbers") \o event) \o With("status", <<>>)) \o Writes("numbers")
<1>1. Enters({}, "items") /\ Nested({"items"}) /\ Nested(N)
  BY EntersFirst, EntersMore, Sets DEF Enters
<1>2. Follows(N, Reads("numbers")) /\ Follows(N, Writes("numbers")) /\ Follows({"items"}, Reads("items"))
  BY <1>1, Names, FollowsTouch
<1>3. Follows(N, With("status", <<>>)) /\ Follows(N, With("events", Writes("events")))
  BY EntersMore, Names, FollowsTouching
<1> HIDE DEF N
<1>4. ASSUME NEW event \in {<<>>, With("events", Writes("events"))}
      PROVE  LET s == With("items", Reads("items") \o With("numbers", pass(event)))
             IN  Follows({}, s) /\ s # <<>>
  <2>1. Follows(N, Reads("numbers") \o event)
    BY <1>1, <1>2, <1>3, FollowsNothing, FollowsBoth
  <2>2. Follows(N, (Reads("numbers") \o event) \o With("status", <<>>))
    BY <1>1, <1>3, <2>1, FollowsBoth
  <2>3. Follows(N, pass(event))
    BY <1>1, <1>2, <2>2, FollowsBoth
  <2> HIDE DEF pass
  <2>4. Follows({"items"}, With("numbers", pass(event)))
    BY <2>3, EntersMore, Sets, Names, FollowsWith DEF N
  <2>5. Follows({} \cup {"items"}, Reads("items") \o With("numbers", pass(event)))
    BY <1>1, <1>2, <2>4, Sets, FollowsBoth
  <2> QED
    BY <1>1, <2>5, Names, FollowsWith
<1> QED
  BY <1>4 DEF UpdatePass, InOrderOfLocks

LEMMA FollowsRemoveSubscription ==
    ASSUME ~Diagnostics, NEW last PROVE Follows({"list"}, Reads("subscriptions") \o RemoveSubscription(last))
<1>1. Follows({"list"}, DeleteSubscription)
  BY EntersMore, FollowsDeleteSubscription
<1>2. Follows({"list"}, DeleteSubscription \o Writes("subscriptions"))
  BY <1>1, FollowsWalk, FollowsBoth
<1>3. Follows({"list"}, IF last THEN With("publish", Writes("requests")) ELSE <<>>)
  BY FollowsWalk, FollowsNothing
<1>4. Follows({"list"}, RemoveSubscription(last))
  BY <1>2, <1>3, FollowsWalk, FollowsBoth DEF RemoveSubscription
<1> QED
  BY <1>4, FollowsWalk, FollowsBoth

LEMMA FollowsNotificationRound == ASSUME ~Diagnostics PROVE InOrderOfLocks(NotificationRound)
<1> DEFINE P == {"list", "publish"}
           GetFirst == Reads("subscriptions") \o With("publish", Reads("requests"))
           Answer(rest) == With("publish", (Reads("requests") \o FillResponse) \o rest)
<1>1. Nested(P) /\ Listed(P)
  BY FollowsWalk, EntersMore
<1>2. Follows(P, Reads("requests")) /\ Follows(P, FillResponse)
  BY <1>1, Names, FollowsTouch, FollowsFillResponse
<1>3. Follows(P, Reads("requests") \o FillResponse)
  BY <1>1, <1>2, FollowsBoth
<1>4. Follows({"list"}, GetFirst)
  BY FollowsWalk, FollowsBoth
<1>5. ASSUME NEW rest, Follows(P, rest) PROVE Follows({"list"}, GetFirst \o Answer(rest))
  <2>1. Follows(P, (Reads("requests") \o FillResponse) \o rest)
    BY <1>1, <1>3, <1>5, FollowsBoth
  <2>2. Follows({"list"}, Answer(rest))
    BY <2>1, Names, Sets, EntersMore, FollowsWith
  <2> HIDE DEF GetFirst, Answer
  <2> QED
    BY <1>4, <2>2, FollowsWalk, FollowsBoth
<1>6. Follows(P, UpdateDiagnostics \o RemoveAcked)
  BY <1>1, NoDiagnostics, FollowsNothing, FollowsAcknowledged, FollowsBoth
<1>7. Follows({"list"}, GetFirst \o Answer(<<>>))
  BY <1>5, FollowsNothing
<1>8. Follows({"list"}, GetFirst \o Answer(UpdateDiagnostics \o RemoveAcked))
  BY <1>5, <1>6
<1>9. Follows({}, With("publish", Writes("requests"))) /\ With("publish", Writes("requests")) # <<>>
  BY Names, FollowsAlone
<1>10. NotificationRound = {With("publish", Writes("requests"))} \cup
        {With("list", round) :
            round \in {GetFirst, GetFirst \o Answer(<<>>), GetFirst \o Answer(UpdateDiagnostics \o RemoveAcked)}}
  BY DEF NotificationRound
<1> HIDE DEF GetFirst, Answer
<1> QED
  BY <1>4, <1>7, <1>8, <1>9, <1>10, FollowsUnderList DEF InOrderOfLocks

LEMMA FollowsLifetimeRound == ASSUME ~Diagnostics PROVE InOrderOfLocks(LifetimeRound)
<1>1. ASSUME NEW expired \in {<<>>, RemoveSubscription(TRUE), RemoveSubscription(FALSE)}
      PROVE  Follows({"list"}, Reads("subscriptions") \o expired)
  BY FollowsWalk, FollowsNothing, FollowsBoth, FollowsRemoveSubscription
<1> QED
  BY <1>1, FollowsUnderList DEF LifetimeRound, InOrderOfLocks

LEMMA FollowsProcessPublishRequest == ASSUME ~Diagnostics PROVE InOrderOfLocks(ProcessPublishRequest)
<1> DEFINE P == {"list", "publish"}
<1>1. Nested(P) /\ Listed(P)
  BY FollowsWalk, EntersMore
<1>2. Follows(P, Writes("requests")) /\ Follows(P, Reads("subscriptions")) /\ Follows(P, Reads("numbers"))
  BY <1>1, Names, FollowsTouch
<1>3. ASSUME NEW ack, Follows(P, ack) PROVE Follows(P, AckPublishRequest(ack))
  <2>1. Follows(P, Reads("subscriptions") \o Reads("numbers"))
    BY <1>1, <1>2, FollowsBoth
  <2>2. Follows(P, (Reads("subscriptions") \o Reads("numbers")) \o UpdateDiagnostics)
    BY <1>1, <2>1, NoDiagnostics, FollowsNothing, FollowsBoth
  <2>3. Follows(P, ((Reads("subscriptions") \o Reads("numbers")) \o UpdateDiagnostics) \o ack)
    BY <1>1, <2>2, <1>3, FollowsBoth
  <2> QED
    BY <2>3 DEF AckPublishRequest
<1>4. ASSUME NEW ack \in {<<>>, AckPublishRequest(AckFound), AckPublishRequest(AckUnknown)}
      PROVE  Follows({"list"}, With("publish", ack \o Writes("requests")))
  <2>1. Follows(P, ack)
    BY <1>1, <1>3, FollowsNothing, FollowsAcknowledged
  <2>2. Follows(P, ack \o Writes("requests"))
    BY <1>1, <2>1, <1>2, FollowsBoth
  <2> QED
    BY <2>2, Names, Sets, EntersMore, FollowsWith
<1>5. Follows({}, With("publish", Writes("requests"))) /\ With("publish", Writes("requests")) # <<>>
  BY Names, FollowsAlone
<1>6. Follows({"list"}, Reads("subscriptions") \o UpdateDiagnostics)
  BY FollowsWalk, NoDiagnostics, FollowsNothing, FollowsBoth
<1> QED
  BY <1>4, <1>5, <1>6, FollowsUnderList DEF ProcessPublishRequest, InOrderOfLocks

LEMMA FollowsServices ==
    ASSUME ~Diagnostics
    PROVE  /\ InOrderOfLocks(DeleteSubscriptions) /\ InOrderOfLocks(CreateSubscription)
           /\ InOrderOfLocks({FindSession, Republish, ModifySubscription, SetPublishingMode,
                       CreateMonitoredItems, DeleteMonitoredItems, SetMonitoringMode, QueueCallMessage})
<1> DEFINE LI == {"list", "items"}
<1>1. InOrderOfLocks(DeleteSubscriptions)
  <2>1. ASSUME NEW last \in BOOLEAN
        PROVE  Follows({"list"}, Reads("subscriptions") \o RemoveSubscription(last))
    BY FollowsRemoveSubscription
  <2> QED
    BY <2>1, FollowsUnderList DEF DeleteSubscriptions, InOrderOfLocks
<1>2. /\ Follows({}, With("sessions", <<>>)) /\ With("sessions", <<>>) # <<>>
      /\ Follows({}, With("cache", <<>>)) /\ With("cache", <<>>) # <<>>
      /\ Follows({}, With("diagnostics", <<>>)) /\ With("diagnostics", <<>>) # <<>>
      /\ Follows({}, With("call", Writes("calls"))) /\ With("call", Writes("calls")) # <<>>
  BY Names, FollowsAlone
<1>3. InOrderOfLocks(CreateSubscription)
  BY <1>2, FollowsWalk, FollowsUnderList DEF CreateSubscription, InOrderOfLocks
<1>4. Follows({"list"}, Reads("subscriptions") \o With("changes", With("numbers", Reads("numbers"))))
  <2>1. Enters({"list"}, "changes") /\ Enters({"list"} \cup {"changes"}, "numbers")
    BY EntersMore, EntersListed
  <2>2. Follows({"list"} \cup {"changes"}, With("numbers", Reads("numbers")))
    BY <2>1, Names, FollowsTouching
  <2>3. Follows({"list"}, With("changes", With("numbers", Reads("numbers"))))
    BY <2>1, <2>2, Names, FollowsWith
  <2> QED
    BY <2>3, FollowsWalk, FollowsBoth
<1>5. Enters({"list"}, "items") /\ Nested(LI)
  BY EntersMore, EntersListed, Sets DEF Enters
<1>6. Follows({"list"}, Reads("subscriptions") \o With("items", With("changes", <<>>)) \o Writes("subscriptions"))
  <2>1. Follows(LI, With("changes", <<>>))
    BY EntersMore, Names, FollowsTouching
  <2>2. Follows({"list"}, With("items", With("changes", <<>>)))
    BY <1>5, <2>1, Sets, Names, FollowsWith
  <2>3. Follows({"list"}, Reads("subscriptions") \o With("items", With("changes", <<>>)))
    BY <2>2, FollowsWalk, FollowsBoth
  <2> QED
    BY <2>3, FollowsWalk, FollowsBoth
<1>7. Follows({"list"}, Reads("subscriptions") \o UpdateDiagnostics)
  BY FollowsWalk, NoDiagnostics, FollowsNothing, FollowsBoth
<1>8. Follows({"list"}, Reads("subscriptions") \o With("items", Writes("items")))
  <2>1. Follows({"list"}, With("items", Writes("items")))
    BY <1>5, Names, FollowsTouching
  <2> QED
    BY <2>1, FollowsWalk, FollowsBoth
<1>9. Follows({"list"}, Reads("subscriptions") \o With("items", Writes("items") \o With("numbers", Writes("numbers"))))
  <2>1. Follows(LI, Writes("items")) /\ Follows(LI, With("numbers", Writes("numbers")))
    BY <1>5, EntersMore, Names, FollowsTouch, FollowsTouching
  <2>2. Follows(LI, Writes("items") \o With("numbers", Writes("numbers")))
    BY <1>5, <2>1, FollowsBoth
  <2>3. Follows({"list"}, With("items", Writes("items") \o With("numbers", Writes("numbers"))))
    BY <1>5, <2>2, Sets, Names, FollowsWith
  <2> QED
    BY <2>3, FollowsWalk, FollowsBoth
<1> QED
  BY <1>1, <1>2, <1>3, <1>4, <1>6, <1>7, <1>8, <1>9, FollowsUnderList
     DEF InOrderOfLocks, FindSession, Republish, ModifySubscription, SetPublishingMode,
         CreateMonitoredItems, DeleteMonitoredItems, SetMonitoringMode, QueueCallMessage

LEMMA FollowsDeleteSession == ASSUME ~Diagnostics PROVE Follows({"sessions"}, DeleteSession)
<1> DEFINE G == {"sessions"}
           L == {"sessions", "list"}
           a == With("list", DeleteSubscription \o Writes("subscriptions"))
           b == a \o With("publish", Writes("requests"))
           c == b \o With("call", Writes("calls"))
           d == c \o UpdateDiagnostics
<1>1. Nested(G) /\ Listed(L) /\ Nested(L)
  BY EntersMore, EntersListed
<1>2. Follows(L, DeleteSubscription) /\ Follows(L, Writes("subscriptions"))
  BY <1>1, Names, FollowsDeleteSubscription, FollowsTouch
<1>3. Follows(L, DeleteSubscription \o Writes("subscriptions"))
  BY <1>1, <1>2, FollowsBoth
<1>4. Follows(G, a)
  BY <1>3, Sets, EntersMore, Names, FollowsWith
<1>5. Follows(G, With("publish", Writes("requests"))) /\ Follows(G, With("call", Writes("calls")))
  BY EntersMore, Names, FollowsTouching
<1> HIDE DEF G
<1>6. Follows(G, b)
  BY <1>1, <1>4, <1>5, FollowsBoth
<1>7. Follows(G, c)
  BY <1>1, <1>6, <1>5, FollowsBoth
<1>8. Follows(G, d)
  BY <1>1, <1>7, NoDiagnostics, FollowsNothing, FollowsBoth
<1>9. Follows(G, d \o With("publish", Writes("requests")))
  BY <1>1, <1>8, <1>5, FollowsBoth
<1> QED
  BY <1>9 DEF DeleteSession, G

LEMMA FollowsServer ==
    ASSUME ~Diagnostics
    PROVE  InOrderOfLocks(Write) /\ InOrderOfLocks({CloseSession}) /\ InOrderOfLocks(SessionsRound)
<1>1. Follows({}, With("cache", <<>>)) /\ With("cache", <<>>) # <<>>
  BY Names, FollowsAlone
<1>2. ASSUME NEW ended \in {<<>>, DeleteSession}
      PROVE  Follows({}, With("sessions", ended)) /\ With("sessions", ended) # <<>>
  <2>1. Follows({} \cup {"sessions"}, ended) /\ Enters({}, "sessions")
    BY Sets, FollowsNothing, FollowsDeleteSession, EntersFirst
  <2> QED
    BY <2>1, Names, FollowsWith
<1> QED
  BY <1>1, <1>2 DEF Write, SessionsRound, CloseSession, InOrderOfLocks

LEMMA FollowsAsyncRound ==
    ASSUME "Acknowledge" \notin Methods PROVE InOrderOfLocks(AsyncRound)
<1> DEFINE C == {"call"}
<1>1. /\ Method("Lua") = <<>>
      /\ Method("GetMonitoredItems") = Reads("subscriptions") \o With("items", Reads("items"))
  BY DEF Method
<1>2. Enters({}, "call") /\ Nested(C)
  BY EntersFirst, Sets DEF Enters
<1>3. Follows(C, Reads("subscriptions")) /\ Follows(C, Reads("calls")) /\ Follows(C, With("items", Reads("items")))
  BY <1>2, Names, EntersMore, FollowsTouch, FollowsTouching
<1>4. Follows(C, Reads("subscriptions") \o With("items", Reads("items")))
  BY <1>2, <1>3, FollowsBoth
<1>5. ASSUME NEW m \in {"Lua", "GetMonitoredItems"}
      PROVE  Follows({}, With("call", Reads("calls") \o Method(m))) /\ With("call", Reads("calls") \o Method(m)) # <<>>
  <2>1. Follows(C, Method(m))
    BY <1>1, <1>4, FollowsNothing
  <2>2. Follows({} \cup {"call"}, Reads("calls") \o Method(m))
    BY <1>2, <1>3, <2>1, Sets, FollowsBoth
  <2> QED
    BY <1>2, <2>2, Names, FollowsWith
<1>6. Methods \subseteq {"Lua", "GetMonitoredItems"}
  BY ConstantsAssumption
<1> QED
  BY <1>5, <1>6 DEF AsyncRound, InOrderOfLocks

LEMMA FollowsJobs ==
    ASSUME ~Diagnostics, "Acknowledge" \notin Methods, NEW t \in Thread PROVE InOrderOfLocks(Jobs(t))
<1>1. InOrderOfLocks(Service)
  BY FollowsProcessPublishRequest, FollowsServices, FollowsServer DEF Service, InOrderOfLocks
<1> QED
  BY <1>1, FollowsUpdatePass, FollowsNotificationRound, FollowsLifetimeRound, FollowsAsyncRound, FollowsServer
     DEF Jobs, Thread

-----------------------------------------------------------------------------
(* What each thread holds, and what it takes next, is in order.            *)
CInv == /\ Typed /\ Excluded
        /\ \A t \in Thread :
              /\ Nested(at[t].holds)
              /\ todo[t] # <<>> => Passes(at[t].holds, Head(todo[t]).holds)
              /\ \A j \in 1..Len(todo[t]) : Nested(todo[t][j].holds)
              /\ \A j \in 1..Len(todo[t]) - 1 : Passes(todo[t][j].holds, todo[t][j + 1].holds)

Runs(now, script) ==
    /\ Nested(now)
    /\ script # <<>> => Passes(now, Head(script).holds)
    /\ \A j \in 1..Len(script) : Nested(script[j].holds)
    /\ \A j \in 1..Len(script) - 1 : Passes(script[j].holds, script[j + 1].holds)

LEMMA CInvRuns == CInv <=> Typed /\ Excluded /\ \A t \in Thread : Runs(at[t].holds, todo[t])
BY DEF CInv, Runs

LEMMA RunsOn ==
    ASSUME NEW s \in Seq(PointType), s # <<>>,
           \A j \in 1..Len(s) : Nested(s[j].holds),
           \A j \in 1..Len(s) - 1 : Passes(s[j].holds, s[j + 1].holds)
    PROVE  Runs(Head(s).holds, Tail(s))
<1> DEFINE r == Tail(s)
<1>1. /\ Len(s) \in Nat \ {0} /\ r \in Seq(PointType) /\ Len(r) = Len(s) - 1
      /\ \A j \in 1..Len(r) : r[j] = s[j + 1]
  BY HeadTailProperties, EmptySeq
<1>2. Head(s) = s[1]
  OBVIOUS
<1> HIDE DEF r
<1>3. Nested(Head(s).holds)
  BY <1>1, <1>2
<1>4. ASSUME r # <<>> PROVE Passes(Head(s).holds, Head(r).holds)
  <2>1. Len(r) > 0 /\ Head(r) = r[1]
    BY <1>1, <1>4, EmptySeq
  <2>2. 1 \in 1..Len(s) - 1 /\ r[1] = s[1 + 1]
    BY <1>1, <2>1
  <2> QED
    BY <1>2, <2>1, <2>2
<1>5. ASSUME NEW j \in 1..Len(r) PROVE Nested(r[j].holds)
  <2>1. j + 1 \in 1..Len(s) /\ r[j] = s[j + 1]
    BY <1>1
  <2> QED
    BY <2>1
<1>6. ASSUME NEW j \in 1..Len(r) - 1 PROVE Passes(r[j].holds, r[j + 1].holds)
  <2>1. j + 1 \in 1..Len(s) - 1 /\ r[j] = s[j + 1] /\ r[j + 1] = s[(j + 1) + 1]
    BY <1>1
  <2> QED
    BY <2>1
<1> QED
  BY <1>3, <1>4, <1>5, <1>6 DEF Runs, r

(* A thread that lets go of what it needs no more is still in order.       *)
LEMMA PassesAfterRelease ==
    ASSUME NEW from, NEW to, Passes(from, to)
    PROVE  Nested(from \cap to) /\ Passes(from \cap to, to)
<1>1. (from \cap to) \cap to = from \cap to /\ to \ (from \cap to) = to \ from
  OBVIOUS
<1> QED
  BY <1>1 DEF Passes

LEMMA CInvStep ==
    ASSUME ~Diagnostics, "Acknowledge" \notin Methods, CInv, [Next]_vars PROVE CInv'
<1>1. CASE UNCHANGED vars
  BY <1>1 DEF vars, CInv, Typed, Excluded
<1>2. CASE Next
  <2>1. JobsTyped
    BY FollowsJobs DEF JobsTyped, InOrderOfLocks, Follows
  <2>2. PICK t \in Thread :
             /\ Typed' /\ Excluded'
             /\ \A u \in Thread \ {t} : at'[u] = at[u] /\ todo'[u] = todo[u]
             /\ \/ at[t] = Pause /\ \E s \in Jobs(t) : at'[t] = Head(s) /\ todo'[t] = Tail(s)
                \/ todo[t] # <<>> /\ at'[t] = Partly(t) /\ todo'[t] = todo[t]
                \/ todo[t] # <<>> /\ at'[t] = Head(todo[t]) /\ todo'[t] = Tail(todo[t])
                \/ todo[t] = <<>> /\ at'[t] = Pause /\ todo'[t] = todo[t]
    BY <1>2, <2>1, Moves DEF CInv
  <2>3. Typed /\ \A u \in Thread : Runs(at[u].holds, todo[u])
    BY CInvRuns
  <2>4. Runs(at'[t].holds, todo'[t])
    <3>1. CASE \E s \in Jobs(t) : at'[t] = Head(s) /\ todo'[t] = Tail(s)
      <4>1. PICK s \in Jobs(t) : at'[t] = Head(s) /\ todo'[t] = Tail(s)
        BY <3>1
      <4>2. Follows({}, s) /\ s # <<>>
        BY FollowsJobs DEF InOrderOfLocks
      <4>3. \A held : {} \cup held = held
        OBVIOUS
      <4>4. /\ s \in Seq(PointType) /\ \A j \in 1..Len(s) : Nested(s[j].holds)
            /\ \A j \in 1..Len(s) - 1 : Passes(s[j].holds, s[j + 1].holds)
        BY <4>2, <4>3 DEF Follows
      <4> QED
        BY <4>1, <4>2, <4>4, RunsOn
    <3>2. CASE todo[t] # <<>> /\ at'[t] = Partly(t) /\ todo'[t] = todo[t]
      <4>1. at'[t].holds = at[t].holds \cap Head(todo[t]).holds
        BY <2>3, <3>2, PartlyType
      <4> QED
        BY <2>3, <3>2, <4>1, PassesAfterRelease DEF Runs
    <3>3. CASE todo[t] # <<>> /\ at'[t] = Head(todo[t]) /\ todo'[t] = Tail(todo[t])
      <4>1. todo[t] \in Seq(PointType)
        BY <2>3 DEF Typed
      <4> QED
        BY <2>3, <3>3, <4>1, RunsOn DEF Runs
    <3>4. CASE todo[t] = <<>> /\ at'[t] = Pause /\ todo'[t] = todo[t]
      BY <2>3, <3>4, PauseType DEF Runs, Nested
    <3> QED
      BY <2>2, <3>1, <3>2, <3>3, <3>4
  <2>5. \A u \in Thread : Runs(at'[u].holds, todo'[u])
    BY <2>2, <2>3, <2>4
  <2> QED
    BY <2>2, <2>5 DEF CInv, Runs
<1> QED
  BY <1>1, <1>2

LEMMA GreatestRank ==
    ASSUME NEW H, H \subseteq Mutex, H # {}
    PROVE  \E h \in H : \A g \in H : Rank(g) <= Rank(h)
<1> DEFINE R == OpToRel(<, Nat)
           V == {9 - Rank(h) : h \in H}
<1>1. \A h \in H : Rank(h) \in 0..9
  BY Ranks
<1>2. V \subseteq Nat /\ V # {}
  BY <1>1
<1>3. IsWellFoundedOn(R, Nat)
  BY NatLessThanWellFounded
<1>4. PICK v \in V : \A w \in V : ~(<<w, v>> \in R)
  <2> HIDE DEF V, R
  <2> QED
    BY <1>2, <1>3, WFMin
<1>5. PICK h \in H : v = 9 - Rank(h)
  BY <1>4
<1>6. ASSUME NEW g \in H PROVE Rank(g) <= Rank(h)
  <2>1. 9 - Rank(g) \in V /\ 9 - Rank(g) \in Nat /\ v \in Nat
    BY <1>1, <1>2, <1>4
  <2>2. ~(9 - Rank(g) < v)
    BY <1>4, <2>1 DEF OpToRel
  <2> QED
    BY <1>1, <1>5, <2>2
<1> QED
  BY <1>6

LEMMA CInvEndsWaiting == ASSUME CInv PROVE NoDeadlock
<1> SUFFICES ASSUME NEW S \in SUBSET Thread, S # {}
             PROVE  \E t \in S : \A u \in S \ {t} : ~Blocks(u, t)
  BY DEF NoDeadlock
<1> DEFINE Holds(t) == at[t].holds
           Wants(t) == Head(todo[t]).holds \ at[t].holds
           H == UNION {Holds(t) : t \in S}
<1>1. \A t \in S : Holds(t) \subseteq Mutex
  BY DEF CInv, Typed, PointType
<1>2. ASSUME NEW t \in S, NEW u \in S, u # t, Blocks(u, t)
      PROVE  /\ \E m \in Holds(u) : m \in Wants(t) /\ m \notin Holds(t)
             /\ Ordered(Holds(t), Wants(t))
  <2>1. todo[t] # <<>> /\ at[t].holds \subseteq Head(todo[t]).holds
        /\ at[u].holds \cap Head(todo[t]).holds # {}
    BY <1>2 DEF Blocks
  <2>2. at[t].holds \cap at[u].holds = {}
    BY <1>2 DEF CInv, Excluded
  <2>3. Ordered(at[t].holds \cap Head(todo[t]).holds, Head(todo[t]).holds \ at[t].holds)
    BY <2>1 DEF CInv, Passes
  <2>4. at[t].holds \cap Head(todo[t]).holds = at[t].holds
    BY <2>1
  <2> QED
    BY <2>1, <2>2, <2>3, <2>4
<1>3. \A u \in S : Nested(Holds(u))
  BY DEF CInv
<1>4. \A t \in S, u \in S : t # u => Holds(t) \cap Holds(u) = {}
  BY DEF CInv, Excluded
<1> HIDE DEF Holds, Wants
<1>5. CASE \E t \in S : Outer \subseteq Holds(t)
  <2>1. PICK t \in S : Outer \subseteq Holds(t)
    BY <1>5
  <2>2. ASSUME NEW u \in S \ {t}, Blocks(u, t) PROVE FALSE
    <3>1. PICK m \in Holds(u) : m \in Wants(t)
      BY <1>2, <2>2
    <3>2. m \in Chain
      BY <1>2, <2>1, <2>2, <3>1 DEF Ordered
    <3>3. Holds(u) \cap Outer # {}
      BY <1>3, <3>1, <3>2 DEF Nested
    <3> QED
      BY <1>4, <2>1, <3>3
  <2> QED
    BY <2>2
<1>6. CASE \A t \in S : ~(Outer \subseteq Holds(t))
  <2>1. CASE H = {}
    <3>1. ASSUME NEW t \in S, NEW u \in S \ {t}, Blocks(u, t) PROVE FALSE
      BY <1>2, <2>1, <3>1
    <3> QED
      BY <3>1
  <2>2. CASE H # {}
    <3>1. H \subseteq Mutex
      BY <1>1
    <3>2. PICK h \in H : \A g \in H : Rank(g) <= Rank(h)
      BY <2>2, <3>1, GreatestRank
    <3>3. PICK t \in S : h \in Holds(t)
      BY <3>2
    <3>4. ASSUME NEW u \in S \ {t}, Blocks(u, t) PROVE FALSE
      <4>1. PICK m \in Holds(u) : m \in Wants(t)
        BY <1>2, <3>4
      <4>2. Rank(h) < Rank(m)
        BY <1>2, <1>6, <3>3, <3>4, <4>1 DEF Ordered
      <4>3. m \in H /\ Rank(m) <= Rank(h) /\ Rank(m) \in Int /\ Rank(h) \in Int
        BY <3>1, <3>2, <4>1, Ranks
      <4> QED
        BY <4>2, <4>3
    <3> QED
      BY <3>4
  <2> QED
    BY <2>1, <2>2
<1> QED
  BY <1>5, <1>6

(* Whatever operations of the server meet, no threads of a session wait    *)
(* for each other in a circle, as long as the server diagnostics are off,  *)
(* which is what the server starts with, and no client acknowledges        *)
(* alarms.  The mutexes are taken in one order, but for the four inside    *)
(* those of the list and of the items; who holds both of these waits for   *)
(* nobody who holds one of the four.                                       *)
THEOREM ThreadsDoNotWaitInACircle ==
    ASSUME ~Diagnostics, "Acknowledge" \notin Methods PROVE Spec => []NoDeadlock
<1>1. Init => CInv
  <2> SUFFICES ASSUME Init PROVE CInv
    OBVIOUS
  <2>1. Typed /\ \A t \in Thread : at[t] = Pause /\ todo[t] = <<>>
    BY PauseType DEF Init, Typed
  <2> QED
    BY <2>1, PauseType DEF CInv, Excluded, Nested
<1>2. CInv /\ [Next]_vars => CInv'
  BY CInvStep
<1>3. CInv => NoDeadlock
  BY CInvEndsWaiting
<1> QED
  BY <1>1, <1>2, <1>3, PTL DEF Spec

=============================================================================
