--------------------------- MODULE PublishService ---------------------------
(***************************************************************************)
(* What the Publish service of a session promises, without threads, flags  *)
(* or memory: a first-in first-out line of requests, each of which gets    *)
(* exactly one fate.  PublishQueue implements it.                          *)
(***************************************************************************)
EXTENDS OrderedSet

CONSTANT Request

VARIABLES line,     \* the requests waiting for an answer, in order of arrival
          fate,     \* what became of each request
          expired   \* the requests whose timeout elapsed

vars == <<line, fate, expired>>

Answers == {"data", "noSubscription", "undelivered"}
Fates == {"new", "open", "dropped"} \cup Answers

Init == /\ line = Empty
        /\ fate = [r \in Request |-> "new"]
        /\ expired = {}

(* The client reuses the name of a request whose fate is settled.          *)
Receive(r) == /\ fate[r] # "open"
              /\ fate' = [fate EXCEPT ![r] = "open"]
              /\ expired' = expired \ {r}
              /\ UNCHANGED line

Expire(r) == /\ expired' = expired \cup {r}
             /\ UNCHANGED <<line, fate>>

Enqueue(r) == /\ fate[r] = "open"
              /\ r \notin line.members
              /\ line' = PushBack(line, r)
              /\ UNCHANGED <<fate, expired>>

(* A request that does not wait is refused at once.                        *)
Refuse(r) == /\ fate[r] = "open"
             /\ r \notin line.members
             /\ fate' \in {[fate EXCEPT ![r] = a] : a \in {"noSubscription", "undelivered"}}
             /\ UNCHANGED <<line, expired>>

(* Only the head of the line is answered with notifications.               *)
Deliver(r) == /\ r \in First(line, Request)
              /\ line' = Keep(line, Request \ {r})
              /\ fate' \in {[fate EXCEPT ![r] = a] : a \in {"data", "undelivered"}}
              /\ UNCHANGED expired

(* Only a request whose timeout elapsed leaves the line without an answer. *)
Drop(S) == /\ S \subseteq line.members \cap expired
           /\ S # {}
           /\ line' = Keep(line, Request \ S)
           /\ fate' = [r \in Request |-> IF r \in S THEN "dropped" ELSE fate[r]]
           /\ UNCHANGED expired

(* With the last subscription, the whole line is answered.                 *)
Dismiss == /\ line' = Empty
           /\ \E unsent \in SUBSET line.members :
                 fate' = [r \in Request |-> IF r \in unsent THEN "undelivered"
                                            ELSE IF r \in line.members THEN "noSubscription"
                                            ELSE fate[r]]
           /\ UNCHANGED expired

Next == \/ \E r \in Request : \/ Receive(r)
                           \/ Expire(r)
                           \/ Enqueue(r)
                           \/ Refuse(r)
                           \/ Deliver(r)
        \/ \E S \in SUBSET Request : Drop(S)
        \/ Dismiss

Spec == Init /\ [][Next]_vars
=============================================================================
