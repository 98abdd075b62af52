----------------------------- MODULE OrderedSet -----------------------------
(***************************************************************************)
(* A C++ vector of distinct pointers, as a set with the order of its       *)
(* elements: m_PublishRequests and m_SubscriptionList of CSessionServer,   *)
(* m_sessions of CServerApplication.                                       *)
(* Its operators are first-order, so that the modules that use them can be *)
(* proved about.                                                           *)
(***************************************************************************)
EXTENDS Integers

Empty == [members |-> {}, before |-> {}]

OrderedSets(S) == [members : SUBSET S, before : SUBSET (S \X S)]

(* The order relates distinct members, and orders any two of them.         *)
IsOrdered(l) ==
    /\ l.before \subseteq l.members \X l.members
    /\ \A x, y \in l.members : x # y => (<<x, y>> \in l.before <=> <<y, x>> \notin l.before)
    /\ \A x \in l.members : <<x, x>> \notin l.before
    /\ \A x, y, z \in l.members :
          <<x, y>> \in l.before /\ <<y, z>> \in l.before => <<x, z>> \in l.before

(* push_back *)
PushBack(l, x) == [members |-> l.members \cup {x},
                   before  |-> l.before \cup (l.members \X {x})]

(* push_front, for the variants of the operations. *)
PushFront(l, x) == [members |-> l.members \cup {x},
                    before  |-> l.before \cup ({x} \X l.members)]

(* What is left of l when only the elements of S stay. *)
Keep(l, S) == [members |-> l.members \cap S,
               before  |-> l.before \cap (S \X S)]

(* The first element of l that is in S, as a set: empty when there is none. *)
First(l, S) == {x \in l.members \cap S :
                    \A y \in l.members \cap S : <<y, x>> \notin l.before}

(* Variant: elements of the same key are before each other. *)
SortedByUnstable(l, key) ==
    [members |-> l.members,
     before  |-> {p \in l.members \X l.members : key[p[1]] >= key[p[2]]}]

(* The stable sort by decreasing key. *)
SortedBy(l, key) ==
    [members |-> l.members,
     before  |-> {p \in l.members \X l.members :
                    \/ key[p[1]] > key[p[2]]
                    \/ key[p[1]] = key[p[2]] /\ p \in l.before}]
=============================================================================
