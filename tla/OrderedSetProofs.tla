-------------------------- MODULE OrderedSetProofs --------------------------
(***************************************************************************)
(* What the operations on a vector of pointers keep and return, for the    *)
(* proofs about the lists of the server.                                   *)
(***************************************************************************)
EXTENDS OrderedSet, TLAPS

(* Erasing from the list, and appending what is not in it, keep it a list. *)
LEMMA KeepIsList ==
    ASSUME NEW S, NEW l \in OrderedSets(S), IsOrdered(l), NEW T
    PROVE  /\ Keep(l, T) \in OrderedSets(S)
           /\ IsOrdered(Keep(l, T))
           /\ Keep(l, T).members = l.members \cap T
<1>1. /\ Keep(l, T).members = l.members \cap T
      /\ Keep(l, T).before = l.before \cap (T \X T)
  BY DEF Keep
<1>2. Keep(l, T) \in OrderedSets(S)
  BY DEF Keep, OrderedSets
<1>3. IsOrdered(Keep(l, T))
  BY <1>1 DEF IsOrdered
<1> QED
  BY <1>1, <1>2, <1>3

LEMMA PushBackIsList ==
    ASSUME NEW S, NEW l \in OrderedSets(S), IsOrdered(l), NEW x \in S, x \notin l.members
    PROVE  /\ PushBack(l, x) \in OrderedSets(S)
           /\ IsOrdered(PushBack(l, x))
           /\ PushBack(l, x).members = l.members \cup {x}
<1>1. /\ PushBack(l, x).members = l.members \cup {x}
      /\ PushBack(l, x).before = l.before \cup (l.members \X {x})
  BY DEF PushBack
<1>2. PushBack(l, x) \in OrderedSets(S)
  BY DEF PushBack, OrderedSets
<1>3. IsOrdered(PushBack(l, x))
  <2> DEFINE m == PushBack(l, x).members
             b == PushBack(l, x).before
  <2>1. b \subseteq m \X m
    BY <1>1 DEF IsOrdered
  <2>2. \A y \in m : <<y, y>> \notin b
    BY <1>1 DEF IsOrdered
  <2>3. ASSUME NEW y \in m, NEW z \in m, y # z
        PROVE  <<y, z>> \in b <=> <<z, y>> \notin b
    <3>1. \A v, w : <<v, w>> \in b <=> <<v, w>> \in l.before \/ (v \in l.members /\ w = x)
      BY <1>1
    <3>2. \A v, w : <<v, w>> \in l.before => v \in l.members /\ w \in l.members
      BY DEF IsOrdered
    <3>3. CASE y = x \/ z = x
      BY <1>1, <2>3, <3>1, <3>2, <3>3
    <3>4. CASE y # x /\ z # x
      BY <1>1, <2>3, <3>1, <3>4 DEF IsOrdered
    <3> QED
      BY <3>3, <3>4
  <2>4. \A v, y, z \in m : <<v, y>> \in b /\ <<y, z>> \in b => <<v, z>> \in b
    BY <1>1 DEF IsOrdered
  <2> QED
    BY <2>1, <2>2, <2>3, <2>4 DEF IsOrdered
<1> QED
  BY <1>1, <1>2, <1>3

(* An emptied vector is a vector.                                          *)
LEMMA EmptyIsList ==
    ASSUME NEW S
    PROVE  Empty \in OrderedSets(S) /\ IsOrdered(Empty) /\ Empty.members = {}
BY DEF Empty, OrderedSets, IsOrdered

(* There is one first element at most, and nothing of S comes before it.   *)
LEMMA FirstIsFirst ==
    ASSUME NEW l, IsOrdered(l), NEW S
    PROVE  /\ First(l, S) \subseteq l.members \cap S
           /\ \A x, y \in First(l, S) : x = y
           /\ \A x \in First(l, S), y \in l.members : <<y, x>> \in l.before => y \notin S
BY DEF First, IsOrdered

(* What is first stays first when an element is appended, and as long as   *)
(* it stays itself.                                                        *)
LEMMA FirstStays ==
    ASSUME NEW l, IsOrdered(l), NEW S, NEW x \in First(l, S)
    PROVE  /\ \A y : y \notin l.members => x \in First(PushBack(l, y), S)
           /\ \A T : x \in T => x \in First(Keep(l, T), S)
<1>1. x \in l.members \cap S /\ \A z \in l.members \cap S : <<z, x>> \notin l.before
  BY DEF First
<1>2. ASSUME NEW y, y \notin l.members PROVE x \in First(PushBack(l, y), S)
  <2>1. <<y, x>> \notin l.before /\ x # y
    BY <1>1, <1>2 DEF IsOrdered
  <2> QED
    BY <1>1, <2>1 DEF First, PushBack
<1>3. ASSUME NEW T, x \in T PROVE x \in First(Keep(l, T), S)
  BY <1>1, <1>3 DEF First, Keep
<1> QED
  BY <1>2, <1>3

(* Only the elements of the list count, and erasing twice erases both.     *)
LEMMA KeepDepends ==
    ASSUME NEW l, IsOrdered(l), NEW S, NEW T, l.members \cap S = l.members \cap T
    PROVE  Keep(l, S) = Keep(l, T)
<1>1. l.before \cap (S \X S) = l.before \cap (T \X T)
  BY DEF IsOrdered
<1> QED
  BY <1>1 DEF Keep

LEMMA KeepTwice ==
    ASSUME NEW l, NEW S, NEW T
    PROVE  Keep(Keep(l, S), T) = Keep(l, S \cap T)
<1>1. (l.members \cap S) \cap T = l.members \cap (S \cap T)
  OBVIOUS
<1>2. (l.before \cap (S \X S)) \cap (T \X T) = l.before \cap ((S \cap T) \X (S \cap T))
  OBVIOUS
<1> QED
  BY <1>1, <1>2 DEF Keep

(* Sorting keeps the elements, and puts those of a higher key first.       *)
LEMMA SortedByIsSorted ==
    ASSUME NEW S, NEW l \in OrderedSets(S), IsOrdered(l), NEW key, \A x \in S : key[x] \in Int
    PROVE  /\ SortedBy(l, key) \in OrderedSets(S)
           /\ IsOrdered(SortedBy(l, key))
           /\ SortedBy(l, key).members = l.members
           /\ \A x, y \in l.members : key[x] > key[y] => <<x, y>> \in SortedBy(l, key).before
<1> DEFINE b == SortedBy(l, key).before
<1>1. /\ SortedBy(l, key).members = l.members
      /\ SortedBy(l, key) = [members |-> l.members, before |-> b]
  BY DEF SortedBy
<1>2. \A x, y : <<x, y>> \in b <=> /\ x \in l.members /\ y \in l.members
                                  /\ (key[x] > key[y] \/ (key[x] = key[y] /\ <<x, y>> \in l.before))
  BY DEF SortedBy
<1>3. b \subseteq l.members \X l.members
  BY DEF SortedBy
<1>4. l.members \subseteq S /\ \A x \in l.members : key[x] \in Int
  BY DEF OrderedSets
<1>5. SortedBy(l, key) \in OrderedSets(S)
  BY <1>1, <1>3, <1>4 DEF OrderedSets
<1>6. IsOrdered(SortedBy(l, key))
  <2> HIDE DEF b
  <2>1. \A x, y \in l.members : x # y => (<<x, y>> \in b <=> <<y, x>> \notin b)
    <3> SUFFICES ASSUME NEW x \in l.members, NEW y \in l.members, x # y
                 PROVE  <<x, y>> \in b <=> <<y, x>> \notin b
      OBVIOUS
    <3>1. <<x, y>> \in l.before <=> <<y, x>> \notin l.before
      BY DEF IsOrdered
    <3>2. key[x] \in Int /\ key[y] \in Int
      BY <1>4
    <3>3. /\ <<x, y>> \in b <=> (key[x] > key[y] \/ (key[x] = key[y] /\ <<x, y>> \in l.before))
          /\ <<y, x>> \in b <=> (key[y] > key[x] \/ (key[y] = key[x] /\ <<y, x>> \in l.before))
      BY <1>2
    <3> QED
      BY <3>1, <3>2, <3>3
  <2>2. \A x \in l.members : <<x, x>> \notin b
    <3> SUFFICES ASSUME NEW x \in l.members PROVE <<x, x>> \notin b
      OBVIOUS
    <3>1. <<x, x>> \notin l.before /\ key[x] \in Int
      BY <1>4 DEF IsOrdered
    <3> QED
      BY <1>2, <3>1
  <2>3. \A x, y, z \in l.members : <<x, y>> \in b /\ <<y, z>> \in b => <<x, z>> \in b
    BY <1>2, <1>4 DEF IsOrdered
  <2> QED
    BY <1>1, <1>3, <2>1, <2>2, <2>3 DEF IsOrdered, b
<1> QED
  BY <1>1, <1>2, <1>5, <1>6
=============================================================================
