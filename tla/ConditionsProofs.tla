--------------------------- MODULE ConditionsProofs ---------------------------
(***************************************************************************)
(* The list of conditions stays sorted, holds each type once, and is the   *)
(* map that TenantStatus takes it for, whatever the types and however many *)
(* calls of Set and Delete follow each other.                              *)
(***************************************************************************)
EXTENDS Conditions, WellFoundedInduction, TLAPS

-----------------------------------------------------------------------------
(* Numbers and sequences *)

LEMMA LeastNatural ==
    ASSUME NEW S \in SUBSET Nat, S # {}
    PROVE  \E m \in S : \A n \in S : m <= n
<1> DEFINE Smaller == {r \in Nat \X Nat : r[1] < r[2]}
<1>1. IsWellFoundedOn(Smaller, Nat)
  BY NatLessThanWellFounded, Zenon DEF OpToRel
<1>2. \E m \in S : \A n \in S : <<n, m>> \notin Smaller
  <2> HIDE DEF Smaller
  <2> QED
    BY <1>1, WFMin
<1>3. PICK m \in S : \A n \in S : <<n, m>> \notin Smaller
  BY <1>2
<1>4. ASSUME NEW n \in S PROVE m <= n
  <2>1. <<n, m>> \notin Smaller /\ m \in Nat /\ n \in Nat
    BY <1>3
  <2>2. ~(n < m)
    BY <2>1
  <2> QED
    BY <2>1, <2>2
<1> QED
  BY <1>4

\* Induction over the first n numbers, for a property given as a set.
LEMMA Induction ==
    ASSUME NEW n \in Nat, NEW S, 0 \in S, \A i \in 0..(n - 1) : i \in S => i + 1 \in S
    PROVE  0..n \subseteq S
<1> SUFFICES ASSUME (0..n) \ S # {}
             PROVE  FALSE
  OBVIOUS
<1>1. (0..n) \ S \in SUBSET Nat
  OBVIOUS
<1>2. PICK m \in (0..n) \ S : \A i \in (0..n) \ S : m <= i
  BY <1>1, LeastNatural
<1>3. m \in 1..n /\ m - 1 \in 0..(n - 1)
  BY <1>2
<1>4. m - 1 \in S
  BY <1>2, <1>3
<1> QED
  BY <1>2, <1>3, <1>4

-----------------------------------------------------------------------------
(* The order *)

LEMMA PlaceOf ==
    ASSUME NEW t \in Types
    PROVE  Place(t) \in DOMAIN Alphabet /\ Alphabet[Place(t)] = t
BY DEF Types, ToSet, Place

\* LexicographicLess is a strict total order on the types.
LEMMA LessOrders ==
    ASSUME NEW c \in Condition, NEW d \in Condition
    PROVE  /\ LexicographicLess(c, d) => ~LexicographicLess(d, c)
           /\ c.type # d.type => LexicographicLess(c, d) \/ LexicographicLess(d, c)
           /\ c.type = d.type => ~LexicographicLess(c, d)
           /\ \A e \in Condition :
                  LexicographicLess(c, d) /\ LexicographicLess(d, e) => LexicographicLess(c, e)
<1>1. \A t \in Types : Place(t) \in Nat
  BY PlaceOf, AlphabetAssumption
<1>2. \A t, u \in Types : Place(t) = Place(u) => t = u
  BY PlaceOf
<1> QED
  BY <1>1, <1>2 DEF LexicographicLess, Condition

-----------------------------------------------------------------------------
(* Lists *)

Distinct(list) == \A i, j \in DOMAIN list : list[i].type = list[j].type => i = j

Ordered(list) ==
    \A i, j \in DOMAIN list : i < j => LexicographicLess(list[i], list[j])

LEMMA SortedIsOrdered ==
    ASSUME conditions \in Seq(Condition)
    PROVE  Sorted <=> Ordered(conditions)
BY DEF Sorted, Ordered, LexicographicLess

LEMMA OrderedDistinct ==
    ASSUME NEW list \in Seq(Condition), Ordered(list)
    PROVE  Distinct(list)
<1> SUFFICES ASSUME NEW i \in DOMAIN list, NEW j \in DOMAIN list, list[i].type = list[j].type,
                    i # j
             PROVE  FALSE
  BY DEF Distinct
<1>1. i \in Int /\ j \in Int /\ list[i] \in Condition /\ list[j] \in Condition
  OBVIOUS
<1>2. LexicographicLess(list[i], list[j]) \/ LexicographicLess(list[j], list[i])
  BY <1>1 DEF Ordered
<1> QED
  BY <1>1, <1>2, LessOrders

\* The one condition of its type.
LEMMA GetIt ==
    ASSUME NEW list \in Seq(Condition), Distinct(list), NEW i \in DOMAIN list
    PROVE  /\ IndexOf(list, list[i].type) = i
           /\ Get(list, list[i].type) = list[i]
<1>1. {j \in DOMAIN list : list[j].type = list[i].type} = {i}
  BY DEF Distinct
<1>2. Min({i}) = i
  BY DEF Min
<1> QED
  BY <1>1, <1>2 DEF IndexOf, Get

\* Two lists are one map when each has the conditions of the other.
LEMMA SameMap ==
    ASSUME NEW list \in Seq(Condition), NEW other \in Seq(Condition),
           Distinct(list), Distinct(other), NEW t,
           \A i \in DOMAIN list : list[i].type = t => \E j \in DOMAIN other : other[j] = list[i],
           \A j \in DOMAIN other : other[j].type = t => \E i \in DOMAIN list : list[i] = other[j]
    PROVE  /\ Has(list, t) <=> Has(other, t)
           /\ Has(list, t) => Get(list, t) = Get(other, t)
<1>1. ASSUME NEW i \in DOMAIN list, list[i].type = t
      PROVE  Has(other, t) /\ Get(list, t) = Get(other, t)
  <2>1. PICK j \in DOMAIN other : other[j] = list[i]
    BY <1>1
  <2>2. Get(list, list[i].type) = list[i]
    BY GetIt
  <2>3. Get(other, other[j].type) = other[j]
    BY GetIt
  <2> QED
    BY <1>1, <2>1, <2>2, <2>3 DEF Has
<1>2. Has(other, t) => Has(list, t)
  BY DEF Has
<1> QED
  BY <1>1, <1>2 DEF Has

-----------------------------------------------------------------------------
(* Set *)

\* An order of a list's positions in which none is less than one before it.
Orders(list, p) ==
    /\ p \in Bijection(DOMAIN list, DOMAIN list)
    /\ \A i, j \in DOMAIN list : i < j => ~LexicographicLess(list[p[j]], list[p[i]])

\* If there is one, sort.Slice finds one: the list that it makes is in order and
\* holds the same conditions.
LEMMA SliceSorted ==
    ASSUME NEW list \in Seq(Condition), Distinct(list), \E p : Orders(list, p)
    PROVE  /\ SortSlice(list) \in Seq(Condition)
           /\ Ordered(SortSlice(list))
           /\ \A i \in DOMAIN list : \E j \in DOMAIN SortSlice(list) : SortSlice(list)[j] = list[i]
           /\ \A j \in DOMAIN SortSlice(list) : \E i \in DOMAIN list : list[i] = SortSlice(list)[j]
<1> DEFINE D == DOMAIN list
           p == CHOOSE p \in Bijection(D, D) :
                    \A i, j \in D : i < j => ~LexicographicLess(list[p[j]], list[p[i]])
           s == [i \in D |-> list[p[i]]]
<1>1. D = 1..Len(list) /\ Len(list) \in Nat
  OBVIOUS
<1>2. Orders(list, p)
  BY DEF Orders
<1>3. SortSlice(list) = s
  BY DEF SortSlice
<1> HIDE DEF p
<1>4. /\ p \in [D -> D]
      /\ \A i, j \in D : p[i] = p[j] => i = j
      /\ \A i \in D : \E j \in D : p[j] = i
  BY <1>2 DEF Orders, Bijection, Injection, Surjection, IsInjective
<1>5. s \in Seq(Condition) /\ DOMAIN s = D
  BY <1>1, <1>4
<1>6. ASSUME NEW i \in D, NEW j \in D, i < j
      PROVE  LexicographicLess(s[i], s[j])
  <2>1. list[p[i]].type # list[p[j]].type
    BY <1>1, <1>4, <1>6 DEF Distinct
  <2>2. ~LexicographicLess(list[p[j]], list[p[i]])
    BY <1>2, <1>6 DEF Orders
  <2>3. list[p[i]] \in Condition /\ list[p[j]] \in Condition
    BY <1>4
  <2> QED
    BY <2>1, <2>2, <2>3, LessOrders
<1>7. Ordered(s)
  BY <1>5, <1>6 DEF Ordered
<1>8. /\ \A i \in D : \E j \in D : s[j] = list[i]
      /\ \A j \in D : \E i \in D : list[i] = s[j]
  BY <1>4
<1> QED
  BY <1>3, <1>5, <1>7, <1>8

\* A list that is in order stays as it is.
LEMMA InOrderAlready ==
    ASSUME NEW list \in Seq(Condition), Ordered(list)
    PROVE  Orders(list, [i \in DOMAIN list |-> i])
<1>1. \A i, j \in DOMAIN list : i < j => ~LexicographicLess(list[j], list[i])
  BY LessOrders DEF Ordered
<1> QED
  BY <1>1 DEF Orders, Bijection, Injection, Surjection, IsInjective

\* A condition of a new type, appended to a list in order, has its place in it.
LEMMA Insertion ==
    ASSUME NEW list \in Seq(Condition), Ordered(list), NEW c \in Condition, ~Has(list, c.type)
    PROVE  /\ Distinct(Append(list, c))
           /\ \E p : Orders(Append(list, c), p)
<1> DEFINE n == Len(list)
           longer == Append(list, c)
           After == {i \in 1..(n + 1) : i = n + 1 \/ LexicographicLess(c, list[i])}
<1>1. /\ n \in Nat /\ DOMAIN list = 1..n /\ DOMAIN longer = 1..(n + 1)
      /\ longer[n + 1] = c /\ \A i \in 1..n : longer[i] = list[i] /\ list[i] \in Condition
      /\ longer \in Seq(Condition)
  OBVIOUS
<1>2. Distinct(longer)
  BY <1>1, OrderedDistinct DEF Distinct, Has
<1>3. PICK k \in After : \A i \in After : k <= i
  <2>1. After \in SUBSET Nat /\ n + 1 \in After
    BY <1>1
  <2> HIDE DEF After
  <2> QED
    BY <2>1, LeastNatural
<1>4. \A i \in 1..n : i < k => LexicographicLess(list[i], c)
  <2> SUFFICES ASSUME NEW i \in 1..n, i < k
               PROVE  LexicographicLess(list[i], c)
    OBVIOUS
  <2>1. ~LexicographicLess(c, list[i])
    BY <1>1, <1>3
  <2>2. list[i].type # c.type
    BY <1>1 DEF Has
  <2> QED
    BY <1>1, <2>1, <2>2, LessOrders
<1>5. \A i \in 1..n : k <= i => LexicographicLess(c, list[i])
  <2> SUFFICES ASSUME NEW i \in 1..n, k <= i
               PROVE  LexicographicLess(c, list[i])
    OBVIOUS
  <2>1. k \in 1..n /\ LexicographicLess(c, list[k])
    BY <1>1, <1>3
  <2>2. k = i \/ LexicographicLess(list[k], list[i])
    BY <1>1, <2>1 DEF Ordered
  <2> QED
    BY <1>1, <2>1, <2>2, LessOrders
<1> DEFINE p == [i \in 1..(n + 1) |-> IF i < k THEN i ELSE IF i = k THEN n + 1 ELSE i - 1]
<1>6. k \in 1..(n + 1)
  BY <1>3
<1> HIDE DEF After
<1>7. p \in Bijection(1..(n + 1), 1..(n + 1))
  <2>1. p \in [1..(n + 1) -> 1..(n + 1)]
    BY <1>1, <1>6
  <2>2. \A i, j \in 1..(n + 1) : p[i] = p[j] => i = j
    BY <1>1, <1>6
  <2>3. ASSUME NEW i \in 1..(n + 1) PROVE \E j \in 1..(n + 1) : p[j] = i
    <3>1. CASE i < k
      BY <1>1, <1>6, <3>1
    <3>2. CASE i = n + 1
      BY <1>1, <1>6, <3>2
    <3>3. CASE k <= i /\ i # n + 1
      <4>1. i + 1 \in 1..(n + 1) /\ p[i + 1] = i
        BY <1>1, <1>6, <3>3
      <4> QED
        BY <4>1
    <3> QED
      BY <1>1, <1>6, <3>1, <3>2, <3>3
  <2> QED
    BY <2>1, <2>2, <2>3 DEF Bijection, Injection, Surjection, IsInjective
<1>8. ASSUME NEW i \in 1..(n + 1), NEW j \in 1..(n + 1), i < j
      PROVE  LexicographicLess(longer[p[i]], longer[p[j]])
  <2>1. CASE j < k
    BY <1>1, <1>6, <1>8, <2>1 DEF Ordered
  <2>2. CASE j = k
    BY <1>1, <1>4, <1>6, <1>8, <2>2
  <2>3. CASE k < j /\ i < k
    BY <1>1, <1>6, <1>8, <2>3 DEF Ordered
  <2>4. CASE i = k
    BY <1>1, <1>5, <1>6, <1>8, <2>4
  <2>5. CASE k < i
    BY <1>1, <1>6, <1>8, <2>5 DEF Ordered
  <2> QED
    BY <1>1, <1>6, <1>8, <2>1, <2>2, <2>3, <2>4, <2>5
<1>9. \A i \in 1..(n + 1) : longer[p[i]] \in Condition
  BY <1>1, <1>6
<1>10. \A i, j \in 1..(n + 1) : i < j => ~LexicographicLess(longer[p[j]], longer[p[i]])
  <2> HIDE DEF longer, p
  <2> QED
    BY <1>8, <1>9, LessOrders
<1>11. Orders(longer, p)
  BY <1>1, <1>7, <1>10 DEF Orders
<1> QED
  BY <1>2, <1>11

\* What Mark sets: no time of its own.
Marked(t, status, reason) == [type |-> t, status |-> status, reason |-> reason, time |-> 0]

\* What stands for the type once it is marked.
Result(list, c, time) ==
    IF Has(list, c.type) /\ HasSameState(Get(list, c.type), c)
    THEN Get(list, c.type)
    ELSE Stamped(c, time)

\* What one list has of other types than t, the other one has as well.
KeptBy(other, list, t) ==
    \A i \in DOMAIN list : list[i].type # t => \E j \in DOMAIN other : other[j] = list[i]

\* The list before it is sorted.
Touched(list, c, time) ==
    IF Has(list, c.type) THEN Changed(list, c, time) ELSE Appended(list, c, time)

LEMMA TouchedFacts ==
    ASSUME NEW list \in Seq(Condition), Ordered(list), NEW time \in Clock,
           NEW t \in Types, NEW status \in Statuses, NEW reason \in Reasons,
           NEW c, c = Marked(t, status, reason)
    PROVE  /\ Touched(list, c, time) \in Seq(Condition)
           /\ Distinct(Touched(list, c, time))
           /\ \E p : Orders(Touched(list, c, time), p)
           /\ \E i \in DOMAIN Touched(list, c, time) :
                  /\ Touched(list, c, time)[i].type = t
                  /\ Touched(list, c, time)[i] = Result(list, c, time)
           /\ KeptBy(Touched(list, c, time), list, t)
           /\ KeptBy(list, Touched(list, c, time), t)
<1> DEFINE touched == Touched(list, c, time)
<1>1. Stamped(c, time) = [type |-> t, status |-> status, reason |-> reason, time |-> time]
  BY DEF Stamped, Marked
<1>2. Stamped(c, time) \in Condition /\ c.type = t /\ c.time = 0
  BY <1>1 DEF Condition, Marked
<1>3. Distinct(list)
  BY OrderedDistinct
<1>4. CASE Has(list, t)
  <2>1. PICK i \in DOMAIN list : list[i].type = t
    BY <1>4 DEF Has
  <2>2. /\ IndexOf(list, t) = i
        /\ Get(list, t) = list[i]
    BY <1>3, <2>1, GetIt
  <2>3. touched = IF HasSameState(list[i], c) THEN list ELSE [list EXCEPT ![i] = Stamped(c, time)]
    BY <1>2, <1>4, <2>2 DEF Touched, Changed
  <2>4. Result(list, c, time) = IF HasSameState(list[i], c) THEN list[i] ELSE Stamped(c, time)
    BY <1>2, <1>4, <2>2 DEF Result
  <2>5. /\ touched \in Seq(Condition) /\ DOMAIN touched = DOMAIN list
        /\ touched[i] = Result(list, c, time) /\ touched[i].type = t
        /\ \A j \in DOMAIN list : touched[j].type = list[j].type /\ (j # i => touched[j] = list[j])
    BY <1>1, <1>2, <2>1, <2>3, <2>4
  <2> HIDE DEF touched
  <2>6. Ordered(touched)
    BY <2>5 DEF Ordered, LexicographicLess
  <2>7. Distinct(touched) /\ \E p : Orders(touched, p)
    BY <2>5, <2>6, OrderedDistinct, InOrderAlready
  <2> QED
    BY <1>3, <2>1, <2>5, <2>7 DEF Distinct, KeptBy, touched
<1>5. CASE ~Has(list, t)
  <2>1. touched = Append(list, Stamped(c, time)) /\ Result(list, c, time) = Stamped(c, time)
    BY <1>2, <1>5 DEF Touched, Appended, Result
  <2>2. Stamped(c, time).type = t
    BY <1>1
  <2>3. Distinct(touched) /\ \E p : Orders(touched, p)
    BY <1>2, <1>5, <2>1, <2>2, Insertion
  <2>4. /\ touched \in Seq(Condition) /\ DOMAIN touched = 1..(Len(list) + 1)
        /\ touched[Len(list) + 1] = Stamped(c, time)
        /\ DOMAIN list = 1..Len(list) /\ Len(list) \in Nat
        /\ \A j \in DOMAIN list : j \in DOMAIN touched /\ touched[j] = list[j]
    BY <1>2, <2>1
  <2> HIDE DEF touched
  <2>5. \A i \in DOMAIN touched : i \in DOMAIN list \/ i = Len(list) + 1
    BY <2>4
  <2>6. Len(list) + 1 \in DOMAIN touched
    BY <2>4
  <2> QED
    BY <2>1, <2>2, <2>3, <2>4, <2>5, <2>6 DEF KeptBy, touched
<1> QED
  BY <1>4, <1>5

\* Set, for what the Mark functions give it: a sorted list in which the type is as
\* marked, and the other conditions are as they were.
LEMMA SetFacts ==
    ASSUME NEW list \in Seq(Condition), Ordered(list), NEW time \in Clock,
           NEW t \in Types, NEW status \in Statuses, NEW reason \in Reasons,
           NEW c, c = Marked(t, status, reason)
    PROVE  /\ Set(list, c, time) \in Seq(Condition)
           /\ Ordered(Set(list, c, time))
           /\ Has(Set(list, c, time), t)
           /\ Get(Set(list, c, time), t) = Result(list, c, time)
           /\ \A u : u # t =>
                  /\ Has(Set(list, c, time), u) <=> Has(list, u)
                  /\ Has(list, u) => Get(Set(list, c, time), u) = Get(list, u)
<1> DEFINE touched == Touched(list, c, time)
           new == SortSlice(touched)
<1>1. Set(list, c, time) = new
  BY DEF Set, Touched
<1>2. /\ touched \in Seq(Condition)
      /\ Distinct(touched)
      /\ \E p : Orders(touched, p)
      /\ \E i \in DOMAIN touched : touched[i].type = t /\ touched[i] = Result(list, c, time)
      /\ KeptBy(touched, list, t) /\ KeptBy(list, touched, t)
  BY TouchedFacts
<1> HIDE DEF touched
<1>3. /\ new \in Seq(Condition) /\ Ordered(new)
      /\ \A i \in DOMAIN touched : \E j \in DOMAIN new : new[j] = touched[i]
      /\ \A j \in DOMAIN new : \E i \in DOMAIN touched : touched[i] = new[j]
  BY <1>2, SliceSorted
<1> HIDE DEF new
<1>4. Distinct(new) /\ Distinct(list)
  BY <1>3, OrderedDistinct
<1>5. Has(new, t) /\ Get(new, t) = Result(list, c, time)
  <2>1. PICK i \in DOMAIN touched : touched[i].type = t /\ touched[i] = Result(list, c, time)
    BY <1>2
  <2>2. PICK j \in DOMAIN new : new[j] = touched[i]
    BY <1>3
  <2>3. Get(new, new[j].type) = new[j]
    BY <1>3, <1>4, GetIt
  <2> QED
    BY <2>1, <2>2, <2>3 DEF Has
<1>6. ASSUME NEW u, u # t
      PROVE  /\ Has(new, u) <=> Has(list, u)
             /\ Has(list, u) => Get(new, u) = Get(list, u)
  <2>1. \A i \in DOMAIN new : new[i].type = u => \E j \in DOMAIN list : list[j] = new[i]
    BY <1>2, <1>3, <1>6 DEF KeptBy
  <2>2. \A j \in DOMAIN list : list[j].type = u => \E i \in DOMAIN new : new[i] = list[j]
    <3> SUFFICES ASSUME NEW j \in DOMAIN list, list[j].type = u
                 PROVE  \E i \in DOMAIN new : new[i] = list[j]
      OBVIOUS
    <3>1. PICK i \in DOMAIN touched : touched[i] = list[j]
      BY <1>2, <1>6 DEF KeptBy
    <3> QED
      BY <1>3, <3>1
  <2> QED
    BY <1>3, <1>4, <2>1, <2>2, SameMap
<1> QED
  BY <1>1, <1>3, <1>5, <1>6

-----------------------------------------------------------------------------
(* Delete *)

\* What the loop has kept, up to n.
Loop(list, t, kept, n) ==
    kept = [m \in 0..n |->
               IF m = 0 THEN <<>>
               ELSE IF list[m].type = t THEN kept[m - 1] ELSE Append(kept[m - 1], list[m])]

LEMMA LoopExists ==
    ASSUME NEW list, NEW t, NEW n \in Nat
    PROVE  \E kept : Loop(list, t, kept, n)
<1> DEFINE S == {m \in 0..n : \E kept : Loop(list, t, kept, m)}
<1>1. 0 \in S
  <2>1. Loop(list, t, [m \in 0..0 |-> <<>>], 0)
    BY DEF Loop
  <2> QED
    BY <2>1
<1>2. ASSUME NEW i \in 0..(n - 1), i \in S PROVE i + 1 \in S
  <2>1. PICK kept : Loop(list, t, kept, i)
    BY <1>2
  <2> DEFINE more == [m \in 0..(i + 1) |->
                 IF m \in 0..i THEN kept[m]
                 ELSE IF list[m].type = t THEN kept[i] ELSE Append(kept[i], list[m])]
             again == [m \in 0..(i + 1) |->
                 IF m = 0 THEN <<>>
                 ELSE IF list[m].type = t THEN more[m - 1] ELSE Append(more[m - 1], list[m])]
  <2>2. \A m \in 0..i : kept[m] = IF m = 0 THEN <<>>
                 ELSE IF list[m].type = t THEN kept[m - 1] ELSE Append(kept[m - 1], list[m])
    BY <2>1 DEF Loop
  <2>3. \A m \in 0..i : more[m] = kept[m]
    OBVIOUS
  <2>4. ASSUME NEW m \in 0..(i + 1) PROVE more[m] = again[m]
    <3>1. CASE m = i + 1
      <4>1. m # 0 /\ m - 1 = i /\ i \in 0..i /\ m \notin 0..i
        BY <3>1
      <4> QED
        BY <2>3, <4>1
    <3>2. CASE m = 0
      BY <2>2, <2>3, <3>2
    <3>3. CASE m \in 1..i
      <4>1. m - 1 \in 0..i /\ m \in 0..i /\ m # 0
        BY <3>3
      <4> QED
        BY <2>2, <2>3, <4>1
    <3> QED
      BY <3>1, <3>2, <3>3
  <2>5. more = again
    BY <2>4
  <2>6. Loop(list, t, more, i + 1)
    BY <2>5, Zenon DEF Loop
  <2> QED
    BY <2>6
<1>3. 0..n \subseteq S
  <2> HIDE DEF S
  <2> QED
    BY <1>1, <1>2, Induction
<1> QED
  BY <1>3

\* What is kept up to n is in order, and it is all that is not of the type.
LEMMA LoopFacts ==
    ASSUME NEW list \in Seq(Condition), Ordered(list), NEW t,
           NEW kept, Loop(list, t, kept, Len(list))
    PROVE  /\ kept[Len(list)] \in Seq(Condition)
           /\ Ordered(kept[Len(list)])
           /\ ~Has(kept[Len(list)], t)
           /\ KeptBy(kept[Len(list)], list, t)
           /\ KeptBy(list, kept[Len(list)], t)
<1> DEFINE n == Len(list)
           Good(m) ==
               /\ kept[m] \in Seq(Condition)
               /\ Ordered(kept[m])
               /\ \A i \in DOMAIN kept[m] :
                      kept[m][i].type # t /\ \E j \in 1..m : list[j] = kept[m][i]
               /\ \A j \in 1..m :
                      list[j].type # t => \E i \in DOMAIN kept[m] : kept[m][i] = list[j]
           S == {m \in 0..n : Good(m)}
<1>1. /\ n \in Nat /\ DOMAIN list = 1..n
      /\ \A m \in 1..n : list[m] \in Condition
  OBVIOUS
<1>2. \A m \in 0..n : kept[m] = IF m = 0 THEN <<>>
          ELSE IF list[m].type = t THEN kept[m - 1] ELSE Append(kept[m - 1], list[m])
  BY DEF Loop
<1>3. 0 \in S
  <2>1. kept[0] = <<>>
    BY <1>1, <1>2
  <2>2. Good(0)
    BY <2>1 DEF Ordered
  <2> QED
    BY <1>1, <2>2
<1>4. ASSUME NEW m \in 0..(n - 1), m \in S PROVE m + 1 \in S
  <2> DEFINE c == list[m + 1]
  <2>1. /\ m + 1 \in 1..n /\ m + 1 \in 0..n /\ (m + 1) - 1 = m /\ m + 1 # 0
        /\ \A j \in 1..(m + 1) : j \in 1..m \/ j = m + 1
        /\ 1..m \subseteq 1..(m + 1) /\ m + 1 \in 1..(m + 1)
    BY <1>1
  <2>2. c \in Condition
    BY <1>1, <2>1
  <2>3. Good(m)
    BY <1>4
  <2>4. CASE c.type = t
    <3>1. kept[m + 1] = kept[m]
      BY <1>2, <2>1, <2>4
    <3>2. Good(m + 1)
      BY <2>1, <2>3, <2>4, <3>1
    <3> QED
      BY <2>1, <3>2
  <2>5. CASE c.type # t
    <3>1. kept[m + 1] = Append(kept[m], c)
      BY <1>2, <2>1, <2>5
    <3> DEFINE s == kept[m]
               longer == kept[m + 1]
    <3>2. /\ longer \in Seq(Condition) /\ Len(s) \in Nat /\ DOMAIN s = 1..Len(s)
          /\ DOMAIN longer = 1..(Len(s) + 1) /\ longer[Len(s) + 1] = c
          /\ \A i \in 1..Len(s) : longer[i] = s[i]
      BY <2>2, <2>3, <3>1
    <3>3. ASSUME NEW i \in 1..Len(s) PROVE LexicographicLess(s[i], c)
      <4>1. PICK j \in 1..m : list[j] = s[i]
        BY <2>3, <3>2
      <4>2. j \in DOMAIN list /\ m + 1 \in DOMAIN list /\ j < m + 1
        BY <1>1, <2>1
      <4> QED
        BY <4>1, <4>2 DEF Ordered
    <3>4. Ordered(longer)
      <4> SUFFICES ASSUME NEW i \in DOMAIN longer, NEW j \in DOMAIN longer, i < j
                   PROVE  LexicographicLess(longer[i], longer[j])
        BY DEF Ordered
      <4>1. i \in 1..Len(s) /\ (j \in 1..Len(s) \/ j = Len(s) + 1)
        BY <3>2
      <4>2. CASE j \in 1..Len(s)
        BY <2>3, <3>2, <4>1, <4>2 DEF Ordered
      <4>3. CASE j = Len(s) + 1
        BY <3>2, <3>3, <4>1, <4>3
      <4> QED
        BY <4>1, <4>2, <4>3
    <3>5. \A i \in DOMAIN longer :
              longer[i].type # t /\ \E j \in 1..(m + 1) : list[j] = longer[i]
      <4> SUFFICES ASSUME NEW i \in DOMAIN longer
                   PROVE  longer[i].type # t /\ \E j \in 1..(m + 1) : list[j] = longer[i]
        OBVIOUS
      <4>1. i \in 1..Len(s) \/ i = Len(s) + 1
        BY <3>2
      <4>2. CASE i \in 1..Len(s)
        BY <2>1, <2>3, <3>2, <4>2
      <4>3. CASE i = Len(s) + 1
        BY <2>1, <2>5, <3>2, <4>3
      <4> QED
        BY <4>1, <4>2, <4>3
    <3>6. \A j \in 1..(m + 1) :
              list[j].type # t => \E i \in DOMAIN longer : longer[i] = list[j]
      <4> SUFFICES ASSUME NEW j \in 1..(m + 1), list[j].type # t
                   PROVE  \E i \in DOMAIN longer : longer[i] = list[j]
        OBVIOUS
      <4>1. CASE j \in 1..m
        <5>1. PICK i \in DOMAIN s : s[i] = list[j]
          BY <2>3, <4>1
        <5>2. i \in DOMAIN longer /\ longer[i] = s[i]
          BY <3>2
        <5> QED
          BY <5>1, <5>2
      <4>2. CASE j = m + 1
        BY <3>2, <4>2
      <4> QED
        BY <2>1, <4>1, <4>2
    <3>7. Good(m + 1)
      BY <3>2, <3>4, <3>5, <3>6
    <3> QED
      BY <2>1, <3>7
  <2> QED
    BY <2>4, <2>5
<1>5. n \in S
  <2> HIDE DEF S
  <2>1. 0..n \subseteq S
    BY <1>1, <1>3, <1>4, Induction
  <2> QED
    BY <1>1, <2>1
<1>6. Good(n)
  BY <1>5
<1> QED
  BY <1>1, <1>6 DEF Has, KeptBy

\* Delete: the type is gone, the others are as they were.
LEMMA WithoutFacts ==
    ASSUME NEW list \in Seq(Condition), Ordered(list), NEW t
    PROVE  /\ Without(list, t) \in Seq(Condition)
           /\ Ordered(Without(list, t))
           /\ ~Has(Without(list, t), t)
           /\ \A u : u # t =>
                  /\ Has(Without(list, t), u) <=> Has(list, u)
                  /\ Has(list, u) => Get(Without(list, t), u) = Get(list, u)
<1> DEFINE kept == CHOOSE k : Loop(list, t, k, Len(list))
           new == kept[Len(list)]
<1>1. Without(list, t) = new
  BY Zenon DEF Without, Loop
<1>2. Loop(list, t, kept, Len(list))
  <2>1. \E k : Loop(list, t, k, Len(list))
    <3>1. Len(list) \in Nat
      OBVIOUS
    <3> QED
      BY <3>1, LoopExists
  <2> QED
    BY <2>1, Zenon
<1> HIDE DEF kept
<1>3. /\ new \in Seq(Condition) /\ Ordered(new) /\ ~Has(new, t)
      /\ KeptBy(new, list, t) /\ KeptBy(list, new, t)
  BY <1>2, LoopFacts
<1> HIDE DEF new
<1>4. Distinct(new) /\ Distinct(list)
  BY <1>3, OrderedDistinct
<1>5. ASSUME NEW u, u # t
      PROVE  /\ Has(new, u) <=> Has(list, u)
             /\ Has(list, u) => Get(new, u) = Get(list, u)
  <2>1. /\ \A i \in DOMAIN new : new[i].type = u => \E j \in DOMAIN list : list[j] = new[i]
        /\ \A j \in DOMAIN list : list[j].type = u => \E i \in DOMAIN new : new[i] = list[j]
    BY <1>3, <1>5 DEF KeptBy
  <2> QED
    BY <1>3, <1>4, <2>1, SameMap
<1> QED
  BY <1>1, <1>3, <1>5

-----------------------------------------------------------------------------
(* The theorems *)

ConditionsInv == TypeOK /\ Ordered(conditions)

LEMMA MarkFacts ==
    ASSUME ConditionsInv, NEW t \in Types, NEW s \in Statuses, NEW r \in Reasons, Mark(t, s, r)
    PROVE  /\ ConditionsInv'
           /\ Has(conditions', t)
           /\ Get(conditions', t) = Result(conditions, Marked(t, s, r), now)
           /\ \A u : u # t =>
                  /\ Has(conditions', u) <=> Has(conditions, u)
                  /\ Has(conditions, u) => Get(conditions', u) = Get(conditions, u)
<1>1. /\ conditions \in Seq(Condition) /\ Ordered(conditions) /\ now \in Clock
      /\ conditions' = Set(conditions, Marked(t, s, r), now) /\ now' = now
  BY DEF ConditionsInv, TypeOK, Mark, Marked
<1>2. conditions' \in Seq(Condition) /\ Ordered(conditions')
  BY <1>1, SetFacts
<1>3. ConditionsInv'
  BY <1>1, <1>2 DEF ConditionsInv, TypeOK, Ordered
<1> QED
  BY <1>1, <1>3, SetFacts

LEMMA DeleteFacts ==
    ASSUME ConditionsInv, NEW t \in Types, Delete(t)
    PROVE  /\ ConditionsInv'
           /\ ~Has(conditions', t)
           /\ \A u : u # t =>
                  /\ Has(conditions', u) <=> Has(conditions, u)
                  /\ Has(conditions, u) => Get(conditions', u) = Get(conditions, u)
<1>1. /\ conditions \in Seq(Condition) /\ Ordered(conditions) /\ now \in Clock
      /\ conditions' = Without(conditions, t) /\ now' = now
  BY DEF ConditionsInv, TypeOK, Delete
<1>2. conditions' \in Seq(Condition) /\ Ordered(conditions')
  BY <1>1, WithoutFacts
<1>3. ConditionsInv'
  BY <1>1, <1>2 DEF ConditionsInv, TypeOK, Ordered
<1> QED
  BY <1>1, <1>3, WithoutFacts

LEMMA ConditionsInvHolds == Spec => []ConditionsInv
<1>1. Init => ConditionsInv
  BY DEF Init, ConditionsInv, TypeOK, Ordered
<1>2. ConditionsInv /\ [Next]_vars => ConditionsInv'
  <2> SUFFICES ASSUME ConditionsInv, [Next]_vars
               PROVE  ConditionsInv'
    OBVIOUS
  <2>1. ASSUME NEW t \in Types, NEW s \in Statuses, NEW r \in Reasons, Mark(t, s, r)
        PROVE  ConditionsInv'
    BY <2>1, MarkFacts
  <2>2. ASSUME NEW t \in Types, Delete(t) PROVE ConditionsInv'
    BY <2>2, DeleteFacts
  <2>3. CASE Tick
    BY <2>3 DEF Tick, ConditionsInv, TypeOK, Ordered
  <2>4. CASE UNCHANGED vars
    BY <2>4 DEF vars, ConditionsInv, TypeOK, Ordered
  <2> QED
    BY <2>1, <2>2, <2>3, <2>4 DEF Next
<1> QED
  BY <1>1, <1>2, PTL DEF Spec

\* The list holds conditions of known types and statuses, stamped by the clock.
THEOREM ConditionsTypeCorrect == Spec => []TypeOK
<1>1. ConditionsInv => TypeOK
  BY DEF ConditionsInv
<1> QED
  BY <1>1, ConditionsInvHolds, PTL

\* Ready first, the others in alphabetical order and no type twice, for any set of
\* types and any sequence of Set and Delete.
THEOREM ConditionsAlwaysSorted == Spec => []Sorted
<1>1. ConditionsInv => Sorted
  BY SortedIsOrdered DEF ConditionsInv, TypeOK
<1> QED
  BY <1>1, ConditionsInvHolds, PTL

\* A type and a status determine reason and message.
OneReason == \A r, s \in Reasons : r = s

LEMMA NextMap == AsMap' = MapOf(conditions')
BY DEF AsMap, MapOf, Has, Get, IndexOf, Min

Entry(c) == [status |-> c.status, time |-> c.time]

LEMMA MapAt ==
    ASSUME NEW list, NEW t \in Types
    PROVE  /\ Has(list, t) => /\ MapOf(list)[t] = Entry(Get(list, t))
                              /\ MapOf(list)[t].status = Get(list, t).status
           /\ ~Has(list, t) => /\ MapOf(list)[t] = [status |-> "Absent", time |-> 0]
                               /\ MapOf(list)[t].status = "Absent"
BY DEF MapOf, Entry

\* A map that differs in one type.
LEMMA MapChange ==
    ASSUME NEW list, NEW other, NEW t \in Types, NEW value,
           MapOf(other)[t] = value,
           \A u : u # t => /\ Has(other, u) <=> Has(list, u)
                           /\ Has(list, u) => Get(other, u) = Get(list, u)
    PROVE  MapOf(other) = [MapOf(list) EXCEPT ![t] = value]
<1>1. ASSUME NEW u \in Types, u # t PROVE MapOf(other)[u] = MapOf(list)[u]
  <2>1. CASE Has(list, u)
    <3>1. Has(other, u) /\ Get(other, u) = Get(list, u)
      BY <1>1, <2>1
    <3> QED
      BY <2>1, <3>1, MapAt
  <2>2. CASE ~Has(list, u)
    <3>1. ~Has(other, u)
      BY <1>1, <2>2
    <3> QED
      BY <2>2, <3>1, MapAt
  <2> QED
    BY <2>1, <2>2
<1>2. /\ MapOf(other) = [u \in Types |-> MapOf(other)[u]]
      /\ MapOf(list) = [u \in Types |-> MapOf(list)[u]]
  BY DEF MapOf
<1> HIDE DEF MapOf
<1> QED
  BY <1>1, <1>2

LEMMA MarkIsMarked ==
    ASSUME OneReason, ConditionsInv,
           NEW t \in Types, NEW s \in Statuses, NEW r \in Reasons, Mark(t, s, r)
    PROVE  Map!Marked(t, s)
<1> DEFINE c == Marked(t, s, r)
<1>1. /\ now' = now /\ AsMap = MapOf(conditions) /\ AsMap' = MapOf(conditions')
  BY NextMap DEF Mark, AsMap
<1>2. /\ Has(conditions', t)
      /\ Get(conditions', t) = Result(conditions, c, now)
      /\ \A u : u # t => /\ Has(conditions', u) <=> Has(conditions, u)
                         /\ Has(conditions, u) => Get(conditions', u) = Get(conditions, u)
  BY MarkFacts
<1>3. AsMap' = [AsMap EXCEPT ![t] = AsMap'[t]]
  BY <1>1, <1>2, MapChange
<1>4. /\ c.type = t /\ c.status = s /\ c.reason = r
      /\ Stamped(c, now).status = s /\ Stamped(c, now).time = now
  BY DEF Marked, Stamped
<1>5. ASSUME Has(conditions, t)
      PROVE  Get(conditions, t) \in Condition /\ Get(conditions, t).type = t
  <2>1. conditions \in Seq(Condition) /\ Distinct(conditions)
    BY OrderedDistinct DEF ConditionsInv, TypeOK
  <2>2. PICK i \in DOMAIN conditions : conditions[i].type = t
    BY <1>5 DEF Has
  <2>3. Get(conditions, t) = conditions[i]
    BY <2>1, <2>2, GetIt
  <2> QED
    BY <2>1, <2>2, <2>3
<1>6. CASE AsMap[t].status = s
  <2>1. Has(conditions, t) /\ Get(conditions, t).status = s
    BY <1>1, <1>6, MapAt DEF Statuses
  <2>2. HasSameState(Get(conditions, t), c)
    BY <1>4, <1>5, <2>1 DEF HasSameState, OneReason, Condition
  <2>3. Get(conditions', t) = Get(conditions, t)
    BY <1>2, <1>4, <2>1, <2>2 DEF Result
  <2>4. AsMap'[t] = AsMap[t]
    BY <1>1, <1>2, <2>1, <2>3, MapAt
  <2>5. AsMap' = AsMap
    BY <1>1, <1>3, <2>4 DEF MapOf
  <2> QED
    BY <1>1, <1>6, <2>5 DEF Map!Marked, Map!Mark
<1>7. CASE AsMap[t].status # s
  <2>1. Has(conditions, t) => Get(conditions, t).status # s
    BY <1>1, <1>7, MapAt
  <2>2. Get(conditions', t) = Stamped(c, now)
    BY <1>2, <1>4, <2>1 DEF Result, HasSameState
  <2>3. AsMap'[t] = [status |-> s, time |-> now]
    BY <1>1, <1>2, <1>4, <2>2, MapAt DEF Entry
  <2> QED
    BY <1>1, <1>3, <1>7, <2>3 DEF Map!Marked, Map!Mark
<1> QED
  BY <1>6, <1>7

LEMMA DeleteIsDeleted ==
    ASSUME ConditionsInv, NEW t \in Types, Delete(t)
    PROVE  Map!Deleted(t)
<1>1. /\ now' = now /\ AsMap = MapOf(conditions) /\ AsMap' = MapOf(conditions')
  BY NextMap DEF Delete, AsMap
<1>2. AsMap'[t] = Map!NoCondition
  BY <1>1, DeleteFacts, MapAt DEF Map!NoCondition
<1>3. AsMap' = [AsMap EXCEPT ![t] = Map!NoCondition]
  BY <1>1, <1>2, DeleteFacts, MapChange
<1> QED
  BY <1>1, <1>3 DEF Map!Deleted

\* Refinement: the list that is searched, changed in place, appended to, filtered
\* and sorted is the map on which the model of the tenant controller is built.
THEOREM ListIsTheMap ==
    ASSUME OneReason
    PROVE  Spec => BehavesAsMap
<1>1. Init => Map!Init
  <2> SUFFICES ASSUME Init
               PROVE  Map!Init
    OBVIOUS
  <2>1. conditions = <<>> /\ now \in Clock
    BY DEF Init
  <2>2. AsMap = [t \in Types |-> Map!NoCondition]
    BY <2>1 DEF AsMap, MapOf, Has, Map!NoCondition
  <2> QED
    BY <2>1, <2>2 DEF Map!Init
<1>2. ConditionsInv /\ [Next]_vars => [Map!Next]_<<AsMap, now>>
  <2> SUFFICES ASSUME ConditionsInv, [Next]_vars
               PROVE  Map!Next \/ UNCHANGED <<AsMap, now>>
    OBVIOUS
  <2>1. ASSUME NEW t \in Types, NEW s \in Statuses, NEW r \in Reasons, Mark(t, s, r)
        PROVE  Map!Next
    BY <2>1, MarkIsMarked DEF Map!Next, Map!Statuses, Statuses
  <2>2. ASSUME NEW t \in Types, Delete(t) PROVE Map!Next
    BY <2>2, DeleteIsDeleted DEF Map!Next
  <2>3. ASSUME UNCHANGED conditions PROVE UNCHANGED AsMap
    BY <2>3, NextMap DEF AsMap
  <2>4. CASE Tick
    BY <2>3, <2>4 DEF Tick, Map!Next, Map!Passes
  <2>5. CASE UNCHANGED vars
    BY <2>3, <2>5 DEF vars
  <2> QED
    BY <2>1, <2>2, <2>4, <2>5 DEF Next
<1> QED
  BY <1>1, <1>2, ConditionsInvHolds, PTL DEF Spec, BehavesAsMap, Map!Spec
===============================================================================
