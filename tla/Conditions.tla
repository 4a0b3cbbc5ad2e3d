------------------------------ MODULE Conditions ------------------------------
(***************************************************************************)
(* pkg/conditions as it works: a list of conditions that is searched,      *)
(* changed in place or appended to, and sorted after every Set.            *)
(***************************************************************************)
EXTENDS Integers, Sequences, SequencesExt

CONSTANTS
    Alphabet,    \* the condition types, in alphabetical order
    Reasons,     \* reasons with their messages
    Clock        \* readings of the clock, in seconds

ASSUME AlphabetAssumption == Alphabet \in Seq(ToSet(Alphabet)) /\ IsInjective(Alphabet)
ASSUME ClockAssumption == Clock \subseteq Nat \ {0} /\ Clock # {}

Types    == ToSet(Alphabet)
Statuses == {"True", "False", "Unknown"}

VARIABLES
    conditions,    \* what GetConditions of the object returns
    now            \* time.Now().UTC().Truncate(time.Second)

vars == <<conditions, now>>

Condition == [type: Types, status: Statuses, reason: Reasons, time: Clock]

TypeOK == conditions \in Seq(Condition) /\ now \in Clock

-----------------------------------------------------------------------------
(* getter.go *)

Has(list, t) == \E i \in DOMAIN list : list[i].type = t

\* The first condition of the type, and where it is.
IndexOf(list, t) == Min({i \in DOMAIN list : list[i].type = t})

Get(list, t) == list[IndexOf(list, t)]

-----------------------------------------------------------------------------
(* setter.go *)

HasSameState(c, d) ==
    c.type = d.type /\ c.status = d.status /\ c.reason = d.reason

\* Where a type is in the alphabet.
Place(t) == CHOOSE i \in DOMAIN Alphabet : Alphabet[i] = t

\* Mutant of LexicographicLess: Ready is in its alphabetical place.
LexicographicLessOnly(c, d) == Place(c.type) < Place(d.type)

LexicographicLess(c, d) ==
    /\ c.type = "Ready" \/ Place(c.type) < Place(d.type)
    /\ d.type # "Ready"

Stamped(c, time) == [c EXCEPT !.time = time]

\* Mutant of Changed: the time of a condition that stays the same is renewed.
ChangedAlways(list, c, time) ==
    LET i == IndexOf(list, c.type)
    IN  [list EXCEPT ![i] = Stamped(c, time)]

\* The list with the condition of c's type changed in place, if it changes.
Changed(list, c, time) ==
    LET i == IndexOf(list, c.type)
    IN  IF HasSameState(list[i], c) THEN list ELSE [list EXCEPT ![i] = Stamped(c, time)]

\* Mutant of Appended: a new condition keeps the time it came with.
AppendedUnstamped(list, c, time) == Append(list, c)

\* A new condition may come with a time of its own (0: it has none).
Appended(list, c, time) ==
    Append(list, IF c.time = 0 THEN Stamped(c, time) ELSE c)

\* sort.Slice: the same elements, none less than one before it.
SortSlice(list) ==
    LET order == CHOOSE p \in Bijection(DOMAIN list, DOMAIN list) :
                    \A i, j \in DOMAIN list :
                        i < j => ~LexicographicLess(list[p[j]], list[p[i]])
    IN  [i \in DOMAIN list |-> list[order[i]]]

Set(list, c, time) ==
    SortSlice(IF Has(list, c.type) THEN Changed(list, c, time) ELSE Appended(list, c, time))

\* MarkTrue, MarkFalse and MarkUnknown.
Mark(t, status, reason) ==
    /\ conditions' = Set(conditions,
                         [type |-> t, status |-> status, reason |-> reason, time |-> 0], now)
    /\ UNCHANGED now

\* What the loop of Delete has kept when it is through.
Without(list, t) ==
    LET kept[n \in 0..Len(list)] ==
            IF n = 0 THEN <<>>
            ELSE IF list[n].type = t THEN kept[n - 1] ELSE Append(kept[n - 1], list[n])
    IN  kept[Len(list)]

Delete(t) ==
    /\ conditions' = Without(conditions, t)
    /\ UNCHANGED now

\* Nothing keeps the clock of one manager ahead of that of another.
Tick == now' \in Clock /\ UNCHANGED conditions

Init == conditions = <<>> /\ now \in Clock

Next ==
    \/ \E t \in Types, s \in Statuses, r \in Reasons : Mark(t, s, r)
    \/ \E t \in Types : Delete(t)
    \/ Tick

Spec == Init /\ [][Next]_vars

-----------------------------------------------------------------------------
(* Properties *)

\* "Sorts conditions for convenience of the consumer": however the calls of Set
\* and Delete follow each other, Ready comes first, the others in alphabetical
\* order, and no type twice.
Sorted ==
    \A i, j \in DOMAIN conditions :
        i < j => /\ conditions[j].type # "Ready"
                 /\ \/ conditions[i].type = "Ready"
                    \/ Place(conditions[i].type) < Place(conditions[j].type)

\* The list as a map from type to status and time.
MapOf(list) == [t \in Types |->
                  IF Has(list, t)
                  THEN [status |-> Get(list, t).status, time |-> Get(list, t).time]
                  ELSE [status |-> "Absent", time |-> 0]]

AsMap == MapOf(conditions)

Map == INSTANCE ConditionMap
    WITH conds <- AsMap, Times <- Clock, MaxUid <- 0, OtherFinalizers <- {}

\* Searched, changed in place, appended and sorted, the list behaves as the map
\* that TenantStatus takes it for, as long as a type and a status determine
\* reason and message: in particular, a condition that is marked again keeps
\* its time, whatever was deleted or marked around it.
BehavesAsMap == Map!Spec
===============================================================================
