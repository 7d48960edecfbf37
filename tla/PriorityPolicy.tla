--------------------------- MODULE PriorityPolicy ---------------------------
(***************************************************************************)
(* What the README promises of the host bandwidth limit, with nothing said *)
(* about measurements, intervals or processors: in contention the classes  *)
(* are limited in the order L2, L1, L0, none below its minimum, and spare  *)
(* bandwidth is handed back in the order L0, L1, L2, none above its        *)
(* maximum.  AdjustRate implements it.                                     *)
(***************************************************************************)
EXTENDS Integers

CONSTANTS Min, Max    \* the limits of each class, one configuration

Class == 0..2

VARIABLE rate

Init == rate = [k \in Class |-> 0]

LowerAtMinimum(k) == \A j \in Class : j > k => rate[j] = Min[j]
HigherAtMaximum(k) == \A j \in Class : j < k => rate[j] = Max[j]

\* In contention: less for class k, only when the classes below it have
\* nothing left to give.
Cut(k) ==
  /\ LowerAtMinimum(k)
  /\ \E r \in Min[k]..(rate[k] - 1) : rate' = [rate EXCEPT ![k] = r]

\* In contention: a class that was never raised is given its minimum.
Guarantee(k) ==
  /\ LowerAtMinimum(k)
  /\ rate[k] < Min[k]
  /\ rate' = [rate EXCEPT ![k] = Min[k]]

\* With bandwidth to spare: more for class k, only when the classes above it
\* have all they may have.
Grow(k) ==
  /\ HigherAtMaximum(k)
  /\ \E r \in (rate[k] + 1)..Max[k] : rate' = [rate EXCEPT ![k] = r]

Next == \E k \in Class : Cut(k) \/ Guarantee(k) \/ Grow(k)

Spec == Init /\ [][Next]_rate

-----------------------------------------------------------------------------

\* A class has more than its guarantee only while every class above it has
\* all the bandwidth it may have.
PriorityOrder ==
  \A j, k \in Class : j < k /\ rate[k] > Min[k] => rate[j] = Max[j]

=============================================================================
