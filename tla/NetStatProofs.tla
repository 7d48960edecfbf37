--------------------------- MODULE NetStatProofs ----------------------------
(***************************************************************************)
(* What is proved of NetStat, for any number of processors and entries,    *)
(* any lengths and any times.                                              *)
(***************************************************************************)
EXTENDS NetStat, TLAPS

-----------------------------------------------------------------------------
(* Arithmetic of the entries.                                              *)

LEMMA DivMod ==
  ASSUME NEW a \in Int, NEW b \in Nat \ {0}
  PROVE  /\ a % b \in 0..(b - 1)
         /\ a \in Nat => a \div b \in Nat
  OBVIOUS

\* A multiple of N is not followed by another one.
LEMMA NextIsNoMultiple ==
  ASSUME NEW i \in Nat, i % N = 0
  PROVE  (i + 1) % N # 0
<1>1. N \in Nat \ {0} /\ N >= 2
  BY MeterAssumption
<1>2. /\ i = N * (i \div N) + (i % N)
      /\ i + 1 = N * ((i + 1) \div N) + ((i + 1) % N)
      /\ i \div N \in Int /\ (i + 1) \div N \in Int
  BY <1>1
<1>3. ASSUME NEW x \in Int, NEW y \in Int, N * y = N * x + 1
      PROVE  FALSE
  <2>1. N * (y - x) = 1
    BY <1>1, <1>3
  <2>2. y - x >= 1 => N * (y - x) >= N
    BY <1>1, <1>3
  <2>3. y - x <= 0 => N * (y - x) <= 0
    BY <1>1, <1>3
  <2> QED
    BY <1>1, <1>3, <2>1, <2>2, <2>3
<1> DEFINE x == i \div N
           y == (i + 1) \div N
<1>4. x \in Int /\ y \in Int /\ i = N * x + 0 /\ i + 1 = N * y + ((i + 1) % N)
  BY <1>2
<1> HIDE DEF x, y
<1>5. ASSUME (i + 1) % N = 0
      PROVE  FALSE
  <2>1. N * x \in Int /\ N * y \in Int
    BY <1>1, <1>4
  <2>2. N * y = N * x + 1
    BY <1>4, <1>5, <2>1
  <2> QED
    BY <1>3, <1>4, <2>2
<1> QED
  BY <1>5

\* The meters' own entries are the first of each direction.
LEMMA Shift ==
  /\ index_shift(INGRESS_TRAFFIC) = 0 /\ index_shift(EGRESS_TRAFFIC) = N
  /\ \A d \in Direction : index_shift(d) \in Entries /\ index_shift(d) % N = 0
  /\ \A d \in Direction : index_shift(d) + 1 \in 0..(2 * N)
<1>1. N \in Nat /\ N >= 2
  BY MeterAssumption
<1>2. 0 * N = 0 /\ 1 * N = N
  BY <1>1
<1>3. 0 % N = 0 /\ N % N = 0
  BY <1>1
<1> QED
  BY <1>1, <1>2, <1>3 DEF index_shift, INGRESS_TRAFFIC, EGRESS_TRAFFIC, Direction, Entries

-----------------------------------------------------------------------------
(* Types, and the samples kept off the meters.                             *)

CpuState == [pc : Pc,
             d : Direction, len : Nat, now : 0..MaxClock,
             index : Nat, ts : 0..MaxClock, val : Nat]

Stat == [index : 0..(2 * N), ts : 0..MaxClock, val : Nat]

\* What processor p knows: from the start on that it has no meter's index, when a
\* sample is due that time has passed, and at the end that the sample was stored.
Local(p) ==
  /\ At(p, "init") => cpu[p].index % N = 0
  /\ cpu[p].pc \in {"sum", "clear", "store", "move"} => cpu[p].index % N # 0
  /\ At(p, "clear") \/ At(p, "store") => Gap(p) >= Sample
  /\ At(p, "move") => cpu[p].index \in Entries

IInv == TypeOK /\ \A p \in CPU : Local(p)

\* What a processor holds of the sum is owed, unless another one has sampled it.
Backed(p) ==
  cpu[p].pc \in Holding /\ p \notin outdated => cpu[p].val <= owed[cpu[p].d]

\* TypeOK is not inductive without NoDoubleCount: a sample is taken from what is owed.
CountInv == IInv /\ NoDoubleCount /\ \A p \in CPU : Backed(p)

LEMMA InitIInv == Init => IInv
BY MeterAssumption
   DEF Init, IInv, TypeOK, Local, At, IdleCpu, Direction, INGRESS_TRAFFIC, Pc

LEMMA GapType ==
  ASSUME TypeOK, NEW p \in CPU
  PROVE  Gap(p) \in Nat
<1>1. cpu[p].now - cpu[p].ts \in Int /\ Word \in Nat \ {0}
  BY MeterAssumption DEF TypeOK
<1> QED
  BY <1>1, DivMod DEF Gap

LEMMA TotalType ==
  ASSUME TypeOK, NEW p \in CPU
  PROVE  Total(p) \in Nat
BY DEF TypeOK, Total

LEMMA RateType ==
  ASSUME TypeOK, NEW p \in CPU, Gap(p) >= Sample
  PROVE  Rate(p) \in Nat
<1>1. Gap(p) \in Nat \ {0} /\ Second \in Nat /\ Total(p) \in Nat
  BY MeterAssumption, GapType, TotalType
<1>2. Total(p) * Second \in Nat
  BY <1>1
<1> DEFINE a == Total(p) * Second
           b == Gap(p)
<1>3. a \in Nat /\ b \in Nat \ {0}
  BY <1>1, <1>2
<1> HIDE DEF a, b
<1>4. a \div b \in Nat
  BY <1>3, DivMod
<1> QED
  BY <1>4 DEF a, b, Rate

LEMMA MetaEntry ==
  ASSUME TypeOK, NEW p \in CPU
  PROVE  /\ Meta(p) \in Entries /\ Meta(p) % N = 0
         /\ Meta(p) + 1 \in 0..(2 * N)
         /\ stat[Meta(p)] \in Stat
BY Shift DEF TypeOK, Meta, Stat

\* A step of processor p that gives it locals l leaves the others as they were.
LEMMA Moves ==
  ASSUME IInv, NEW p \in CPU, NEW l \in CpuState, cpu' = [cpu EXCEPT ![p] = l]
  PROVE  /\ cpu' \in [CPU -> CpuState]
         /\ cpu'[p] = l
         /\ Local(p)' => \A q \in CPU : Local(q)'
<1>1. cpu \in [CPU -> CpuState] /\ \A q \in CPU : Local(q)
  BY DEF IInv, TypeOK, CpuState
<1>2. cpu' \in [CPU -> CpuState] /\ cpu'[p] = l
  BY <1>1
<1>3. ASSUME NEW q \in CPU, q # p
      PROVE  Local(q)'
  <2>1. cpu'[q] = cpu[q]
    BY <1>1, <1>3
  <2> QED
    BY <1>1, <2>1 DEF Local, At, Gap
<1> QED
  BY <1>2, <1>3

LEMMA TypeParts ==
  TypeOK <=> /\ stat \in [Entries -> Stat]
             /\ clock \in 0..MaxClock
             /\ cpu \in [CPU -> CpuState]
             /\ owed \in [Direction -> Nat]
             /\ outdated \subseteq CPU
             /\ overtaken \subseteq CPU
BY DEF TypeOK, Stat, CpuState

LEMMA IdleType == IdleCpu \in CpuState
BY MeterAssumption DEF IdleCpu, CpuState, Direction, INGRESS_TRAFFIC, Pc

\* A processor that is idle, or about to load, knows nothing.
LEMMA BeginsIInv ==
  ASSUME IInv, NEW p \in CPU, NEW l \in CpuState, cpu' = [cpu EXCEPT ![p] = l],
         l.pc \in {"idle", "load", "val"},
         stat' \in [Entries -> Stat], clock' = clock,
         owed' \in [Direction -> Nat], outdated' \subseteq outdated,
         overtaken' \subseteq overtaken
  PROVE  IInv'
<1>1. cpu' \in [CPU -> CpuState] /\ cpu'[p] = l
  BY Moves
<1>2. Local(p)'
  BY <1>1 DEF Local, At
<1>3. \A q \in CPU : Local(q)'
  BY <1>2, Moves
<1>4. TypeOK'
  BY <1>1, TypeParts DEF IInv, TypeOK, CpuState, Stat
<1> QED
  BY <1>3, <1>4 DEF IInv

LEMMA EnterIInv ==
  ASSUME IInv, NEW p \in CPU, Enter(p)
  PROVE  IInv'
<1>1. PICK d \in Direction, len \in Lens :
        cpu' = [cpu EXCEPT ![p].pc = "load", ![p].d = d, ![p].len = len,
                           ![p].now = clock]
  BY DEF Enter
<1> DEFINE l == [cpu[p] EXCEPT !.pc = "load", !.d = d, !.len = len, !.now = clock]
<1>2. len \in Nat /\ clock \in 0..MaxClock /\ cpu[p] \in CpuState
  BY MeterAssumption, TypeParts DEF IInv
<1>3. l \in CpuState /\ l.pc = "load"
  BY <1>2 DEF CpuState, Pc
<1>4. cpu' = [cpu EXCEPT ![p] = l]
  BY <1>1
<1> HIDE DEF l
<1>5. stat' \in [Entries -> Stat] /\ owed' \in [Direction -> Nat]
  BY TypeParts DEF Enter, IInv
<1> QED
  BY <1>3, <1>4, <1>5, BeginsIInv DEF Enter

LEMMA LoadMetaIInv ==
  ASSUME IInv, NEW p \in CPU, LoadMeta(p)
  PROVE  IInv'
<1> DEFINE meta == stat[Meta(p)]
           l == [cpu[p] EXCEPT !.pc = "val", !.index = meta.index, !.ts = meta.ts]
<1>1. meta \in Stat /\ meta.index \in Nat /\ cpu[p] \in CpuState
  BY MetaEntry, TypeParts, MeterAssumption DEF IInv, Stat
<1>2. l \in CpuState /\ l.pc = "val"
  BY <1>1 DEF CpuState, Stat, Pc
<1>3. cpu' = [cpu EXCEPT ![p] = l]
  BY DEF LoadMeta
<1> HIDE DEF l, meta
<1>4. stat' \in [Entries -> Stat] /\ owed' \in [Direction -> Nat]
  BY TypeParts DEF LoadMeta, IInv
<1> QED
  BY <1>2, <1>3, <1>4, BeginsIInv DEF LoadMeta

LEMMA LoadSumIInv ==
  ASSUME IInv, NEW p \in CPU, LoadSum(p)
  PROVE  IInv'
<1> DEFINE v == stat[Meta(p)].val
           l == [cpu[p] EXCEPT !.pc = IF cpu[p].index % N = 0 THEN "init" ELSE "sum",
                               !.val = v]
<1>1. v \in Nat /\ cpu[p] \in CpuState
  BY MetaEntry, TypeParts DEF IInv, Stat
<1>2. /\ l \in CpuState /\ l.index = cpu[p].index
      /\ l.pc = IF cpu[p].index % N = 0 THEN "init" ELSE "sum"
  BY <1>1 DEF CpuState, Pc
<1>3. cpu' = [cpu EXCEPT ![p] = l]
  BY DEF LoadSum
<1> HIDE DEF l, v
<1>4. cpu' \in [CPU -> CpuState] /\ cpu'[p] = l
  BY <1>2, <1>3, Moves
<1>5. Local(p)'
  BY <1>2, <1>4 DEF Local, At
<1>6. \A q \in CPU : Local(q)'
  BY <1>2, <1>3, <1>5, Moves
<1>7. TypeOK'
  BY <1>4, TypeParts DEF LoadSum, IInv, TypeOK, CpuState, Stat
<1> QED
  BY <1>6, <1>7 DEF IInv

\* Those who are overtaken are processors.
LEMMA OvertakenType ==
  ASSUME IInv, NEW p \in CPU, Overtakes(p)
  PROVE  overtaken' \subseteq CPU
BY TypeParts DEF IInv, Overtakes, Others

LEMMA RestartIInv ==
  ASSUME IInv, NEW p \in CPU, Restart(p)
  PROVE  IInv'
<1> DEFINE l == [cpu[p] EXCEPT !.pc = "sum", !.index = cpu[p].index + 1]
<1>1. cpu[p] \in CpuState /\ cpu[p].index \in Nat
  BY TypeParts DEF IInv, CpuState
<1>2. l \in CpuState /\ l.pc = "sum" /\ l.index = cpu[p].index + 1
  <2>1. \A n \in Nat : LET m == [cpu[p] EXCEPT !.pc = "sum", !.index = n]
                       IN  m \in CpuState /\ m.pc = "sum" /\ m.index = n
    BY <1>1 DEF CpuState, Pc
  <2>2. cpu[p].index + 1 \in Nat
    BY <1>1
  <2> QED
    BY <2>1, <2>2
<1>3. cpu' = [cpu EXCEPT ![p] = l]
  BY DEF Restart, AfterRestart
<1>4. (cpu[p].index + 1) % N # 0
  BY <1>1, NextIsNoMultiple DEF Restart, IInv, Local
<1> HIDE DEF l
<1>5. cpu' \in [CPU -> CpuState] /\ cpu'[p] = l
  BY <1>2, <1>3, Moves
<1>6. Local(p)'
  BY <1>2, <1>4, <1>5 DEF Local, At
<1>7. \A q \in CPU : Local(q)'
  BY <1>2, <1>3, <1>6, Moves
<1>8. stat' \in [Entries -> Stat]
  <2>1. [index |-> Meta(p) + 1, ts |-> cpu[p].now, val |-> 0] \in Stat
    BY <1>1, MetaEntry DEF IInv, Stat, CpuState
  <2> QED
    BY <2>1, TypeParts DEF Restart, IInv
<1>9. overtaken' \subseteq CPU
  BY OvertakenType DEF Restart
<1>10. TypeOK'
  BY <1>5, <1>8, <1>9, TypeParts DEF Restart, IInv, TypeOK, CpuState, Stat
<1> QED
  BY <1>7, <1>10 DEF IInv

LEMMA AddedType ==
  ASSUME TypeOK, NEW p \in CPU
  PROVE  Added(p) \in Nat
BY DEF TypeOK, Added

LEMMA AccumulateIInv ==
  ASSUME IInv, NEW p \in CPU, Accumulate(p)
  PROVE  IInv'
<1>1. stat' \in [Entries -> Stat]
  <2>1. [stat[Meta(p)] EXCEPT !.val = Total(p)] \in Stat
    BY MetaEntry, TotalType DEF IInv, Stat
  <2> QED
    BY <2>1, TypeParts DEF Accumulate, IInv
<1>2. owed' \in [Direction -> Nat]
  <2> DEFINE n == owed[cpu[p].d] + Added(p)
  <2>1. n \in Nat
    BY AddedType DEF IInv, TypeOK
  <2>2. owed' = [owed EXCEPT ![cpu[p].d] = n]
    BY DEF Accumulate
  <2> HIDE DEF n
  <2> QED
    BY <2>1, <2>2, TypeParts DEF IInv
<1>3. /\ cpu' = [cpu EXCEPT ![p] = IdleCpu] /\ clock' = clock
      /\ outdated' \subseteq outdated /\ overtaken' \subseteq overtaken
  BY DEF Accumulate, Return
<1> QED
  BY <1>1, <1>2, <1>3, IdleType, BeginsIInv DEF IdleCpu

LEMMA StampIInv ==
  ASSUME IInv, NEW p \in CPU, Stamp(p)
  PROVE  IInv'
<1> DEFINE l == [cpu[p] EXCEPT !.pc = "clear"]
<1>1. cpu[p] \in CpuState
  BY TypeParts DEF IInv
<1>2. /\ l \in CpuState /\ l.pc = "clear" /\ l.index = cpu[p].index
      /\ l.now = cpu[p].now /\ l.ts = cpu[p].ts
  BY <1>1 DEF CpuState, Pc
<1>3. cpu' = [cpu EXCEPT ![p] = l]
  BY DEF Stamp
<1> HIDE DEF l
<1>4. cpu' \in [CPU -> CpuState] /\ cpu'[p] = l
  BY <1>2, <1>3, Moves
<1>5. Local(p)'
  BY <1>2, <1>4 DEF Stamp, IInv, Local, At, Gap
<1>6. \A q \in CPU : Local(q)'
  BY <1>2, <1>3, <1>5, Moves
<1>7. stat' \in [Entries -> Stat]
  <2>1. [stat[Meta(p)] EXCEPT !.ts = cpu[p].now] \in Stat
    BY <1>1, MetaEntry DEF IInv, Stat, CpuState
  <2> QED
    BY <2>1, TypeParts DEF Stamp, NewStamp, IInv
<1>8. overtaken' \subseteq CPU
  BY OvertakenType DEF Stamp
<1>9. TypeOK'
  BY <1>4, <1>7, <1>8, TypeParts DEF Stamp, IInv, TypeOK, CpuState, Stat
<1> QED
  BY <1>6, <1>9 DEF IInv

\* What a sample leaves owed.
LEMMA Sampled ==
  ASSUME CountInv, NEW p \in CPU, cpu[p].pc \in Holding
  PROVE  /\ owed[cpu[p].d] + Added(p) - Total(p) \in Nat
         /\ p \in outdated => Added(p) = Total(p)
         /\ p \notin outdated => Added(p) = cpu[p].len /\ cpu[p].val <= owed[cpu[p].d]
<1>1. /\ owed[cpu[p].d] \in Nat /\ cpu[p].len \in Nat /\ cpu[p].val \in Nat
  BY TypeParts DEF CountInv, IInv, CpuState
<1>2. Backed(p)
  BY DEF CountInv
<1>3. CASE p \in outdated
  BY <1>1, <1>3 DEF Added, Total
<1>4. CASE p \notin outdated
  BY <1>1, <1>2, <1>4 DEF Added, Total, Backed
<1> QED
  BY <1>3, <1>4

LEMMA ClearIInv ==
  ASSUME CountInv, NEW p \in CPU, Clear(p)
  PROVE  IInv'
<1>0. IInv
  BY DEF CountInv
<1> DEFINE l == [cpu[p] EXCEPT !.pc = "store"]
<1>1. cpu[p] \in CpuState
  BY <1>0, TypeParts DEF IInv
<1>2. /\ l \in CpuState /\ l.pc = "store" /\ l.index = cpu[p].index
      /\ l.now = cpu[p].now /\ l.ts = cpu[p].ts
  BY <1>1 DEF CpuState, Pc
<1>3. cpu' = [cpu EXCEPT ![p] = l]
  BY DEF Clear
<1> HIDE DEF l
<1>4. cpu' \in [CPU -> CpuState] /\ cpu'[p] = l
  BY <1>0, <1>2, <1>3, Moves
<1>5. Local(p)'
  BY <1>0, <1>2, <1>4 DEF Clear, IInv, Local, At, Gap
<1>6. \A q \in CPU : Local(q)'
  BY <1>0, <1>2, <1>3, <1>5, Moves
<1>7. stat' \in [Entries -> Stat]
  <2>1. [stat[Meta(p)] EXCEPT !.val = 0] \in Stat
    BY <1>0, MetaEntry DEF IInv, Stat
  <2> QED
    BY <1>0, <2>1, TypeParts DEF Clear, SumAfterSample, IInv
<1>8. owed' \in [Direction -> Nat]
  <2> DEFINE n == owed[cpu[p].d] + Added(p) - Total(p)
  <2>1. n \in Nat
    BY Sampled DEF Clear, At, Holding
  <2>2. owed' = [owed EXCEPT ![cpu[p].d] = n]
    BY DEF Clear
  <2> HIDE DEF n
  <2> QED
    BY <1>0, <2>1, <2>2, TypeParts DEF IInv
<1>9. outdated' \subseteq CPU /\ overtaken' \subseteq CPU
  BY <1>0, TypeParts DEF Clear, Others, IInv
<1>10. TypeOK'
  BY <1>0, <1>4, <1>7, <1>8, <1>9 DEF Clear, IInv, TypeOK, CpuState, Stat
<1> QED
  BY <1>6, <1>10 DEF IInv

LEMMA StoreIInv ==
  ASSUME IInv, NEW p \in CPU, Store(p)
  PROVE  IInv'
<1> DEFINE i == cpu[p].index
           l == [IdleCpu EXCEPT !.pc = "move", !.d = cpu[p].d, !.index = i]
<1>1. cpu[p] \in CpuState /\ i \in Entries /\ i \in Nat
  BY TypeParts, MeterAssumption DEF IInv, Store, HasEntry, Entries
<1>2. l \in CpuState /\ l.pc = "move" /\ l.index = i
  BY <1>1, IdleType DEF CpuState, IdleCpu, Pc
<1>3. cpu' = [cpu EXCEPT ![p] = l]
  BY DEF Store
<1>4. i % N # 0
  BY DEF Store, IInv, Local, At
<1>5. stat' \in [Entries -> Stat]
  <2>1. Rate(p) \in Nat
    BY RateType DEF Store, IInv, Local
  <2>2. [stat[i] EXCEPT !.val = Rate(p), !.ts = cpu[p].now] \in Stat
    BY <1>1, <2>1, TypeParts DEF IInv, Stat, CpuState
  <2>3. stat' = [stat EXCEPT ![i] = [stat[i] EXCEPT !.val = Rate(p), !.ts = cpu[p].now]]
    BY <1>1, TypeParts DEF Store, IInv
  <2> QED
    BY <2>2, <2>3, TypeParts DEF IInv
<1> HIDE DEF l, i
<1>6. cpu' \in [CPU -> CpuState] /\ cpu'[p] = l
  BY <1>2, <1>3, Moves
<1>7. Local(p)'
  BY <1>1, <1>2, <1>4, <1>6 DEF Local, At
<1>8. \A q \in CPU : Local(q)'
  BY <1>2, <1>3, <1>7, Moves
<1>9. TypeOK'
  BY <1>5, <1>6 DEF Store, IInv, TypeOK, CpuState, Stat
<1> QED
  BY <1>8, <1>9 DEF IInv

LEMMA MoveIInv ==
  ASSUME IInv, NEW p \in CPU, Move(p)
  PROVE  IInv'
<1>1. stat' \in [Entries -> Stat]
  <2>1. cpu[p].index + 1 \in 0..(2 * N)
    BY MeterAssumption DEF Move, IInv, Local, Entries
  <2>2. [stat[Meta(p)] EXCEPT !.index = cpu[p].index + 1] \in Stat
    BY <2>1, MetaEntry DEF IInv, Stat
  <2> QED
    BY <2>2, TypeParts DEF Move, IInv
<1>2. /\ cpu' = [cpu EXCEPT ![p] = IdleCpu] /\ clock' = clock
      /\ owed' \in [Direction -> Nat]
      /\ outdated' \subseteq outdated /\ overtaken' \subseteq overtaken
  BY TypeParts DEF Move, Return, IInv
<1> QED
  BY <1>1, <1>2, IdleType, BeginsIInv DEF IdleCpu

LEMMA NoSlotIInv ==
  ASSUME IInv, NEW p \in CPU, NoSlot(p)
  PROVE  IInv'
<1>1. /\ cpu' = [cpu EXCEPT ![p] = IdleCpu] /\ clock' = clock
      /\ stat' \in [Entries -> Stat] /\ owed' \in [Direction -> Nat]
      /\ outdated' \subseteq outdated /\ overtaken' \subseteq overtaken
  BY TypeParts DEF NoSlot, Return, IInv
<1> QED
  BY <1>1, IdleType, BeginsIInv DEF IdleCpu

LEMMA NextIInv == CountInv /\ [Next]_vars => IInv'
<1> SUFFICES ASSUME CountInv, IInv, [Next]_vars PROVE IInv'
  BY DEF CountInv
<1>1. CASE Tick
  BY <1>1, MeterAssumption DEF Tick, IInv, TypeOK, Local, At, Gap
<1>2. ASSUME NEW p \in CPU, CpuStep(p)
      PROVE  IInv'
  <2>1. CASE Enter(p)      BY <2>1, EnterIInv
  <2>2. CASE LoadMeta(p)   BY <2>2, LoadMetaIInv
  <2>3. CASE LoadSum(p)    BY <2>3, LoadSumIInv
  <2>4. CASE Restart(p)    BY <2>4, RestartIInv
  <2>5. CASE Accumulate(p) BY <2>5, AccumulateIInv
  <2>6. CASE Stamp(p)      BY <2>6, StampIInv
  <2>7. CASE Clear(p)      BY <2>7, ClearIInv
  <2>8. CASE NoSlot(p)     BY <2>8, NoSlotIInv
  <2>9. CASE Store(p)      BY <2>9, StoreIInv
  <2>10. CASE Move(p)      BY <2>10, MoveIInv
  <2> QED
    BY <1>2, <2>1, <2>2, <2>3, <2>4, <2>5, <2>6, <2>7, <2>8, <2>9, <2>10 DEF CpuStep
<1>3. CASE UNCHANGED vars
  BY <1>3 DEF vars, IInv, TypeOK, Local, At, Gap
<1> QED
  BY <1>1, <1>2, <1>3 DEF Next

-----------------------------------------------------------------------------
(* What a sample takes is owed.                                            *)

LEMMA InitCount == Init => CountInv
<1> SUFFICES ASSUME Init PROVE CountInv
  OBVIOUS
<1>1. IInv
  BY InitIInv
<1>2. NoDoubleCount
  BY Shift DEF Init, NoDoubleCount
<1>3. \A p \in CPU : Backed(p)
  BY DEF Init, Backed, Holding, IdleCpu
<1> QED
  BY <1>1, <1>2, <1>3 DEF CountInv

\* The numbers that are compared, of direction d.
LEMMA Sums ==
  ASSUME IInv, NEW d \in Direction
  PROVE  /\ owed[d] \in Nat /\ stat[index_shift(d)].val \in Nat
         /\ index_shift(d) \in Entries
         /\ \A e \in Direction : index_shift(d) = index_shift(e) => d = e
<1>1. owed[d] \in Nat
  BY TypeParts DEF IInv
<1>2. stat[index_shift(d)] \in Stat /\ index_shift(d) \in Entries
  BY Shift, TypeParts DEF IInv
<1>3. \A e \in Direction : index_shift(d) = index_shift(e) => d = e
  BY Shift, MeterAssumption DEF Direction
<1> QED
  BY <1>1, <1>2, <1>3 DEF Stat

LEMMA Packet ==
  ASSUME IInv, NEW p \in CPU
  PROVE  /\ cpu[p] \in CpuState /\ cpu[p].d \in Direction
         /\ cpu[p].len \in Nat /\ cpu[p].val \in Nat
         /\ Total(p) \in Nat /\ Added(p) \in Nat
         /\ Meta(p) = index_shift(cpu[p].d) /\ Meta(p) \in Entries
         /\ cpu \in [CPU -> CpuState] /\ stat \in [Entries -> Stat]
         /\ owed \in [Direction -> Nat]
BY TotalType, AddedType, MetaEntry, TypeParts DEF IInv, CpuState, Meta

\* A step that owes no less in any direction, and outdates nobody, keeps what the
\* others hold backed.
LEMMA OthersBacked ==
  ASSUME CountInv, NEW p \in CPU, NEW q \in CPU, q # p, cpu'[q] = cpu[q],
         owed' \in [Direction -> Nat],
         \/ owed'[cpu[q].d] >= owed[cpu[q].d] /\ outdated \ {p} \subseteq outdated'
         \/ cpu[q].pc \in Holding => q \in outdated'
  PROVE  Backed(q)'
<1>1. /\ Backed(q) /\ cpu[q].val \in Nat
      /\ owed[cpu[q].d] \in Nat /\ owed'[cpu[q].d] \in Nat
  BY Packet, TypeParts DEF CountInv, IInv, CpuState
<1>2. CASE cpu[q].pc \in Holding => q \in outdated'
  BY <1>2 DEF Backed, Holding
<1>3. CASE owed'[cpu[q].d] >= owed[cpu[q].d] /\ outdated \ {p} \subseteq outdated'
  BY <1>1, <1>3 DEF Backed, Holding
<1> QED
  BY <1>2, <1>3

LEMMA CountStep == CountInv /\ [Next]_vars => CountInv'
<1> SUFFICES ASSUME CountInv, [Next]_vars PROVE CountInv'
  OBVIOUS
<1>0. IInv /\ IInv' /\ NoDoubleCount
  BY NextIInv DEF CountInv
<1>1. CASE Tick
  BY <1>0, <1>1 DEF Tick, CountInv, NoDoubleCount, Backed
<1>2. CASE UNCHANGED vars
  BY <1>0, <1>2 DEF vars, CountInv, NoDoubleCount, Backed
<1>3. ASSUME NEW p \in CPU, CpuStep(p)
      PROVE  CountInv'
  <2>0. /\ cpu[p].d \in Direction /\ Meta(p) = index_shift(cpu[p].d)
        /\ Meta(p) \in Entries
        /\ cpu \in [CPU -> CpuState] /\ stat \in [Entries -> Stat]
        /\ owed \in [Direction -> Nat]
        /\ cpu[p].len \in Nat /\ cpu[p].val \in Nat
        /\ Total(p) \in Nat /\ Added(p) \in Nat
        /\ owed[cpu[p].d] \in Nat /\ owed' \in [Direction -> Nat]
    <3>1. owed' \in [Direction -> Nat]
      BY <1>0 DEF IInv, TypeOK
    <3> QED
      BY <1>0, <3>1, Packet
  <2>1. \A q \in CPU \ {p} : cpu'[q] = cpu[q]
    BY <1>3, <2>0 DEF CpuStep, Enter, LoadMeta, LoadSum, Restart, Accumulate, Stamp,
       Clear, NoSlot, Store, Move, Return
  <2>2. \A d \in Direction : /\ owed[d] \in Nat /\ stat[index_shift(d)].val \in Nat
                             /\ index_shift(d) \in Entries
                             /\ stat[index_shift(d)].val <= owed[d]
    BY <1>0, Sums DEF NoDoubleCount
\* The sums and what is owed stay as they are.
  <2>3. CASE /\ \A d \in Direction : stat'[index_shift(d)].val = stat[index_shift(d)].val
             /\ owed' = owed /\ outdated' = outdated
             /\ cpu'[p].pc \in Holding
                  => /\ cpu[p].pc \in Holding
                     /\ cpu'[p].val = cpu[p].val /\ cpu'[p].d = cpu[p].d
    <3>1. NoDoubleCount'
      BY <2>2, <2>3 DEF NoDoubleCount
    <3>2. Backed(p)'
      BY <2>3 DEF Backed, CountInv, Holding
    <3>3. ASSUME NEW q \in CPU, q # p PROVE Backed(q)'
      BY <2>1, <2>3, <3>3 DEF Backed, CountInv, Holding
    <3> QED
      BY <1>0, <3>1, <3>2, <3>3 DEF CountInv
  <2>4. CASE Enter(p) \/ LoadMeta(p) \/ NoSlot(p)
    <3>1. cpu'[p].pc \notin Holding
      <4>1. CASE Enter(p)
        BY <2>0, <4>1 DEF Enter, Holding, CpuState
      <4>2. CASE LoadMeta(p)
        BY <2>0, <4>2 DEF LoadMeta, Holding, CpuState
      <4>3. CASE NoSlot(p)
        BY <2>0, <4>3 DEF NoSlot, Return, IdleCpu, Holding
      <4> QED
        BY <2>4, <4>1, <4>2, <4>3
    <3> QED
      BY <2>3, <2>4, <3>1 DEF Enter, LoadMeta, NoSlot
  <2>5. CASE LoadSum(p)
    <3>1. /\ cpu'[p].val = stat[Meta(p)].val /\ cpu'[p].d = cpu[p].d
      BY <2>0, <2>5 DEF LoadSum, CpuState
    <3>2. stat' = stat /\ owed' = owed /\ outdated' = outdated
      BY <2>5 DEF LoadSum
    <3>3. Backed(p)'
      BY <2>0, <2>2, <3>1, <3>2 DEF Backed
    <3>4. ASSUME NEW q \in CPU, q # p PROVE Backed(q)'
      BY <2>1, <3>2, <3>4 DEF Backed, CountInv, Holding
    <3>5. NoDoubleCount'
      BY <1>0, <3>2 DEF NoDoubleCount
    <3> QED
      BY <1>0, <3>3, <3>4, <3>5 DEF CountInv
  <2>6. CASE Restart(p)
    <3>1. /\ cpu'[p].val = cpu[p].val /\ cpu'[p].d = cpu[p].d /\ cpu[p].pc \in Holding
      BY <2>0, <2>6 DEF Restart, CpuState, At, Holding
    <3>2. owed' = owed /\ outdated' = outdated
      BY <2>6 DEF Restart
    <3>3. Backed(p)'
      BY <3>1, <3>2 DEF Backed, CountInv
    <3>4. ASSUME NEW q \in CPU, q # p PROVE Backed(q)'
      BY <2>1, <3>2, <3>4 DEF Backed, CountInv, Holding
    <3>5. stat'[Meta(p)].val = 0 /\ \A i \in Entries : i # Meta(p) => stat'[i] = stat[i]
      BY <2>0, <2>6 DEF Restart
    <3>6. NoDoubleCount'
      <4> SUFFICES ASSUME NEW f \in Direction
                   PROVE  stat'[index_shift(f)].val <= owed'[f]
        BY DEF NoDoubleCount
      <4> QED
        BY <2>2, <3>2, <3>5
    <3> QED
      BY <1>0, <3>3, <3>4, <3>6 DEF CountInv
  <2>7. CASE Accumulate(p)
    <3> DEFINE d == cpu[p].d
    <3>1. cpu[p].pc \in Holding /\ cpu'[p].pc = "idle" /\ outdated' = outdated \ {p}
      BY <2>0, <2>7 DEF Accumulate, Return, IdleCpu, At, Holding
    <3>2. owed'[d] = owed[d] + Added(p) /\ \A f \in Direction \ {d} : owed'[f] = owed[f]
      BY <2>0, <2>7 DEF Accumulate
    <3>3. Backed(p)'
      BY <3>1 DEF Backed, Holding
    <3>4. ASSUME NEW q \in CPU, q # p PROVE Backed(q)'
      <4>1. cpu[q].d \in Direction
        BY <1>0, Packet
      <4>2. owed'[cpu[q].d] >= owed[cpu[q].d]
        BY <2>0, <2>2, <3>2, <4>1
      <4>3. cpu'[q] = cpu[q] /\ outdated \ {p} \subseteq outdated'
        BY <2>1, <3>1, <3>4
      <4> HIDE DEF d
      <4> QED
        BY <2>0, <3>4, <4>2, <4>3, OthersBacked
    <3>5. /\ stat'[Meta(p)].val = Total(p)
          /\ \A i \in Entries : i # Meta(p) => stat'[i] = stat[i]
      BY <2>0, <2>7 DEF Accumulate, Stat
    <3>6. Total(p) <= owed'[d]
      <4>1. CASE p \in outdated
        BY <2>0, <3>1, <3>2, <4>1, Sampled
      <4>2. CASE p \notin outdated
        <5>1. Added(p) = cpu[p].len /\ cpu[p].val <= owed[d]
          BY <3>1, <4>2, Sampled
        <5> QED
          BY <2>0, <3>2, <5>1 DEF Total
      <4> QED
        BY <4>1, <4>2
    <3>7. NoDoubleCount'
      <4> SUFFICES ASSUME NEW f \in Direction
                   PROVE  stat'[index_shift(f)].val <= owed'[f]
        BY DEF NoDoubleCount
      <4>1. CASE f = d
        BY <2>0, <3>5, <3>6, <4>1
      <4>2. CASE f # d
        <5>1. index_shift(f) \in Entries /\ index_shift(f) # Meta(p)
          BY <1>0, <2>0, <4>2, Sums
        <5> QED
          BY <2>2, <3>2, <3>5, <4>2, <5>1
      <4> QED
        BY <4>1, <4>2
    <3> QED
      BY <1>0, <3>3, <3>4, <3>7 DEF CountInv
  <2>8. CASE Stamp(p)
    <3>1. /\ cpu'[p].val = cpu[p].val /\ cpu'[p].d = cpu[p].d /\ cpu[p].pc \in Holding
      BY <2>0, <2>8 DEF Stamp, CpuState, At, Holding
    <3>2. \A i \in Entries : stat'[i].val = stat[i].val
      BY <2>0, <2>8 DEF Stamp, Stat
    <3>3. \A f \in Direction : stat'[index_shift(f)].val = stat[index_shift(f)].val
      BY <2>2, <3>2
    <3> QED
      BY <2>3, <2>8, <3>1, <3>3 DEF Stamp
  <2>9. CASE Clear(p)
    <3> DEFINE d == cpu[p].d
    <3>1. /\ cpu[p].pc \in Holding /\ cpu'[p].pc = "store"
          /\ outdated' = (outdated \ {p}) \cup Others(p, Holding)
      BY <2>0, <2>9 DEF Clear, CpuState, At, Holding
    <3>2. owed' = [owed EXCEPT ![d] = owed[d] + Added(p) - Total(p)]
      BY <2>9 DEF Clear
    <3>3. \A f \in Direction \ {d} : owed'[f] = owed[f]
      BY <2>0, <3>2
    <3>4. Backed(p)'
      BY <3>1 DEF Backed, Holding
    <3>5. ASSUME NEW q \in CPU, q # p PROVE Backed(q)'
      <4>1. cpu[q].d \in Direction /\ cpu'[q] = cpu[q]
        BY <1>0, <2>1, <3>5, Packet
      <4>2. CASE cpu[q].d = d
        <5>1. cpu[q].pc \in Holding => q \in outdated'
          BY <3>1, <3>5, <4>2 DEF Others
        <5> QED
          BY <2>0, <3>5, <4>1, <5>1, OthersBacked
      <4>3. CASE cpu[q].d # d
        <5>1. owed'[cpu[q].d] >= owed[cpu[q].d] /\ outdated \ {p} \subseteq outdated'
          BY <2>2, <3>1, <3>3, <4>1, <4>3
        <5> QED
          BY <2>0, <3>5, <4>1, <5>1, OthersBacked
      <4> QED
        BY <4>2, <4>3
    <3>6. /\ stat'[Meta(p)].val = 0
          /\ \A i \in Entries : i # Meta(p) => stat'[i] = stat[i]
      BY <2>0, <2>9 DEF Clear, SumAfterSample, Stat
    <3>7. NoDoubleCount'
      <4> SUFFICES ASSUME NEW f \in Direction
                   PROVE  stat'[index_shift(f)].val <= owed'[f]
        BY DEF NoDoubleCount
      <4>1. CASE f = d
        <5>1. owed'[f] \in Nat
          BY <2>0
        <5> QED
          BY <2>0, <3>6, <4>1, <5>1
      <4>2. CASE f # d
        <5>1. index_shift(f) \in Entries /\ index_shift(f) # Meta(p)
          BY <1>0, <2>0, <4>2, Sums
        <5> QED
          BY <2>2, <3>3, <3>6, <4>2, <5>1
      <4> QED
        BY <4>1, <4>2
    <3> QED
      BY <1>0, <3>4, <3>5, <3>7 DEF CountInv
  <2>10. CASE Store(p)
    <3>1. cpu'[p].pc \notin Holding
      BY <2>0, <2>10 DEF Store, IdleCpu, Holding
    <3>2. \A f \in Direction : index_shift(f) \in Entries /\ index_shift(f) # cpu[p].index
      BY <1>0, <2>10, Shift DEF Store, IInv, Local, At
    <3>3. \A f \in Direction : stat'[index_shift(f)] = stat[index_shift(f)]
      BY <2>0, <2>10, <3>2 DEF Store
    <3> QED
      BY <2>3, <2>10, <3>1, <3>3 DEF Store
  <2>11. CASE Move(p)
    <3>1. cpu'[p].pc \notin Holding
      BY <2>0, <2>11 DEF Move, Return, IdleCpu, Holding
    <3>2. \A i \in Entries : stat'[i].val = stat[i].val
      BY <2>0, <2>11 DEF Move, Stat
    <3>3. \A f \in Direction : stat'[index_shift(f)].val = stat[index_shift(f)].val
      BY <2>2, <3>2
    <3> QED
      BY <2>3, <2>11, <3>1, <3>3 DEF Move
  <2> QED
    BY <1>3, <2>4, <2>5, <2>6, <2>7, <2>8, <2>9, <2>10, <2>11 DEF CpuStep
<1> QED
  BY <1>1, <1>2, <1>3 DEF Next

LEMMA Invariance == Spec => []CountInv
BY InitCount, CountStep, PTL DEF Spec

\* The index of a meter, of either direction, stays within the array or one past its
\* end, and every entry is a number, whatever the processors overwrite (cal_rate).
THEOREM TypeCorrect == Spec => []TypeOK
<1>1. CountInv => TypeOK
  BY DEF CountInv, IInv
<1> QED
  BY Invariance, <1>1, PTL

\* No processor writes a sample over the state of a meter, whatever other processors
\* do to the index meanwhile (line 57 of qos_tc.c).
THEOREM Spared == Spec => []MetersSpared
<1>1. CountInv => MetersSpared
  BY DEF CountInv, IInv, Local, MetersSpared, At
<1> QED
  BY Invariance, <1>1, PTL

\* With any number of processors a byte goes into a second sample only through one
\* that held the sum while another sampled it: no other interleaving of the reads and
\* writes of cal_rate (lines 53 to 78 of qos_tc.c) makes the sum more than is owed.
THEOREM CountedOnce == Spec => []NoDoubleCount
<1>1. CountInv => NoDoubleCount
  BY DEF CountInv
<1> QED
  BY Invariance, <1>1, PTL

-----------------------------------------------------------------------------
(* The elapsed time, with any number of processors.                        *)

\* No processor is ahead of the clock; the stamp that one is to read, or has read, is
\* not ahead of it unless it was overtaken.
Ordinal(p) ==
  /\ cpu[p].now <= clock
  /\ At(p, "load") /\ p \notin overtaken => stat[Meta(p)].ts <= cpu[p].now
  /\ cpu[p].pc \in {"val", "init", "sum"} /\ p \notin overtaken
       => cpu[p].ts <= cpu[p].now

TimeInv ==
  /\ CountInv
  /\ \A i \in Entries : stat[i].ts <= clock
  /\ \A p \in CPU : Ordinal(p)

LEMMA InitTime == Init => TimeInv
<1> SUFFICES ASSUME Init PROVE TimeInv
  OBVIOUS
<1>1. CountInv /\ clock \in Nat
  BY InitCount, MeterAssumption DEF Init
<1>2. \A i \in Entries : stat[i].ts <= clock
  BY <1>1 DEF Init
<1>3. \A p \in CPU : Ordinal(p)
  BY <1>1 DEF Init, Ordinal, At, IdleCpu
<1> QED
  BY <1>1, <1>2, <1>3 DEF TimeInv

\* The numbers that are compared.
LEMMA Times ==
  ASSUME IInv, NEW p \in CPU
  PROVE  /\ clock \in Nat /\ cpu[p].now \in Nat /\ cpu[p].ts \in Nat
         /\ \A i \in Entries : stat[i].ts \in Nat
         /\ cpu \in [CPU -> CpuState] /\ stat \in [Entries -> Stat]
BY MeterAssumption, TypeParts DEF IInv, CpuState, Stat

\* A processor writes no time stamp but its own; whoever is about to read a meter's
\* is overtaken then.
LEMMA Stamped ==
  ASSUME IInv, NEW p \in CPU, CpuStep(p)
  PROVE  /\ \A i \in Entries : \/ stat'[i].ts = stat[i].ts
                               \/ stat'[i].ts = cpu[p].now
         /\ overtaken \ {p} \subseteq overtaken'
         /\ \A q \in CPU \ {p} :
              /\ cpu'[q] = cpu[q]
              /\ At(q, "load") /\ q \notin overtaken' => stat'[Meta(q)].ts = stat[Meta(q)].ts
<1>1. /\ cpu \in [CPU -> CpuState] /\ stat \in [Entries -> Stat] /\ Meta(p) \in Entries
      /\ \A q \in CPU : Meta(q) \in Entries
      /\ \A q \in CPU : cpu[q].d # cpu[p].d => Meta(q) # Meta(p)
  BY Times, MetaEntry, Packet, Sums DEF IInv
<1>2. CASE Enter(p) \/ LoadMeta(p) \/ LoadSum(p) \/ NoSlot(p)
  <2>1. stat' = stat /\ overtaken \ {p} \subseteq overtaken'
    BY <1>2 DEF Enter, LoadMeta, LoadSum, NoSlot, Return
  <2>2. \A q \in CPU \ {p} : cpu'[q] = cpu[q]
    BY <1>1, <1>2 DEF Enter, LoadMeta, LoadSum, NoSlot, Return
  <2> QED
    BY <2>1, <2>2
<1>3. CASE Restart(p) \/ Stamp(p)
  <2>1. /\ stat'[Meta(p)].ts = cpu[p].now
        /\ \A i \in Entries \ {Meta(p)} : stat'[i] = stat[i]
    BY <1>1, <1>3 DEF Restart, Stamp, NewStamp, Stat
  <2>2. overtaken' = overtaken \cup Others(p, Entering)
    BY <1>3 DEF Restart, Stamp, Overtakes
  <2>3. \A q \in CPU \ {p} : cpu'[q] = cpu[q]
    BY <1>1, <1>3 DEF Restart, Stamp
  <2>4. ASSUME NEW q \in CPU \ {p}, At(q, "load"), q \notin overtaken'
        PROVE  stat'[Meta(q)].ts = stat[Meta(q)].ts
    <3>1. cpu[q].d # cpu[p].d
      BY <2>2, <2>4 DEF Others, Entering, At
    <3> QED
      BY <1>1, <2>1, <3>1
  <2> QED
    BY <2>1, <2>2, <2>3, <2>4
<1>4. CASE Accumulate(p) \/ Clear(p) \/ Move(p)
  <2>1. \A i \in Entries : stat'[i].ts = stat[i].ts
    BY <1>1, <1>4 DEF Accumulate, Clear, Move, Stat
  <2>2. overtaken \ {p} \subseteq overtaken'
    BY <1>4 DEF Accumulate, Clear, Move, Return
  <2>3. \A q \in CPU \ {p} : cpu'[q] = cpu[q]
    BY <1>1, <1>4 DEF Accumulate, Clear, Move, Return
  <2> QED
    BY <1>1, <2>1, <2>2, <2>3
<1>5. CASE Store(p)
  <2>1. cpu[p].index % N # 0 /\ cpu[p].index \in Entries
    BY <1>5 DEF Store, HasEntry, IInv, Local, At
  <2>2. /\ stat'[cpu[p].index].ts = cpu[p].now
        /\ \A i \in Entries \ {cpu[p].index} : stat'[i] = stat[i]
    BY <1>1, <1>5, <2>1 DEF Store, Stat
  <2>3. \A q \in CPU : Meta(q) # cpu[p].index
    BY <2>1, MetaEntry DEF IInv
  <2>4. \A q \in CPU \ {p} : cpu'[q] = cpu[q]
    BY <1>1, <1>5 DEF Store
  <2>5. overtaken' = overtaken
    BY <1>5 DEF Store
  <2> QED
    BY <1>1, <2>2, <2>3, <2>4, <2>5
<1> QED
  BY <1>2, <1>3, <1>4, <1>5 DEF CpuStep

\* What a step makes of the processor's own times.
LEMMA Timed ==
  ASSUME IInv, NEW p \in CPU, CpuStep(p)
  PROVE  /\ clock' = clock
         /\ cpu'[p].now \in {cpu[p].now, clock, 0}
         /\ cpu'[p].pc = "load" => cpu'[p].now = clock /\ stat' = stat
         /\ cpu'[p].pc = "val" =>
              /\ At(p, "load") /\ overtaken' = overtaken
              /\ cpu'[p].ts = stat[Meta(p)].ts /\ cpu'[p].now = cpu[p].now
         /\ cpu'[p].pc \in {"init", "sum"} =>
              /\ cpu[p].pc \in {"val", "init"}
              /\ p \in overtaken' <=> p \in overtaken
              /\ cpu'[p].ts = cpu[p].ts /\ cpu'[p].now = cpu[p].now
<1>1. cpu \in [CPU -> CpuState]
  BY Times
<1>2. CASE Enter(p)
  BY <1>1, <1>2 DEF Enter, CpuState
<1>3. CASE LoadMeta(p)
  BY <1>1, <1>3 DEF LoadMeta, CpuState, At
<1>4. CASE LoadSum(p)
  BY <1>1, <1>4 DEF LoadSum, CpuState, At
<1>5. CASE Restart(p)
  BY <1>1, <1>5 DEF Restart, CpuState, At, Overtakes, Others
<1>6. CASE Accumulate(p) \/ NoSlot(p) \/ Move(p)
  BY <1>1, <1>6 DEF Accumulate, NoSlot, Move, Return, IdleCpu
<1>7. CASE Stamp(p) \/ Clear(p)
  BY <1>1, <1>7 DEF Stamp, Clear, CpuState, At
<1>8. CASE Store(p)
  BY <1>1, <1>8 DEF Store, IdleCpu
<1> QED
  BY <1>2, <1>3, <1>4, <1>5, <1>6, <1>7, <1>8 DEF CpuStep

LEMMA TimeStep == TimeInv /\ [Next]_vars => TimeInv'
<1> SUFFICES ASSUME TimeInv, [Next]_vars PROVE TimeInv'
  OBVIOUS
<1>0. IInv /\ CountInv' /\ clock \in Nat
  BY CountStep, MeterAssumption, TypeParts DEF TimeInv, CountInv, IInv
<1>1. CASE Tick
  <2>1. /\ stat' = stat /\ cpu' = cpu /\ clock' = clock + 1 /\ overtaken' = overtaken
        /\ \A i \in Entries : stat[i].ts \in Nat
        /\ \A p \in CPU : cpu[p].now \in Nat
    BY <1>0, <1>1, TypeParts, MeterAssumption DEF Tick, IInv, CpuState, Stat
  <2>2. \A i \in Entries : stat'[i].ts <= clock'
    BY <1>0, <2>1 DEF TimeInv
  <2>3. ASSUME NEW p \in CPU PROVE Ordinal(p)'
    <3>1. Ordinal(p) /\ cpu[p].now \in Nat
      BY <2>1 DEF TimeInv
    <3>2. cpu'[p].now <= clock'
      BY <1>0, <2>1, <3>1 DEF Ordinal
    <3> QED
      BY <2>1, <3>1, <3>2 DEF Ordinal, At, Meta
  <2> QED
    BY <1>0, <2>2, <2>3 DEF TimeInv
<1>2. CASE UNCHANGED vars
  BY <1>0, <1>2 DEF vars, TimeInv, Ordinal, At, Meta
<1>3. ASSUME NEW p \in CPU, CpuStep(p)
      PROVE  TimeInv'
  <2>1. /\ clock' = clock /\ cpu[p].now <= clock
        /\ cpu[p].now \in Nat /\ Ordinal(p)
    BY <1>0, <1>3, Timed, Times DEF TimeInv, Ordinal
  <2>2. \A i \in Entries : stat'[i].ts <= clock'
    BY <1>0, <1>3, <2>1, Stamped DEF TimeInv
  <2>3. cpu'[p].now <= clock'
    BY <1>0, <1>3, <2>1, Timed
  <2>4. ASSUME cpu'[p].pc = "load"
        PROVE  stat'[Meta(p)'].ts <= cpu'[p].now
    <3>1. cpu'[p].now = clock
      BY <1>0, <1>3, <2>4, Timed
    <3>2. Meta(p)' \in Entries
      <4>1. cpu'[p].d \in Direction
        BY <1>0 DEF CountInv, IInv, TypeOK
      <4> QED
        BY <4>1, Shift DEF Meta
    <3> QED
      BY <2>1, <2>2, <3>1, <3>2
  <2>5. ASSUME cpu'[p].pc \in {"val", "init", "sum"}, p \notin overtaken'
        PROVE  cpu'[p].ts <= cpu'[p].now
    <3>1. CASE cpu'[p].pc = "val"
      BY <1>0, <1>3, <2>1, <2>5, <3>1, Timed DEF Ordinal
    <3>2. CASE cpu'[p].pc \in {"init", "sum"}
      BY <1>0, <1>3, <2>1, <2>5, <3>2, Timed DEF Ordinal
    <3> QED
      BY <2>5, <3>1, <3>2
  <2>6. Ordinal(p)'
    BY <2>3, <2>4, <2>5 DEF Ordinal, At, Meta
  <2>7. ASSUME NEW q \in CPU, q # p PROVE Ordinal(q)'
    <3>1. /\ cpu'[q] = cpu[q] /\ Ordinal(q)
          /\ q \in overtaken => q \in overtaken'
          /\ At(q, "load") /\ q \notin overtaken' => stat'[Meta(q)].ts = stat[Meta(q)].ts
      BY <1>0, <1>3, <2>7, Stamped DEF TimeInv
    <3> QED
      BY <2>1, <3>1 DEF Ordinal, At, Meta
  <2> QED
    BY <1>0, <2>2, <2>6, <2>7 DEF TimeInv
<1> QED
  BY <1>1, <1>2, <1>3 DEF Next

\* With any number of processors the time since the last sample wraps only for a packet
\* that another processor overtook between its reads of the clock and of the time stamp
\* (line 71 of qos_tc.c): no stamp that was stored before it entered, by a race or by a
\* restart of the meter, makes it wrap.
THEOREM Overtaken == Spec => []WrapsOvertaken
<1>1. TimeInv => WrapsOvertaken
  <2> SUFFICES ASSUME TimeInv, NEW p \in CPU, At(p, "sum"), cpu[p].ts > cpu[p].now
               PROVE  p \in overtaken
    BY DEF WrapsOvertaken
  <2>1. Ordinal(p) /\ cpu[p].ts \in Nat /\ cpu[p].now \in Nat
    BY Times DEF TimeInv, CountInv
  <2> QED
    BY <2>1 DEF Ordinal, At
<1> QED
  BY InitTime, TimeStep, <1>1, PTL DEF Spec
=============================================================================
