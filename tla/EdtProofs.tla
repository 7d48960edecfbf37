------------------------------ MODULE EdtProofs -----------------------------
(***************************************************************************)
(* What holds of the shapers of Edt for any number of processors, pods,    *)
(* classes, rates and lengths, any horizon and any run of the clock.       *)
(***************************************************************************)
EXTENDS Edt, TLAPS

\* A delay is a number, whatever the rate (line 237).
LEMMA DelayIsNat ==
  ASSUME NEW len \in Nat, NEW bps \in Nat
  PROVE  Delay(len, bps) \in Nat
<1>1. CASE bps = 0
  BY <1>1 DEF Delay
<1>2. CASE bps # 0
  <2>1. Second \in Nat
    BY EdtAssumption
  <2>2. len * Second \in Nat
    BY <2>1
  <2> DEFINE d == len * Second
  <2>3. d \in Nat
    BY <2>2
  <2> HIDE DEF d
  <2>4. d \div bps \in Nat
    BY <2>3, <1>2
  <2> QED
    BY <2>4, <1>2 DEF Delay, d
<1> QED
  BY <1>1, <1>2

\* A shaper is no stand-in for the absence of one.
LEMMA NoClassIsNoShaper == NoClass \notin Shaper
  BY EdtAssumption

-----------------------------------------------------------------------------
(* The locals of a processor.                                              *)

\* A processor between two packets, or about to read the clock for a shaper.
Fresh(l) ==
  /\ l \in CpuState
  /\ l.pc \in {"idle", "clock"} /\ (l.pc = "idle" <=> l.at = NoClass)
  /\ l.now = 0 /\ l.lost = FALSE

LEMMA IdleFresh == Fresh(IdleCpu) /\ Route(IdleCpu) = {}
  BY NoClassIsNoShaper DEF IdleCpu, CpuState, Fresh, Route

LEMMA ToShaperFresh ==
  ASSUME NEW l \in CpuState, NEW s \in Shaper
  PROVE  /\ Fresh(ToShaper(l, s)) /\ ToShaper(l, s).stamp = l.stamp
         /\ Route(ToShaper(l, s)) = {s, l.class} \cap Shaper
<1> DEFINE m == ToShaper(l, s)
<1>1. /\ m \in CpuState /\ m.pc = "clock" /\ m.at = s /\ m.class = l.class
      /\ m.stamp = l.stamp /\ m.now = 0 /\ m.lost = FALSE
  BY DEF ToShaper, CpuState
<1> HIDE DEF m
<1>2. Route(m) = {s, l.class} \cap Shaper
  BY <1>1 DEF Route
<1>3. Fresh(m)
  BY <1>1, NoClassIsNoShaper DEF Fresh
<1> QED
  BY <1>1, <1>2, <1>3 DEF m

\* A packet handed on meets no shaper that it was not to meet, with the stamp it has.
LEMMA ToClassFresh ==
  ASSUME NEW l \in CpuState
  PROVE  /\ Fresh(ToClass(l))
         /\ \A s \in Route(ToClass(l)) : s \in Route(l) /\ ToClass(l).stamp = l.stamp
<1>1. CASE l.class \in Classes
  <2>1. l.class \in Shaper
    BY <1>1 DEF Shaper
  <2>2. ToClass(l) = ToShaper(l, l.class)
    BY <1>1 DEF ToClass
  <2>3. {l.class, l.class} \cap Shaper \subseteq Route(l)
    BY DEF Route
  <2> QED
    BY <2>1, <2>2, <2>3, ToShaperFresh
<1>2. CASE l.class \notin Classes
  BY <1>2, IdleFresh DEF ToClass
<1> QED
  BY <1>1, <1>2

LEMMA OnwardFresh ==
  ASSUME NEW l \in CpuState
  PROVE  /\ Fresh(Onward(l))
         /\ \A s \in Route(Onward(l)) : s \in Route(l) /\ Onward(l).stamp = l.stamp
BY IdleFresh, ToClassFresh DEF Onward

-----------------------------------------------------------------------------
(* The inductive invariant.                                                *)

\* What WithinHorizon and Spaced need of a processor: its stamp is one that the
\* shapers to come may hold, it read the clock in the past, and unless it has lost
\* something t_last is as it loaded it.
Local(c) ==
  /\ \A s \in Route(cpu[c]) : Allowed(cpu[c].stamp, s)
  /\ cpu[c].now <= clock
  /\ At(c, "write") /\ ~cpu[c].lost =>
       cpu[c].next = last[cpu[c].at] + cpu[c].delay

IInv ==
  /\ TypeOK
  /\ \A s \in Shaper : Allowed(last[s], s) /\ tail[s] <= last[s]
  /\ \A c \in CPU : Local(c)

\* Init starts within the horizon.
LEMMA InitIInv == Init => IInv
<1> SUFFICES ASSUME Init PROVE IInv
  OBVIOUS
<1>1. TypeOK
  <2>1. brought \in [Shaper -> SUBSET Nat]
    BY DEF Init
  <2> QED
    BY <2>1, IdleFresh DEF Init, TypeOK, At, Fresh
<1>2. \A s \in Shaper : Allowed(last[s], s) /\ tail[s] <= last[s]
  BY EdtAssumption DEF Init, Allowed
<1>3. ASSUME NEW c \in CPU PROVE Local(c)
  <2>1. cpu[c] = IdleCpu /\ clock = 0
    BY DEF Init
  <2>2. cpu[c].pc = "idle" /\ cpu[c].now = 0
    BY <2>1 DEF IdleCpu
  <2>3. Route(cpu[c]) = {}
    BY <2>1, IdleFresh
  <2>4. \A s \in Route(cpu[c]) : Allowed(cpu[c].stamp, s)
    BY <2>3
  <2>5. ~At(c, "write") /\ cpu[c].now <= clock
    BY <2>1, <2>2 DEF At
  <2> QED
    BY <2>4, <2>5 DEF Local
<1> QED
  BY <1>1, <1>2, <1>3 DEF IInv

\* What was allowed stays so while the clock stands still and nothing that was
\* brought is forgotten.
LEMMA StaysAllowed ==
  ASSUME NEW time, NEW s \in Shaper, Allowed(time, s),
         clock' = clock, brought[s] \subseteq brought'[s]
  PROVE  time < clock' + Horizon \/ time \in brought'[s]
BY DEF Allowed

\* A step of one processor that only moves that one, with a packet that perhaps
\* brings a stamp.
LEMMA Moves ==
  ASSUME IInv, NEW c \in CPU, NEW l \in CpuState,
         l.pc = "idle" <=> l.at = NoClass,
         \A s \in Route(l) : l.stamp < clock + Horizon \/ l.stamp \in brought'[s],
         l.now <= clock,
         l.pc = "write" /\ ~l.lost => l.next = last[l.at] + l.delay,
         cpu' = [cpu EXCEPT ![c] = l],
         brought' \in [Shaper -> SUBSET Nat],
         \A s \in Shaper : brought[s] \subseteq brought'[s],
         UNCHANGED <<elem, unused, last, rate, clock, tail>>
  PROVE  IInv'
<1>1. TypeOK'
  BY DEF IInv, TypeOK, At
<1>2. (\A s \in Shaper : Allowed(last[s], s) /\ tail[s] <= last[s])'
  BY DEF IInv, Allowed
<1>3. ASSUME NEW d \in CPU PROVE Local(d)'
  <2>1. CASE d = c
    <3>1. cpu'[d] = l
      BY <2>1 DEF IInv, TypeOK
    <3>2. \A s \in Route(cpu'[d]) : cpu'[d].stamp < clock' + Horizon
                                   \/ cpu'[d].stamp \in brought'[s]
      BY <3>1
    <3>3. /\ cpu'[d].now <= clock'
          /\ cpu'[d].pc = "write" /\ ~cpu'[d].lost =>
               cpu'[d].next = last'[cpu'[d].at] + cpu'[d].delay
      BY <3>1
    <3> QED
      BY <3>2, <3>3 DEF Local, At, Allowed
  <2>2. CASE d # c
    <3>1. cpu'[d] = cpu[d]
      BY <2>2 DEF IInv, TypeOK
    <3>2. Local(d) /\ Route(cpu[d]) \subseteq Shaper
      BY DEF IInv, Route
    <3>3. \A s \in Route(cpu'[d]) : cpu'[d].stamp < clock' + Horizon
                                   \/ cpu'[d].stamp \in brought'[s]
      BY <3>1, <3>2, StaysAllowed DEF Local
    <3>4. /\ cpu'[d].now <= clock'
          /\ cpu'[d].pc = "write" /\ ~cpu'[d].lost =>
               cpu'[d].next = last'[cpu'[d].at] + cpu'[d].delay
      BY <3>1, <3>2 DEF Local, At
    <3> QED
      BY <3>3, <3>4 DEF Local, At, Allowed
  <2> QED
    BY <2>1, <2>2
<1> QED
  BY <1>1, <1>2, <1>3 DEF IInv

\* A packet arrives with any stamp, which is then one that its shapers may hold.
LEMMA EnterIInv ==
  ASSUME IInv, NEW c \in CPU, Enter(c)
  PROVE  IInv'
<1>1. PICK pod \in Pods \cup {NoPod}, class \in Classes \cup {NoClass}, len \in Lens,
           stamp \in {0} \cup {clock + a : a \in Ahead} :
        LET l == [IdleCpu EXCEPT !.class = class, !.len = len, !.stamp = stamp]
            m == IF pod \in Pods /\ rate[elem[pod]] > 0 THEN ToShaper(l, elem[pod])
                 ELSE ToClass(l)
        IN  /\ cpu' = [cpu EXCEPT ![c] = m]
            /\ brought' = [s \in Shaper |->
                 brought[s] \cup {x \in {stamp} : s \in Route(m) /\ x >= clock + Horizon}]
  BY DEF Enter
<1> DEFINE l == [IdleCpu EXCEPT !.class = class, !.len = len, !.stamp = stamp]
<1>2. stamp \in Nat
  <2>1. clock \in Nat /\ Ahead \subseteq Nat
    BY EdtAssumption DEF IInv, TypeOK
  <2>2. CASE stamp = 0
    BY <2>2
  <2>3. ASSUME NEW a \in Ahead, stamp = clock + a
        PROVE  stamp \in Nat
    BY <2>1, <2>3
  <2> QED
    BY <2>2, <2>3
<1>3. l \in CpuState /\ l.stamp = stamp
  BY <1>2, EdtAssumption DEF IdleCpu, CpuState
<1> DEFINE m == IF pod \in Pods /\ rate[elem[pod]] > 0 THEN ToShaper(l, elem[pod])
                ELSE ToClass(l)
<1>4. pod \in Pods => elem[pod] \in Shaper
  BY DEF IInv, TypeOK, Shaper
<1>5. /\ cpu' = [cpu EXCEPT ![c] = m]
      /\ brought' = [s \in Shaper |->
           brought[s] \cup {x \in {stamp} : s \in Route(m) /\ x >= clock + Horizon}]
  BY <1>1
<1> HIDE DEF l
<1>6. Fresh(m) /\ \A s \in Route(m) : m.stamp = stamp
  BY <1>3, <1>4, ToShaperFresh, ToClassFresh
<1> HIDE DEF m
<1>7. clock \in Nat /\ 0 <= clock /\ Horizon \in Nat
  BY EdtAssumption DEF IInv, TypeOK
<1>8. brought \in [Shaper -> SUBSET Nat]
  BY DEF IInv, TypeOK
<1>9. /\ brought' \in [Shaper -> SUBSET Nat]
      /\ \A s \in Shaper : brought[s] \subseteq brought'[s]
  <2> DEFINE more(s) == {x \in {stamp} : s \in Route(m) /\ x >= clock + Horizon}
  <2>1. brought' = [s \in Shaper |-> brought[s] \cup more(s)]
    BY <1>5
  <2>2. \A s \in Shaper : more(s) \subseteq Nat
    BY <1>2
  <2> HIDE DEF more
  <2>3. \A s \in Shaper : brought[s] \cup more(s) \in SUBSET Nat
    BY <1>8, <2>2
  <2> QED
    BY <2>1, <2>3
<1>10. \A s \in Route(m) : m.stamp < clock + Horizon \/ m.stamp \in brought'[s]
  <2> SUFFICES ASSUME NEW s \in Route(m), stamp >= clock + Horizon
               PROVE  stamp \in brought'[s]
    BY <1>2, <1>6, <1>7
  <2>1. s \in Shaper
    BY DEF Route
  <2> QED
    BY <1>5, <2>1
<1>11. UNCHANGED <<elem, unused, last, rate, clock, tail>>
  BY DEF Enter
<1> QED
  BY <1>5, <1>6, <1>7, <1>9, <1>10, <1>11, Moves DEF Fresh

LEMMA ReadClockIInv ==
  ASSUME IInv, NEW c \in CPU, ReadClock(c)
  PROVE  IInv'
<1> DEFINE l == [cpu[c] EXCEPT !.pc = "load", !.now = clock]
<1>1. /\ l \in CpuState /\ l.pc = "load" /\ l.at = cpu[c].at
      /\ l.stamp = cpu[c].stamp /\ l.now = clock
  BY DEF IInv, TypeOK, CpuState
<1>2. cpu[c].at # NoClass
  BY DEF IInv, TypeOK, At, ReadClock
<1>3. cpu' = [cpu EXCEPT ![c] = l]
  BY DEF ReadClock
<1>4. Route(l) = Route(cpu[c]) /\ l.now <= clock
  BY <1>1 DEF IInv, TypeOK, CpuState, Route
<1> HIDE DEF l
<1>5. /\ l.pc = "idle" <=> l.at = NoClass
      /\ l.pc = "write" /\ ~l.lost => l.next = last[l.at] + l.delay
  BY <1>1, <1>2
<1>6. \A s \in Route(l) : l.stamp < clock + Horizon \/ l.stamp \in brought[s]
  BY <1>1, <1>4 DEF IInv, Local, Allowed
<1>7. brought \in [Shaper -> SUBSET Nat] /\ brought' = brought
  BY DEF ReadClock, IInv, TypeOK
<1> QED
  BY <1>1, <1>3, <1>4, <1>5, <1>6, <1>7, Moves DEF ReadClock

LEMMA LoadIInv ==
  ASSUME IInv, NEW c \in CPU, Load(c)
  PROVE  IInv'
<1> DEFINE s == cpu[c].at
           delay == Delay(cpu[c].len, rate[s])
           l == [cpu[c] EXCEPT !.pc = "write", !.delay = delay, !.next = last[s] + delay]
<1>1. cpu[c] \in CpuState /\ s \in Shaper
  BY DEF IInv, TypeOK, CpuState, At, Load
<1>2. rate[s] \in Nat /\ last[s] \in Nat /\ cpu[c].len \in Nat
  BY <1>1, EdtAssumption DEF IInv, TypeOK, CpuState
<1>3. delay \in Nat
  BY <1>2, DelayIsNat
<1>4. cpu' = [cpu EXCEPT ![c] = l]
  BY DEF Load
<1>5. s # NoClass
  BY <1>1, NoClassIsNoShaper
<1> HIDE DEF delay
<1>6. last[s] + delay \in Nat
  BY <1>2, <1>3
<1>7. /\ l \in CpuState /\ l.pc = "write" /\ l.at = s /\ l.stamp = cpu[c].stamp
      /\ l.now = cpu[c].now /\ l.next = last[s] + delay /\ l.delay = delay
      /\ l.class = cpu[c].class
  BY <1>1, <1>3, <1>6 DEF CpuState
<1> HIDE DEF l
<1>8. /\ \A t \in Route(l) : l.stamp < clock + Horizon \/ l.stamp \in brought[t]
      /\ cpu[c].now <= clock
  BY <1>7 DEF IInv, Local, Allowed, Route
<1>9. brought \in [Shaper -> SUBSET Nat] /\ brought' = brought
  BY DEF Load, IInv, TypeOK
<1> QED
  BY <1>4, <1>5, <1>7, <1>8, <1>9, Moves DEF Load

LEMMA DropIInv ==
  ASSUME IInv, NEW c \in CPU, Drop(c)
  PROVE  IInv'
<1>1. clock \in Nat /\ brought \in [Shaper -> SUBSET Nat]
  BY DEF IInv, TypeOK
<1>2. Fresh(IdleCpu) /\ Route(IdleCpu) = {}
  BY IdleFresh
<1>3. /\ IdleCpu \in CpuState
      /\ IdleCpu.pc = "idle" <=> IdleCpu.at = NoClass
      /\ IdleCpu.now <= clock
      /\ IdleCpu.pc # "write"
  BY <1>1, <1>2 DEF Fresh
<1>4. cpu' = [cpu EXCEPT ![c] = IdleCpu] /\ brought' = brought
  BY DEF Drop
<1> QED
  BY <1>1, <1>2, <1>3, <1>4, Moves DEF Drop

\* What Early and Delayed have in common: a departure that the shaper may hold is
\* left in it, and the packet is handed on with a stamp that the shapers to come
\* may hold.
LEMMA ScheduleIInv ==
  ASSUME IInv, NEW c \in CPU, At(c, "write"),
         NEW departure \in Nat, Allowed(departure, cpu[c].at),
         NEW l \in CpuState, \A s \in Route(l) : Allowed(l.stamp, s),
         Schedule(c, departure), Leave(c, l),
         UNCHANGED <<elem, unused, rate, clock, brought>>
  PROVE  IInv'
<1> DEFINE s == cpu[c].at
           m == Onward(l)
<1>1. cpu[c] \in CpuState /\ s \in Shaper /\ clock \in Nat
  BY DEF IInv, TypeOK, CpuState, At
<1>2. Fresh(m) /\ \A t \in Route(m) : t \in Route(l) /\ m.stamp = l.stamp
  BY OnwardFresh
<1>3. /\ m \in CpuState /\ m.pc \in {"idle", "clock"}
      /\ m.pc = "idle" <=> m.at = NoClass
      /\ \A t \in Route(m) : Allowed(m.stamp, t)
      /\ m.now <= clock
  BY <1>1, <1>2 DEF Fresh
<1>4. /\ last' \in [Shaper -> Nat] /\ tail' \in [Shaper -> Nat]
      /\ last'[s] = departure
      /\ \A t \in Shaper \ {s} : last'[t] = last[t]
      /\ tail'[s] \in {0, departure}
      /\ \A t \in Shaper \ {s} : tail'[t] = tail[t]
  BY <1>1 DEF Schedule, IInv, TypeOK
<1> HIDE DEF m
<1>5. ASSUME NEW d \in CPU
      PROVE  /\ cpu'[d] \in CpuState
             /\ cpu'[d].pc = "idle" <=> cpu'[d].at = NoClass
             /\ \A t \in Route(cpu'[d]) : Allowed(cpu'[d].stamp, t)
             /\ cpu'[d].now <= clock
             /\ cpu'[d].pc = "write" /\ ~cpu'[d].lost =>
                  cpu'[d].next = last'[cpu'[d].at] + cpu'[d].delay
  <2>1. CASE d = c
    <3>1. cpu'[d] = m
      BY <2>1 DEF Leave, m
    <3> QED
      BY <1>3, <3>1
  <2>2. CASE d # c /\ At(d, "write") /\ cpu[d].at = s
    <3>1. cpu'[d] = [cpu[d] EXCEPT !.lost = TRUE]
      BY <2>2 DEF Leave
    <3>2. /\ cpu[d] \in CpuState /\ (cpu[d].pc = "idle" <=> cpu[d].at = NoClass)
          /\ \A t \in Route(cpu[d]) : Allowed(cpu[d].stamp, t)
          /\ cpu[d].now <= clock
      BY DEF IInv, TypeOK, Local, At
    <3>3. /\ cpu'[d] \in CpuState /\ cpu'[d].lost
          /\ cpu'[d].pc = cpu[d].pc /\ cpu'[d].at = cpu[d].at
          /\ cpu'[d].stamp = cpu[d].stamp /\ cpu'[d].now = cpu[d].now
          /\ cpu'[d].class = cpu[d].class
      BY <3>1, <3>2 DEF CpuState
    <3>4. Route(cpu'[d]) = Route(cpu[d])
      BY <3>3 DEF Route
    <3> QED
      BY <3>2, <3>3, <3>4
  <2>3. CASE d # c /\ ~(At(d, "write") /\ cpu[d].at = s)
    <3>1. cpu'[d] = cpu[d]
      BY <2>3 DEF Leave
    <3>2. /\ cpu[d] \in CpuState /\ (cpu[d].pc = "idle" <=> cpu[d].at = NoClass)
          /\ \A t \in Route(cpu[d]) : Allowed(cpu[d].stamp, t)
          /\ cpu[d].now <= clock
          /\ cpu[d].pc = "write" /\ ~cpu[d].lost =>
               cpu[d].next = last[cpu[d].at] + cpu[d].delay
      BY DEF IInv, TypeOK, Local, At
    <3>3. cpu[d].pc = "write" => cpu[d].at \in Shaper \ {s}
      BY <2>3, <3>2 DEF At, CpuState
    <3>4. cpu[d].pc = "write" => last'[cpu[d].at] = last[cpu[d].at]
      BY <3>3, <1>4
    <3> QED
      BY <3>1, <3>2, <3>4
  <2> QED
    BY <2>1, <2>2, <2>3
<1>6. cpu' \in [CPU -> CpuState]
  <2>1. \A d \in CPU : cpu'[d] \in CpuState
    BY <1>5
  <2>2. cpu' = [d \in CPU |-> cpu'[d]]
    BY DEF Leave
  <2> QED
    BY <2>1, <2>2
<1>7. TypeOK'
  BY <1>4, <1>5, <1>6 DEF IInv, TypeOK, At
<1>8. (\A t \in Shaper : Allowed(last[t], t) /\ tail[t] <= last[t])'
  <2>1. ASSUME NEW t \in Shaper
        PROVE  /\ last'[t] < clock + Horizon \/ last'[t] \in brought[t]
               /\ tail'[t] <= last'[t]
    BY <1>1, <1>4 DEF IInv, TypeOK, Allowed
  <2> QED
    BY <2>1 DEF Allowed
<1>9. ASSUME NEW d \in CPU PROVE Local(d)'
  BY <1>5 DEF Local, At, Allowed
<1> QED
  BY <1>7, <1>8, <1>9 DEF IInv

\* A processor about to write: the times it has computed.
LEMMA AboutToWrite ==
  ASSUME IInv, NEW c \in CPU, At(c, "write")
  PROVE  /\ cpu[c] \in CpuState /\ cpu[c].at \in Shaper
         /\ Earliest(c) \in Nat /\ Allowed(Earliest(c), cpu[c].at)
         /\ \A s \in Route(cpu[c]) : Allowed(cpu[c].stamp, s)
         /\ cpu[c].now \in Nat /\ cpu[c].now <= clock /\ clock \in Nat
         /\ cpu[c].next \in Nat /\ cpu[c].delay \in Nat /\ Horizon \in Nat
<1>1. /\ cpu[c] \in CpuState /\ clock \in Nat
      /\ \A s \in Route(cpu[c]) : Allowed(cpu[c].stamp, s)
      /\ cpu[c].now <= clock
      /\ cpu[c].at # NoClass
  BY DEF IInv, TypeOK, Local, At
<1>2. /\ cpu[c].stamp \in Nat /\ cpu[c].now \in Nat /\ cpu[c].next \in Nat
      /\ cpu[c].delay \in Nat /\ cpu[c].at \in Shaper
  BY <1>1 DEF CpuState
<1>3. Horizon \in Nat \ {0}
  BY EdtAssumption
<1>4. Allowed(cpu[c].stamp, cpu[c].at)
  BY <1>1, <1>2 DEF Route
<1>5. Allowed(cpu[c].now, cpu[c].at)
  BY <1>1, <1>2, <1>3 DEF Allowed
<1>6. Earliest(c) \in {cpu[c].stamp, cpu[c].now}
  BY DEF Earliest
<1> QED
  BY <1>1, <1>2, <1>3, <1>4, <1>5, <1>6

LEMMA EarlyIInv ==
  ASSUME IInv, NEW c \in CPU, Early(c)
  PROVE  IInv'
<1>1. /\ At(c, "write") /\ Schedule(c, Earliest(c)) /\ Leave(c, cpu[c])
      /\ UNCHANGED <<elem, unused, rate, clock, brought>>
  BY DEF Early, EarlyDeparture
<1> QED
  BY <1>1, AboutToWrite, ScheduleIInv

LEMMA DelayedIInv ==
  ASSUME IInv, NEW c \in CPU, Delayed(c)
  PROVE  IInv'
<1> DEFINE l == [cpu[c] EXCEPT !.stamp = cpu[c].next]
<1>1. At(c, "write")
  BY DEF Delayed
<1>2. cpu[c].next < clock + Horizon
  BY <1>1, AboutToWrite DEF Delayed, TooFar
<1>3. l \in CpuState /\ l.stamp = cpu[c].next
  BY <1>1, AboutToWrite DEF CpuState
<1>4. cpu[c].next \in Nat
  BY <1>1, AboutToWrite
<1>5. /\ Leave(c, l) /\ Schedule(c, cpu[c].next)
      /\ UNCHANGED <<elem, unused, rate, clock, brought>>
  BY DEF Delayed
<1> HIDE DEF l
<1>6. Allowed(cpu[c].next, cpu[c].at) /\ \A s \in Route(l) : Allowed(l.stamp, s)
  BY <1>2, <1>3 DEF Allowed
<1> QED
  BY <1>1, <1>2, <1>3, <1>4, <1>5, <1>6, ScheduleIInv

LEMMA EnvironmentIInv ==
  ASSUME IInv, Environment
  PROVE  IInv'
<1>1. CASE Tick
  <2>1. clock' = clock + 1 /\ clock \in Nat /\ Horizon \in Nat
    BY <1>1, EdtAssumption DEF Tick, IInv, TypeOK
  <2>2. /\ UNCHANGED <<elem, unused, last, rate, cpu, tail>>
        /\ brought' = [s \in Shaper |-> {x \in brought[s] : x >= clock' + Horizon}]
    BY <1>1 DEF Tick
  <2>3. brought \in [Shaper -> SUBSET Nat]
    BY DEF IInv, TypeOK
  <2>4. brought' \in [Shaper -> SUBSET Nat]
    BY <2>2, <2>3
  <2>5. TypeOK'
    BY <2>1, <2>2, <2>4 DEF IInv, TypeOK, At
  <2>6. ASSUME NEW s \in Shaper, NEW time \in Nat, Allowed(time, s)
        PROVE  time < clock' + Horizon \/ time \in brought'[s]
    BY <2>1, <2>2, <2>6 DEF Allowed
  <2>7. (\A s \in Shaper : Allowed(last[s], s) /\ tail[s] <= last[s])'
    <3>1. \A s \in Shaper : last[s] \in Nat /\ Allowed(last[s], s) /\ tail[s] <= last[s]
      BY DEF IInv, TypeOK
    <3> QED
      BY <2>2, <2>6, <3>1 DEF Allowed
  <2>8. ASSUME NEW c \in CPU PROVE Local(c)'
    <3>1. cpu[c].stamp \in Nat /\ cpu[c].now \in Nat /\ Route(cpu[c]) \subseteq Shaper
      BY DEF IInv, TypeOK, CpuState, Route
    <3>2. Local(c)
      BY DEF IInv
    <3>3. \A s \in Route(cpu[c]) : cpu[c].stamp < clock' + Horizon
                                  \/ cpu[c].stamp \in brought'[s]
      BY <2>6, <3>1, <3>2 DEF Local
    <3> QED
      BY <2>1, <2>2, <3>1, <3>2, <3>3 DEF Local, At, Allowed
  <2> QED
    BY <2>5, <2>7, <2>8 DEF IInv
<1>2. ASSUME NEW pod \in Pods, NEW e \in Elements, PutRate(pod, e)
      PROVE  IInv'
  <2>1. TypeOK'
    BY <1>2 DEF PutRate, IInv, TypeOK, At
  <2> QED
    BY <1>2, <2>1 DEF PutRate, IInv, Local, At, Allowed
<1>3. ASSUME NEW class \in Classes, NEW bps \in Rates, AdjustRate(class, bps)
      PROVE  IInv'
  <2>1. TypeOK'
    BY <1>3 DEF AdjustRate, IInv, TypeOK, At
  <2> QED
    BY <1>3, <2>1 DEF AdjustRate, IInv, Local, At, Allowed
<1> QED
  BY <1>1, <1>2, <1>3 DEF Environment

LEMMA NextIInv == IInv /\ [Next]_vars => IInv'
<1> SUFFICES ASSUME IInv, [Next]_vars PROVE IInv'
  OBVIOUS
<1>1. CASE Environment
  BY <1>1, EnvironmentIInv
<1>2. ASSUME NEW c \in CPU, Enter(c) \/ CpuStep(c)
      PROVE  IInv'
  BY <1>2, EnterIInv, ReadClockIInv, LoadIInv, EarlyIInv, DropIInv, DelayedIInv
     DEF CpuStep
<1>3. CASE UNCHANGED vars
  <2>1. TypeOK'
    BY <1>3 DEF vars, IInv, TypeOK, At
  <2> QED
    BY <1>3, <2>1 DEF vars, IInv, Local, At, Allowed
<1> QED
  BY <1>1, <1>2, <1>3 DEF Next

-----------------------------------------------------------------------------

\* Every variable keeps its type, and a packet that is held up is at a shaper.
THEOREM TypeCorrect == Spec => []TypeOK
<1>1. IInv => TypeOK
  BY DEF IInv
<1> QED
  BY <1>1, InitIInv, NextIInv, PTL DEF Spec

\* The question of line 254 answered for any number of processors and for packets
\* stamped as far ahead as their senders please: no delay takes a t_last or a stamp
\* to the horizon, and what is further ahead is what a packet of that shaper came
\* with.
THEOREM HorizonKept == Spec => []WithinHorizon
<1>1. IInv => WithinHorizon
  BY DEF IInv, WithinHorizon, Local
<1> QED
  BY <1>1, InitIInv, NextIInv, PTL DEF Spec

\* What Spaced says of one step.
SpacedStep ==
  \A s \in Shaper : tail'[s] \notin {0, tail[s]} =>
    \E c \in CPU : cpu[c].at = s /\ tail'[s] >= tail[s] + cpu[c].delay

\* The departure scheduled is a delay after the one before it.
LEMMA ScheduleSpaced ==
  ASSUME IInv, NEW c \in CPU, At(c, "write"),
         NEW departure \in Nat, departure >= cpu[c].next,
         Schedule(c, departure)
  PROVE  SpacedStep
<1> SUFFICES ASSUME NEW s \in Shaper, tail'[s] \notin {0, tail[s]}
             PROVE  cpu[c].at = s /\ tail'[s] >= tail[s] + cpu[c].delay
  BY DEF SpacedStep
<1>1. cpu[c].at = s
  BY DEF Schedule, IInv, TypeOK
<1>2. ~cpu[c].lost /\ tail'[s] = departure
  BY <1>1 DEF Schedule, IInv, TypeOK
<1>3. cpu[c].next = last[s] + cpu[c].delay
  BY <1>1, <1>2 DEF IInv, Local
<1>4. tail[s] <= last[s] /\ tail[s] \in Nat /\ last[s] \in Nat
  BY DEF IInv, TypeOK
<1>5. cpu[c].delay \in Nat
  BY AboutToWrite
<1> QED
  BY <1>1, <1>2, <1>3, <1>4, <1>5

\* Departures of a shaper are a packet's delay apart, whatever other processors do
\* to t_last before and after.
THEOREM DeparturesSpaced == Spec => Spaced
<1>1. IInv /\ [Next]_vars => [SpacedStep]_vars
  <2> SUFFICES ASSUME IInv, Next PROVE SpacedStep
    BY DEF SpacedStep
  <2>1. CASE tail' = tail
    BY <2>1 DEF SpacedStep
  <2>2. ASSUME NEW c \in CPU, Early(c)
        PROVE  SpacedStep
    <3>1. At(c, "write") /\ Schedule(c, Earliest(c)) /\ cpu[c].next <= Earliest(c)
      BY <2>2 DEF Early, EarlyDeparture
    <3> QED
      BY <3>1, AboutToWrite, ScheduleSpaced
  <2>3. ASSUME NEW c \in CPU, Delayed(c)
        PROVE  SpacedStep
    <3>1. At(c, "write") /\ Schedule(c, cpu[c].next)
      BY <2>3 DEF Delayed
    <3> QED
      BY <3>1, AboutToWrite, ScheduleSpaced
  <2> QED
    BY <2>1, <2>2, <2>3
       DEF Next, Environment, Tick, PutRate, AdjustRate, CpuStep, Enter, ReadClock,
           Load, Drop
<1> QED
  BY <1>1, InitIInv, NextIInv, PTL DEF Spec, Spaced, SpacedStep

=============================================================================
