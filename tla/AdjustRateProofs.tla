-------------------------- MODULE AdjustRateProofs --------------------------
(***************************************************************************)
(* What is proved of AdjustRate, for any set of processors, any            *)
(* configurations and any interleaving.                                    *)
(***************************************************************************)
EXTENDS AdjustRate, TLAPS

-----------------------------------------------------------------------------
(* The constants and the operators the model is built from.                *)

\* The truncating division keeps the order.
LEMMA DivisionOrder ==
  ASSUME NEW a \in Nat, NEW b \in Nat, a <= b
  PROVE  a \div MEGABYTE \in Nat /\ a \div MEGABYTE <= b \div MEGABYTE
BY BoundsAssumption

\* Every configuration the entry may hold is well formed as it is read, its minima
\* within its maxima.
LEMMA KnownConf ==
  \A c \in Known : c \in Conf /\ \A k \in Class : c.min[k] <= c.max[k]
<1>1. ZeroConf \in Conf /\ \A k \in Class : ZeroConf.min[k] <= ZeroConf.max[k]
  BY DEF ZeroConf, Conf
<1>2. \A c \in Configs : c \in Conf /\ \A k \in Class : c.min[k] <= c.max[k]
  BY <1>1, ConfsAssumption DEF Configs
<1> SUFFICES ASSUME NEW c \in Configs
             PROVE  /\ InMegabytes(c) \in Conf
                    /\ \A k \in Class : InMegabytes(c).min[k] <= InMegabytes(c).max[k]
  BY DEF Known
<1>3. \A k \in Class : /\ c.min[k] \div MEGABYTE \in Nat /\ c.max[k] \div MEGABYTE \in Nat
                      /\ c.min[k] \div MEGABYTE <= c.max[k] \div MEGABYTE
  <2> TAKE k \in Class
  <2>1. c.min[k] \in Nat /\ c.max[k] \in Nat /\ c.min[k] <= c.max[k]
    BY <1>2 DEF Conf
  <2> QED
    BY <2>1, DivisionOrder
<1> QED
  BY <1>3 DEF InMegabytes, Conf

\* What a processor reads of the entry, or of a value being put there, is known.
LEMMA ReadConf ==
  ASSUME TypeOK
  PROVE  /\ InMegabytes(cfg) \in Known /\ InMegabytes(incoming) \in Known
         /\ InMegabytes(cfg) \in Conf /\ InMegabytes(incoming) \in Conf
BY KnownConf DEF TypeOK, Known

\* A torn read yields numbers, each taken from one of the two values.
LEMMA TornRead ==
  ASSUME NEW old \in [Class -> Nat], NEW new \in [Class -> Nat],
         NEW f \in Torn(old, new)
  PROVE  /\ f \in [Class -> Nat]
         /\ \A k \in Class : f[k] = old[k] \/ f[k] = new[k]
  BY DEF Torn

\* What a suppression writes is never below the minimum, and is the minimum or
\* at most the rate before; the overflow handed on is what was not absorbed.
LEMMA SuppressedBounds ==
  ASSUME NEW cur \in Nat, NEW min \in Nat, NEW overflow \in Nat
  PROVE  /\ Suppressed(cur, min, overflow) \in Nat
         /\ Suppressed(cur, min, overflow) >= min
         /\ Suppressed(cur, min, overflow) = min
              \/ Suppressed(cur, min, overflow) <= cur
         /\ OverflowAfterSuppress(cur, min, overflow) \in Nat
         /\ OverflowAfterSuppress(cur, min, overflow) > 0
              => Suppressed(cur, min, overflow) = min
  BY DEF Suppressed, OverflowAfterSuppress, Larger, Minus

\* What a recovery writes is never above the maximum, and below it is more
\* than the rate before; spare bandwidth is handed on only from the maximum.
LEMMA RecoveredBounds ==
  ASSUME NEW cur \in Nat, NEW max \in Nat, NEW overflow \in Nat
  PROVE  /\ Recovered(cur, max, overflow) \in Nat
         /\ Recovered(cur, max, overflow) <= max
         /\ Recovered(cur, max, overflow) = max
              \/ Recovered(cur, max, overflow) = cur + overflow
         /\ OverflowAfterRecover(cur, max, overflow) \in Nat
         /\ OverflowAfterRecover(cur, max, overflow) > 0
              => Recovered(cur, max, overflow) = max
  BY DEF Recovered, OverflowAfterRecover, Smaller, Minus

\* The state of a processor outside adjust_rate.
LEMMA IdleType == IdleCpu \in CpuState
  BY BoundsAssumption DEF IdleCpu, CpuState, Conf, ZeroConf, Class, Pc, Time

-----------------------------------------------------------------------------
(* Type correctness.                                                       *)

LEMMA TypeInit == Init => TypeOK
  BY IdleType, BoundsAssumption DEF Init, TypeOK, Configs, Time, Class

LEMMA TypeStep == TypeOK /\ [Next]_vars => TypeOK'
<1> SUFFICES ASSUME TypeOK, [Next]_vars
             PROVE  TypeOK'
  OBVIOUS
<1> USE DEF TypeOK
<1>1. CASE Environment
  <2>1. CASE Tick
    <3>1. clock' \in Time
      BY <2>1, BoundsAssumption DEF Tick, Time
    <3> QED
      BY <2>1, <3>1 DEF Tick
  <2>2. CASE Measured
    BY <2>2, BoundsAssumption DEF Measured
  <2>3. CASE PutStart
    BY <2>3 DEF PutStart, Configs
  <2>4. CASE PutDone
    BY <2>4 DEF PutDone
  <2> QED
    BY <1>1, <2>1, <2>2, <2>3, <2>4 DEF Environment
<1>2. ASSUME NEW p \in CPU, Enter(p) \/ CpuStep(p)
      PROVE  TypeOK'
  <2> DEFINE k == cpu[p].class
  <2>0. cpu[p] \in CpuState /\ k \in Class /\ cpu[p].conf \in Conf
    BY DEF CpuState
  <2>1. CASE Enter(p)
    BY <2>1, <2>0 DEF Enter, CpuState, Pc
  <2>2. CASE LoadConfig(p)
    <3>1. PICK min \in Torn(InMegabytes(cfg).min, InMegabytes(incoming).min),
               max \in Torn(InMegabytes(cfg).max, InMegabytes(incoming).max) :
            cpu' = [cpu EXCEPT ![p].pc = "rates", ![p].class = 0,
                               ![p].conf = [min |-> min, max |-> max]]
      BY <2>2 DEF LoadConfig
    <3>2. InMegabytes(cfg) \in Conf /\ InMegabytes(incoming) \in Conf
      BY ReadConf
    <3>3. min \in [Class -> Nat] /\ max \in [Class -> Nat]
      BY <3>2, TornRead DEF Conf
    <3>4. [min |-> min, max |-> max] \in Conf
      BY <3>3 DEF Conf
    <3> DEFINE loaded == [cpu[p] EXCEPT !.pc = "rates", !.class = 0,
                                        !.conf = [min |-> min, max |-> max]]
    <3>5. loaded \in CpuState
      <4>1. "rates" \in Pc /\ 0 \in Class
        BY DEF Pc, Class
      <4> QED
        BY <4>1, <3>4, <2>0 DEF CpuState
    <3>6. cpu' = [cpu EXCEPT ![p] = loaded]
      BY <3>1
    <3> HIDE DEF loaded
    <3>7. cpu' \in [CPU -> CpuState]
      BY <3>5, <3>6
    <3> QED
      BY <2>2, <3>7 DEF LoadConfig
  <2>3. CASE LoadRate(p)
    <3>1. cpu' \in [CPU -> CpuState]
      BY <2>3, <2>0 DEF LoadRate, CpuState, Pc, Class
    <3> QED
      BY <2>3, <3>1 DEF LoadRate
  <2>4. CASE LoadLast(p)
    BY <2>4, <2>0 DEF LoadLast, CpuState, Pc
  <2>5. CASE TooSoon(p)
    BY <2>5, IdleType DEF TooSoon, Return
  <2>6. CASE Proceed(p)
    <3>1. 0 \in Time
      BY BoundsAssumption DEF Time
    <3> QED
      BY <2>6, <2>0, <3>1 DEF Proceed, CpuState, Pc
  <2>7. CASE Stamp(p)
    <3>1. 0 \in Time
      BY BoundsAssumption DEF Time
    <3> QED
      BY <2>7, <2>0, <3>1 DEF Stamp, CpuState, Pc
  <2>8. CASE Contended(p)
    <3>1. Hw(p) \in Nat
      BY <2>0 DEF Hw, Conf, Class
    <3> DEFINE excess == load - Hw(p)
    <3>2. excess \in Nat
      BY <2>8, <3>1 DEF Contended
    <3> HIDE DEF excess
    <3> DEFINE started == [cpu[p] EXCEPT !.pc = "suppress", !.class = 2,
                                         !.avg = load, !.overflow = excess]
    <3>3. started \in CpuState
      <4>1. "suppress" \in Pc /\ 2 \in Class
        BY DEF Pc, Class
      <4> QED
        BY <4>1, <2>0, <3>2 DEF CpuState, TypeOK
    <3>4. cpu' = [cpu EXCEPT ![p] = started]
      BY <2>8 DEF Contended, excess
    <3> HIDE DEF started
    <3>5. cpu' \in [CPU -> CpuState]
      BY <3>3, <3>4
    <3> QED
      BY <2>8, <3>5 DEF Contended
  <2>9. CASE Spare(p)
    <3>1. Hw(p) \in Nat
      BY <2>0 DEF Hw, Conf, Class
    <3> DEFINE excess == Hw(p) - load
    <3>2. excess \in Nat
      BY <2>9, <3>1 DEF Spare
    <3> HIDE DEF excess
    <3> DEFINE started == [cpu[p] EXCEPT !.pc = "recover", !.class = 0,
                                         !.avg = load, !.overflow = excess]
    <3>3. started \in CpuState
      <4>1. "recover" \in Pc /\ 0 \in Class
        BY DEF Pc, Class
      <4> QED
        BY <4>1, <2>0, <3>2 DEF CpuState, TypeOK
    <3>4. cpu' = [cpu EXCEPT ![p] = started]
      BY <2>9 DEF Spare, excess
    <3> HIDE DEF started
    <3>5. cpu' \in [CPU -> CpuState]
      BY <3>3, <3>4
    <3> QED
      BY <2>9, <3>5 DEF Spare
  <2>10. CASE Balanced(p)
    BY <2>10, IdleType DEF Balanced, Return
  <2>11. CASE Suppress(p)
    <3> DEFINE left == OverflowAfterSuppress(cpu[p].cur[k], cpu[p].conf.min[k],
                                             cpu[p].overflow)
    <3>1. cpu[p].cur[k] \in Nat /\ cpu[p].conf.min[k] \in Nat /\ cpu[p].overflow \in Nat
      BY <2>0 DEF CpuState, Conf
    <3>2. Suppressed(cpu[p].cur[k], cpu[p].conf.min[k], cpu[p].overflow) \in Nat
      BY <3>1, SuppressedBounds
    <3>3. left \in Nat
      BY <3>1, SuppressedBounds
    <3>4. rate' \in [Class -> Nat]
      BY <2>11, <3>2 DEF Suppress
    <3>5. cpu' \in [CPU -> CpuState]
      <4>1. CASE left > 0 /\ k > 0
        <5> HIDE DEF left
        <5>1. cpu' = [cpu EXCEPT ![p].class = k - 1, ![p].overflow = left]
          BY <2>11, <4>1 DEF Suppress, left
        <5>2. k - 1 \in Class
          BY <2>0, <4>1 DEF Class
        <5> QED
          BY <5>1, <5>2, <3>3, <2>0 DEF CpuState
      <4>2. CASE ~(left > 0 /\ k > 0)
        BY <2>11, <4>2, IdleType DEF Suppress, Return
      <4> QED
        BY <4>1, <4>2
    <3> QED
      BY <2>11, <3>4, <3>5 DEF Suppress
  <2>12. CASE Recover(p)
    <3> DEFINE left == OverflowAfterRecover(cpu[p].cur[k], cpu[p].conf.max[k],
                                            cpu[p].overflow)
    <3>1. cpu[p].cur[k] \in Nat /\ cpu[p].conf.max[k] \in Nat /\ cpu[p].overflow \in Nat
      BY <2>0 DEF CpuState, Conf
    <3>2. Recovered(cpu[p].cur[k], cpu[p].conf.max[k], cpu[p].overflow) \in Nat
      BY <3>1, RecoveredBounds
    <3>3. left \in Nat
      BY <3>1, RecoveredBounds
    <3>4. rate' \in [Class -> Nat]
      BY <2>12, <3>2 DEF Recover
    <3>5. cpu' \in [CPU -> CpuState]
      <4>1. CASE left > 0 /\ k < 2
        <5> HIDE DEF left
        <5>1. cpu' = [cpu EXCEPT ![p].class = k + 1, ![p].overflow = left]
          BY <2>12, <4>1 DEF Recover, left
        <5>2. k + 1 \in Class
          BY <2>0, <4>1 DEF Class
        <5> QED
          BY <5>1, <5>2, <3>3, <2>0 DEF CpuState
      <4>2. CASE ~(left > 0 /\ k < 2)
        BY <2>12, <4>2, IdleType DEF Recover, Return
      <4> QED
        BY <4>1, <4>2
    <3> QED
      BY <2>12, <3>4, <3>5 DEF Recover
  <2> QED
    BY <1>2, <2>1, <2>2, <2>3, <2>4, <2>5, <2>6, <2>7, <2>8, <2>9, <2>10,
       <2>11, <2>12 DEF CpuStep
<1>3. CASE UNCHANGED vars
  BY <1>3 DEF vars
<1> QED
  BY <1>1, <1>2, <1>3 DEF Next

\* The subtractions of the cascades never wrap, with any number of processors
\* and any configurations (lines 323-410 of qos_tc.c).
THEOREM TypeCorrect == Spec => []TypeOK
<1> QED
  BY TypeInit, TypeStep, PTL DEF Spec

-----------------------------------------------------------------------------
(* No rate above what some configuration allows.                           *)

Allowed(k, r) == \E c \in Known : r <= c.max[k]

\* RateCapped is not inductive: a processor writes what it computed from
\* locals it read earlier, so the locals are bounded too.
CpuCapped(p) ==
  \A k \in Class : /\ Allowed(k, cpu[p].cur[k])
                   /\ Allowed(k, cpu[p].conf.min[k])
                   /\ Allowed(k, cpu[p].conf.max[k])

CapInv == TypeOK /\ RateCapped /\ \A p \in CPU : CpuCapped(p)

LEMMA AllowedBelow ==
  ASSUME TypeOK, NEW k \in Class, NEW r \in Nat, NEW s \in Nat,
         Allowed(k, s), r <= s
  PROVE  Allowed(k, r)
<1>1. PICK c \in Known : s <= c.max[k]
  BY DEF Allowed
<1>2. c.max[k] \in Nat
  BY KnownConf DEF Conf
<1> QED
  BY <1>1, <1>2 DEF Allowed

LEMMA AllowedZero == TypeOK => \A k \in Class : Allowed(k, 0)
<1> SUFFICES ASSUME TypeOK, NEW k \in Class PROVE Allowed(k, 0)
  OBVIOUS
<1>1. InMegabytes(cfg) \in Known /\ InMegabytes(cfg).max[k] \in Nat
  BY ReadConf DEF Conf
<1> QED
  BY <1>1 DEF Allowed

LEMMA IdleCapped ==
  TypeOK => \A k \in Class : /\ Allowed(k, IdleCpu.cur[k])
                            /\ Allowed(k, IdleCpu.conf.min[k])
                            /\ Allowed(k, IdleCpu.conf.max[k])
  BY AllowedZero DEF IdleCpu, ZeroConf

LEMMA CapInit == Init => CapInv
<1> SUFFICES ASSUME Init PROVE CapInv
  OBVIOUS
<1>1. TypeOK
  BY TypeInit
<1>2. RateCapped
  BY <1>1, AllowedZero DEF Init, RateCapped, Allowed
<1>3. ASSUME NEW p \in CPU PROVE CpuCapped(p)
  <2>1. cpu[p] = IdleCpu
    BY DEF Init
  <2> QED
    BY <1>1, <2>1, IdleCapped DEF CpuCapped
<1> QED
  BY <1>1, <1>2, <1>3 DEF CapInv

LEMMA CapStep == CapInv /\ [Next]_vars => CapInv'
<1> SUFFICES ASSUME CapInv, [Next]_vars
             PROVE  CapInv'
  OBVIOUS
<1>1. TypeOK /\ TypeOK'
  BY TypeStep DEF CapInv
<1>2. ASSUME rate' = rate PROVE RateCapped'
  BY <1>2 DEF CapInv, RateCapped
<1>3. ASSUME cpu' = cpu PROVE \A p \in CPU : CpuCapped(p)'
  BY <1>3 DEF CapInv, CpuCapped, Allowed
<1>4. ASSUME NEW p \in CPU, cpu' = [cpu EXCEPT ![p] = IdleCpu]
      PROVE  \A q \in CPU : CpuCapped(q)'
  <2> TAKE q \in CPU
  <2>1. CASE q = p
    <3>1. cpu'[q] = IdleCpu
      BY <1>1, <1>4, <2>1 DEF TypeOK
    <3> QED
      BY <1>1, <3>1, IdleCapped DEF CpuCapped, Allowed
  <2>2. CASE q # p
    <3>1. cpu'[q] = cpu[q]
      BY <1>1, <1>4, <2>2 DEF TypeOK
    <3> QED
      BY <3>1 DEF CapInv, CpuCapped, Allowed
  <2> QED
    BY <2>1, <2>2
\* A step that changes neither the rates nor the limits a processor holds.
<1>5. ASSUME NEW p \in CPU, cpu' \in [CPU -> CpuState],
             \A q \in CPU \ {p} : cpu'[q] = cpu[q],
             cpu'[p].cur = cpu[p].cur, cpu'[p].conf = cpu[p].conf
      PROVE  \A q \in CPU : CpuCapped(q)'
  <2> TAKE q \in CPU
  <2>1. cpu'[q].cur = cpu[q].cur /\ cpu'[q].conf = cpu[q].conf
    BY <1>5
  <2> QED
    BY <2>1 DEF CapInv, CpuCapped, Allowed
<1>6. CASE Environment
  <2>1. rate' = rate /\ cpu' = cpu
    BY <1>6 DEF Environment, Tick, Measured, PutStart, PutDone
  <2> QED
    BY <1>1, <1>2, <1>3, <2>1 DEF CapInv
<1>7. ASSUME NEW p \in CPU, Enter(p) \/ CpuStep(p)
      PROVE  CapInv'
  <2> DEFINE k == cpu[p].class
  <2>0. /\ cpu[p] \in CpuState /\ k \in Class
        /\ cpu[p].conf \in Conf /\ cpu[p].cur \in [Class -> Nat]
        /\ cpu \in [CPU -> CpuState] /\ cpu' \in [CPU -> CpuState]
    BY <1>1 DEF TypeOK, CpuState
  <2> HIDE DEF k
  <2>1. CASE Enter(p) \/ LoadLast(p) \/ Proceed(p) \/ Stamp(p)
               \/ Contended(p) \/ Spare(p)
    <3>1. rate' = rate
      BY <2>1 DEF Enter, LoadLast, Proceed, Stamp, Contended, Spare
    <3>2. \A q \in CPU \ {p} : cpu'[q] = cpu[q]
      BY <2>0, <2>1 DEF Enter, LoadLast, Proceed, Stamp, Contended, Spare
    <3>3. cpu'[p].cur = cpu[p].cur /\ cpu'[p].conf = cpu[p].conf
      BY <2>0, <2>1 DEF Enter, LoadLast, Proceed, Stamp, Contended, Spare, CpuState
    <3> QED
      BY <1>1, <1>2, <1>5, <2>0, <3>1, <3>2, <3>3 DEF CapInv
  <2>2. CASE LoadConfig(p)
    <3>1. PICK min \in Torn(InMegabytes(cfg).min, InMegabytes(incoming).min),
               max \in Torn(InMegabytes(cfg).max, InMegabytes(incoming).max) :
            cpu' = [cpu EXCEPT ![p].pc = "rates", ![p].class = 0,
                               ![p].conf = [min |-> min, max |-> max]]
      BY <2>2 DEF LoadConfig
    <3>2. /\ InMegabytes(cfg) \in Known /\ InMegabytes(incoming) \in Known
          /\ InMegabytes(cfg) \in Conf /\ InMegabytes(incoming) \in Conf
      BY <1>1, ReadConf
    <3>3. ASSUME NEW j \in Class
          PROVE  Allowed(j, min[j]) /\ Allowed(j, max[j])
      <4>1. \/ min[j] = InMegabytes(cfg).min[j]
            \/ min[j] = InMegabytes(incoming).min[j]
        BY <3>2, TornRead DEF Conf
      <4>2. \/ max[j] = InMegabytes(cfg).max[j]
            \/ max[j] = InMegabytes(incoming).max[j]
        BY <3>2, TornRead DEF Conf
      <4>3. InMegabytes(cfg).min[j] <= InMegabytes(cfg).max[j] /\ InMegabytes(incoming).min[j] <= InMegabytes(incoming).max[j]
        BY <3>2, KnownConf
      <4>4. InMegabytes(cfg).max[j] \in Nat /\ InMegabytes(incoming).max[j] \in Nat
        BY <3>2 DEF Conf
      <4> QED
        BY <3>2, <4>1, <4>2, <4>3, <4>4 DEF Allowed
    <3>4. cpu'[p].cur = cpu[p].cur /\ cpu'[p].conf = [min |-> min, max |-> max]
      BY <2>0, <3>1 DEF CpuState
    <3>5. \A q \in CPU \ {p} : cpu'[q] = cpu[q]
      BY <2>0, <3>1
    <3>6. ASSUME NEW q \in CPU PROVE CpuCapped(q)'
      <4>1. CASE q = p
        BY <3>3, <3>4, <4>1 DEF CapInv, CpuCapped, Allowed
      <4>2. CASE q # p
        <5>1. cpu'[q] = cpu[q]
          BY <3>5, <4>2
        <5> QED
          BY <5>1 DEF CapInv, CpuCapped, Allowed
      <4> QED
        BY <4>1, <4>2
    <3> QED
      BY <1>1, <1>2, <2>2, <3>6 DEF CapInv, LoadConfig
  <2>3. CASE LoadRate(p)
    <3>1. cpu'[p].conf = cpu[p].conf /\ cpu'[p].cur = [cpu[p].cur EXCEPT ![k] = rate[k]]
      BY <2>0, <2>3 DEF LoadRate, CpuState, k
    <3>2. \A q \in CPU \ {p} : cpu'[q] = cpu[q]
      BY <2>0, <2>3 DEF LoadRate
    <3>3. ASSUME NEW j \in Class PROVE Allowed(j, cpu'[p].cur[j])
      <4>1. cpu'[p].cur[j] = rate[j] \/ cpu'[p].cur[j] = cpu[p].cur[j]
        BY <2>0, <3>1
      <4> QED
        BY <4>1 DEF CapInv, RateCapped, CpuCapped, Allowed
    <3>4. ASSUME NEW q \in CPU PROVE CpuCapped(q)'
      <4>1. CASE q = p
        BY <3>1, <3>3, <4>1 DEF CapInv, CpuCapped, Allowed
      <4>2. CASE q # p
        <5>1. cpu'[q] = cpu[q]
          BY <3>2, <4>2
        <5> QED
          BY <5>1 DEF CapInv, CpuCapped, Allowed
      <4> QED
        BY <4>1, <4>2
    <3> QED
      BY <1>1, <1>2, <2>3, <3>4 DEF CapInv, LoadRate
  <2>4. CASE TooSoon(p) \/ Balanced(p)
    BY <1>1, <1>2, <1>4, <2>4 DEF CapInv, TooSoon, Balanced, Return
  <2>5. CASE Suppress(p) \/ Recover(p)
    <3> DEFINE cur == cpu[p].cur[k]
               min == cpu[p].conf.min[k]
               max == cpu[p].conf.max[k]
               over == cpu[p].overflow
    <3>1. cur \in Nat /\ min \in Nat /\ max \in Nat /\ over \in Nat
      BY <2>0 DEF CpuState, Conf
    <3>2. Allowed(k, cur) /\ Allowed(k, min) /\ Allowed(k, max)
      BY <2>0 DEF CapInv, CpuCapped
    <3> HIDE DEF cur, min, max, over
    <3>3. Allowed(k, Suppressed(cur, min, over))
      <4>1. PICK s \in Nat : /\ s = Suppressed(cur, min, over)
                             /\ s = min \/ s <= cur
        BY <3>1, SuppressedBounds
      <4>2. Allowed(k, s)
        BY <1>1, <2>0, <3>1, <3>2, <4>1, AllowedBelow
      <4> QED
        BY <4>1, <4>2
    <3>4. Allowed(k, Recovered(cur, max, over))
      BY <1>1, <2>0, <3>1, <3>2, RecoveredBounds, AllowedBelow
    <3>5. PICK r \in {Suppressed(cur, min, over), Recovered(cur, max, over)} :
            rate' = [rate EXCEPT ![k] = r]
      BY <2>5 DEF Suppress, Recover, cur, min, max, over, k
    <3>6. RateCapped'
      <4> SUFFICES ASSUME NEW j \in Class PROVE Allowed(j, rate'[j])
        BY DEF RateCapped, Allowed
      <4>1. rate \in [Class -> Nat]
        BY <1>1 DEF TypeOK
      <4>2. CASE j = k
        BY <3>3, <3>4, <3>5, <4>1, <4>2
      <4>3. CASE j # k
        BY <3>5, <4>1, <4>3 DEF CapInv, RateCapped, Allowed
      <4> QED
        BY <4>2, <4>3
    <3>7. \A q \in CPU : CpuCapped(q)'
      <4>1. CASE cpu' = [cpu EXCEPT ![p] = IdleCpu]
        BY <1>4, <4>1
      <4>2. CASE cpu' # [cpu EXCEPT ![p] = IdleCpu]
        <5>1. PICK j, left : cpu' = [cpu EXCEPT ![p].class = j, ![p].overflow = left]
          BY <2>5, <4>2 DEF Suppress, Recover, Return
        <5>2. cpu'[p].cur = cpu[p].cur /\ cpu'[p].conf = cpu[p].conf
          BY <5>1, <2>0 DEF CpuState
        <5>3. \A q \in CPU \ {p} : cpu'[q] = cpu[q]
          BY <5>1, <2>0
        <5> QED
          BY <1>5, <2>0, <5>2, <5>3
      <4> QED
        BY <4>1, <4>2
    <3> QED
      BY <1>1, <3>6, <3>7 DEF CapInv
  <2> QED
    BY <1>7, <2>1, <2>2, <2>3, <2>4, <2>5 DEF CpuStep
<1>8. CASE UNCHANGED vars
  BY <1>1, <1>2, <1>3, <1>8 DEF CapInv, vars
<1> QED
  BY <1>6, <1>7, <1>8 DEF Next

\* No class is ever given more than a configuration allows, with any number of
\* processors, through any hot updates and torn reads (README.md:31-33).
THEOREM Capped == Spec => []RateCapped
<1>1. CapInv => RateCapped
  BY DEF CapInv
<1> QED
  BY <1>1, CapInit, CapStep, PTL DEF Spec

-----------------------------------------------------------------------------
(* A class keeps its limit.                                                *)

\* A class that every known configuration has a minimum for.
Floored(k) == \A c \in Known : c.min[k] > 0

\* A processor past the read of the configuration holds positive limits for such a
\* class, and hands spare bandwidth on only while there is some.
LimitsHeld(p) ==
  /\ cpu[p].pc \notin {"idle", "config"}
       => \A k \in Class : Floored(k) => cpu[p].conf.min[k] > 0 /\ cpu[p].conf.max[k] > 0
  /\ cpu[p].pc = "recover" => cpu[p].overflow > 0

LimitedInv == TypeOK /\ \A p \in CPU : LimitsHeld(p)

LEMMA LimitedInit == Init => LimitedInv
<1> SUFFICES ASSUME Init PROVE LimitedInv
  OBVIOUS
<1>1. \A p \in CPU : cpu[p].pc = "idle"
  BY DEF Init, IdleCpu
<1> QED
  BY <1>1, TypeInit DEF LimitedInv, LimitsHeld

LEMMA LimitedStep == LimitedInv /\ [Next]_vars => LimitedInv'
<1> SUFFICES ASSUME LimitedInv, [Next]_vars
             PROVE  LimitedInv'
  OBVIOUS
<1>1. TypeOK /\ TypeOK'
  BY TypeStep DEF LimitedInv
<1>2. CASE Environment \/ UNCHANGED vars
  <2>1. cpu' = cpu
    BY <1>2 DEF Environment, Tick, Measured, PutStart, PutDone, vars
  <2> QED
    BY <1>1, <2>1 DEF LimitedInv, LimitsHeld
<1>3. ASSUME NEW p \in CPU, Enter(p) \/ CpuStep(p)
      PROVE  LimitedInv'
  <2>0. /\ cpu[p] \in CpuState /\ cpu[p].class \in Class
        /\ cpu[p].conf \in Conf /\ cpu[p].cur \in [Class -> Nat]
        /\ cpu \in [CPU -> CpuState] /\ LimitsHeld(p)
    BY <1>1 DEF TypeOK, CpuState, LimitedInv
  <2>1. \A q \in CPU \ {p} : cpu'[q] = cpu[q]
    BY <1>3, <2>0 DEF Enter, CpuStep, LoadConfig, LoadRate, LoadLast, TooSoon,
       Proceed, Stamp, Contended, Spare, Balanced, Suppress, Recover, Return
  <2>2. SUFFICES LimitsHeld(p)'
    BY <1>1, <2>1 DEF LimitedInv, LimitsHeld
  <2>3. CASE cpu' = [cpu EXCEPT ![p] = IdleCpu]
    <3>1. cpu'[p].pc = "idle"
      BY <2>0, <2>3 DEF IdleCpu
    <3> QED
      BY <3>1 DEF LimitsHeld
  <2>4. CASE Enter(p)
    <3>1. cpu'[p].pc = "config"
      BY <2>0, <2>4 DEF Enter, CpuState
    <3> QED
      BY <3>1 DEF LimitsHeld
  <2>5. CASE LoadConfig(p)
    <3>1. PICK min \in Torn(InMegabytes(cfg).min, InMegabytes(incoming).min),
               max \in Torn(InMegabytes(cfg).max, InMegabytes(incoming).max) :
            cpu' = [cpu EXCEPT ![p].pc = "rates", ![p].class = 0,
                               ![p].conf = [min |-> min, max |-> max]]
      BY <2>5 DEF LoadConfig
    <3>2. /\ InMegabytes(cfg) \in Known /\ InMegabytes(incoming) \in Known
          /\ InMegabytes(cfg) \in Conf /\ InMegabytes(incoming) \in Conf
      BY <1>1, ReadConf
    <3>3. ASSUME NEW k \in Class, Floored(k)
          PROVE  min[k] > 0 /\ max[k] > 0
      <4>1. /\ min[k] = InMegabytes(cfg).min[k] \/ min[k] = InMegabytes(incoming).min[k]
            /\ max[k] = InMegabytes(cfg).max[k] \/ max[k] = InMegabytes(incoming).max[k]
        BY <3>2, TornRead DEF Conf
      <4>2. /\ InMegabytes(cfg).min[k] \in Nat /\ InMegabytes(cfg).max[k] \in Nat
            /\ InMegabytes(incoming).min[k] \in Nat /\ InMegabytes(incoming).max[k] \in Nat
        BY <3>2 DEF Conf
      <4>3. /\ InMegabytes(cfg).min[k] > 0 /\ InMegabytes(cfg).min[k] <= InMegabytes(cfg).max[k]
            /\ InMegabytes(incoming).min[k] > 0 /\ InMegabytes(incoming).min[k] <= InMegabytes(incoming).max[k]
        BY <3>2, <3>3, KnownConf DEF Floored
      <4> QED
        BY <4>1, <4>2, <4>3
    <3>4. cpu'[p].pc = "rates" /\ cpu'[p].conf = [min |-> min, max |-> max]
      BY <2>0, <3>1 DEF CpuState
    <3> QED
      BY <3>3, <3>4 DEF LimitsHeld
  <2>6. CASE LoadRate(p) \/ LoadLast(p) \/ Proceed(p) \/ Stamp(p)
    <3>1. cpu'[p].conf = cpu[p].conf
      BY <2>0, <2>6 DEF LoadRate, LoadLast, Proceed, Stamp, CpuState
    <3>2. cpu[p].pc \notin {"idle", "config"} /\ cpu'[p].pc # "recover"
      BY <2>0, <2>6 DEF LoadRate, LoadLast, Proceed, Stamp, CpuState, At
    <3> QED
      BY <2>0, <3>1, <3>2 DEF LimitsHeld
  <2>7. CASE Contended(p) \/ Spare(p)
    <3>1. cpu'[p].conf = cpu[p].conf
      BY <2>0, <2>7 DEF Contended, Spare, CpuState
    <3>2. cpu[p].pc = "measure"
      BY <2>7 DEF Contended, Spare, At
    <3>3. cpu'[p].pc = "recover" => cpu'[p].overflow > 0
      <4>1. Hw(p) \in Nat /\ load \in Nat
        BY <1>1, <2>0 DEF TypeOK, Hw, Conf, Class
      <4>2. CASE Contended(p)
        BY <2>0, <4>2 DEF Contended, CpuState
      <4>3. CASE Spare(p)
        <5>1. cpu'[p].overflow = Hw(p) - load
          BY <2>0, <4>3 DEF Spare, CpuState
        <5> QED
          BY <4>1, <4>3, <5>1 DEF Spare
      <4> QED
        BY <2>7, <4>2, <4>3
    <3> QED
      BY <2>0, <3>1, <3>2, <3>3 DEF LimitsHeld
  <2>8. CASE /\ cpu' # [cpu EXCEPT ![p] = IdleCpu]
             /\ Suppress(p) \/ Recover(p)
    <3>1. PICK j, left : /\ cpu' = [cpu EXCEPT ![p].class = j, ![p].overflow = left]
                         /\ left > 0
      BY <2>8 DEF Suppress, Recover, Return
    <3>2. /\ cpu'[p].conf = cpu[p].conf /\ cpu'[p].pc = cpu[p].pc
          /\ cpu'[p].overflow = left
      BY <2>0, <3>1 DEF CpuState
    <3> QED
      BY <2>0, <3>1, <3>2 DEF LimitsHeld
  <2> QED
    BY <1>3, <2>3, <2>4, <2>5, <2>6, <2>7, <2>8 DEF CpuStep, TooSoon, Balanced, Return
<1> QED
  BY <1>2, <1>3 DEF Next

LEMMA NoStepUnlimits ==
  LimitedInv /\ [Next]_vars
    => \A k \in Class : Floored(k) /\ rate[k] > 0 => rate'[k] > 0
<1> SUFFICES ASSUME LimitedInv, [Next]_vars,
                    NEW k \in Class, Floored(k), rate[k] > 0
             PROVE  rate'[k] > 0
  OBVIOUS
<1>1. CASE rate' = rate
  BY <1>1
<1>2. ASSUME NEW p \in CPU, Suppress(p) \/ Recover(p)
      PROVE  rate'[k] > 0
  <2> DEFINE j == cpu[p].class
             cur == cpu[p].cur[j]
             min == cpu[p].conf.min[j]
             max == cpu[p].conf.max[j]
             over == cpu[p].overflow
  <2>1. /\ rate \in [Class -> Nat] /\ j \in Class
        /\ cur \in Nat /\ min \in Nat /\ max \in Nat /\ over \in Nat
    BY DEF LimitedInv, TypeOK, CpuState, Conf
  <2>2. j = k => min > 0 /\ max > 0
    BY <1>2, <2>1 DEF LimitedInv, LimitsHeld, Suppress, Recover, At
  <2>3. CASE Suppress(p)
    <3>1. rate' = [rate EXCEPT ![j] = Suppressed(cur, min, over)]
      BY <2>3 DEF Suppress
    <3> HIDE DEF j, cur, min, max, over
    <3>2. Suppressed(cur, min, over) \in Nat /\ Suppressed(cur, min, over) >= min
      BY <2>1, SuppressedBounds
    <3> QED
      BY <2>1, <2>2, <3>1, <3>2
  <2>4. CASE Recover(p)
    <3>1. rate' = [rate EXCEPT ![j] = Recovered(cur, max, over)]
      BY <2>4 DEF Recover
    <3>2. over > 0
      BY <2>4 DEF Recover, At, LimitedInv, LimitsHeld
    <3> HIDE DEF j, cur, min, max, over
    <3>3. \/ Recovered(cur, max, over) = max
          \/ Recovered(cur, max, over) = cur + over
      BY <2>1, RecoveredBounds
    <3> QED
      BY <2>1, <2>2, <3>1, <3>2, <3>3
  <2> QED
    BY <1>2, <2>3, <2>4
<1> QED
  BY <1>1, <1>2 DEF Next, Environment, CpuStep, vars, Tick, Measured, PutStart,
     PutDone, Enter, LoadConfig, LoadRate, LoadLast, TooSoon, Proceed, Stamp,
     Contended, Spare, Balanced

\* No interleaving of any number of processors, hot update or torn read takes a
\* class that has a limit back to the rate accept() reads as "no limit", unless a
\* configuration gives that very class a minimum of 0 or of less than a MEGABYTE.
THEOREM LimitsKept == Spec => StaysLimited
<1>1. Spec => []LimitedInv
  BY LimitedInit, LimitedStep, PTL DEF Spec
<1>2. LimitedInv /\ [Next]_vars
        => [\A k \in Class : rate[k] > 0 /\ rate'[k] = 0 => \E c \in Known : c.min[k] = 0]_vars
  <2> SUFFICES ASSUME LimitedInv, [Next]_vars,
                      NEW k \in Class, rate[k] > 0, rate'[k] = 0
               PROVE  \E c \in Known : c.min[k] = 0
    OBVIOUS
  <2>1. PICK c \in Known : ~(c.min[k] > 0)
    BY NoStepUnlimits DEF Floored
  <2>2. c.min[k] \in Nat
    BY KnownConf DEF Conf
  <2> QED
    BY <2>1, <2>2
<1> QED
  BY <1>1, <1>2, PTL DEF Spec, StaysLimited

-----------------------------------------------------------------------------
(* One processor, whatever configurations are written: what a cascade does *)
(* to the rates, class by class and together.                              *)

Sole == \A p, q \in CPU : p = q

Lower(p, k) == \A j \in Class : j > k => rate[j] = cpu[p].conf.min[j]
Higher(p, k) == \A j \in Class : j < k => rate[j] = cpu[p].conf.max[j]

\* What the processor remembers still is what the entry holds, and a cascade
\* that has reached a class left the ones before it at their limit and has
\* taken or given what is no more in its overflow.
Cascade(p) ==
  /\ cpu[p].pc = "rates"
       => \A k \in Class : k < cpu[p].class => cpu[p].cur[k] = rate[k]
  /\ cpu[p].pc \in {"last", "check", "stamp", "measure"}
       => \A k \in Class : cpu[p].cur[k] = rate[k]
  /\ cpu[p].pc = "suppress"
       => /\ \A k \in Class : k <= cpu[p].class => cpu[p].cur[k] = rate[k]
          /\ Lower(p, cpu[p].class)
          /\ cpu[p].overflow > 0
          /\ Above(rate, cpu[p].conf.min) + (cpu[p].avg - Hw(p))
               = Above(cpu[p].cur, cpu[p].conf.min) + cpu[p].overflow
          /\ cpu[p].avg > Hw(p)
  /\ cpu[p].pc = "recover"
       => /\ \A k \in Class : k >= cpu[p].class => cpu[p].cur[k] = rate[k]
          /\ Higher(p, cpu[p].class)
          /\ cpu[p].overflow > 0
          /\ Below(rate, cpu[p].conf.max) + (Hw(p) - cpu[p].avg)
               = Below(cpu[p].cur, cpu[p].conf.max) + cpu[p].overflow
          /\ cpu[p].avg < Hw(p)

CascadeInv == TypeOK /\ \A p \in CPU : Cascade(p)

LEMMA CascadeInit == Init => CascadeInv
<1> SUFFICES ASSUME Init PROVE CascadeInv
  OBVIOUS
<1>1. \A p \in CPU : cpu[p].pc = "idle"
  BY DEF Init, IdleCpu
<1> QED
  BY <1>1, TypeInit DEF CascadeInv, Cascade

\* A suppression takes from a class what the overflow loses.
LEMMA SuppressedTakes ==
  ASSUME NEW cur \in Nat, NEW min \in Nat, NEW overflow \in Nat, overflow > 0
  PROVE  /\ Minus(Suppressed(cur, min, overflow), min) = Minus(Minus(cur, min), overflow)
         /\ OverflowAfterSuppress(cur, min, overflow) > 0
              => /\ Minus(Suppressed(cur, min, overflow), min) = 0
                 /\ overflow = OverflowAfterSuppress(cur, min, overflow) + Minus(cur, min)
         /\ OverflowAfterSuppress(cur, min, overflow) = 0 => overflow <= Minus(cur, min)
  BY DEF Suppressed, OverflowAfterSuppress, Larger, Minus

LEMMA RecoveredGives ==
  ASSUME NEW cur \in Nat, NEW max \in Nat, NEW overflow \in Nat, overflow > 0
  PROVE  /\ Minus(max, Recovered(cur, max, overflow)) = Minus(Minus(max, cur), overflow)
         /\ OverflowAfterRecover(cur, max, overflow) > 0
              => /\ Minus(max, Recovered(cur, max, overflow)) = 0
                 /\ overflow = OverflowAfterRecover(cur, max, overflow) + Minus(max, cur)
         /\ OverflowAfterRecover(cur, max, overflow) = 0 => overflow <= Minus(max, cur)
  BY DEF Recovered, OverflowAfterRecover, Smaller, Minus

LEMMA MinusType == \A a, b \in Nat : Minus(a, b) \in Nat /\ Minus(a, a) = 0
  BY DEF Minus

\* The sums, when one class changes.
LEMMA AboveChange ==
  ASSUME NEW r \in [Class -> Nat], NEW s \in [Class -> Nat], NEW min \in [Class -> Nat],
         NEW k \in Class, \A j \in Class \ {k} : s[j] = r[j]
  PROVE  /\ Above(r, min) \in Nat
         /\ Above(s, min) + Minus(r[k], min[k]) = Above(r, min) + Minus(s[k], min[k])
         /\ Minus(r[k], min[k]) <= Above(r, min)
<1>1. \A j \in Class : Minus(r[j], min[j]) \in Nat /\ Minus(s[j], min[j]) \in Nat
  BY MinusType
<1>2. 0 \in Class /\ 1 \in Class /\ 2 \in Class /\ k \in {0, 1, 2}
  BY DEF Class
<1>3. CASE k = 0
  BY <1>1, <1>2, <1>3 DEF Above
<1>4. CASE k = 1
  BY <1>1, <1>2, <1>4 DEF Above
<1>5. CASE k = 2
  BY <1>1, <1>2, <1>5 DEF Above
<1> QED
  BY <1>2, <1>3, <1>4, <1>5

LEMMA BelowChange ==
  ASSUME NEW r \in [Class -> Nat], NEW s \in [Class -> Nat], NEW max \in [Class -> Nat],
         NEW k \in Class, \A j \in Class \ {k} : s[j] = r[j]
  PROVE  /\ Below(r, max) \in Nat
         /\ Below(s, max) + Minus(max[k], r[k]) = Below(r, max) + Minus(max[k], s[k])
         /\ Minus(max[k], r[k]) <= Below(r, max)
<1>1. \A j \in Class : Minus(max[j], r[j]) \in Nat /\ Minus(max[j], s[j]) \in Nat
  BY MinusType
<1>2. 0 \in Class /\ 1 \in Class /\ 2 \in Class /\ k \in {0, 1, 2}
  BY DEF Class
<1>3. CASE k = 0
  BY <1>1, <1>2, <1>3 DEF Below
<1>4. CASE k = 1
  BY <1>1, <1>2, <1>4 DEF Below
<1>5. CASE k = 2
  BY <1>1, <1>2, <1>5 DEF Below
<1> QED
  BY <1>2, <1>3, <1>4, <1>5

\* The last class of a cascade, the others at their limit, has all there is.
LEMMA AboveLast ==
  ASSUME NEW r \in [Class -> Nat], NEW min \in [Class -> Nat],
         \A j \in Class : j > 0 => r[j] = min[j]
  PROVE  Above(r, min) = Minus(r[0], min[0])
<1>1. r[1] = min[1] /\ r[2] = min[2] /\ min[1] \in Nat /\ min[2] \in Nat
      /\ r[0] \in Nat /\ min[0] \in Nat
  BY DEF Class
<1>2. Minus(r[1], min[1]) = 0 /\ Minus(r[2], min[2]) = 0 /\ Minus(r[0], min[0]) \in Nat
  BY <1>1, MinusType
<1> QED
  BY <1>2 DEF Above

LEMMA BelowLast ==
  ASSUME NEW r \in [Class -> Nat], NEW max \in [Class -> Nat],
         \A j \in Class : j < 2 => r[j] = max[j]
  PROVE  Below(r, max) = Minus(max[2], r[2])
<1>1. r[0] = max[0] /\ r[1] = max[1] /\ max[0] \in Nat /\ max[1] \in Nat
      /\ r[2] \in Nat /\ max[2] \in Nat
  BY DEF Class
<1>2. Minus(max[0], r[0]) = 0 /\ Minus(max[1], r[1]) = 0 /\ Minus(max[2], r[2]) \in Nat
  BY <1>1, MinusType
<1> QED
  BY <1>2 DEF Below

\* A processor hands l of its overflow on to class c.
HandedOn(p, c, l) == cpu' = [cpu EXCEPT ![p].class = c, ![p].overflow = l]

LEMMA HandedOnTo ==
  ASSUME TypeOK, NEW p \in CPU, NEW c, NEW l, HandedOn(p, c, l)
  PROVE  /\ cpu'[p].pc = cpu[p].pc /\ cpu'[p].conf = cpu[p].conf
         /\ cpu'[p].cur = cpu[p].cur /\ cpu'[p].avg = cpu[p].avg
         /\ cpu'[p].class = c /\ cpu'[p].overflow = l
<1>1. cpu \in [CPU -> CpuState] /\ cpu[p] \in CpuState
  BY DEF TypeOK
<1>2. cpu'[p] = [cpu[p] EXCEPT !.class = c, !.overflow = l]
  BY <1>1 DEF HandedOn
<1> QED
  BY <1>1, <1>2 DEF CpuState

\* A write of a cascade leaves the other classes alone.
LEMMA SuppressMoves ==
  ASSUME CascadeInv, NEW p \in CPU, Suppress(p), NEW k, k = cpu[p].class
  PROVE  /\ k \in Class /\ rate'[k] \in Nat
         /\ rate' = [rate EXCEPT ![k] = rate'[k]]
         /\ rate'[k] = cpu[p].conf.min[k] \/ rate'[k] <= rate[k]
         /\ rate'[k] >= cpu[p].conf.min[k]
         /\ Lower(p, k)
         /\ \/ /\ cpu' = [cpu EXCEPT ![p] = IdleCpu]
               /\ k = 0 \/ rate[k] > cpu[p].conf.min[k]
               /\ Above(rate', cpu[p].conf.min)
                    = Minus(Above(cpu[p].cur, cpu[p].conf.min), cpu[p].avg - Hw(p))
            \/ /\ k > 0 /\ rate'[k] = cpu[p].conf.min[k]
               /\ \E left \in Nat \ {0} :
                    /\ HandedOn(p, k - 1, left)
                    /\ Above(rate', cpu[p].conf.min) + cpu[p].overflow
                         = Above(rate, cpu[p].conf.min) + left
<1> DEFINE cur == cpu[p].cur[k]
           min == cpu[p].conf.min[k]
           over == cpu[p].overflow
           left == OverflowAfterSuppress(cur, min, over)
           before == Above(rate, cpu[p].conf.min)
           after == Above(rate', cpu[p].conf.min)
           first == Above(cpu[p].cur, cpu[p].conf.min)
           excess == cpu[p].avg - Hw(p)
<1>1. /\ k \in Class /\ over \in Nat /\ rate \in [Class -> Nat]
      /\ cpu[p].pc = "suppress" /\ cpu[p].cur \in [Class -> Nat]
      /\ cpu[p].conf.min \in [Class -> Nat]
      /\ cpu[p].avg \in Nat /\ Hw(p) \in Nat
  BY DEF CascadeInv, TypeOK, CpuState, Suppress, At, Conf, Hw, Class
<1>2. /\ \A j \in Class : j <= k => cpu[p].cur[j] = rate[j]
      /\ Lower(p, k) /\ over > 0
      /\ before + excess = first + over /\ cpu[p].avg > Hw(p)
  BY <1>1 DEF CascadeInv, Cascade
<1>3. cur = rate[k]
  <2>1. k <= k
    BY <1>1 DEF Class
  <2> QED
    BY <1>1, <1>2, <2>1
<1>4. min \in Nat /\ cur \in Nat
  BY <1>1, <1>3
<1>5. /\ rate' = [rate EXCEPT ![k] = Suppressed(cur, min, over)]
      /\ IF left > 0 /\ k > 0
           THEN HandedOn(p, k - 1, left)
           ELSE cpu' = [cpu EXCEPT ![p] = IdleCpu]
  BY DEF Suppress, Return, HandedOn
<1>6. rate'[k] = Suppressed(cur, min, over)
  BY <1>1, <1>5
<1>7. /\ rate'[k] \in Nat /\ rate'[k] >= min
      /\ rate'[k] = min \/ rate'[k] <= cur
      /\ left \in Nat /\ (left > 0 => rate'[k] = min)
      /\ Minus(rate'[k], min) = Minus(Minus(cur, min), over)
      /\ left > 0 => Minus(rate'[k], min) = 0 /\ over = left + Minus(cur, min)
      /\ left = 0 => over <= Minus(cur, min)
  <2> HIDE DEF cur, min, over
  <2>1. over \in Nat /\ over > 0
    BY <1>1, <1>2
  <2>2. /\ rate'[k] \in Nat /\ rate'[k] >= min
        /\ rate'[k] = min \/ rate'[k] <= cur
        /\ left \in Nat /\ (left > 0 => rate'[k] = min)
    BY <2>1, <1>4, <1>6, SuppressedBounds DEF left
  <2>3. /\ Minus(rate'[k], min) = Minus(Minus(cur, min), over)
        /\ left > 0 => Minus(rate'[k], min) = 0 /\ over = left + Minus(cur, min)
        /\ left = 0 => over <= Minus(cur, min)
    BY <2>1, <1>4, <1>6, SuppressedTakes DEF left
  <2> QED
    BY <2>2, <2>3
<1>8. before \in Nat /\ first \in Nat
  BY <1>1, AboveChange
<1>9. after + Minus(rate[k], min) = before + Minus(rate'[k], min)
  <2>1. rate' \in [Class -> Nat] /\ \A j \in Class \ {k} : rate'[j] = rate[j]
    <3> HIDE DEF left, over, cur, min
    <3> QED
      BY <1>1, <1>5, <1>6, <1>7
  <2> HIDE DEF left, over, cur
  <2> QED
    BY <1>1, <2>1, AboveChange
<1>10. Minus(cur, min) \in Nat /\ Minus(cur, min) <= before
  BY <1>1, <1>3, <1>4, MinusType, AboveChange
<1>15. Minus(rate'[k], min) \in Nat
  <2> HIDE DEF cur, left, over, min
  <2> QED
    BY <1>4, <1>7, MinusType
<1>11. after \in Nat
  <2>1. rate' \in [Class -> Nat]
    BY <1>1, <1>5, <1>6, <1>7
  <2> QED
    BY <1>1, <2>1, AboveChange
<1>12. excess \in Nat
  BY <1>1, <1>2
<1>13. CASE left > 0 /\ k > 0
  <2>1. after + over = before + left
    <3> HIDE DEF left, over, cur, min, before, after
    <3> QED
      BY <1>1, <1>3, <1>7, <1>8, <1>9, <1>10, <1>11, <1>13
  <2>2. \E l \in Nat \ {0} :
          /\ HandedOn(p, k - 1, l)
          /\ after + over = before + l
    <3> HIDE DEF left, after, before
    <3> QED
      BY <1>5, <1>7, <1>13, <2>1
  <2> QED
    BY <1>1, <1>2, <1>3, <1>5, <1>6, <1>7, <1>13, <2>2
<1>14. CASE ~(left > 0 /\ k > 0)
  <2>1. after = Minus(before, over)
    <3>1. CASE left = 0
      <4> HIDE DEF left, over, cur, min, before, after
      <4> QED
        BY <1>1, <1>3, <1>7, <1>8, <1>9, <1>10, <1>11, <3>1 DEF Minus
    <3>2. CASE k = 0
      <4>1. before = Minus(rate[k], min)
        BY <1>1, <1>2, <3>2, AboveLast DEF Lower
      <4> HIDE DEF left, over, cur, min, before, after
      <4> QED
        BY <1>3, <1>7, <1>8, <1>9, <1>10, <1>11, <1>15, <4>1
    <3> HIDE DEF left
    <3> QED
      BY <1>1, <1>7, <1>14, <3>1, <3>2 DEF Class
  <2>2. after = Minus(first, excess)
    <3> HIDE DEF over, before, after, first, excess
    <3> QED
      BY <1>1, <1>2, <1>8, <1>12, <2>1 DEF Minus
  <2>3. k = 0 \/ rate[k] > min
    <3> HIDE DEF left, over, cur, min
    <3> QED
      BY <1>1, <1>2, <1>3, <1>4, <1>7, <1>14 DEF Minus, Class
  <2> QED
    BY <1>1, <1>2, <1>3, <1>5, <1>6, <1>7, <1>14, <2>2, <2>3
<1> QED
  BY <1>13, <1>14

LEMMA RecoverMoves ==
  ASSUME CascadeInv, NEW p \in CPU, Recover(p), NEW k, k = cpu[p].class
  PROVE  /\ k \in Class /\ rate'[k] \in Nat
         /\ rate' = [rate EXCEPT ![k] = rate'[k]]
         /\ rate'[k] = cpu[p].conf.max[k] \/ rate'[k] > rate[k]
         /\ rate'[k] <= cpu[p].conf.max[k]
         /\ Higher(p, k)
         /\ \/ /\ cpu' = [cpu EXCEPT ![p] = IdleCpu]
               /\ Below(rate', cpu[p].conf.max)
                    = Minus(Below(cpu[p].cur, cpu[p].conf.max), Hw(p) - cpu[p].avg)
            \/ /\ k < 2 /\ rate'[k] = cpu[p].conf.max[k]
               /\ \E left \in Nat \ {0} :
                    /\ HandedOn(p, k + 1, left)
                    /\ Below(rate', cpu[p].conf.max) + cpu[p].overflow
                         = Below(rate, cpu[p].conf.max) + left
<1> DEFINE cur == cpu[p].cur[k]
           max == cpu[p].conf.max[k]
           over == cpu[p].overflow
           left == OverflowAfterRecover(cur, max, over)
           before == Below(rate, cpu[p].conf.max)
           after == Below(rate', cpu[p].conf.max)
           first == Below(cpu[p].cur, cpu[p].conf.max)
           spare == Hw(p) - cpu[p].avg
<1>1. /\ k \in Class /\ over \in Nat /\ rate \in [Class -> Nat]
      /\ cpu[p].pc = "recover" /\ cpu[p].cur \in [Class -> Nat]
      /\ cpu[p].conf.max \in [Class -> Nat]
      /\ cpu[p].avg \in Nat /\ Hw(p) \in Nat
  BY DEF CascadeInv, TypeOK, CpuState, Recover, At, Conf, Hw, Class
<1>2. /\ \A j \in Class : j >= k => cpu[p].cur[j] = rate[j]
      /\ Higher(p, k) /\ over > 0
      /\ before + spare = first + over /\ cpu[p].avg < Hw(p)
  BY <1>1 DEF CascadeInv, Cascade
<1>3. cur = rate[k]
  <2>1. k >= k
    BY <1>1 DEF Class
  <2> QED
    BY <1>1, <1>2, <2>1
<1>4. max \in Nat /\ cur \in Nat
  BY <1>1, <1>3
<1>5. /\ rate' = [rate EXCEPT ![k] = Recovered(cur, max, over)]
      /\ IF left > 0 /\ k < 2
           THEN HandedOn(p, k + 1, left)
           ELSE cpu' = [cpu EXCEPT ![p] = IdleCpu]
  BY DEF Recover, Return, HandedOn
<1>6. rate'[k] = Recovered(cur, max, over)
  BY <1>1, <1>5
<1>7. /\ rate'[k] \in Nat /\ rate'[k] <= max
      /\ rate'[k] = max \/ rate'[k] = cur + over
      /\ left \in Nat /\ (left > 0 => rate'[k] = max)
      /\ Minus(max, rate'[k]) = Minus(Minus(max, cur), over)
      /\ left > 0 => Minus(max, rate'[k]) = 0 /\ over = left + Minus(max, cur)
      /\ left = 0 => over <= Minus(max, cur)
  <2> HIDE DEF cur, max, over
  <2>1. over \in Nat /\ over > 0
    BY <1>1, <1>2
  <2>2. /\ rate'[k] \in Nat /\ rate'[k] <= max
        /\ rate'[k] = max \/ rate'[k] = cur + over
        /\ left \in Nat /\ (left > 0 => rate'[k] = max)
    BY <2>1, <1>4, <1>6, RecoveredBounds DEF left
  <2>3. /\ Minus(max, rate'[k]) = Minus(Minus(max, cur), over)
        /\ left > 0 => Minus(max, rate'[k]) = 0 /\ over = left + Minus(max, cur)
        /\ left = 0 => over <= Minus(max, cur)
    BY <2>1, <1>4, <1>6, RecoveredGives DEF left
  <2> QED
    BY <2>2, <2>3
<1>8. before \in Nat /\ first \in Nat
  BY <1>1, BelowChange
<1>9. after + Minus(max, rate[k]) = before + Minus(max, rate'[k])
  <2>1. rate' \in [Class -> Nat] /\ \A j \in Class \ {k} : rate'[j] = rate[j]
    <3> HIDE DEF left, over, cur, max
    <3> QED
      BY <1>1, <1>5, <1>6, <1>7
  <2> HIDE DEF left, over, cur
  <2> QED
    BY <1>1, <2>1, BelowChange
<1>10. Minus(max, cur) \in Nat /\ Minus(max, cur) <= before
  BY <1>1, <1>3, <1>4, MinusType, BelowChange
<1>15. Minus(max, rate'[k]) \in Nat
  <2> HIDE DEF cur, left, over, max
  <2> QED
    BY <1>4, <1>7, MinusType
<1>11. after \in Nat
  <2>1. rate' \in [Class -> Nat]
    BY <1>1, <1>5, <1>6, <1>7
  <2> QED
    BY <1>1, <2>1, BelowChange
<1>12. spare \in Nat
  BY <1>1, <1>2
<1>13. CASE left > 0 /\ k < 2
  <2>1. after + over = before + left
    <3> HIDE DEF left, over, cur, max, before, after
    <3> QED
      BY <1>1, <1>3, <1>7, <1>8, <1>9, <1>10, <1>11, <1>13
  <2>2. \E l \in Nat \ {0} :
          /\ HandedOn(p, k + 1, l)
          /\ after + over = before + l
    <3> HIDE DEF left, after, before
    <3> QED
      BY <1>5, <1>7, <1>13, <2>1
  <2>3. rate'[k] = max
    <3> HIDE DEF left
    <3> QED
      BY <1>7, <1>13
  <2>4. rate'[k] = max \/ rate'[k] > rate[k]
    BY <2>3
  <2> QED
    BY <1>1, <1>2, <1>5, <1>6, <1>7, <1>13, <2>2, <2>3, <2>4
<1>14. CASE ~(left > 0 /\ k < 2)
  <2>1. after = Minus(before, over)
    <3>1. CASE left = 0
      <4> HIDE DEF left, over, cur, max, before, after
      <4> QED
        BY <1>1, <1>3, <1>7, <1>8, <1>9, <1>10, <1>11, <3>1 DEF Minus
    <3>2. CASE k = 2
      <4>1. before = Minus(max, rate[k])
        BY <1>1, <1>2, <3>2, BelowLast DEF Higher
      <4> HIDE DEF left, over, cur, max, before, after
      <4> QED
        BY <1>3, <1>7, <1>8, <1>9, <1>10, <1>11, <1>15, <4>1
    <3> HIDE DEF left
    <3> QED
      BY <1>1, <1>7, <1>14, <3>1, <3>2 DEF Class
  <2>2. after = Minus(first, spare)
    <3> HIDE DEF over, before, after, first, spare
    <3> QED
      BY <1>1, <1>2, <1>8, <1>12, <2>1 DEF Minus
  <2>3. rate'[k] = max \/ rate'[k] > rate[k]
    <3> HIDE DEF over, cur, max
    <3> QED
      BY <1>1, <1>2, <1>3, <1>4, <1>7
  <2> QED
    BY <1>1, <1>2, <1>5, <1>6, <1>7, <1>14, <2>2, <2>3
<1> QED
  BY <1>13, <1>14

LEMMA CascadeStep ==
  ASSUME Sole
  PROVE  CascadeInv /\ [Next]_vars => CascadeInv'
<1> SUFFICES ASSUME CascadeInv, [Next]_vars
             PROVE  CascadeInv'
  OBVIOUS
<1>1. TypeOK /\ TypeOK'
  BY TypeStep DEF CascadeInv
<1>2. CASE Environment \/ UNCHANGED vars
  <2>1. cpu' = cpu /\ rate' = rate
    BY <1>2 DEF Environment, Tick, Measured, PutStart, PutDone, vars
  <2> QED
    BY <1>1, <2>1 DEF CascadeInv, Cascade, Lower, Higher, Hw, Above, Below
<1>3. ASSUME NEW p \in CPU, Enter(p) \/ CpuStep(p)
      PROVE  CascadeInv'
  <2>0. /\ cpu[p] \in CpuState /\ cpu[p].class \in Class
        /\ cpu[p].conf \in Conf /\ cpu[p].cur \in [Class -> Nat]
        /\ cpu[p].conf.min \in [Class -> Nat] /\ cpu[p].conf.max \in [Class -> Nat]
        /\ cpu \in [CPU -> CpuState] /\ Cascade(p) /\ rate \in [Class -> Nat]
        /\ cpu[p].overflow \in Nat /\ cpu[p].avg \in Nat /\ Hw(p) \in Nat
    BY <1>1 DEF TypeOK, CpuState, CascadeInv, Conf, Hw, Class
  <2>1. SUFFICES Cascade(p)'
    BY <1>1 DEF CascadeInv, Sole
  <2>2. CASE cpu' = [cpu EXCEPT ![p] = IdleCpu]
    <3>1. cpu'[p].pc = "idle"
      BY <2>0, <2>2 DEF IdleCpu
    <3> QED
      BY <3>1 DEF Cascade
  <2>3. CASE Enter(p)
    <3>1. cpu'[p].pc = "config"
      BY <2>0, <2>3 DEF Enter, CpuState
    <3> QED
      BY <3>1 DEF Cascade
  <2>4. CASE LoadConfig(p)
    <3>1. /\ cpu'[p].pc = "rates" /\ cpu'[p].class = 0
      BY <2>0, <2>4 DEF LoadConfig, CpuState
    <3>2. \A k \in Class : ~(k < 0)
      BY DEF Class
    <3> QED
      BY <3>1, <3>2 DEF Cascade
  <2>5. CASE LoadRate(p)
    <3> DEFINE k == cpu[p].class
    <3>1. cpu[p].pc = "rates" /\ rate' = rate
      BY <2>0, <2>5 DEF LoadRate, At
    <3>2. /\ cpu'[p].cur = [cpu[p].cur EXCEPT ![k] = rate[k]]
          /\ cpu'[p].pc = IF k = 2 THEN "last" ELSE "rates"
          /\ cpu'[p].class = IF k = 2 THEN 0 ELSE k + 1
      BY <2>0, <2>5 DEF LoadRate, CpuState
    <3>3. ASSUME NEW j \in Class, j <= k PROVE cpu'[p].cur[j] = rate[j]
      <4>1. j = k \/ j < k
        BY <2>0, <3>3 DEF Class
      <4> QED
        BY <2>0, <3>1, <3>2, <4>1 DEF Cascade
    <3>4. CASE k = 2
      <4>1. \A j \in Class : j <= k
        BY <3>4 DEF Class
      <4> QED
        BY <3>1, <3>2, <3>3, <3>4, <4>1 DEF Cascade
    <3>5. CASE k # 2
      <4>1. \A j \in Class : j < k + 1 => j <= k
        BY <2>0 DEF Class
      <4> QED
        BY <3>1, <3>2, <3>3, <3>5, <4>1 DEF Cascade
    <3> QED
      BY <3>4, <3>5
  <2>6. CASE LoadLast(p) \/ Proceed(p) \/ Stamp(p)
    <3>1. /\ cpu[p].pc \in {"last", "check", "stamp"}
          /\ cpu'[p].pc \in {"check", "stamp", "measure"}
          /\ cpu'[p].cur = cpu[p].cur /\ rate' = rate
      BY <2>0, <2>6 DEF LoadLast, Proceed, Stamp, At, CpuState
    <3> QED
      BY <2>0, <3>1 DEF Cascade
  <2>7. CASE Contended(p) \/ Spare(p)
    <3>1. /\ cpu[p].pc = "measure" /\ rate' = rate /\ load \in Nat
          /\ cpu'[p].conf = cpu[p].conf /\ cpu'[p].cur = cpu[p].cur
          /\ cpu'[p].avg = load
      BY <1>1, <2>0, <2>7 DEF Contended, Spare, At, CpuState, TypeOK
    <3>2. \A k \in Class : cpu[p].cur[k] = rate[k]
      BY <2>0, <3>1 DEF Cascade
    <3>3. cpu[p].cur = rate
      BY <2>0, <3>2
    <3>4. Hw(p)' = Hw(p)
      BY <3>1 DEF Hw
    <3>5. CASE Contended(p)
      <4>1. /\ cpu'[p].pc = "suppress" /\ cpu'[p].class = 2
            /\ cpu'[p].overflow = load - Hw(p)
        BY <2>0, <3>5 DEF Contended, CpuState
      <4>2. cpu'[p].overflow > 0 /\ load > Hw(p)
        BY <2>0, <3>1, <3>5, <4>1 DEF Contended
      <4>3. \A j \in Class : ~(j > 2)
        BY DEF Class
      <4>4. Above(rate', cpu'[p].conf.min) = Above(cpu'[p].cur, cpu'[p].conf.min)
        BY <3>1, <3>3
      <4>5. Lower(p, 2)'
        BY <4>3 DEF Lower
      <4> QED
        BY <3>1, <3>2, <3>4, <4>1, <4>2, <4>4, <4>5 DEF Cascade
    <3>6. CASE Spare(p)
      <4>1. /\ cpu'[p].pc = "recover" /\ cpu'[p].class = 0
            /\ cpu'[p].overflow = Hw(p) - load
        BY <2>0, <3>6 DEF Spare, CpuState
      <4>2. cpu'[p].overflow > 0 /\ load < Hw(p)
        BY <2>0, <3>1, <3>6, <4>1 DEF Spare
      <4>3. \A j \in Class : ~(j < 0)
        BY DEF Class
      <4>4. Below(rate', cpu'[p].conf.max) = Below(cpu'[p].cur, cpu'[p].conf.max)
        BY <3>1, <3>3
      <4>5. Higher(p, 0)'
        BY <4>3 DEF Higher
      <4> QED
        BY <3>1, <3>2, <3>4, <4>1, <4>2, <4>4, <4>5 DEF Cascade
    <3> QED
      BY <2>7, <3>5, <3>6
  <2>8. CASE Suppress(p) /\ cpu' # [cpu EXCEPT ![p] = IdleCpu]
    <3>0. PICK k : k = cpu[p].class
      OBVIOUS
    <3>1. /\ k \in Class /\ k > 0 /\ Lower(p, k)
          /\ rate' = [rate EXCEPT ![k] = rate'[k]]
          /\ rate'[k] = cpu[p].conf.min[k]
          /\ \E left \in Nat \ {0} :
               /\ HandedOn(p, k - 1, left)
               /\ Above(rate', cpu[p].conf.min) + cpu[p].overflow
                    = Above(rate, cpu[p].conf.min) + left
      BY <2>8, <3>0, SuppressMoves
    <3>2. PICK left \in Nat \ {0} :
            /\ HandedOn(p, k - 1, left)
            /\ Above(rate', cpu[p].conf.min) + cpu[p].overflow
                 = Above(rate, cpu[p].conf.min) + left
      BY <3>1
    <3>3. /\ cpu'[p].pc = cpu[p].pc /\ cpu'[p].conf = cpu[p].conf
          /\ cpu'[p].cur = cpu[p].cur /\ cpu'[p].class = k - 1
          /\ cpu'[p].overflow = left /\ cpu'[p].avg = cpu[p].avg
      BY <1>1, <3>2, HandedOnTo
    <3>4. cpu[p].pc = "suppress"
      BY <2>8 DEF Suppress, At
    <3>5. ASSUME NEW j \in Class, j <= k - 1 PROVE cpu'[p].cur[j] = rate'[j]
      <4>1. j # k /\ j <= k
        BY <3>1, <3>5 DEF Class
      <4>2. rate'[j] = rate[j]
        BY <2>0, <3>1, <4>1
      <4>3. cpu[p].cur[j] = rate[j]
        BY <2>0, <3>0, <3>4, <4>1 DEF Cascade
      <4> QED
        BY <3>3, <4>2, <4>3
    <3>6. Lower(p, k - 1)'
      <4> SUFFICES ASSUME NEW j \in Class, j > k - 1 PROVE rate'[j] = cpu[p].conf.min[j]
        BY <3>3 DEF Lower
      <4>1. j = k \/ j > k
        BY <3>1 DEF Class
      <4> QED
        BY <2>0, <3>1, <4>1 DEF Lower
    <3>7. /\ Above(rate', cpu'[p].conf.min) + (cpu'[p].avg - Hw(p)')
               = Above(cpu'[p].cur, cpu'[p].conf.min) + cpu'[p].overflow
          /\ cpu'[p].avg > Hw(p)'
      <4>1. /\ Above(rate, cpu[p].conf.min) + (cpu[p].avg - Hw(p))
                 = Above(cpu[p].cur, cpu[p].conf.min) + cpu[p].overflow
            /\ cpu[p].avg > Hw(p)
        BY <2>0, <3>4 DEF Cascade
      <4>2. Hw(p)' = Hw(p)
        BY <3>3 DEF Hw
      <4>3. rate' \in [Class -> Nat]
        BY <1>1 DEF TypeOK
      <4>4. /\ Above(rate, cpu[p].conf.min) \in Nat
            /\ Above(rate', cpu[p].conf.min) \in Nat
            /\ Above(cpu[p].cur, cpu[p].conf.min) \in Nat
        BY <2>0, <3>1, <4>3, AboveChange
      <4>5. Above(rate', cpu[p].conf.min) + (cpu[p].avg - Hw(p))
              = Above(cpu[p].cur, cpu[p].conf.min) + left
        BY <2>0, <3>2, <4>1, <4>4
      <4> QED
        BY <3>3, <4>1, <4>2, <4>5
    <3>8. left > 0
      BY <3>2
    <3> QED
      BY <3>3, <3>4, <3>5, <3>6, <3>7, <3>8 DEF Cascade
  <2>9. CASE Recover(p) /\ cpu' # [cpu EXCEPT ![p] = IdleCpu]
    <3>0. PICK k : k = cpu[p].class
      OBVIOUS
    <3>1. /\ k \in Class /\ k < 2 /\ Higher(p, k)
          /\ rate' = [rate EXCEPT ![k] = rate'[k]]
          /\ rate'[k] = cpu[p].conf.max[k]
          /\ \E left \in Nat \ {0} :
               /\ HandedOn(p, k + 1, left)
               /\ Below(rate', cpu[p].conf.max) + cpu[p].overflow
                    = Below(rate, cpu[p].conf.max) + left
      BY <2>9, <3>0, RecoverMoves
    <3>2. PICK left \in Nat \ {0} :
            /\ HandedOn(p, k + 1, left)
            /\ Below(rate', cpu[p].conf.max) + cpu[p].overflow
                 = Below(rate, cpu[p].conf.max) + left
      BY <3>1
    <3>3. /\ cpu'[p].pc = cpu[p].pc /\ cpu'[p].conf = cpu[p].conf
          /\ cpu'[p].cur = cpu[p].cur /\ cpu'[p].class = k + 1
          /\ cpu'[p].overflow = left /\ cpu'[p].avg = cpu[p].avg
      BY <1>1, <3>2, HandedOnTo
    <3>4. cpu[p].pc = "recover"
      BY <2>9 DEF Recover, At
    <3>5. ASSUME NEW j \in Class, j >= k + 1 PROVE cpu'[p].cur[j] = rate'[j]
      <4>1. j # k /\ j >= k
        BY <3>1, <3>5 DEF Class
      <4>2. rate'[j] = rate[j]
        BY <2>0, <3>1, <4>1
      <4>3. cpu[p].cur[j] = rate[j]
        BY <2>0, <3>0, <3>4, <4>1 DEF Cascade
      <4> QED
        BY <3>3, <4>2, <4>3
    <3>6. Higher(p, k + 1)'
      <4> SUFFICES ASSUME NEW j \in Class, j < k + 1 PROVE rate'[j] = cpu[p].conf.max[j]
        BY <3>3 DEF Higher
      <4>1. j = k \/ j < k
        BY <3>1 DEF Class
      <4> QED
        BY <2>0, <3>1, <4>1 DEF Higher
    <3>7. /\ Below(rate', cpu'[p].conf.max) + (Hw(p)' - cpu'[p].avg)
               = Below(cpu'[p].cur, cpu'[p].conf.max) + cpu'[p].overflow
          /\ cpu'[p].avg < Hw(p)'
      <4>1. /\ Below(rate, cpu[p].conf.max) + (Hw(p) - cpu[p].avg)
                 = Below(cpu[p].cur, cpu[p].conf.max) + cpu[p].overflow
            /\ cpu[p].avg < Hw(p)
        BY <2>0, <3>4 DEF Cascade
      <4>2. Hw(p)' = Hw(p)
        BY <3>3 DEF Hw
      <4>3. rate' \in [Class -> Nat]
        BY <1>1 DEF TypeOK
      <4>4. /\ Below(rate, cpu[p].conf.max) \in Nat
            /\ Below(rate', cpu[p].conf.max) \in Nat
            /\ Below(cpu[p].cur, cpu[p].conf.max) \in Nat
        BY <2>0, <3>1, <4>3, BelowChange
      <4>5. Below(rate', cpu[p].conf.max) + (Hw(p) - cpu[p].avg)
              = Below(cpu[p].cur, cpu[p].conf.max) + left
        BY <2>0, <3>2, <4>1, <4>4
      <4> QED
        BY <3>3, <4>1, <4>2, <4>5
    <3>8. left > 0
      BY <3>2
    <3> QED
      BY <3>3, <3>4, <3>5, <3>6, <3>7, <3>8 DEF Cascade
  <2> QED
    BY <1>3, <2>2, <2>3, <2>4, <2>5, <2>6, <2>7, <2>8, <2>9
       DEF CpuStep, TooSoon, Balanced, Return
<1> QED
  BY <1>2, <1>3 DEF Next

\* A processor that returns from a cascade has just done its last step.
LEMMA LastStep ==
  ASSUME Sole, CascadeInv, [Next]_vars, NEW p \in CPU, cpu'[p].pc = "idle"
  PROVE  /\ At(p, "suppress") => Suppress(p) /\ cpu' = [cpu EXCEPT ![p] = IdleCpu]
         /\ At(p, "recover") => Recover(p) /\ cpu' = [cpu EXCEPT ![p] = IdleCpu]
<1> SUFFICES ASSUME At(p, "suppress") \/ At(p, "recover")
             PROVE  /\ At(p, "suppress") => Suppress(p)
                    /\ At(p, "recover") => Recover(p)
                    /\ cpu' = [cpu EXCEPT ![p] = IdleCpu]
  OBVIOUS
<1>1. cpu \in [CPU -> CpuState] /\ cpu[p] \in CpuState
  BY DEF CascadeInv, TypeOK
<1>2. cpu' # cpu
  BY DEF At
<1>3. ~Environment /\ ~UNCHANGED vars
  BY <1>2 DEF Environment, Tick, Measured, PutStart, PutDone, vars
<1>4. PICK q \in CPU : Enter(q) \/ CpuStep(q)
  BY <1>3 DEF Next
<1>5. q = p
  BY DEF Sole
<1>6. /\ At(p, "suppress") => Suppress(p)
      /\ At(p, "recover") => Recover(p)
  BY <1>4, <1>5 DEF CpuStep, Enter, LoadConfig, LoadRate, LoadLast, TooSoon,
     Proceed, Stamp, Contended, Spare, Balanced, Recover, Suppress, At
<1>7. \/ cpu' = [cpu EXCEPT ![p] = IdleCpu]
      \/ \E c, l : HandedOn(p, c, l)
  BY <1>6 DEF Suppress, Recover, Return, HandedOn
<1>8. ~\E c, l : HandedOn(p, c, l)
  BY <1>1, HandedOnTo DEF At, CascadeInv
<1> QED
  BY <1>6, <1>7, <1>8

\* One processor takes in contention exactly what the average was above the host
\* bandwidth, or all there is above the minima, whatever the daemon writes and
\* whatever is measured while it does (lines 323-367).
THEOREM Taken == ASSUME Sole
                 PROVE  Spec => ExcessTaken
<1>1. CascadeInv /\ [Next]_vars => CascadeInv'
  BY CascadeStep
<1>2. CascadeInv /\ [Next]_vars
        => [\A p \in CPU :
              At(p, "suppress") /\ cpu'[p].pc = "idle"
                => LET min == cpu[p].conf.min
                   IN Above(rate', min) = Minus(Above(cpu[p].cur, min), cpu[p].avg - Hw(p))]_vars
  <2> SUFFICES ASSUME CascadeInv, [Next]_vars, NEW p \in CPU,
                      At(p, "suppress"), cpu'[p].pc = "idle"
               PROVE  Above(rate', cpu[p].conf.min)
                        = Minus(Above(cpu[p].cur, cpu[p].conf.min), cpu[p].avg - Hw(p))
    OBVIOUS
  <2>1. Suppress(p) /\ cpu' = [cpu EXCEPT ![p] = IdleCpu]
    BY LastStep
  <2>2. cpu \in [CPU -> CpuState] /\ cpu[p] \in CpuState
    BY DEF CascadeInv, TypeOK
  <2>3. ~\E c, l : HandedOn(p, c, l)
    BY HandedOnTo DEF At, CascadeInv
  <2> QED
    BY <2>1, <2>3, SuppressMoves
<1> QED
  BY <1>1, <1>2, CascadeInit, PTL DEF Spec, ExcessTaken

\* One processor gives out with bandwidth to spare exactly that, or all that the
\* classes lack to their maxima (lines 368-410).
THEOREM Given == ASSUME Sole
                 PROVE  Spec => SpareGiven
<1>1. CascadeInv /\ [Next]_vars => CascadeInv'
  BY CascadeStep
<1>2. CascadeInv /\ [Next]_vars
        => [\A p \in CPU :
              At(p, "recover") /\ cpu'[p].pc = "idle"
                => LET max == cpu[p].conf.max
                   IN Below(rate', max) = Minus(Below(cpu[p].cur, max), Hw(p) - cpu[p].avg)]_vars
  <2> SUFFICES ASSUME CascadeInv, [Next]_vars, NEW p \in CPU,
                      At(p, "recover"), cpu'[p].pc = "idle"
               PROVE  Below(rate', cpu[p].conf.max)
                        = Minus(Below(cpu[p].cur, cpu[p].conf.max), Hw(p) - cpu[p].avg)
    OBVIOUS
  <2>1. Recover(p) /\ cpu' = [cpu EXCEPT ![p] = IdleCpu]
    BY LastStep
  <2>2. cpu \in [CPU -> CpuState] /\ cpu[p] \in CpuState
    BY DEF CascadeInv, TypeOK
  <2>3. ~\E c, l : HandedOn(p, c, l)
    BY HandedOnTo DEF At, CascadeInv
  <2> QED
    BY <2>1, <2>3, RecoverMoves
<1> QED
  BY <1>1, <1>2, CascadeInit, PTL DEF Spec, SpareGiven

-----------------------------------------------------------------------------
(* One processor under one configuration implements PriorityPolicy.        *)

Alone == /\ Sole
         /\ \E c : Confs = {c} /\ BootConfs = {c}

\* The configuration that was read is the one.
TheConfRead ==
  \A p \in CPU : cpu[p].pc \notin {"idle", "config"} => cpu[p].conf = TheConf

PolicyInv == CascadeInv /\ TheConfRead

LEMMA OneConf ==
  ASSUME Alone
  PROVE  /\ Known = {TheConf}
         /\ TheConf.min \in [Class -> Nat] /\ TheConf.max \in [Class -> Nat]
         /\ \A k \in Class : TheConf.min[k] <= TheConf.max[k]
<1>1. PICK c : Confs = {c} /\ BootConfs = {c}
  BY DEF Alone
<1>2. TheConf = InMegabytes(c) /\ Known = {TheConf}
  BY <1>1 DEF TheConf, Known, Configs
<1>3. TheConf \in Conf /\ \A k \in Class : TheConf.min[k] <= TheConf.max[k]
  BY <1>2, KnownConf
<1> QED
  BY <1>2, <1>3 DEF Conf

LEMMA PolicyInit == Init => PolicyInv
<1> SUFFICES ASSUME Init PROVE PolicyInv
  OBVIOUS
<1>1. \A p \in CPU : cpu[p].pc = "idle"
  BY DEF Init, IdleCpu
<1> QED
  BY <1>1, CascadeInit DEF PolicyInv, TheConfRead

LEMMA PolicyInvStep ==
  ASSUME Alone
  PROVE  PolicyInv /\ [Next]_vars => PolicyInv'
<1> SUFFICES ASSUME PolicyInv, [Next]_vars
             PROVE  TheConfRead'
  BY CascadeStep DEF PolicyInv, Alone
<1>1. TypeOK
  BY DEF PolicyInv, CascadeInv
<1>2. CASE Environment \/ UNCHANGED vars
  <2>1. cpu' = cpu
    BY <1>2 DEF Environment, Tick, Measured, PutStart, PutDone, vars
  <2> QED
    BY <2>1 DEF PolicyInv, TheConfRead
<1>3. ASSUME NEW p \in CPU, Enter(p) \/ CpuStep(p)
      PROVE  TheConfRead'
  <2>0. /\ cpu \in [CPU -> CpuState] /\ cpu[p] \in CpuState
        /\ cpu[p].pc \notin {"idle", "config"} => cpu[p].conf = TheConf
    BY <1>1 DEF TypeOK, PolicyInv, TheConfRead
  <2>1. SUFFICES cpu'[p].pc \notin {"idle", "config"} => cpu'[p].conf = TheConf
    BY DEF TheConfRead, Alone, Sole
  <2>2. CASE LoadConfig(p)
    <3>1. PICK min \in Torn(InMegabytes(cfg).min, InMegabytes(incoming).min),
               max \in Torn(InMegabytes(cfg).max, InMegabytes(incoming).max) :
            cpu' = [cpu EXCEPT ![p].pc = "rates", ![p].class = 0,
                               ![p].conf = [min |-> min, max |-> max]]
      BY <2>2 DEF LoadConfig
    <3>2. /\ InMegabytes(cfg) = TheConf /\ InMegabytes(incoming) = TheConf
          /\ TheConf \in Conf
          /\ TheConf.min \in [Class -> Nat] /\ TheConf.max \in [Class -> Nat]
      BY <1>1, OneConf, KnownConf, ReadConf
    <3>3. min = TheConf.min /\ max = TheConf.max
      BY <3>2, TornRead
    <3>4. [min |-> min, max |-> max] = TheConf
      BY <3>2, <3>3 DEF Conf
    <3> QED
      BY <2>0, <3>1, <3>4 DEF CpuState
  <2>3. CASE Enter(p) \/ cpu' = [cpu EXCEPT ![p] = IdleCpu]
    <3>1. cpu'[p].pc \in {"idle", "config"}
      BY <2>0, <2>3 DEF Enter, CpuState, IdleCpu
    <3> QED
      BY <3>1
  <2>4. CASE LoadRate(p) \/ LoadLast(p) \/ Proceed(p) \/ Stamp(p)
             \/ Contended(p) \/ Spare(p)
    <3>1. cpu'[p].conf = cpu[p].conf /\ cpu[p].pc \notin {"idle", "config"}
      BY <2>0, <2>4 DEF LoadRate, LoadLast, Proceed, Stamp, Contended, Spare, At, CpuState
    <3> QED
      BY <2>0, <3>1
  <2>5. CASE (Suppress(p) \/ Recover(p)) /\ \E c, l : HandedOn(p, c, l)
    <3>1. cpu'[p].conf = cpu[p].conf /\ cpu[p].pc \notin {"idle", "config"}
      BY <1>1, <2>5, HandedOnTo DEF Suppress, Recover, At
    <3> QED
      BY <2>0, <3>1
  <2>6. (Suppress(p) \/ Recover(p))
          => cpu' = [cpu EXCEPT ![p] = IdleCpu] \/ \E c, l : HandedOn(p, c, l)
    BY DEF Suppress, Recover, Return, HandedOn
  <2> QED
    BY <1>3, <2>2, <2>3, <2>4, <2>5, <2>6 DEF CpuStep, TooSoon, Balanced, Return
<1> QED
  BY <1>2, <1>3 DEF Next

\* Every step of the processor is a step of the policy or leaves the rates
\* as they are.
LEMMA StepSimulation ==
  ASSUME Alone
  PROVE  PolicyInv /\ CapInv /\ [Next]_vars => [Policy!Next]_rate
<1> SUFFICES ASSUME PolicyInv, CapInv, [Next]_vars
             PROVE  Policy!Next \/ rate' = rate
  OBVIOUS
<1>0. /\ rate \in [Class -> Nat]
      /\ TheConf.min \in [Class -> Nat] /\ TheConf.max \in [Class -> Nat]
  BY OneConf DEF PolicyInv, CascadeInv, TypeOK
<1>1. ASSUME NEW p \in CPU, Suppress(p)
      PROVE  Policy!Next \/ rate' = rate
  <2> DEFINE k == cpu[p].class
  <2>1. /\ k \in Class /\ rate'[k] \in Nat
        /\ rate' = [rate EXCEPT ![k] = rate'[k]]
        /\ rate'[k] = TheConf.min[k] \/ rate'[k] <= rate[k]
        /\ rate'[k] >= TheConf.min[k]
        /\ Policy!LowerAtMinimum(k)
    <3>1. cpu[p].conf = TheConf
      BY <1>1 DEF PolicyInv, TheConfRead, Suppress, At
    <3>2. Lower(p, k) => Policy!LowerAtMinimum(k)
      BY <3>1 DEF Lower, Policy!LowerAtMinimum, Policy!Class, Class
    <3> QED
      BY <1>1, <3>1, <3>2, SuppressMoves DEF PolicyInv
  <2> HIDE DEF k
  <2>2. CASE rate'[k] = rate[k]
    BY <1>0, <2>1, <2>2
  <2>3. CASE rate'[k] > rate[k]
    <3>1. rate[k] < TheConf.min[k] /\ rate'[k] = TheConf.min[k]
      BY <1>0, <2>1, <2>3
    <3>2. Policy!Guarantee(k)
      BY <2>1, <3>1 DEF Policy!Guarantee
    <3> QED
      BY <2>1, <3>2 DEF Policy!Next, Policy!Class, Class
  <2>4. CASE rate'[k] < rate[k]
    <3>1. rate'[k] \in TheConf.min[k]..(rate[k] - 1)
      BY <1>0, <2>1, <2>4
    <3>2. Policy!Cut(k)
      BY <2>1, <3>1 DEF Policy!Cut
    <3> QED
      BY <2>1, <3>2 DEF Policy!Next, Policy!Class, Class
  <2> QED
    BY <1>0, <2>1, <2>2, <2>3, <2>4
<1>2. ASSUME NEW p \in CPU, Recover(p)
      PROVE  Policy!Next \/ rate' = rate
  <2> DEFINE k == cpu[p].class
  <2>1. /\ k \in Class /\ rate'[k] \in Nat
        /\ rate' = [rate EXCEPT ![k] = rate'[k]]
        /\ rate'[k] = TheConf.max[k] \/ rate'[k] > rate[k]
        /\ rate'[k] <= TheConf.max[k]
        /\ Policy!HigherAtMaximum(k)
    <3>1. cpu[p].conf = TheConf
      BY <1>2 DEF PolicyInv, TheConfRead, Recover, At
    <3>2. Higher(p, k) => Policy!HigherAtMaximum(k)
      BY <3>1 DEF Higher, Policy!HigherAtMaximum, Policy!Class, Class
    <3> QED
      BY <1>2, <3>1, <3>2, RecoverMoves DEF PolicyInv
  <2>2. rate[k] <= TheConf.max[k]
    BY <2>1, OneConf DEF CapInv, RateCapped
  <2> HIDE DEF k
  <2>3. CASE rate'[k] = rate[k]
    BY <1>0, <2>1, <2>3
  <2>4. CASE rate'[k] > rate[k]
    <3>1. rate'[k] \in (rate[k] + 1)..TheConf.max[k]
      BY <1>0, <2>1, <2>4
    <3>2. Policy!Grow(k)
      BY <2>1, <3>1 DEF Policy!Grow
    <3> QED
      BY <2>1, <3>2 DEF Policy!Next, Policy!Class, Class
  <2> QED
    BY <1>0, <2>1, <2>2, <2>3, <2>4
<1> QED
  BY <1>1, <1>2 DEF Next, Environment, CpuStep, vars, Tick, Measured, PutStart,
     PutDone, Enter, LoadConfig, LoadRate, LoadLast, TooSoon, Proceed, Stamp,
     Contended, Spare, Balanced

LEMMA OrderStep ==
  ASSUME Alone
  PROVE  rate \in [Class -> Nat] /\ PriorityOrder /\ [Policy!Next]_rate
           => PriorityOrder'
<1> SUFFICES ASSUME rate \in [Class -> Nat], PriorityOrder, [Policy!Next]_rate,
                    NEW j \in Class, NEW k \in Class, j < k,
                    rate'[k] > TheConf.min[k]
             PROVE  rate'[j] = TheConf.max[j]
  BY DEF PriorityOrder, Policy!PriorityOrder, Policy!Class, Class
<1>0. /\ TheConf.min \in [Class -> Nat] /\ TheConf.max \in [Class -> Nat]
      /\ \A i \in Class : TheConf.min[i] <= TheConf.max[i]
  BY OneConf
<1>1. rate[k] > TheConf.min[k] => rate[j] = TheConf.max[j]
  BY DEF PriorityOrder, Policy!PriorityOrder, Policy!Class, Class
<1>2. CASE rate' = rate
  BY <1>1, <1>2
<1>3. ASSUME NEW i \in Class, Policy!Cut(i) \/ Policy!Guarantee(i)
      PROVE  rate'[j] = TheConf.max[j]
  <2>1. \A n \in Class : n > i => rate[n] = TheConf.min[n]
    BY <1>3 DEF Policy!Cut, Policy!Guarantee, Policy!LowerAtMinimum, Policy!Class, Class
  <2>2. PICK r : /\ rate' = [rate EXCEPT ![i] = r]
                 /\ r = TheConf.min[i] \/ r \in TheConf.min[i]..(rate[i] - 1)
    BY <1>3 DEF Policy!Cut, Policy!Guarantee
  <2>3. i # j
    BY <1>0, <2>1, <2>2
  <2>4. rate[k] > TheConf.min[k]
    BY <1>0, <2>2
  <2> QED
    BY <1>1, <2>2, <2>3, <2>4
<1>4. ASSUME NEW i \in Class, Policy!Grow(i)
      PROVE  rate'[j] = TheConf.max[j]
  <2>1. \A n \in Class : n < i => rate[n] = TheConf.max[n]
    BY <1>4 DEF Policy!Grow, Policy!HigherAtMaximum, Policy!Class, Class
  <2>2. PICK r \in (rate[i] + 1)..TheConf.max[i] : rate' = [rate EXCEPT ![i] = r]
    BY <1>4 DEF Policy!Grow
  <2>3. CASE i = k
    BY <2>1, <2>2, <2>3
  <2>4. CASE i # k
    <3>1. rate[j] = TheConf.max[j]
      BY <1>1, <2>2, <2>4
    <3>2. i # j
      BY <1>0, <2>2, <3>1
    <3> QED
      BY <2>2, <3>1, <3>2
  <2> QED
    BY <2>3, <2>4
<1> QED
  BY <1>2, <1>3, <1>4 DEF Policy!Next, Policy!Class, Class

LEMMA StartsInPolicy == Alone /\ Init => Policy!Init /\ PriorityOrder
<1> SUFFICES ASSUME Alone, Init PROVE Policy!Init /\ PriorityOrder
  OBVIOUS
<1>1. \A k \in Class : rate[k] = 0 /\ ~(rate[k] > TheConf.min[k])
  BY OneConf DEF Init
<1> QED
  BY <1>1 DEF Init, Policy!Init, PriorityOrder, Policy!PriorityOrder,
     Policy!Class, Class

\* With one processor and one configuration adjust_rate implements the policy
\* of the README: L2, L1, L0 give bandwidth up in that order and none below
\* its minimum, and get it back in the opposite order.
THEOREM Implements == ASSUME Alone
                      PROVE  Spec => ImplementsPolicy
<1>1. PolicyInv /\ [Next]_vars => PolicyInv'
  BY PolicyInvStep
<1>2. PolicyInv /\ CapInv /\ [Next]_vars => [Policy!Next]_rate
  BY StepSimulation
<1>3. Init => Policy!Init
  BY StartsInPolicy
<1> QED
  BY <1>1, <1>2, <1>3, PolicyInit, CapInit, CapStep, PTL
     DEF Spec, ImplementsPolicy, Policy!Spec

\* Under the same assumptions a class has more than its guarantee only while
\* every class above it has all it may have (README.md:24-25, 35), between any
\* two writes of an adjustment.
THEOREM Ordered == ASSUME Alone
                   PROVE  Spec => []PriorityOrder
<1>1. PolicyInv /\ [Next]_vars => PolicyInv'
  BY PolicyInvStep
<1>2. PolicyInv /\ CapInv /\ [Next]_vars => [Policy!Next]_rate
  BY StepSimulation
<1>3. PolicyInv /\ PriorityOrder /\ [Policy!Next]_rate => PriorityOrder'
  BY OrderStep DEF PolicyInv, CascadeInv, TypeOK
<1>4. Init => PriorityOrder
  BY StartsInPolicy
<1> QED
  BY <1>1, <1>2, <1>3, <1>4, PolicyInit, CapInit, CapStep, PTL DEF Spec

-----------------------------------------------------------------------------
(* What an adjustment in contention leaves.                                *)

LEMMA ContentionStep ==
  ASSUME Alone, PolicyInv, PriorityOrder, [Next]_vars, NEW p \in CPU,
         At(p, "suppress"), cpu'[p].pc = "idle", NEW j \in Class
  PROVE  rate'[j] >= cpu[p].conf.min[j]
<1>1. PICK k : k = cpu[p].class
  OBVIOUS
<1>2. /\ TheConf.min \in [Class -> Nat] /\ TheConf.max \in [Class -> Nat]
      /\ \A i \in Class : TheConf.min[i] <= TheConf.max[i]
      /\ cpu[p].conf = TheConf /\ rate \in [Class -> Nat]
  BY OneConf DEF PolicyInv, TheConfRead, At, CascadeInv, TypeOK
<1>3. /\ k \in Class /\ rate'[k] \in Nat
      /\ rate' = [rate EXCEPT ![k] = rate'[k]]
      /\ rate'[k] >= TheConf.min[k]
      /\ \A i \in Class : i > k => rate[i] = TheConf.min[i]
      /\ k = 0 \/ rate[k] > TheConf.min[k]
  <2>1. Suppress(p) /\ ~\E c, l : HandedOn(p, c, l)
    <3>1. ~\E c, l : HandedOn(p, c, l)
      BY HandedOnTo DEF At, PolicyInv, CascadeInv
    <3> QED
      BY <3>1, LastStep DEF PolicyInv, Alone
  <2> QED
    BY <1>1, <1>2, <2>1, SuppressMoves DEF PolicyInv, Lower
<1>4. CASE j = k
  BY <1>2, <1>3, <1>4
<1>5. CASE j > k
  BY <1>2, <1>3, <1>5
<1>6. CASE j < k
  <2>1. rate[k] > TheConf.min[k]
    BY <1>3, <1>6 DEF Class
  <2>2. rate[j] = TheConf.max[j]
    BY <1>3, <1>6, <2>1 DEF PriorityOrder, Policy!PriorityOrder, Policy!Class, Class
  <2>3. rate'[j] = rate[j]
    BY <1>2, <1>3, <1>6 DEF Class
  <2> QED
    BY <1>2, <2>2, <2>3
<1> QED
  BY <1>3, <1>4, <1>5, <1>6 DEF Class

\* Under the same assumptions every adjustment made in contention ends with every class at
\* or above its minimum (README.md:34), however early the cascade stops: what stopped it
\* had more than its minimum, and so, by the order, had the ones above.
THEOREM MinimumKept == ASSUME Alone
                       PROVE  Spec => ContentionKeepsMinimum
<1>1. PolicyInv /\ [Next]_vars => PolicyInv'
  BY PolicyInvStep
<1>2. PolicyInv /\ CapInv /\ [Next]_vars => [Policy!Next]_rate
  BY StepSimulation
<1>3. PolicyInv /\ PriorityOrder /\ [Policy!Next]_rate => PriorityOrder'
  BY OrderStep DEF PolicyInv, CascadeInv, TypeOK
<1>4. Init => PriorityOrder
  BY StartsInPolicy
<1>5. PolicyInv /\ PriorityOrder /\ [Next]_vars
        => [\A p \in CPU : At(p, "suppress") /\ cpu'[p].pc = "idle"
              => \A k \in Class : rate'[k] >= cpu[p].conf.min[k]]_vars
  BY ContentionStep
<1> QED
  BY <1>1, <1>2, <1>3, <1>4, <1>5, PolicyInit, CapInit, CapStep, PTL
     DEF Spec, ContentionKeepsMinimum

=============================================================================
