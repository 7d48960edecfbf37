------------------------- MODULE TokenBucketProofs -------------------------
(***************************************************************************)
(* What is proved of TokenBucket, for any set of processors, any rates and *)
(* packet lengths, and any interleaving of the unlocked reads and writes.  *)
(***************************************************************************)
EXTENDS TokenBucket, TLAPS

-----------------------------------------------------------------------------
(* Arithmetic.                                                             *)

LEMMA DivMod ==
  ASSUME NEW a \in Int, NEW b \in Nat \ {0}
  PROVE  /\ a % b \in 0..(b - 1)
         /\ a \in Nat => a \div b \in Nat
  OBVIOUS

LEMMA MicrosNat ==
  ASSUME TypeOK, NEW p \in CPU
  PROVE  Micros(p) \in Nat
<1>1. cpu[p].now - cpu[p].last \in Int /\ Word \in Nat \ {0} /\ NsPerUs \in Nat \ {0}
  BY BucketAssumption DEF TypeOK, CpuState, Time
<1>2. (cpu[p].now - cpu[p].last) % Word \in Nat
  BY <1>1, DivMod
<1> DEFINE passed == (cpu[p].now - cpu[p].last) % Word
<1>3. passed \div NsPerUs \in Nat
  <2>1. passed \in Nat
    BY <1>2
  <2> HIDE DEF passed
  <2> QED
    BY <1>1, <2>1, DivMod
<1> QED
  BY <1>3 DEF Micros

\* Filling a bucket yields a number of tokens that is at most the rate or at
\* most what was there before.
LEMMA FilledBounds ==
  ASSUME NEW tokens \in Nat, NEW us \in Nat, NEW bps \in Nat
  PROVE  /\ Filled(tokens, us, bps) \in Nat
         /\ Filled(tokens, us, bps) <= bps \/ Filled(tokens, us, bps) <= tokens
<1>1. Word \in Nat \ {0} /\ Megabyte \in Nat \ {0}
  BY BucketAssumption
<1>2. bps * us \in Int
  OBVIOUS
<1>3. (bps * us) % Word \in Nat
  BY <1>1, <1>2, DivMod
<1>4. ((bps * us) % Word) \div Megabyte \in Nat
  BY <1>1, <1>3, DivMod
<1> QED
  BY <1>4 DEF Filled, Smaller

LEMMA MineType ==
  ASSUME TypeOK, NEW p \in CPU
  PROVE  /\ Mine(p) \in Elem
         /\ Mine(p).bps \in Rates /\ Mine(p).bps \in Nat
         /\ Mine(p).slot \in Nat /\ Mine(p).last \in Time
  BY BucketAssumption DEF TypeOK, Mine, Elem

LEMMA TokensBounds ==
  ASSUME TypeOK, NEW p \in CPU
  PROVE  /\ Tokens(p) \in Nat
         /\ Tokens(p) <= cpu[p].bps \/ Tokens(p) <= cpu[p].tokens
<1>1. cpu[p].tokens \in Nat /\ cpu[p].bps \in Nat
  BY DEF TypeOK, CpuState
<1> QED
  BY <1>1, MicrosNat, FilledBounds DEF Tokens

-----------------------------------------------------------------------------
(* Type correctness.                                                       *)

LEMMA ZeroTime == 0 \in Time /\ Second \in Time /\ Second \in Nat
<1>1. Second \in Nat /\ Second < Word
  BY BucketAssumption DEF Second
<1> QED
  BY <1>1, BucketAssumption DEF Time

LEMMA IdleType == IdleCpu \in CpuState
  BY ZeroTime DEF IdleCpu, CpuState, Pc

LEMMA TypeInit == Init => TypeOK
<1> SUFFICES ASSUME Init PROVE TypeOK
  OBVIOUS
<1>1. elem \in Elem /\ old \in Elem
  BY ZeroTime DEF Init, Fresh, Elem
<1>2. window \in Window
  BY ZeroTime DEF Init, Window
<1> QED
  BY <1>1, <1>2, ZeroTime, IdleType DEF Init, TypeOK

\* A processor writes to one of the two elements.
LEMMA WriteType ==
  ASSUME TypeOK, NEW p \in CPU, NEW e \in Elem, Write(p, e)
  PROVE  elem' \in Elem /\ old' \in Elem
  BY DEF TypeOK, Write

\* The observer's record, one update at a time.
LEMMA WindowType ==
  ASSUME NEW w \in Window, NEW n \in Nat
  PROVE  /\ [w EXCEPT !.bytes = n] \in Window /\ [w EXCEPT !.puts = n] \in Window
         /\ [w EXCEPT !.denied = n] \in Window
  BY DEF Window

LEMMA TypeStep == TypeOK /\ [Next]_vars => TypeOK'
<1> SUFFICES ASSUME TypeOK, [Next]_vars
             PROVE  TypeOK'
  OBVIOUS
<1>1. CASE Tick
  <2>1. clock' \in Time
    <3>1. clock' = (clock + 1) % Word /\ clock + 1 \in Int /\ Word \in Nat \ {0}
      BY <1>1, BucketAssumption DEF Tick, TypeOK, Time
    <3> QED
      BY <3>1, DivMod DEF Time
  <2> QED
    BY <1>1, <2>1 DEF Tick, TypeOK
<1>2. CASE OpenWindow
  <2>1. window' \in Window
    BY <1>2 DEF OpenWindow, TypeOK, Window
  <2> QED
    BY <1>2, <2>1 DEF OpenWindow, TypeOK
<1>3. ASSUME NEW bps \in Rates, PutRate(bps) PROVE TypeOK'
  <2>1. elem' \in Elem /\ old' \in Elem
    BY <1>3, ZeroTime DEF PutRate, TypeOK, Fresh, Elem
  <2>2. cpu' \in [CPU -> CpuState]
    BY <1>3 DEF PutRate, TypeOK, CpuState
  <2>3. window' \in Window
    <3>1. window \in Window /\ window.puts + 1 \in Nat
      BY DEF TypeOK, Window
    <3>2. window' = [[window EXCEPT !.puts = window.puts + 1] EXCEPT !.denied = 0]
      BY <1>3 DEF PutRate
    <3> QED
      BY <3>1, <3>2, WindowType
  <2> QED
    BY <1>3, <2>1, <2>2, <2>3 DEF PutRate, TypeOK
<1>4. ASSUME NEW bps \in Rates, AdjustRate(bps) PROVE TypeOK'
  BY <1>4 DEF AdjustRate, TypeOK, Elem
<1>5. ASSUME NEW p \in CPU, Enter(p) \/ CpuStep(p) PROVE TypeOK'
  <2>0. cpu \in [CPU -> CpuState] /\ cpu[p] \in CpuState
    BY DEF TypeOK
  <2>1. CASE Enter(p)
    <3>1. PICK len \in Lens : cpu' = [cpu EXCEPT ![p].pc = "slot", ![p].len = len]
      BY <2>1 DEF Enter
    <3>2. "slot" \in Pc /\ len \in Nat
      BY BucketAssumption DEF Pc
    <3>3. cpu' \in [CPU -> CpuState]
      BY <2>0, <3>1, <3>2 DEF CpuState
    <3>4. window' \in Window
      BY <2>1, ZeroTime DEF Enter, TypeOK, Window
    <3> QED
      BY <2>1, <3>3, <3>4 DEF Enter, TypeOK
  <2>2. CASE LoadSlot(p)
    <3>1. cpu' \in [CPU -> CpuState]
      BY <2>0, <2>2, MineType DEF LoadSlot, Following, CpuState, Pc
    <3> QED
      BY <2>2, <3>1 DEF LoadSlot, TypeOK
  <2>3. CASE LoadLast(p)
    <3>1. cpu' \in [CPU -> CpuState]
      BY <2>0, <2>3, MineType DEF LoadLast, Following, CpuState, Pc
    <3> QED
      BY <2>3, <3>1 DEF LoadLast, TypeOK
  <2>4. CASE ReadClock(p)
    <3>1. clock \in Time
      BY DEF TypeOK
    <3>2. cpu' \in [CPU -> CpuState]
      BY <2>0, <2>4, <3>1, MineType DEF ReadClock, Following, CpuState, Pc
    <3> QED
      BY <2>4, <3>2 DEF ReadClock, TypeOK
  <2>5. CASE Unlimited(p)
    <3>1. cpu' \in [CPU -> CpuState]
      BY <2>0, <2>5, ZeroTime DEF Unlimited, CpuState, Pc
    <3> QED
      BY <2>5, <3>1 DEF Unlimited, TypeOK
  <2>6. CASE Admit(p) \/ Drop(p)
    <3>1. PICK n : cpu' = [cpu EXCEPT ![p].pc = "writeSlot", ![p].last = cpu[p].now,
                                      ![p].now = 0, ![p].bps = 0, ![p].tokens = n]
                   /\ n = IF Fits(p) THEN Tokens(p) - cpu[p].len ELSE Tokens(p)
      BY <2>6 DEF Admit, Drop, DroppedTokens
    <3>2. n \in Nat
      BY <2>0, <3>1, TokensBounds DEF Fits, CpuState
    <3>3. "writeSlot" \in Pc /\ cpu[p].now \in Time /\ 0 \in Time
      BY <2>0, ZeroTime DEF Pc, CpuState
    <3> DEFINE new == [cpu[p] EXCEPT !.pc = "writeSlot", !.last = cpu[p].now,
                                     !.now = 0, !.bps = 0, !.tokens = n]
    <3>4. new \in CpuState
      BY <2>0, <3>2, <3>3 DEF CpuState
    <3>5. cpu' = [cpu EXCEPT ![p] = new]
      BY <3>1
    <3> HIDE DEF new
    <3>6. cpu' \in [CPU -> CpuState]
      BY <2>0, <3>4, <3>5
    <3>7. window' \in Window
      <4>1. /\ Smaller(MaxBytes, window.bytes + cpu[p].len) \in Nat
            /\ Smaller(MaxBytes, window.denied + 1) \in Nat
            /\ window \in Window /\ window.bytes \in Nat /\ window.denied \in Nat
        BY <2>0, BucketAssumption DEF Smaller, TypeOK, CpuState, Window
      <4>2. CASE Admit(p)
        <5> DEFINE count == IF cpu[p].now >= window.from /\ ~window.shared
                              THEN Smaller(MaxBytes, window.bytes + cpu[p].len)
                              ELSE window.bytes
        <5>1. window' = [[window EXCEPT !.denied = 0] EXCEPT !.bytes = count]
          BY <4>1, <4>2 DEF Admit, Window
        <5>2. count \in Nat
          BY <4>1
        <5> HIDE DEF count
        <5> QED
          BY <4>1, <5>1, <5>2, WindowType
      <4>3. CASE Drop(p)
        <5> DEFINE count == IF Micros(p) > 0 /\ ~window.shared /\ ~cpu[p].replaced
                              THEN Smaller(MaxBytes, window.denied + 1)
                              ELSE window.denied
        <5>1. window' = [window EXCEPT !.denied = count]
          BY <4>3 DEF Drop
        <5>2. count \in Nat
          BY <4>1
        <5> HIDE DEF count
        <5> QED
          BY <4>1, <5>1, <5>2, WindowType
      <4> QED
        BY <2>6, <4>2, <4>3
    <3> QED
      BY <2>6, <3>6, <3>7 DEF Admit, Drop, TypeOK
  <2>7. CASE WriteSlot(p)
    <3>1. [Mine(p) EXCEPT !.slot = cpu[p].tokens] \in Elem
      BY <2>0, MineType DEF Elem, CpuState
    <3>2. elem' \in Elem /\ old' \in Elem
      BY <2>7, <3>1, WriteType DEF WriteSlot
    <3>3. cpu' \in [CPU -> CpuState]
      BY <2>0, <2>7 DEF WriteSlot, CpuState, Pc
    <3> QED
      BY <2>7, <3>2, <3>3 DEF WriteSlot, TypeOK
  <2>8. CASE WriteLast(p)
    <3>1. [Mine(p) EXCEPT !.last = cpu[p].last] \in Elem
      BY <2>0, MineType DEF Elem, CpuState
    <3>2. elem' \in Elem /\ old' \in Elem
      BY <2>8, <3>1, WriteType DEF WriteLast
    <3>3. cpu' \in [CPU -> CpuState]
      BY <2>0, <2>8, IdleType DEF WriteLast
    <3> QED
      BY <2>8, <3>2, <3>3 DEF WriteLast, TypeOK
  <2> QED
    BY <1>5, <2>1, <2>2, <2>3, <2>4, <2>5, <2>6, <2>7, <2>8 DEF CpuStep
<1>6. CASE UNCHANGED vars
  BY <1>6 DEF vars, TypeOK
<1> QED
  BY <1>1, <1>2, <1>3, <1>4, <1>5, <1>6 DEF Next, Environment

\* The tokens of a bucket never go below zero, with any number of processors
\* writing over one another (lines 138-146 of qos_tc.c).
THEOREM TypeCorrect == Spec => []TypeOK
<1> QED
  BY TypeInit, TypeStep, PTL DEF Spec

-----------------------------------------------------------------------------
(* The burst.                                                              *)

Affordable(tokens) == \E bps \in Rates : tokens <= bps

\* BurstBounded is not inductive: what a processor writes back it has read
\* before, perhaps from the element that is in the map no more.
BurstInv ==
  /\ TypeOK
  /\ Affordable(elem.slot) /\ Affordable(old.slot)
  /\ \A p \in CPU : Affordable(cpu[p].tokens) /\ Affordable(cpu[p].bps)

LEMMA AffordableBelow ==
  ASSUME NEW m \in Nat, NEW n \in Nat, Affordable(n), m <= n
  PROVE  Affordable(m)
<1>1. PICK bps \in Rates : n <= bps
  BY DEF Affordable
<1>2. bps \in Nat
  BY BucketAssumption
<1> QED
  BY <1>1, <1>2 DEF Affordable

LEMMA AffordableRates ==
  Affordable(0) /\ \A bps \in Rates : bps \in Nat /\ Affordable(bps)
<1>1. PICK highest \in Rates : highest \in Nat
  BY BucketAssumption
<1>2. Affordable(0)
  BY <1>1 DEF Affordable
<1>3. ASSUME NEW bps \in Rates PROVE bps \in Nat /\ Affordable(bps)
  <2>1. bps \in Nat /\ bps <= bps
    BY BucketAssumption
  <2> QED
    BY <2>1 DEF Affordable
<1> QED
  BY <1>2, <1>3

LEMMA MineAffordable ==
  ASSUME BurstInv, NEW p \in CPU
  PROVE  Affordable(Mine(p).slot) /\ Affordable(Tokens(p))
<1>1. Affordable(Mine(p).slot)
  BY DEF BurstInv, Mine
<1>2. TypeOK /\ cpu[p].tokens \in Nat /\ cpu[p].bps \in Nat
  BY DEF BurstInv, TypeOK, CpuState
<1>3. /\ Tokens(p) \in Nat
      /\ Tokens(p) <= cpu[p].bps \/ Tokens(p) <= cpu[p].tokens
  BY <1>2, TokensBounds
<1>4. Affordable(Tokens(p))
  BY <1>2, <1>3, AffordableBelow DEF BurstInv
<1> QED
  BY <1>1, <1>4

LEMMA BurstInit == Init => BurstInv
<1> SUFFICES ASSUME Init PROVE BurstInv
  OBVIOUS
<1>1. elem.slot = 0 /\ old.slot = 0 /\ \A p \in CPU : cpu[p].tokens = 0 /\ cpu[p].bps = 0
  BY DEF Init, Fresh, IdleCpu
<1> QED
  BY <1>1, TypeInit, AffordableRates DEF BurstInv

LEMMA BurstStep == BurstInv /\ [Next]_vars => BurstInv'
<1> SUFFICES ASSUME BurstInv, [Next]_vars
             PROVE  BurstInv'
  OBVIOUS
<1>1. TypeOK /\ TypeOK'
  BY TypeStep DEF BurstInv
<1>2. CASE Tick \/ OpenWindow \/ UNCHANGED vars
  <2>1. elem' = elem /\ old' = old /\ cpu' = cpu
    BY <1>2 DEF Tick, OpenWindow, vars
  <2> QED
    BY <1>1, <2>1 DEF BurstInv, Affordable
<1>3. ASSUME NEW bps \in Rates, PutRate(bps) PROVE BurstInv'
  <2>1. elem'.slot = 0 /\ old' = elem
    BY <1>3 DEF PutRate, Fresh
  <2>2. \A p \in CPU : cpu'[p].tokens = cpu[p].tokens /\ cpu'[p].bps = cpu[p].bps
    BY <1>1, <1>3 DEF PutRate, TypeOK, CpuState
  <2> QED
    BY <1>1, <2>1, <2>2, AffordableRates DEF BurstInv, Affordable
<1>4. ASSUME NEW bps \in Rates, AdjustRate(bps) PROVE BurstInv'
  <2>1. elem'.slot = elem.slot /\ old' = old /\ cpu' = cpu
    BY <1>1, <1>4 DEF AdjustRate, TypeOK, Elem
  <2> QED
    BY <1>1, <2>1 DEF BurstInv, Affordable
<1>5. ASSUME NEW p \in CPU, Enter(p) \/ CpuStep(p) PROVE BurstInv'
  <2>0. cpu \in [CPU -> CpuState] /\ cpu[p] \in CpuState
        /\ elem \in Elem /\ old \in Elem
    BY <1>1 DEF TypeOK
  \* It is enough to look at the processor's tokens and at a written element.
  <2>1. ASSUME Affordable(cpu'[p].tokens), Affordable(cpu'[p].bps), Affordable(elem'.slot), Affordable(old'.slot),
               \A q \in CPU \ {p} : cpu'[q] = cpu[q]
        PROVE  BurstInv'
    BY <1>1, <2>1 DEF BurstInv, Affordable
  <2>2. \A q \in CPU \ {p} : cpu'[q] = cpu[q]
    BY <1>5, <2>0 DEF Enter, CpuStep, LoadSlot, LoadLast, ReadClock, Unlimited,
       Admit, Drop, WriteSlot, WriteLast
  <2>3. CASE Enter(p) \/ LoadLast(p) \/ ReadClock(p) \/ Unlimited(p)
    <3>1. /\ cpu'[p].tokens = cpu[p].tokens
          /\ elem' = elem /\ old' = old
      BY <2>0, <2>3 DEF Enter, LoadLast, ReadClock, Unlimited, CpuState
    <3>2. cpu'[p].bps \in {0, cpu[p].bps, Mine(p).bps}
      BY <2>0, <2>3 DEF Enter, LoadLast, ReadClock, Unlimited, CpuState
    <3> QED
      BY <1>1, <2>1, <2>2, <3>1, <3>2, MineType, AffordableRates DEF BurstInv
  <2>4. CASE LoadSlot(p)
    <3>1. /\ cpu'[p].tokens = Mine(p).slot /\ cpu'[p].bps = cpu[p].bps
          /\ elem' = elem /\ old' = old
      BY <2>0, <2>4 DEF LoadSlot, CpuState
    <3> QED
      BY <2>1, <2>2, <3>1, MineAffordable DEF BurstInv
  <2>5. CASE Admit(p) \/ Drop(p)
    <3>1. /\ cpu'[p].tokens = IF Fits(p) THEN Tokens(p) - cpu[p].len ELSE Tokens(p)
          /\ elem' = elem /\ old' = old /\ cpu'[p].bps = 0
      BY <2>0, <2>5 DEF Admit, Drop, DroppedTokens, CpuState
    <3>2. cpu[p].len \in Nat /\ Tokens(p) \in Nat
      BY <1>1, <2>0, TokensBounds DEF CpuState
    <3>3. cpu'[p].tokens \in Nat /\ cpu'[p].tokens <= Tokens(p)
      BY <3>1, <3>2 DEF Fits
    <3>4. Affordable(cpu'[p].tokens)
      BY <3>2, <3>3, MineAffordable, AffordableBelow
    <3> QED
      BY <2>1, <2>2, <3>1, <3>4, AffordableRates DEF BurstInv
  <2>6. CASE WriteSlot(p)
    <3>1. cpu'[p].tokens = cpu[p].tokens /\ cpu'[p].bps = cpu[p].bps
      BY <2>0, <2>6 DEF WriteSlot, CpuState
    <3>2. Affordable(elem'.slot) /\ Affordable(old'.slot)
      BY <2>0, <2>6, MineType, <1>1 DEF WriteSlot, Write, BurstInv, Elem
    <3> QED
      BY <2>1, <2>2, <3>1, <3>2 DEF BurstInv
  <2>7. CASE WriteLast(p)
    <3>1. cpu'[p].tokens = 0 /\ cpu'[p].bps = 0
      BY <2>0, <2>7 DEF WriteLast, IdleCpu
    <3>2. [Mine(p) EXCEPT !.last = cpu[p].last].slot = Mine(p).slot
      BY <1>1, MineType DEF Elem
    <3>3. Affordable(elem'.slot) /\ Affordable(old'.slot)
      BY <2>7, <3>2, MineAffordable DEF WriteLast, Write, BurstInv
    <3> QED
      BY <2>1, <2>2, <3>1, <3>3, AffordableRates
  <2> QED
    BY <1>5, <2>3, <2>4, <2>5, <2>6, <2>7 DEF CpuStep
<1> QED
  BY <1>2, <1>3, <1>4, <1>5 DEF Next, Environment

\* Whatever the interleaving, a bucket never holds more than one second of a
\* rate it was given.
THEOREM Burst == Spec => []BurstBounded
<1>1. BurstInv => BurstBounded
  BY DEF BurstInv, BurstBounded, Affordable
<1> QED
  BY <1>1, BurstInit, BurstStep, PTL DEF Spec

-----------------------------------------------------------------------------
(* Time stamps.                                                            *)

\* Besides StampsPast: the clock a processor has read is not ahead either, and
\* is no older than the time stamp it read before, which it may write.
StampInv ==
  /\ TypeOK
  /\ elem.last <= clock /\ old.last <= clock
  /\ \A p \in CPU : /\ cpu[p].last <= clock /\ cpu[p].now <= clock
                    /\ At(p, "accept") => cpu[p].last <= cpu[p].now

LEMMA StampInit == Init => StampInv
<1> SUFFICES ASSUME Init PROVE StampInv
  OBVIOUS
<1>1. /\ elem.last = 0 /\ old.last = 0 /\ clock = Second
      /\ \A p \in CPU : cpu[p].last = 0 /\ cpu[p].now = 0 /\ cpu[p].pc = "idle"
  BY DEF Init, Fresh, IdleCpu
<1> QED
  BY <1>1, TypeInit, ZeroTime DEF StampInv, At

LEMMA StampStep ==
  ASSUME MaxClock < Word
  PROVE  StampInv /\ [Next]_vars => StampInv'
<1> SUFFICES ASSUME StampInv, [Next]_vars
             PROVE  StampInv'
  OBVIOUS
<1>1. /\ TypeOK /\ TypeOK' /\ clock \in Nat /\ elem.last \in Nat /\ old.last \in Nat
      /\ \A p \in CPU : cpu[p].last \in Nat /\ cpu[p].now \in Nat
  BY TypeStep DEF StampInv, TypeOK, Time, Elem, CpuState
<1>2. CASE Tick
  <2>1. clock' = clock + 1
    <3>1. clock + 1 \in 0..(Word - 1)
      BY <1>1, <1>2, BucketAssumption DEF Tick
    <3>2. \A n \in 0..(Word - 1) : n % Word = n
      BY BucketAssumption
    <3> QED
      BY <1>2, <3>1, <3>2 DEF Tick
  <2>2. elem' = elem /\ old' = old /\ cpu' = cpu
    BY <1>2 DEF Tick
  <2> QED
    BY <1>1, <2>1, <2>2 DEF StampInv, At
<1>3. CASE OpenWindow \/ UNCHANGED vars
  <2>1. elem' = elem /\ old' = old /\ cpu' = cpu /\ clock' = clock
    BY <1>3 DEF OpenWindow, vars
  <2> QED
    BY <1>1, <2>1 DEF StampInv, At
<1>4. ASSUME NEW bps \in Rates, PutRate(bps) PROVE StampInv'
  <2>1. elem'.last = 0 /\ old' = elem /\ clock' = clock
    BY <1>4 DEF PutRate, Fresh
  <2>2. \A p \in CPU : /\ cpu'[p].last = cpu[p].last /\ cpu'[p].now = cpu[p].now
                       /\ cpu'[p].pc = cpu[p].pc
    BY <1>1, <1>4 DEF PutRate, TypeOK, CpuState
  <2> QED
    BY <1>1, <2>1, <2>2 DEF StampInv, At
<1>5. ASSUME NEW bps \in Rates, AdjustRate(bps) PROVE StampInv'
  <2>1. elem'.last = elem.last /\ old' = old /\ cpu' = cpu /\ clock' = clock
    BY <1>1, <1>5 DEF AdjustRate, TypeOK, Elem
  <2> QED
    BY <1>1, <2>1 DEF StampInv, At
<1>6. ASSUME NEW p \in CPU, Enter(p) \/ CpuStep(p) PROVE StampInv'
  <2>0. /\ cpu \in [CPU -> CpuState] /\ cpu[p] \in CpuState
        /\ elem \in Elem /\ old \in Elem /\ clock' = clock
        /\ cpu[p].last <= clock /\ cpu[p].now <= clock
        /\ elem.last <= clock /\ old.last <= clock
    BY <1>1, <1>6 DEF TypeOK, StampInv, Enter, CpuStep, LoadSlot, LoadLast,
       ReadClock, Unlimited, Admit, Drop, WriteSlot, WriteLast
  <2>1. \A q \in CPU \ {p} : cpu'[q] = cpu[q]
    BY <1>6, <2>0 DEF Enter, CpuStep, LoadSlot, LoadLast, ReadClock, Unlimited,
       Admit, Drop, WriteSlot, WriteLast
  <2>2. ASSUME elem'.last <= clock, old'.last <= clock,
               cpu'[p].last <= clock, cpu'[p].now <= clock,
               cpu'[p].pc = "accept" => cpu'[p].last <= cpu'[p].now
        PROVE  StampInv'
    BY <1>1, <2>0, <2>1, <2>2 DEF StampInv, At
  <2>3. CASE Enter(p) \/ LoadSlot(p)
    <3>1. /\ cpu'[p].last = cpu[p].last /\ cpu'[p].now = cpu[p].now
          /\ elem' = elem /\ old' = old /\ cpu'[p].pc # "accept"
      BY <2>0, <2>3 DEF Enter, LoadSlot, Following, CpuState
    <3> QED
      BY <2>0, <2>2, <3>1
  <2>4. CASE LoadLast(p)
    <3>1. /\ cpu'[p].last = Mine(p).last /\ cpu'[p].now = cpu[p].now
          /\ elem' = elem /\ old' = old /\ cpu'[p].pc # "accept"
      BY <2>0, <2>4 DEF LoadLast, Following, CpuState
    <3>2. Mine(p).last <= clock
      BY <2>0 DEF Mine
    <3> QED
      BY <2>0, <2>2, <3>1, <3>2
  <2>5. CASE ReadClock(p)
    <3>1. /\ cpu'[p].last = cpu[p].last /\ cpu'[p].now = clock
          /\ elem' = elem /\ old' = old
      BY <2>0, <2>5 DEF ReadClock, CpuState
    <3> QED
      BY <1>1, <2>0, <2>2, <3>1
  <2>6. CASE Unlimited(p) \/ Admit(p) \/ Drop(p)
    <3>1. /\ cpu'[p].last \in {cpu[p].last, cpu[p].now} /\ cpu'[p].now = 0
          /\ elem' = elem /\ old' = old /\ cpu'[p].pc # "accept"
      BY <2>0, <2>6 DEF Unlimited, Admit, Drop, CpuState
    <3> QED
      BY <1>1, <2>0, <2>2, <3>1
  <2>7. CASE WriteSlot(p)
    <3>1. /\ cpu'[p].last = cpu[p].last /\ cpu'[p].now = cpu[p].now
          /\ cpu'[p].pc # "accept"
      BY <2>0, <2>7 DEF WriteSlot, CpuState
    <3>2. [Mine(p) EXCEPT !.slot = cpu[p].tokens].last = Mine(p).last
      BY <1>1, MineType DEF Elem
    <3>3. elem'.last <= clock /\ old'.last <= clock
      BY <2>0, <2>7, <3>2 DEF WriteSlot, Write, Mine
    <3> QED
      BY <2>0, <2>2, <3>1, <3>3
  <2>8. CASE WriteLast(p)
    <3>1. cpu'[p].last = 0 /\ cpu'[p].now = 0 /\ cpu'[p].pc # "accept"
      BY <2>0, <2>8 DEF WriteLast, IdleCpu
    <3>2. [Mine(p) EXCEPT !.last = cpu[p].last].last = cpu[p].last
      BY <1>1, MineType DEF Elem
    <3>3. elem'.last <= clock /\ old'.last <= clock
      BY <2>0, <2>8, <3>2 DEF WriteLast, Write
    <3> QED
      BY <1>1, <2>0, <2>2, <3>1, <3>3
  <2> QED
    BY <1>6, <2>3, <2>4, <2>5, <2>6, <2>7, <2>8 DEF CpuStep
<1> QED
  BY <1>2, <1>3, <1>4, <1>5, <1>6 DEF Next, Environment

\* As long as the clock has not gone round, now - *t_last of accept never wraps,
\* whichever processors wrote the time stamp between the two reads.
THEOREM Stamps == ASSUME MaxClock < Word
                  PROVE  Spec => []StampsPast
<1>1. StampInv /\ [Next]_vars => StampInv'
  BY StampStep
<1>2. StampInv => StampsPast
  BY DEF StampInv, StampsPast
<1> QED
  BY <1>1, <1>2, StampInit, PTL DEF Spec

=============================================================================
