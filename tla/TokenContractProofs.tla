------------------------ MODULE TokenContractProofs -------------------------
(***************************************************************************)
(* The contract of the bucket, for any set of processors and any bounded   *)
(* rates: what conforms while the processors take turns is paid for by     *)
(* time and by bursts, however they raced before, and their drops come to  *)
(* an end.                                                                 *)
(***************************************************************************)
EXTENDS TokenBucketProofs

\* R is the highest rate, S a second.
R == HighestRate
S == Second

RatesBounded == \E r \in Rates : \A s \in Rates : s <= r

LEMMA Highest ==
  ASSUME RatesBounded
  PROVE  R \in Nat /\ \A r \in Rates : r \in Nat /\ r <= R
<1>1. \E r \in Rates : \A s \in Rates : s <= r
  BY DEF RatesBounded
<1>2. HighestRate \in Rates /\ \A s \in Rates : s <= HighestRate
  BY <1>1 DEF HighestRate
<1> QED
  BY <1>2, BucketAssumption DEF R

LEMMA SecondType ==
  /\ NsPerUs \in Nat \ {0} /\ Megabyte \in Nat \ {0} /\ Word \in Nat \ {0}
  /\ S = NsPerUs * Megabyte /\ S \in Nat \ {0}
<1>1. NsPerUs * Megabyte \in Nat \ {0}
  BY BucketAssumption
<1> QED
  BY <1>1, BucketAssumption DEF S, Second

-----------------------------------------------------------------------------
(* Arithmetic.                                                             *)

LEMMA Product ==
  ASSUME NEW a \in Nat, NEW b \in Nat, NEW c \in Nat, NEW d \in Nat, a <= b, c <= d
  PROVE  a * c \in Nat /\ b * d \in Nat /\ a * c <= b * d
<1>1. a * c <= b * c
  <2>1. (b - a) * c >= 0
    OBVIOUS
  <2> QED
    BY <2>1
<1>2. b * c <= b * d
  <2>1. b * (d - c) >= 0
    OBVIOUS
  <2> QED
    BY <2>1
<1> QED
  BY <1>1, <1>2

\* What a remainder and a quotient are at most.
LEMMA Truncation ==
  ASSUME NEW a \in Nat, NEW b \in Nat \ {0}
  PROVE  /\ a % b \in Nat /\ a % b <= a
         /\ a \div b \in Nat /\ (a \div b) * b <= a
<1>1. /\ a = b * (a \div b) + (a % b) /\ a % b \in 0..(b - 1)
      /\ a \div b \in Nat
  OBVIOUS
<1> DEFINE q == a \div b
           r == a % b
<1>2. a = b * q + r /\ r \in Nat /\ q \in Nat
  BY <1>1
<1> HIDE DEF q, r
<1>3. b * q \in Nat /\ b * q = q * b
  BY <1>2
<1>4. r <= a /\ q * b <= a
  BY <1>2, <1>3
<1> QED
  BY <1>2, <1>4 DEF q, r

\* Filling a bucket for some microseconds gains no more than the rate allows.
LEMMA Gain ==
  ASSUME NEW tokens \in Nat, NEW bps \in Nat, NEW ticks \in Nat, NEW highest \in Nat,
         bps <= highest
  PROVE  LET t == Filled(tokens, ticks \div NsPerUs, bps)
         IN  t \in Nat /\ t * S <= tokens * S + highest * ticks
<1> DEFINE us == ticks \div NsPerUs
           gain == ((bps * us) % Word) \div Megabyte
<1>1. us \in Nat /\ us * NsPerUs <= ticks
  BY SecondType, Truncation
<1>2. bps * us \in Nat
  BY <1>1
<1>3. (bps * us) % Word \in Nat /\ (bps * us) % Word <= bps * us
  BY <1>2, SecondType, Truncation
<1>4. gain \in Nat /\ gain * Megabyte <= (bps * us) % Word
  BY <1>3, SecondType, Truncation
<1> HIDE DEF us, gain
<1>5. gain * Megabyte \in Nat /\ gain * Megabyte <= bps * us
  BY <1>2, <1>3, <1>4, SecondType
<1>6. (gain * Megabyte) * NsPerUs <= (bps * us) * NsPerUs
  BY <1>2, <1>5, SecondType, Product
<1>7. (bps * us) * NsPerUs = bps * (us * NsPerUs) /\ us * NsPerUs \in Nat
  BY <1>1, SecondType
<1>8. bps * (us * NsPerUs) <= highest * ticks
  BY <1>1, <1>7, Product
<1>9. (gain * Megabyte) * NsPerUs = gain * S
  BY <1>4, SecondType
<1>10. gain * S \in Nat /\ gain * S <= highest * ticks /\ tokens * S \in Nat
       /\ highest * ticks \in Nat
  BY <1>2, <1>4, <1>5, <1>6, <1>7, <1>8, <1>9, SecondType
<1>11. (tokens + gain) * S = tokens * S + gain * S
  BY <1>4, SecondType
<1> DEFINE t == Filled(tokens, us, bps)
<1>12. t \in Nat /\ t <= tokens + gain
  BY <1>1, <1>4 DEF Filled, Smaller, gain
<1> HIDE DEF t
<1>13. t * S <= (tokens + gain) * S
  BY <1>4, <1>12, SecondType, Product
<1>14. t * S \in Nat
  BY <1>12, SecondType
<1>15. t \in Nat /\ t * S <= tokens * S + highest * ticks
  BY <1>10, <1>11, <1>12, <1>13, <1>14
<1> QED
  BY <1>15 DEF t, us

-----------------------------------------------------------------------------
(* What has been let through, against the time that has passed and k       *)
(* bursts.                                                                 *)

\* Either the bucket was filled since the window w was opened, and what it holds is
\* paid for as well, or a whole burst is still to come.
Paid(w, k, slot, last, t) ==
  \/ last >= w.from /\ (w.bytes + slot) * S <= R * (k * S + (last - w.from))
  \/ w.bytes * S <= R * ((k - 1) * S + (t - w.from))

LEMMA PaidLater ==
  ASSUME RatesBounded, NEW w \in Window, NEW k \in Nat \ {0}, NEW slot \in Nat,
         NEW last \in Nat, NEW t \in Nat, NEW u \in Nat, t <= u, w.from <= t,
         Paid(w, k, slot, last, t)
  PROVE  Paid(w, k, slot, last, u)
<1>1. R \in Nat /\ S \in Nat /\ w.from \in Nat /\ w.bytes \in Nat
  BY Highest, SecondType, BucketAssumption DEF Window, Time
<1>2. k - 1 \in Nat /\ (k - 1) * S \in Nat
  BY <1>1
<1>3. R * ((k - 1) * S + (t - w.from)) <= R * ((k - 1) * S + (u - w.from))
  BY <1>1, <1>2, Product
<1>4. /\ R * ((k - 1) * S + (t - w.from)) \in Int /\ w.bytes * S \in Int
      /\ R * ((k - 1) * S + (u - w.from)) \in Int
  BY <1>1, <1>2
<1>5. w.bytes * S <= R * ((k - 1) * S + (t - w.from)) =>
        w.bytes * S <= R * ((k - 1) * S + (u - w.from))
  BY <1>3, <1>4
<1> QED
  BY <1>5 DEF Paid

LEMMA PaidNothing ==
  ASSUME RatesBounded, NEW w \in Window, NEW k \in Nat \ {0}, NEW slot \in Nat,
         NEW last \in Nat, NEW t \in Nat, w.from <= t, w.bytes = 0
  PROVE  Paid(w, k, slot, last, t)
<1>1. R \in Nat /\ S \in Nat /\ w.from \in Nat
  BY Highest, SecondType, BucketAssumption DEF Window, Time
<1>2. k - 1 \in Nat /\ (k - 1) * S \in Nat
  BY <1>1
<1>3. R * ((k - 1) * S + (t - w.from)) >= 0
  BY <1>1, <1>2
<1> QED
  BY <1>1, <1>3 DEF Paid

\* What was let through alone.
LEMMA PaidTotal ==
  ASSUME RatesBounded, NEW w \in Window, NEW k \in Nat \ {0}, NEW slot \in Nat,
         NEW last \in Nat, NEW t \in Nat, NEW u \in Nat, last <= u, t <= u, w.from <= t,
         Paid(w, k, slot, last, t)
  PROVE  w.bytes * S <= R * (k * S + (u - w.from))
<1>1. R \in Nat /\ S \in Nat /\ w.from \in Nat /\ w.bytes \in Nat
  BY Highest, SecondType, BucketAssumption DEF Window, Time
<1>2. k * S \in Nat /\ w.bytes * S \in Nat /\ k - 1 \in Nat /\ (k - 1) * S \in Nat
  BY <1>1
<1>3. CASE last >= w.from /\ (w.bytes + slot) * S <= R * (k * S + (last - w.from))
  <2>1. w.bytes * S <= (w.bytes + slot) * S
    BY <1>1, Product
  <2>2. R * (k * S + (last - w.from)) <= R * (k * S + (u - w.from))
    BY <1>1, <1>2, <1>3, Product
  <2>3. /\ (w.bytes + slot) * S \in Int /\ R * (k * S + (last - w.from)) \in Int
        /\ R * (k * S + (u - w.from)) \in Int
    BY <1>1, <1>2
  <2> QED
    BY <1>2, <1>3, <2>1, <2>2, <2>3
<1>4. CASE w.bytes * S <= R * ((k - 1) * S + (t - w.from))
  <2>1. (k - 1) * S <= k * S
    BY <1>1, <1>2, Product
  <2>2. (k - 1) * S + (t - w.from) <= k * S + (u - w.from)
    BY <1>1, <1>2, <2>1
  <2>3. R * ((k - 1) * S + (t - w.from)) <= R * (k * S + (u - w.from))
    BY <1>1, <1>2, <2>2, Product
  <2>4. /\ R * ((k - 1) * S + (t - w.from)) \in Int
        /\ R * (k * S + (u - w.from)) \in Int
    BY <1>1, <1>2
  <2> QED
    BY <1>2, <1>4, <2>3, <2>4
<1> QED
  BY <1>3, <1>4 DEF Paid

\* What a bucket holds once it is filled is paid for too.
LEMMA PaidFilled ==
  ASSUME RatesBounded, NEW w \in Window, NEW k \in Nat \ {0}, NEW slot \in Nat,
         NEW last \in Nat, NEW now \in Nat, last <= now, w.from <= now,
         Paid(w, k, slot, last, now),
         NEW t \in Nat, t <= R, t * S <= slot * S + R * (now - last)
  PROVE  (w.bytes + t) * S <= R * (k * S + (now - w.from))
<1>1. R \in Nat /\ S \in Nat /\ w.from \in Nat /\ w.bytes \in Nat
  BY Highest, SecondType, BucketAssumption DEF Window, Time
<1>2. /\ k * S \in Nat /\ w.bytes * S \in Nat /\ slot * S \in Nat /\ t * S \in Nat
      /\ R * S \in Nat /\ R * (k * S) \in Nat
  BY <1>1
<1>3. (w.bytes + t) * S = w.bytes * S + t * S
  BY <1>1
<1>4. CASE last >= w.from /\ (w.bytes + slot) * S <= R * (k * S + (last - w.from))
  <2>1. (w.bytes + slot) * S = w.bytes * S + slot * S
    BY <1>1
  <2>2. /\ R * (k * S + (last - w.from)) = R * (k * S) + R * (last - w.from)
        /\ R * (k * S + (now - w.from)) = R * (k * S) + R * (now - w.from)
    BY <1>1, <1>2
  <2>3. R * (now - w.from) = R * (now - last) + R * (last - w.from)
    BY <1>1
  <2>4. R * (now - last) \in Int /\ R * (last - w.from) \in Int /\ R * (now - w.from) \in Int
    BY <1>1
  <2> QED
    BY <1>2, <1>3, <1>4, <2>1, <2>2, <2>3, <2>4
<1>5. CASE w.bytes * S <= R * ((k - 1) * S + (now - w.from))
  <2>1. (k - 1) * S + (now - w.from) = (k * S + (now - w.from)) - S
    BY <1>1, <1>2
  <2>2. R * ((k * S + (now - w.from)) - S) = R * (k * S + (now - w.from)) - R * S
    BY <1>1, <1>2
  <2>3. t * S <= R * S
    BY <1>1, Product
  <2>4. R * (k * S + (now - w.from)) \in Int
    BY <1>1, <1>2
  <2> QED
    BY <1>2, <1>3, <1>5, <2>1, <2>2, <2>3, <2>4
<1> QED
  BY <1>4, <1>5 DEF Paid

-----------------------------------------------------------------------------
(* The invariant.                                                          *)

\* The bucket as processor p is going to leave it, if it lets nothing through.
SlotOf(p) == IF cpu[p].pc \in {"slot", "writeLast"} THEN Mine(p).slot ELSE cpu[p].tokens
LastOf(p) == IF cpu[p].pc \in {"slot", "last"} THEN Mine(p).last ELSE cpu[p].last

\* A replaced element has had one burst less than there are in all.
Bursts(p) == IF cpu[p].replaced THEN window.puts ELSE window.puts + 1

Owes(p) ==
  IF At(p, "accept")
    THEN IF cpu[p].now >= window.from
           THEN Paid(window, Bursts(p), SlotOf(p), LastOf(p), cpu[p].now)
           ELSE window.bytes = 0
    ELSE Paid(window, Bursts(p), SlotOf(p), LastOf(p), clock)

\* While the processors take turns one of them is at work at most, and what it, or the
\* map when there is none, has of the bucket is paid for.
Turns ==
  /\ window.from <= clock
  /\ \A p, q \in Busy : p = q
  /\ \A p \in Busy : Owes(p) /\ (cpu[p].replaced => window.puts >= 1)
  /\ Busy = {} => Paid(window, window.puts + 1, elem.slot, elem.last, clock)

ContractInv ==
  /\ BurstInv /\ StampInv
  /\ \A p \in CPU : cpu[p].replaced => p \in Busy
  /\ ~window.shared => Turns

LEMMA Numbers ==
  ASSUME TypeOK
  PROVE  /\ window \in Window /\ clock \in Nat
         /\ window.from \in Nat /\ window.bytes \in Nat /\ window.puts \in Nat
         /\ elem \in Elem /\ elem.slot \in Nat /\ elem.last \in Nat
         /\ \A p \in CPU : /\ cpu[p] \in CpuState
                           /\ cpu[p].now \in Nat /\ cpu[p].last \in Nat
                           /\ cpu[p].tokens \in Nat /\ cpu[p].len \in Nat
                           /\ Mine(p) \in Elem /\ Mine(p).slot \in Nat /\ Mine(p).last \in Nat
                           /\ SlotOf(p) \in Nat /\ LastOf(p) \in Nat
BY BucketAssumption, MineType
   DEF TypeOK, Window, Elem, CpuState, Time, SlotOf, LastOf

LEMMA BurstsPositive ==
  ASSUME TypeOK, Turns, NEW p \in Busy
  PROVE  Bursts(p) \in Nat \ {0}
<1>1. cpu[p].replaced => window.puts >= 1
  BY DEF Turns
<1> QED
  BY <1>1, Numbers DEF Bursts

\* Nothing but the bytes and the beginning of the window matters.
LEMMA PaidSame ==
  ASSUME NEW v, NEW w, v.bytes = w.bytes, v.from = w.from,
         NEW k, NEW slot, NEW last, NEW t
  PROVE  Paid(v, k, slot, last, t) <=> Paid(w, k, slot, last, t)
BY DEF Paid

LEMMA InitContract == Init /\ RatesBounded => ContractInv
<1> SUFFICES ASSUME Init, RatesBounded PROVE ContractInv
  OBVIOUS
<1>1. BurstInv /\ StampInv
  BY BurstInit, StampInit
<1>2. Busy = {} /\ \A p \in CPU : ~cpu[p].replaced
  BY DEF Init, Busy, At, IdleCpu
<1>3. window.bytes = 0 /\ window.from = clock /\ window.puts = 0
  BY DEF Init
<1>4. Paid(window, window.puts + 1, elem.slot, elem.last, clock)
  BY <1>1, <1>3, Numbers, PaidNothing DEF BurstInv
<1>5. Turns
  BY <1>1, <1>2, <1>3, <1>4, Numbers DEF Turns, BurstInv
<1> QED
  BY <1>1, <1>2, <1>5 DEF ContractInv

\* What has been let through, whoever is at work.
LEMMA LetThrough ==
  ASSUME ContractInv, RatesBounded, ~window.shared, NEW k \in Nat \ {0},
         \/ Busy = {} /\ k = window.puts + 1
         \/ \E p \in Busy : k = Bursts(p)
  PROVE  window.bytes * S <= R * (k * S + (clock - window.from))
<1>1. TypeOK /\ Turns /\ StampInv
  BY DEF ContractInv, BurstInv
<1>2. /\ R \in Nat /\ S \in Nat
  BY Highest, SecondType
<1>3. CASE Busy = {} /\ k = window.puts + 1
  BY <1>1, <1>3, Numbers, PaidTotal DEF Turns, StampInv
<1>4. ASSUME NEW p \in Busy, k = Bursts(p)
      PROVE  window.bytes * S <= R * (k * S + (clock - window.from))
  <2>1. p \in CPU /\ LastOf(p) <= clock /\ cpu[p].now <= clock
    BY <1>1 DEF Busy, StampInv, LastOf, Mine
  <2>2. CASE At(p, "accept") /\ cpu[p].now < window.from
    <3>1. window.bytes = 0
      BY <1>1, <2>1, <2>2, Numbers DEF Turns, Owes
    <3>2. k * S + (clock - window.from) \in Nat
      BY <1>1, <1>2, Numbers DEF Turns
    <3> QED
      BY <1>2, <3>1, <3>2
  <2>3. CASE At(p, "accept") /\ cpu[p].now >= window.from
    BY <1>1, <1>4, <2>1, <2>3, Numbers, PaidTotal DEF Turns, Owes
  <2>4. CASE ~At(p, "accept")
    BY <1>1, <1>4, <2>1, <2>4, Numbers, PaidTotal DEF Turns, Owes
  <2> QED
    BY <1>1, <2>1, <2>2, <2>3, <2>4, Numbers
<1> QED
  BY <1>3, <1>4

-----------------------------------------------------------------------------
(* The steps.                                                              *)

\* Two invariants proved elsewhere, and what they say of a processor.
LEMMA Known ==
  ASSUME ContractInv, NEW p \in CPU
  PROVE  /\ TypeOK /\ BurstInv /\ StampInv
         /\ LastOf(p) <= clock /\ cpu[p].now <= clock /\ cpu[p].last <= clock
         /\ At(p, "accept") => cpu[p].last <= cpu[p].now
BY DEF ContractInv, BurstInv, StampInv, LastOf, Mine

\* A step of the processor at work after which it still is.
LEMMA SoleStep ==
  ASSUME ContractInv, BurstInv', StampInv', ~window.shared, NEW p \in Busy,
         \A q \in CPU \ {p} : cpu'[q] = cpu[q],
         cpu'[p].replaced = cpu[p].replaced, cpu'[p].pc # "idle",
         clock' = clock, window'.from = window.from, window'.puts = window.puts,
         Owes(p)'
  PROVE  ContractInv'
<1>1. p \in CPU /\ cpu[p].pc # "idle" /\ Turns
  BY DEF Busy, At, ContractInv
<1>2. Busy = {p}
  BY <1>1 DEF Turns
<1>3. Busy' = {p}
  BY <1>1, <1>2 DEF Busy, At
<1>4. \A q \in CPU : cpu'[q].replaced => q \in Busy'
  BY <1>2, <1>3 DEF ContractInv
<1>5. Turns'
  BY <1>1, <1>2, <1>3 DEF Turns
<1> QED
  BY <1>4, <1>5 DEF ContractInv

\* The loads.
LEMMA LoadContract ==
  ASSUME ContractInv, BurstInv', StampInv', ~window.shared, NEW p \in CPU,
         LoadSlot(p) \/ LoadLast(p) \/ ReadClock(p)
  PROVE  ContractInv'
<1>1. TypeOK /\ StampInv /\ cpu \in [CPU -> CpuState] /\ cpu[p] \in CpuState
  BY Known DEF TypeOK
<1>2. /\ \A q \in CPU \ {p} : cpu'[q] = cpu[q]
      /\ cpu'[p].replaced = cpu[p].replaced /\ cpu'[p].pc # "idle"
      /\ elem' = elem /\ old' = old /\ clock' = clock /\ window' = window
  BY <1>1 DEF LoadSlot, LoadLast, ReadClock, Following, CpuState
<1>3. p \in Busy /\ ~At(p, "accept")
  BY DEF LoadSlot, LoadLast, ReadClock, Busy, At
<1>4. Paid(window, Bursts(p), SlotOf(p), LastOf(p), clock)
  BY <1>3 DEF ContractInv, Turns, Owes
<1>5. Mine(p)' = Mine(p) /\ Bursts(p)' = Bursts(p)
  BY <1>2 DEF Mine, Bursts
<1>6. SlotOf(p)' = SlotOf(p) /\ LastOf(p)' = LastOf(p)
  <2>1. CASE LoadSlot(p)
    <3>1. cpu'[p].pc = "last" /\ cpu'[p].tokens = Mine(p).slot /\ cpu[p].pc = "slot"
      BY <1>1, <2>1 DEF LoadSlot, Following, CpuState, At
    <3> QED
      BY <1>5, <3>1 DEF SlotOf, LastOf
  <2>2. CASE LoadLast(p)
    <3>1. /\ cpu'[p].pc = "now" /\ cpu'[p].last = Mine(p).last /\ cpu[p].pc = "last"
          /\ cpu'[p].tokens = cpu[p].tokens
      BY <1>1, <2>2 DEF LoadLast, Following, CpuState, At
    <3> QED
      BY <1>5, <3>1 DEF SlotOf, LastOf
  <2>3. CASE ReadClock(p)
    <3>1. /\ cpu'[p].pc = "accept" /\ cpu[p].pc = "now"
          /\ cpu'[p].tokens = cpu[p].tokens /\ cpu'[p].last = cpu[p].last
      BY <1>1, <2>3 DEF ReadClock, Following, CpuState, At
    <3> QED
      BY <1>5, <3>1 DEF SlotOf, LastOf
  <2> QED
    BY <2>1, <2>2, <2>3
<1>7. cpu'[p].pc = "accept" => cpu'[p].now = clock
  BY <1>1 DEF LoadSlot, LoadLast, ReadClock, Following, CpuState
<1>8. window.from <= clock
  BY DEF ContractInv, Turns
<1>9. Owes(p)'
  BY <1>2, <1>4, <1>5, <1>6, <1>7, <1>8 DEF Owes, At
<1> QED
  BY <1>2, <1>3, <1>9, SoleStep

LEMMA UnlimitedContract ==
  ASSUME ContractInv, RatesBounded, BurstInv', StampInv', ~window.shared, NEW p \in CPU,
         Unlimited(p)
  PROVE  ContractInv'
<1>1. TypeOK /\ StampInv /\ cpu \in [CPU -> CpuState] /\ cpu[p] \in CpuState
  BY Known DEF TypeOK
<1>2. /\ \A q \in CPU \ {p} : cpu'[q] = cpu[q]
      /\ cpu'[p].replaced = cpu[p].replaced /\ cpu'[p].pc = "writeSlot"
      /\ cpu'[p].tokens = cpu[p].tokens /\ cpu'[p].last = cpu[p].last
      /\ elem' = elem /\ old' = old /\ clock' = clock /\ window' = window
  BY <1>1 DEF Unlimited, CpuState
<1>3. p \in Busy /\ At(p, "accept")
  BY DEF Unlimited, Busy, At
<1>4. Turns /\ Owes(p) /\ window.from <= clock /\ Bursts(p) \in Nat \ {0}
  BY <1>1, <1>3, BurstsPositive DEF ContractInv, Turns
<1>5. /\ SlotOf(p)' = SlotOf(p) /\ LastOf(p)' = LastOf(p) /\ Bursts(p)' = Bursts(p)
  BY <1>2, <1>3 DEF SlotOf, LastOf, Bursts, At
<1>6. Paid(window, Bursts(p), SlotOf(p), LastOf(p), clock)
  <2>1. CASE cpu[p].now >= window.from
    BY <1>1, <1>3, <1>4, <2>1, Known, Numbers, PaidLater DEF Owes
  <2>2. CASE ~(cpu[p].now >= window.from)
    BY <1>1, <1>3, <1>4, <2>2, Numbers, PaidNothing DEF Owes
  <2> QED
    BY <2>1, <2>2
<1>7. Owes(p)'
  BY <1>2, <1>5, <1>6 DEF Owes, At
<1> QED
  BY <1>2, <1>3, <1>7, SoleStep

\* What the bucket is filled with before a packet is measured against it.
LEMMA TokensPaid ==
  ASSUME ContractInv, RatesBounded, NEW p \in CPU, At(p, "accept")
  PROVE  /\ Tokens(p) \in Nat /\ Tokens(p) <= R
         /\ Tokens(p) * S <= cpu[p].tokens * S + R * (cpu[p].now - cpu[p].last)
<1> DEFINE ticks == cpu[p].now - cpu[p].last
<1>1. /\ TypeOK /\ BurstInv /\ cpu[p].last <= cpu[p].now
      /\ cpu[p].tokens \in Nat /\ cpu[p].bps \in Nat
      /\ cpu[p].now \in Time /\ cpu[p].last \in Time
  BY Known DEF TypeOK, CpuState
<1>2. ticks \in 0..(Word - 1) /\ ticks \in Nat /\ Word \in Nat \ {0}
  BY <1>1, SecondType DEF Time
<1>3. ticks % Word = ticks
  <2> HIDE DEF ticks
  <2> QED
    BY <1>2
<1>4. Tokens(p) = Filled(cpu[p].tokens, ticks \div NsPerUs, cpu[p].bps)
  BY <1>3 DEF Tokens, Micros
<1>5. cpu[p].bps <= R /\ \A n \in Nat : Affordable(n) => n <= R
  <2>1. ASSUME NEW n \in Nat, Affordable(n) PROVE n <= R
    <3>1. PICK r \in Rates : n <= r
      BY <2>1 DEF Affordable
    <3> QED
      BY <3>1, Highest
  <2> QED
    BY <1>1, <2>1 DEF BurstInv
<1>6. R \in Nat
  BY Highest
<1> HIDE DEF ticks
<1>7. Tokens(p) \in Nat /\ Tokens(p) * S <= cpu[p].tokens * S + R * ticks
  <2> DEFINE tokens == cpu[p].tokens
             bps == cpu[p].bps
             filled == Filled(tokens, ticks \div NsPerUs, bps)
  <2>1. tokens \in Nat /\ bps \in Nat /\ bps <= R
    BY <1>1, <1>5
  <2> HIDE DEF tokens, bps
  <2>2. filled \in Nat /\ filled * S <= tokens * S + R * ticks
    BY <1>2, <1>6, <2>1, Gain
  <2> QED
    BY <1>4, <2>2 DEF tokens, bps
<1>8. Tokens(p) <= R
  BY <1>1, <1>5, <1>7, MineAffordable
<1> QED
  BY <1>7, <1>8 DEF ticks

\* A packet that fits is paid for with the tokens it takes, and a drop keeps them.
LEMMA AcceptContract ==
  ASSUME ContractInv, RatesBounded, BurstInv', StampInv', ~window.shared, NEW p \in CPU,
         Admit(p) \/ Drop(p)
  PROVE  ContractInv'
<1>1. TypeOK /\ StampInv /\ cpu \in [CPU -> CpuState] /\ cpu[p] \in CpuState
      /\ window \in Window
  BY Known DEF TypeOK
<1>2. p \in Busy /\ At(p, "accept")
  BY DEF Admit, Drop, Busy, At
<1>3. /\ \A q \in CPU \ {p} : cpu'[q] = cpu[q]
      /\ cpu'[p].replaced = cpu[p].replaced /\ cpu'[p].pc = "writeSlot"
      /\ cpu'[p].last = cpu[p].now
      /\ elem' = elem /\ old' = old /\ clock' = clock
  BY <1>1 DEF Admit, Drop, CpuState
<1>4. Turns /\ Owes(p) /\ window.from <= clock /\ Bursts(p) \in Nat \ {0}
  BY <1>1, <1>2, BurstsPositive DEF ContractInv, Turns
<1>5. /\ window' \in Window /\ window'.from = window.from /\ window'.puts = window.puts
      /\ cpu'[p].tokens \in Nat
  BY <1>1 DEF Admit, Drop, Window, BurstInv, TypeOK, CpuState
<1>6. SlotOf(p)' = cpu'[p].tokens /\ LastOf(p)' = cpu[p].now /\ Bursts(p)' = Bursts(p)
  BY <1>3, <1>5 DEF SlotOf, LastOf, Bursts
<1>7. Paid(window', Bursts(p), cpu'[p].tokens, cpu[p].now, clock)
  <2>1. CASE cpu[p].now >= window.from
    <3>1. Tokens(p) \in Nat /\ Tokens(p) <= R
          /\ Tokens(p) * S <= cpu[p].tokens * S + R * (cpu[p].now - cpu[p].last)
      BY <1>2, TokensPaid
    <3>2. Paid(window, Bursts(p), cpu[p].tokens, cpu[p].last, cpu[p].now)
      BY <1>2, <1>4, <2>1 DEF Owes, SlotOf, LastOf, At
    <3>3. (window.bytes + Tokens(p)) * S <= R * (Bursts(p) * S + (cpu[p].now - window.from))
      BY <1>1, <1>2, <1>4, <2>1, <3>1, <3>2, Numbers, Known, PaidFilled
    <3>4. window'.bytes + cpu'[p].tokens <= window.bytes + Tokens(p)
      <4>1. CASE Admit(p)
        <5>1. /\ cpu'[p].tokens = Tokens(p) - cpu[p].len
              /\ window'.bytes = Smaller(MaxBytes, window.bytes + cpu[p].len)
          BY <1>1, <2>1, <4>1 DEF Admit, CpuState, Window
        <5> QED
          BY <1>1, <3>1, <5>1, Numbers, BucketAssumption DEF Smaller
      <4>2. CASE Drop(p)
        <5>1. cpu'[p].tokens = Tokens(p) /\ window'.bytes = window.bytes
          BY <1>1, <4>2 DEF Drop, DroppedTokens, CpuState, Window
        <5> QED
          BY <1>1, <3>1, <5>1, Numbers
      <4> QED
        BY <4>1, <4>2
    <3>5. /\ window'.bytes + cpu'[p].tokens \in Nat /\ window.bytes + Tokens(p) \in Nat
          /\ S \in Nat /\ R \in Nat
      BY <1>1, <1>5, <3>1, Numbers, SecondType, Highest DEF Window
    <3>6. (window'.bytes + cpu'[p].tokens) * S <= (window.bytes + Tokens(p)) * S
      BY <3>4, <3>5, Product
    <3>7. /\ (window'.bytes + cpu'[p].tokens) * S \in Int
          /\ (window.bytes + Tokens(p)) * S \in Int
          /\ R * (Bursts(p) * S + (cpu[p].now - window.from)) \in Int
      BY <1>1, <1>4, <3>5, Numbers
    <3> QED
      BY <1>5, <2>1, <3>3, <3>6, <3>7 DEF Paid
  <2>2. CASE ~(cpu[p].now >= window.from)
    <3>1. window.bytes = 0
      BY <1>2, <1>4, <2>2 DEF Owes
    <3>2. window'.bytes = 0
      BY <1>1, <2>2, <3>1 DEF Admit, Drop, Window
    <3> QED
      BY <1>1, <1>4, <1>5, <3>2, Numbers, PaidNothing
  <2> QED
    BY <2>1, <2>2
<1>8. Owes(p)'
  BY <1>3, <1>6, <1>7 DEF Owes, At
<1> QED
  BY <1>2, <1>3, <1>5, <1>8, SoleStep

\* The two stores.
LEMMA WriteSlotContract ==
  ASSUME ContractInv, BurstInv', StampInv', ~window.shared, NEW p \in CPU, WriteSlot(p)
  PROVE  ContractInv'
<1>1. TypeOK /\ cpu \in [CPU -> CpuState] /\ cpu[p] \in CpuState /\ Mine(p) \in Elem
  BY Known, MineType DEF TypeOK
<1>2. p \in Busy /\ cpu[p].pc = "writeSlot"
  BY DEF WriteSlot, Busy, At
<1>3. /\ \A q \in CPU \ {p} : cpu'[q] = cpu[q]
      /\ cpu'[p].replaced = cpu[p].replaced /\ cpu'[p].pc = "writeLast"
      /\ cpu'[p].last = cpu[p].last
      /\ clock' = clock /\ window' = window
  BY <1>1 DEF WriteSlot, CpuState
<1>4. Mine(p)' = [Mine(p) EXCEPT !.slot = cpu[p].tokens]
  BY <1>3 DEF WriteSlot, Write, Mine
<1>5. Mine(p)'.slot = cpu[p].tokens
  BY <1>1, <1>4 DEF Elem
<1>6. /\ SlotOf(p)' = SlotOf(p) /\ LastOf(p)' = LastOf(p) /\ Bursts(p)' = Bursts(p)
  BY <1>2, <1>3, <1>5 DEF SlotOf, LastOf, Bursts
<1>7. Paid(window, Bursts(p), SlotOf(p), LastOf(p), clock)
  BY <1>2 DEF ContractInv, Turns, Owes, At
<1>8. Owes(p)'
  BY <1>3, <1>6, <1>7 DEF Owes, At
<1> QED
  BY <1>2, <1>3, <1>8, SoleStep

\* A processor that wrote to the element a Put replaced leaves one burst for the new one.
LEMMA WriteLastContract ==
  ASSUME ContractInv, RatesBounded, BurstInv', StampInv', ~window.shared, NEW p \in CPU,
         WriteLast(p)
  PROVE  ContractInv'
<1>1. /\ TypeOK /\ cpu \in [CPU -> CpuState] /\ cpu[p] \in CpuState /\ elem \in Elem
      /\ window.puts \in Nat
  BY Known, Numbers DEF TypeOK
<1>2. p \in Busy /\ cpu[p].pc = "writeLast" /\ Turns
  BY DEF WriteLast, Busy, At, ContractInv
<1>3. /\ \A q \in CPU \ {p} : cpu'[q] = cpu[q]
      /\ cpu'[p] = IdleCpu /\ clock' = clock /\ window' = window
  BY <1>1 DEF WriteLast
<1>4. Busy' = {} /\ \A q \in CPU : ~cpu'[q].replaced
  <2>1. \A q \in CPU \ {p} : q \notin Busy /\ ~cpu[q].replaced
    BY <1>2 DEF Turns, ContractInv
  <2>2. cpu'[p].pc = "idle" /\ ~cpu'[p].replaced
    BY <1>3 DEF IdleCpu
  <2> QED
    BY <1>3, <2>1, <2>2 DEF Busy, At
<1>5. Paid(window, window.puts + 1, elem'.slot, elem'.last, clock)
  <2>1. CASE cpu[p].replaced
    <3>1. Bursts(p) = window.puts /\ window.puts \in Nat \ {0}
      BY <1>1, <1>2, <2>1 DEF Bursts, Turns
    <3>2. window.bytes * S <= R * (window.puts * S + (clock - window.from))
      BY <1>2, <3>1, LetThrough
    <3>3. (window.puts + 1) - 1 = window.puts
      BY <1>1
    <3> QED
      BY <3>2, <3>3 DEF Paid
  <2>2. CASE ~cpu[p].replaced
    <3>1. elem' = [elem EXCEPT !.last = cpu[p].last] /\ Mine(p) = elem
      BY <2>2 DEF WriteLast, Write, Mine
    <3>2. elem'.slot = SlotOf(p) /\ elem'.last = LastOf(p)
      BY <1>1, <1>2, <3>1 DEF SlotOf, LastOf, Elem
    <3>3. Paid(window, Bursts(p), SlotOf(p), LastOf(p), clock)
      BY <1>2 DEF Turns, Owes, At
    <3> QED
      BY <2>2, <3>2, <3>3 DEF Bursts
  <2> QED
    BY <2>1, <2>2
<1>6. Turns'
  BY <1>2, <1>3, <1>4, <1>5 DEF Turns
<1> QED
  BY <1>4, <1>6 DEF ContractInv

\* A packet finds the bucket as it was left.
LEMMA EnterContract ==
  ASSUME ContractInv, BurstInv', StampInv', ~window.shared, NEW p \in CPU, Enter(p)
  PROVE  ContractInv'
<1>1. TypeOK /\ cpu \in [CPU -> CpuState] /\ cpu[p] \in CpuState /\ window \in Window
  BY Known DEF TypeOK
<1>2. p \notin Busy /\ ~cpu[p].replaced /\ Turns
  BY DEF Enter, Busy, At, ContractInv
<1>3. /\ \A q \in CPU \ {p} : cpu'[q] = cpu[q]
      /\ cpu'[p].pc = "slot" /\ ~cpu'[p].replaced
      /\ elem' = elem /\ old' = old /\ clock' = clock
  BY <1>1, <1>2 DEF Enter, CpuState
<1>4. Busy' = Busy \cup {p}
  BY <1>3 DEF Busy, At
<1>5. \A q \in CPU : cpu'[q].replaced => q \in Busy'
  BY <1>3, <1>4 DEF ContractInv
<1>6. CASE Busy = {}
  <2>1. window' = window /\ Busy' = {p}
    BY <1>4, <1>6 DEF Enter
  <2>2. Paid(window, window.puts + 1, elem.slot, elem.last, clock)
    BY <1>2, <1>6 DEF Turns
  <2>3. /\ SlotOf(p)' = elem.slot /\ LastOf(p)' = elem.last
        /\ Bursts(p)' = window.puts + 1
    BY <1>3, <2>1 DEF SlotOf, LastOf, Bursts, Mine
  <2>4. Owes(p)'
    BY <1>3, <2>1, <2>2, <2>3 DEF Owes, At
  <2>5. Turns'
    BY <1>2, <1>3, <2>1, <2>4 DEF Turns
  <2> QED
    BY <1>5, <2>5 DEF ContractInv
<1>7. CASE Busy # {}
  <2>1. window'.shared
    BY <1>1, <1>7 DEF Enter, Window
  <2> QED
    BY <1>5, <2>1 DEF ContractInv
<1> QED
  BY <1>6, <1>7

\* A Put: what the old element had of a burst counts as the new one's.
LEMMA PutContract ==
  ASSUME ContractInv, RatesBounded, BurstInv', StampInv', ~window.shared,
         NEW bps \in Rates, PutRate(bps)
  PROVE  ContractInv'
<1>1. /\ TypeOK /\ cpu \in [CPU -> CpuState] /\ window \in Window /\ window.puts \in Nat
      /\ Turns /\ \A p \in CPU : ~cpu[p].replaced
  BY Numbers DEF ContractInv, BurstInv, TypeOK, PutRate
<1>2. /\ elem' = Fresh(bps) /\ old' = elem /\ clock' = clock
      /\ window'.puts = window.puts + 1 /\ window'.from = window.from
      /\ window'.bytes = window.bytes
  BY <1>1 DEF PutRate, Window
<1>3. \A p \in CPU : /\ cpu'[p].pc = cpu[p].pc /\ cpu'[p].now = cpu[p].now
                     /\ cpu'[p].tokens = cpu[p].tokens /\ cpu'[p].last = cpu[p].last
                     /\ cpu'[p].replaced = (cpu[p].pc # "idle")
  <2>1. TAKE p \in CPU
  <2>2. cpu[p] \in CpuState /\ ~cpu[p].replaced /\ cpu[p].replaced \in BOOLEAN
    BY <1>1 DEF CpuState
  <2>3. CASE cpu[p].pc = "idle"
    BY <1>1, <2>2, <2>3 DEF PutRate, At
  <2>4. CASE cpu[p].pc # "idle"
    <3>1. cpu'[p] = [cpu[p] EXCEPT !.replaced = TRUE]
      BY <1>1, <2>4 DEF PutRate, At
    <3> QED
      BY <2>2, <2>4, <3>1 DEF CpuState
  <2> QED
    BY <2>3, <2>4
<1>4. Busy' = Busy /\ \A q \in CPU : cpu'[q].replaced => q \in Busy'
  BY <1>3 DEF Busy, At
<1>5. ASSUME NEW p \in Busy PROVE Owes(p)' /\ window'.puts >= 1
  <2>1. p \in CPU /\ cpu[p].pc # "idle" /\ Owes(p) /\ ~cpu[p].replaced
    BY <1>1 DEF Busy, At, Turns
  <2>2. Mine(p)' = Mine(p) /\ Bursts(p)' = Bursts(p)
    BY <1>2, <1>3, <2>1 DEF Mine, Bursts
  <2>3. SlotOf(p)' = SlotOf(p) /\ LastOf(p)' = LastOf(p)
    BY <1>3, <2>1, <2>2 DEF SlotOf, LastOf
  <2>4. Owes(p)'
    BY <1>2, <1>3, <2>1, <2>2, <2>3 DEF Owes, At, Paid
  <2> QED
    BY <1>1, <1>2, <2>4
<1>6. ASSUME Busy = {}
      PROVE  Paid(window', window'.puts + 1, elem'.slot, elem'.last, clock')
  <2>1. window.bytes * S <= R * ((window.puts + 1) * S + (clock - window.from))
    BY <1>1, <1>6, LetThrough
  <2>2. (window'.puts + 1) - 1 = window.puts + 1
    BY <1>1, <1>2
  <2>3. window'.bytes * S <= R * (((window'.puts + 1) - 1) * S + (clock' - window'.from))
    BY <1>2, <2>1, <2>2
  <2> QED
    BY <2>3 DEF Paid
<1>7. Turns'
  BY <1>1, <1>2, <1>4, <1>5, <1>6 DEF Turns
<1> QED
  BY <1>4, <1>7 DEF ContractInv

\* A window that has just been opened has let nothing through.
LEMMA OpenContract ==
  ASSUME ContractInv, RatesBounded, BurstInv', StampInv', OpenWindow
  PROVE  ContractInv'
<1>1. TypeOK /\ TypeOK' /\ \A p, q \in Busy : p = q
  BY DEF ContractInv, BurstInv, OpenWindow
<1>2. /\ elem' = elem /\ old' = old /\ clock' = clock /\ cpu' = cpu
      /\ window' \in Window /\ window'.bytes = 0 /\ window'.from = clock
      /\ window'.puts = IF \E p \in CPU : cpu[p].replaced THEN 1 ELSE 0
  BY <1>1 DEF OpenWindow, TypeOK
<1>3. Busy' = Busy /\ \A q \in CPU : cpu'[q].replaced => q \in Busy'
  BY <1>2 DEF Busy, At, ContractInv
<1>4. ASSUME NEW p \in Busy PROVE Owes(p)' /\ (cpu[p].replaced => window'.puts >= 1)
  <2>1. p \in CPU /\ cpu[p].now <= clock
    BY DEF Busy, ContractInv, StampInv
  <2>2. Bursts(p)' \in Nat \ {0} /\ SlotOf(p)' \in Nat /\ LastOf(p)' \in Nat
    <3>1. Bursts(p)' \in Nat \ {0}
      BY <1>2, <2>1 DEF Bursts
    <3>2. SlotOf(p)' = SlotOf(p) /\ LastOf(p)' = LastOf(p)
      BY <1>2 DEF SlotOf, LastOf, Mine
    <3> QED
      BY <1>1, <2>1, <3>1, <3>2, Numbers
  <2>3. \A t \in Nat : clock <= t =>
          Paid(window', Bursts(p)', SlotOf(p)', LastOf(p)', t)
    BY <1>2, <2>2, PaidNothing
  <2>4. clock \in Nat /\ cpu[p].now \in Nat
    BY <1>1, <2>1, Numbers
  <2>5. Owes(p)'
    BY <1>2, <2>3, <2>4 DEF Owes
  <2> QED
    BY <1>2, <2>1, <2>5
<1>5. Paid(window', window'.puts + 1, elem.slot, elem.last, clock)
  <2>1. window'.puts + 1 \in Nat \ {0}
    BY <1>2
  <2> QED
    BY <1>1, <1>2, <2>1, Numbers, PaidNothing
<1>6. Turns'
  BY <1>1, <1>2, <1>3, <1>4, <1>5, Numbers DEF Turns
<1> QED
  BY <1>3, <1>6 DEF ContractInv

\* Time and changes of a class's rate.
LEMMA EnvironmentContract ==
  ASSUME MaxClock < Word, ContractInv, RatesBounded, BurstInv', StampInv', ~window.shared,
         Tick \/ (\E bps \in Rates : AdjustRate(bps)) \/ UNCHANGED vars
  PROVE  ContractInv'
<1>1. TypeOK /\ Turns /\ elem \in Elem /\ clock \in Nat /\ window \in Window
  BY Numbers DEF ContractInv, BurstInv
<1>2. /\ elem'.slot = elem.slot /\ elem'.last = elem.last /\ old' = old
      /\ cpu' = cpu /\ window' = window
  BY <1>1 DEF Tick, AdjustRate, vars, Elem
<1>3. clock' \in Nat /\ clock <= clock'
  <2>1. CASE Tick
    <3>1. clock + 1 \in 0..(Word - 1)
      BY <1>1, <2>1, BucketAssumption DEF Tick
    <3>2. \A n \in 0..(Word - 1) : n % Word = n
      BY BucketAssumption
    <3>3. clock' = clock + 1
      BY <2>1, <3>1, <3>2 DEF Tick
    <3> QED
      BY <1>1, <3>3
  <2>2. CASE ~Tick
    BY <1>1, <2>2 DEF AdjustRate, vars
  <2> QED
    BY <2>1, <2>2
<1>4. Busy' = Busy /\ \A q \in CPU : cpu'[q].replaced => q \in Busy'
  BY <1>2 DEF Busy, At, ContractInv
<1>5. ASSUME NEW p \in Busy PROVE Owes(p)'
  <2>1. p \in CPU /\ Owes(p) /\ Bursts(p) \in Nat \ {0}
    BY <1>1, BurstsPositive DEF Busy, Turns
  <2>2. Mine(p)'.slot = Mine(p).slot /\ Mine(p)'.last = Mine(p).last
        /\ Bursts(p)' = Bursts(p)
    BY <1>2 DEF Mine, Bursts
  <2>3. SlotOf(p)' = SlotOf(p) /\ LastOf(p)' = LastOf(p)
    BY <1>2, <2>2 DEF SlotOf, LastOf
  <2>4. CASE At(p, "accept")
    BY <1>2, <2>1, <2>2, <2>3, <2>4 DEF Owes, At
  <2>5. CASE ~At(p, "accept")
    <3>1. Paid(window, Bursts(p), SlotOf(p), LastOf(p), clock')
      BY <1>1, <1>3, <2>1, <2>5, Numbers, PaidLater DEF Owes, Turns
    <3> QED
      BY <1>2, <2>2, <2>3, <2>5, <3>1 DEF Owes, At
  <2> QED
    BY <2>4, <2>5
<1>6. Busy = {} => Paid(window, window.puts + 1, elem.slot, elem.last, clock')
  <2>1. window.puts + 1 \in Nat \ {0}
    BY <1>1, Numbers
  <2> QED
    BY <1>1, <1>3, <2>1, Numbers, PaidLater DEF Turns
<1>7. window.from <= clock'
  BY <1>1, <1>3, Numbers DEF Turns
<1>8. Turns'
  BY <1>1, <1>2, <1>4, <1>5, <1>6, <1>7 DEF Turns
<1> QED
  BY <1>4, <1>8 DEF ContractInv

\* Once processors have overlapped the window says no more, until another is opened.
LEMMA SharedContract ==
  ASSUME ContractInv, BurstInv', StampInv', window.shared, [Next]_vars, ~OpenWindow
  PROVE  ContractInv'
<1>1. cpu \in [CPU -> CpuState] /\ window \in Window
  BY DEF ContractInv, BurstInv, TypeOK
<1>2. window'.shared
  BY <1>1 DEF Next, vars, Environment, Tick, PutRate, AdjustRate, CpuStep, Enter, LoadSlot,
     LoadLast, ReadClock, Unlimited, Admit, Drop, WriteSlot, WriteLast, Window
<1>3. ASSUME NEW q \in CPU, cpu'[q].replaced PROVE q \in Busy'
  <2>1. cpu[q] \in CpuState /\ (cpu[q].replaced => cpu[q].pc # "idle")
    BY <1>1 DEF ContractInv, Busy, At
  <2>2. CASE Environment \/ UNCHANGED vars
    <3>1. cpu'[q].pc # "idle"
      BY <1>1, <1>3, <2>1, <2>2
         DEF Environment, Tick, PutRate, AdjustRate, OpenWindow, vars, At, CpuState
    <3> QED
      BY <3>1 DEF Busy, At
  <2>3. ASSUME NEW p \in CPU, Enter(p) \/ CpuStep(p) PROVE cpu'[q].pc # "idle"
    <3>1. CASE q # p
      BY <1>1, <1>3, <2>1, <2>3, <3>1
         DEF CpuStep, Enter, LoadSlot, LoadLast, ReadClock, Unlimited, Admit, Drop,
             WriteSlot, WriteLast
    <3>2. CASE q = p
      BY <1>1, <1>3, <2>1, <2>3, <3>2
         DEF CpuStep, Enter, LoadSlot, LoadLast, ReadClock, Following, Unlimited, Admit,
             Drop, WriteSlot, WriteLast, IdleCpu, CpuState
    <3> QED
      BY <3>1, <3>2
  <2> QED
    BY <2>2, <2>3 DEF Next, Busy, At
<1> QED
  BY <1>2, <1>3 DEF ContractInv

LEMMA ContractStep ==
  ASSUME MaxClock < Word, RatesBounded
  PROVE  ContractInv /\ [Next]_vars => ContractInv'
<1> SUFFICES ASSUME ContractInv, [Next]_vars
             PROVE  ContractInv'
  OBVIOUS
<1>1. BurstInv' /\ StampInv'
  BY BurstStep, StampStep DEF ContractInv
<1>2. CASE OpenWindow
  BY <1>1, <1>2, OpenContract
<1>3. CASE window.shared /\ ~OpenWindow
  BY <1>1, <1>3, SharedContract
<1>4. CASE ~window.shared /\ ~OpenWindow
  <2>1. CASE Tick \/ (\E bps \in Rates : AdjustRate(bps)) \/ UNCHANGED vars
    BY <1>1, <1>4, <2>1, EnvironmentContract
  <2>2. ASSUME NEW bps \in Rates, PutRate(bps) PROVE ContractInv'
    BY <1>1, <1>4, <2>2, PutContract
  <2>3. ASSUME NEW p \in CPU, Enter(p) \/ CpuStep(p) PROVE ContractInv'
    BY <1>1, <1>4, <2>3, EnterContract, LoadContract, UnlimitedContract, AcceptContract,
       WriteSlotContract, WriteLastContract DEF CpuStep
  <2> QED
    BY <1>4, <2>1, <2>2, <2>3 DEF Next, Environment
<1> QED
  BY <1>2, <1>3, <1>4

\* From whatever moment one counts, what the processors let through by turns is at most
\* one burst, the highest rate times the time that has passed, and a burst for every Put.
THEOREM Contract ==
  ASSUME MaxClock < Word, RatesBounded
  PROVE  Spec => []Conforms
<1>1. Init => ContractInv
  BY InitContract
<1>2. ContractInv /\ [Next]_vars => ContractInv'
  BY ContractStep
<1>3. ContractInv => Conforms
  <2> SUFFICES ASSUME ContractInv, ~window.shared
               PROVE  window.bytes * S <= R * ((1 + window.puts) * S + (clock - window.from))
    BY DEF Conforms, R, S
  <2>1. TypeOK /\ Turns /\ window.puts \in Nat
    BY Numbers DEF ContractInv, BurstInv
  <2>2. CASE Busy = {}
    <3>1. 1 + window.puts = window.puts + 1
      BY <2>1
    <3> QED
      BY <2>1, <2>2, <3>1, LetThrough
  <2>3. ASSUME NEW p \in Busy
        PROVE  window.bytes * S <= R * ((1 + window.puts) * S + (clock - window.from))
    <3>1. Bursts(p) \in Nat \ {0} /\ Bursts(p) <= 1 + window.puts
      BY <2>1, BurstsPositive DEF Bursts
    <3>2. window.bytes * S <= R * (Bursts(p) * S + (clock - window.from))
      BY <3>1, LetThrough
    <3>3. /\ R \in Nat /\ S \in Nat /\ window.bytes \in Nat
          /\ clock \in Nat /\ window.from \in Nat /\ clock - window.from \in Nat
      BY <2>1, Highest, SecondType, Numbers DEF Turns
    <3>4. Bursts(p) * S <= (1 + window.puts) * S
      BY <2>1, <3>1, <3>3, Product
    <3>5. /\ Bursts(p) * S + (clock - window.from) \in Nat
          /\ (1 + window.puts) * S + (clock - window.from) \in Nat
          /\ Bursts(p) * S + (clock - window.from) <= (1 + window.puts) * S + (clock - window.from)
      BY <2>1, <3>1, <3>3, <3>4
    <3> DEFINE most == R * (Bursts(p) * S + (clock - window.from))
               allowed == R * ((1 + window.puts) * S + (clock - window.from))
    <3>6. most <= allowed /\ most \in Nat /\ allowed \in Nat /\ window.bytes * S \in Nat
      BY <3>3, <3>5, Product
    <3> QED
      BY <3>2, <3>6
  <2> QED
    BY <2>2, <2>3
<1> QED
  BY <1>1, <1>2, <1>3, PTL DEF Spec

-----------------------------------------------------------------------------
(* What the bucket owes: while the processors take turns drops come to an  *)
(* end, because each of them keeps what was gained.  It takes that the     *)
(* product of a rate and the microseconds passed (line 130 of qos_tc.c)    *)
(* fits a word.                                                            *)


ProductFits == \A r \in Rates : \A us \in 0..(MaxClock \div NsPerUs) : r * us < Word

\* The rate and the length that DropsBounded is about: the least rate that is
\* enforced, and a burst of it has room for the longest packet.
Governs(bps, len) ==
  /\ bps >= Megabyte /\ len <= bps
  /\ \A r \in Rates : r >= Megabyte => bps <= r
  /\ \A l \in Lens : l <= len

\* What a microsecond gains at least.
Share(bps) == bps \div Megabyte

\* The bucket holds a share for each drop.
Kept(bps, len) ==
  /\ window.denied * Share(bps) < len
  /\ \A p \in Busy : IF cpu[p].replaced THEN window.denied = 0
                     ELSE window.denied * Share(bps) <= SlotOf(p)
  /\ Busy = {} => window.denied * Share(bps) <= elem.slot

AllKept == \A bps \in Rates, len \in Lens : Governs(bps, len) => Kept(bps, len)

\* What a processor works with: a packet, and a rate once it has read one.
Given ==
  \A p \in Busy : /\ cpu[p].len \in Lens
                  /\ At(p, "accept") => cpu[p].bps \in Rates

DropInv ==
  /\ ContractInv
  /\ clock <= MaxClock
  /\ Given
  /\ IF window.shared THEN window.denied = 0 ELSE AllKept

LEMMA Amounts ==
  ASSUME NEW bps \in Rates, NEW len \in Lens
  PROVE  bps \in Nat /\ Share(bps) \in Nat /\ len \in Nat /\ len > 0
<1>1. bps \in Nat /\ len \in Nat \ {0} /\ Megabyte \in Nat \ {0}
  BY BucketAssumption
<1>2. Share(bps) \in Nat
  BY <1>1, Truncation DEF Share
<1> QED
  BY <1>1, <1>2

LEMMA Types ==
  ASSUME DropInv
  PROVE  /\ TypeOK /\ cpu \in [CPU -> CpuState] /\ window \in Window
         /\ elem \in Elem /\ old \in Elem /\ window.denied \in Nat
  BY DEF DropInv, ContractInv, BurstInv, TypeOK, Window

\* With nothing denied there is nothing to keep.
LEMMA NothingDenied ==
  ASSUME TypeOK', window'.denied = 0, NEW bps \in Rates, NEW len \in Lens
  PROVE  Kept(bps, len)'
<1>1. window'.denied * Share(bps) = 0 /\ len \in Nat /\ len > 0
  BY Amounts
<1>2. elem'.slot \in Nat /\ elem'.slot >= 0 /\ old'.slot \in Nat /\ cpu' \in [CPU -> CpuState]
  BY DEF TypeOK, Elem
<1>3. ASSUME NEW p \in Busy' PROVE SlotOf(p)' \in Nat /\ 0 <= SlotOf(p)'
  <2>1. p \in CPU /\ cpu'[p].tokens \in Nat
    BY <1>2 DEF Busy, CpuState
  <2> QED
    BY <1>2, <2>1 DEF SlotOf, Mine
<1>4. window'.denied * Share(bps)' = 0
  BY <1>1 DEF Share
<1> QED
  BY <1>1, <1>2, <1>3, <1>4 DEF Kept

LEMMA InitDrop == Init /\ RatesBounded => DropInv
<1> SUFFICES ASSUME Init, RatesBounded PROVE DropInv
  OBVIOUS
<1>1. ContractInv /\ TypeOK
  BY InitContract, TypeInit
<1>2. clock <= MaxClock
  BY BucketAssumption DEF Init, Second
<1>3. Given
  BY DEF Init, IdleCpu, At, Busy, Given
<1>4. AllKept
  <2>1. window.denied = 0 /\ Busy = {} /\ elem.slot = 0
    BY DEF Init, IdleCpu, Fresh, Busy, At
  <2>2. ASSUME NEW bps \in Rates, NEW len \in Lens PROVE Kept(bps, len)
    <3>1. window.denied * Share(bps) = 0 /\ len > 0
      BY <2>1, Amounts
    <3> QED
      BY <2>1, <3>1 DEF Kept
  <2> QED
    BY <2>2 DEF AllKept
<1>5. ~window.shared
  BY DEF Init
<1> QED
  BY <1>1, <1>2, <1>3, <1>4, <1>5 DEF DropInv

-----------------------------------------------------------------------------

LEMMA ClockStep == DropInv /\ [Next]_vars => clock' <= MaxClock
<1> SUFFICES ASSUME DropInv, [Next]_vars
             PROVE  clock' <= MaxClock
  OBVIOUS
<1>1. CASE Tick
  <2>1. clock \in Nat /\ clock < MaxClock /\ clock' = (clock + 1) % Word
    BY <1>1, Types, Numbers DEF Tick
  <2>2. (clock + 1) % Word \in Nat /\ (clock + 1) % Word <= clock + 1
    BY <2>1, SecondType, Truncation
  <2> QED
    BY <2>1, <2>2, BucketAssumption
<1>2. CASE ~Tick
  <2>1. clock' = clock
    BY <1>2 DEF Next, Environment, PutRate, AdjustRate, OpenWindow, vars, CpuStep, Enter,
       LoadSlot, LoadLast, ReadClock, Unlimited, Admit, Drop, WriteSlot, WriteLast
  <2> QED
    BY <2>1 DEF DropInv
<1> QED
  BY <1>1, <1>2

LEMMA GivenStep == DropInv /\ [Next]_vars => Given'
<1> SUFFICES ASSUME DropInv, [Next]_vars, NEW q \in CPU, cpu'[q].pc # "idle"
             PROVE  cpu'[q].len \in Lens /\ (cpu'[q].pc = "accept" => cpu'[q].bps \in Rates)
  BY DEF Given, At, Busy
<1>1. /\ TypeOK /\ cpu \in [CPU -> CpuState] /\ cpu[q] \in CpuState
      /\ cpu[q].pc # "idle" => cpu[q].len \in Lens
      /\ cpu[q].pc = "accept" => cpu[q].bps \in Rates
  BY Types DEF DropInv, Given, At, Busy
<1>2. CASE Environment \/ UNCHANGED vars
  BY <1>1, <1>2 DEF Environment, Tick, PutRate, AdjustRate, OpenWindow, vars, At, CpuState
<1>3. ASSUME NEW p \in CPU, Enter(p) \/ CpuStep(p)
      PROVE  cpu'[q].len \in Lens /\ (cpu'[q].pc = "accept" => cpu'[q].bps \in Rates)
  <2>1. CASE q # p
    BY <1>1, <1>3, <2>1
       DEF CpuStep, Enter, LoadSlot, LoadLast, ReadClock, Unlimited, Admit, Drop,
           WriteSlot, WriteLast
  <2>2. CASE q = p /\ Enter(p)
    BY <1>1, <2>2 DEF Enter, CpuState
  <2>3. CASE q = p /\ ReadClock(p)
    BY <1>1, <2>3, MineType DEF ReadClock, CpuState, At
  <2>4. CASE q = p /\ ~Enter(p) /\ ~ReadClock(p)
    BY <1>1, <1>3, <2>4
       DEF CpuStep, LoadSlot, LoadLast, Following, Unlimited, Admit, Drop,
           WriteSlot, WriteLast, IdleCpu, CpuState, At
  <2> QED
    BY <1>3, <2>1, <2>2, <2>3, <2>4
<1> QED
  BY <1>2, <1>3 DEF Next

-----------------------------------------------------------------------------

\* A step of the processor at work after which it still is.
LEMMA SoleKept ==
  ASSUME DropInv, ~window.shared, NEW p \in Busy, NEW bps \in Rates, NEW len \in Lens,
         \A q \in CPU \ {p} : cpu'[q] = cpu[q], cpu'[p].pc # "idle",
         window'.denied * Share(bps) < len,
         IF cpu'[p].replaced THEN window'.denied = 0
                             ELSE window'.denied * Share(bps) <= SlotOf(p)'
  PROVE  Kept(bps, len)'
<1>1. p \in CPU /\ Busy = {p}
  BY DEF Busy, DropInv, ContractInv, Turns
<1>2. Busy' = {p}
  BY <1>1 DEF Busy, At
<1>3. Share(bps)' = Share(bps)
  BY DEF Share
<1> QED
  BY <1>2, <1>3 DEF Kept

\* Loads, and the store of the tokens, leave what the processor has of the bucket.
LEMMA LoadsKeep ==
  ASSUME DropInv, ~window.shared, NEW p \in CPU, NEW bps \in Rates, NEW len \in Lens,
         Kept(bps, len),
         LoadSlot(p) \/ LoadLast(p) \/ ReadClock(p) \/ Unlimited(p) \/ WriteSlot(p)
  PROVE  Kept(bps, len)'
<1>1. /\ TypeOK /\ cpu \in [CPU -> CpuState] /\ cpu[p] \in CpuState /\ Mine(p) \in Elem
  BY Types, MineType
<1>2. /\ \A q \in CPU \ {p} : cpu'[q] = cpu[q]
      /\ cpu'[p].replaced = cpu[p].replaced /\ cpu'[p].pc # "idle" /\ window' = window
  BY <1>1 DEF LoadSlot, LoadLast, ReadClock, Following, Unlimited, WriteSlot, CpuState
<1>3. p \in Busy
  BY DEF LoadSlot, LoadLast, ReadClock, Unlimited, WriteSlot, Busy, At
<1>4. SlotOf(p)' = SlotOf(p)
  <2>1. CASE LoadSlot(p)
    BY <1>1, <2>1 DEF LoadSlot, Following, CpuState, At, SlotOf
  <2>2. CASE LoadLast(p) \/ ReadClock(p) \/ Unlimited(p)
    BY <1>1, <2>2 DEF LoadLast, ReadClock, Unlimited, Following, CpuState, At, SlotOf
  <2>3. CASE WriteSlot(p)
    <3>1. /\ cpu[p].pc = "writeSlot" /\ cpu'[p].pc = "writeLast"
          /\ Mine(p)' = [Mine(p) EXCEPT !.slot = cpu[p].tokens]
      BY <1>1, <1>2, <2>3 DEF WriteSlot, Write, Mine, At, CpuState
    <3>2. Mine(p)'.slot = cpu[p].tokens
      BY <1>1, <3>1 DEF Elem
    <3> QED
      BY <3>1, <3>2 DEF SlotOf
  <2> QED
    BY <2>1, <2>2, <2>3
<1> QED
  BY <1>2, <1>3, <1>4, SoleKept DEF Kept

\* A drop has gained a share, or no microsecond has passed since the packet before.
LEMMA DropKeeps ==
  ASSUME DropInv, ProductFits, ~window.shared, NEW p \in CPU,
         NEW bps \in Rates, NEW len \in Lens,
         Governs(bps, len), Kept(bps, len), Drop(p)
  PROVE  Kept(bps, len)'
<1>1. /\ TypeOK /\ cpu \in [CPU -> CpuState] /\ cpu[p] \in CpuState /\ window \in Window
      /\ window.denied \in Nat /\ cpu[p].tokens \in Nat /\ cpu[p].len \in Nat
  BY Types DEF CpuState
<1>2. p \in Busy /\ At(p, "accept") /\ Limited(p) /\ ~Fits(p)
  BY DEF Drop, Busy, At
<1>3. /\ \A q \in CPU \ {p} : cpu'[q] = cpu[q]
      /\ cpu'[p].replaced = cpu[p].replaced /\ cpu'[p].pc = "writeSlot"
      /\ cpu'[p].tokens = Tokens(p)
  BY <1>1 DEF Drop, DroppedTokens, CpuState
<1>4. SlotOf(p)' = Tokens(p) /\ Tokens(p) \in Nat /\ Tokens(p) < cpu[p].len
  BY <1>1, <1>2, <1>3, TokensBounds DEF SlotOf, Fits
<1>5. bps \in Nat /\ Share(bps) \in Nat /\ len \in Nat /\ len > 0
  BY Amounts
<1>6. CASE cpu[p].replaced
  <2>1. window.denied = 0
    BY <1>2, <1>6 DEF Kept
  <2>2. window'.denied = 0
    BY <1>1, <1>6, <2>1 DEF Drop, Window
  <2>3. window'.denied * Share(bps) < len
    BY <1>5, <2>2
  <2> QED
    BY <1>2, <1>3, <1>6, <2>2, <2>3, SoleKept
<1>7. CASE ~cpu[p].replaced
  <2>1. window.denied * Share(bps) <= cpu[p].tokens
    BY <1>2, <1>7 DEF Kept, SlotOf, At
  <2>2. window'.denied * Share(bps) <= Tokens(p)
    <3>1. CASE Micros(p) > 0
      <4> DEFINE us == Micros(p)
                 rate == cpu[p].bps
                 gain == ((rate * us) % Word) \div Megabyte
                 tokens == cpu[p].tokens
                 n == window.denied
                 m == window'.denied
                 s == Share(bps)
      <4>1. rate \in Rates /\ rate \in Nat /\ bps <= rate /\ tokens \in Nat /\ n \in Nat
        BY <1>1, <1>2, BucketAssumption DEF DropInv, Given, Limited, Governs
      <4>2. us \in 0..(MaxClock \div NsPerUs) /\ us >= 1
        <5> DEFINE ticks == cpu[p].now - cpu[p].last
        <5>1. /\ cpu[p].now \in Time /\ cpu[p].last \in Time
              /\ cpu[p].last <= cpu[p].now /\ cpu[p].now <= clock /\ clock <= MaxClock
          BY <1>1, <1>2, Known DEF DropInv, CpuState
        <5>2. ticks \in 0..(Word - 1) /\ ticks <= MaxClock /\ MaxClock \in Nat
          BY <1>1, <5>1, Numbers, BucketAssumption DEF Time
        <5> HIDE DEF ticks
        <5>3. ticks % Word = ticks
          BY <5>2, SecondType
        <5>4. us = ticks \div NsPerUs
          BY <5>3 DEF Micros, ticks
        <5>5. ticks \div NsPerUs <= MaxClock \div NsPerUs
          BY <5>2, SecondType
        <5>6. MaxClock \div NsPerUs \in Nat /\ us \in Nat
          BY <1>1, <5>2, SecondType, Truncation, MicrosNat
        <5> QED
          BY <3>1, <5>4, <5>5, <5>6
      <4>3. Tokens(p) = Smaller(rate, tokens + gain)
        BY <3>1 DEF Tokens, Filled
      <4>4. m \in Nat /\ m <= n + 1
        <5>1. m = Smaller(MaxBytes, n + 1)
          BY <1>1, <1>7, <3>1 DEF Drop, Window
        <5> QED
          BY <4>1, <5>1, BucketAssumption DEF Smaller
      <4>5. n * s <= tokens /\ s \in Nat
        BY <1>5, <2>1
      <4>6. Tokens(p) < rate
        BY <1>1, <1>2, <1>4, <1>5, <4>1 DEF DropInv, Given, Governs
      <4> HIDE DEF us, rate, tokens, n, m
      <4>7. gain \in Nat /\ s <= gain
        <5>1. us \in Nat /\ rate * us \in Nat /\ bps <= rate * us
          <6>1. us \in Nat
            BY <4>2
          <6>2. bps * 1 <= rate * us
            BY <1>5, <4>1, <4>2, <6>1, Product
          <6> QED
            BY <1>5, <4>1, <6>1, <6>2
        <5>2. rate * us < Word
          BY <4>1, <4>2 DEF ProductFits
        <5>3. (rate * us) % Word = rate * us
          <6> DEFINE product == rate * us
          <6>1. product \in 0..(Word - 1)
            BY <5>1, <5>2, SecondType
          <6> HIDE DEF product
          <6>2. product % Word = product
            BY <6>1, SecondType
          <6> QED
            BY <6>2 DEF product
        <5>4. (rate * us) \div Megabyte \in Nat
          BY <5>1, SecondType, Truncation
        <5>5. bps \div Megabyte <= (rate * us) \div Megabyte
          <6> DEFINE product == rate * us
          <6>1. product \in Nat /\ bps <= product
            BY <5>1
          <6> HIDE DEF product
          <6>2. bps \div Megabyte <= product \div Megabyte
            BY <1>5, <6>1, SecondType
          <6> QED
            BY <6>2 DEF product
        <5> QED
          BY <5>3, <5>4, <5>5 DEF Share
      <4> HIDE DEF gain, s
      <4>8. m * s <= (n + 1) * s
        BY <4>1, <4>4, <4>5, Product
      <4>9. (n + 1) * s = n * s + s /\ n * s \in Nat /\ m * s \in Nat
        BY <4>1, <4>4, <4>5
      <4>10. m * s <= tokens + gain
        BY <4>1, <4>5, <4>7, <4>8, <4>9
      <4>11. Tokens(p) = tokens + gain
        BY <1>4, <4>1, <4>3, <4>6, <4>7 DEF Smaller
      <4> QED
        BY <4>10, <4>11 DEF m, s
    <3>2. CASE ~(Micros(p) > 0)
      <4>1. Tokens(p) = cpu[p].tokens
        BY <3>2 DEF Tokens, Filled
      <4>2. window'.denied = window.denied
        BY <1>1, <3>2 DEF Drop, Window
      <4> QED
        BY <2>1, <4>1, <4>2
    <3> QED
      BY <3>1, <3>2
  <2>3. window'.denied * Share(bps) < len
    <3>1. window'.denied \in Nat
      BY <1>1, BucketAssumption DEF Drop, Smaller, Window
    <3>2. window'.denied * Share(bps) \in Nat
      BY <1>5, <3>1
    <3>3. cpu[p].len <= len
      BY <1>2 DEF DropInv, Given, Governs
    <3> QED
      BY <1>1, <1>4, <1>5, <2>2, <3>2, <3>3
  <2> QED
    BY <1>2, <1>3, <1>4, <1>7, <2>2, <2>3, SoleKept
<1> QED
  BY <1>6, <1>7

\* The processor's tokens are in the bucket when it has finished.
LEMMA WriteLastKeeps ==
  ASSUME DropInv, ~window.shared, NEW p \in CPU, NEW bps \in Rates, NEW len \in Lens,
         Kept(bps, len), WriteLast(p)
  PROVE  Kept(bps, len)'
<1>1. /\ TypeOK /\ cpu \in [CPU -> CpuState] /\ elem \in Elem /\ elem.slot \in Nat
      /\ window.denied \in Nat
  BY Types, Numbers
<1>2. p \in Busy /\ cpu[p].pc = "writeLast" /\ Busy = {p}
  BY DEF WriteLast, Busy, At, DropInv, ContractInv, Turns
<1>3. /\ \A q \in CPU \ {p} : cpu'[q] = cpu[q]
      /\ cpu'[p].pc = "idle" /\ window' = window
  BY <1>1 DEF WriteLast, IdleCpu
<1>4. Busy' = {}
  BY <1>2, <1>3 DEF Busy, At
<1>5. window.denied * Share(bps) <= elem'.slot
  <2>1. CASE cpu[p].replaced
    <3>1. window.denied = 0 /\ elem' = elem
      BY <1>2, <2>1 DEF Kept, WriteLast, Write
    <3>2. window.denied * Share(bps) = 0
      BY <3>1, Amounts
    <3> QED
      BY <1>1, <3>1, <3>2
  <2>2. CASE ~cpu[p].replaced
    <3>1. elem' = [elem EXCEPT !.last = cpu[p].last] /\ Mine(p) = elem
      BY <2>2 DEF WriteLast, Write, Mine
    <3>2. elem'.slot = SlotOf(p)
      BY <1>1, <1>2, <3>1 DEF SlotOf, Elem
    <3> QED
      BY <1>2, <2>2, <3>2 DEF Kept
  <2> QED
    BY <2>1, <2>2
<1> QED
  BY <1>3, <1>4, <1>5 DEF Kept, Share

\* A packet finds what was kept; the environment does not touch it.
LEMMA EnterKeeps ==
  ASSUME DropInv, ~window.shared, ~window'.shared, NEW p \in CPU,
         NEW bps \in Rates, NEW len \in Lens, Kept(bps, len), Enter(p)
  PROVE  Kept(bps, len)'
<1>1. cpu \in [CPU -> CpuState] /\ cpu[p] \in CpuState /\ window \in Window
  BY Types
<1>2. Busy = {} /\ window' = window
  BY <1>1 DEF Enter, Window
<1>3. ~cpu[p].replaced
  BY <1>2 DEF DropInv, ContractInv
<1>4. /\ \A q \in CPU \ {p} : cpu'[q] = cpu[q]
      /\ cpu'[p].pc = "slot" /\ ~cpu'[p].replaced /\ elem' = elem
  BY <1>1, <1>3 DEF Enter, CpuState
<1>5. Busy' = {p}
  BY <1>2, <1>4 DEF Busy, At
<1>6. SlotOf(p)' = elem.slot
  BY <1>4 DEF SlotOf, Mine
<1> QED
  BY <1>2, <1>4, <1>5, <1>6 DEF Kept, Share

LEMMA EnvironmentKeeps ==
  ASSUME DropInv, NEW bps \in Rates, NEW len \in Lens, Kept(bps, len),
         Tick \/ (\E r \in Rates : AdjustRate(r)) \/ UNCHANGED vars
  PROVE  Kept(bps, len)'
<1>1. elem'.slot = elem.slot /\ old' = old /\ cpu' = cpu /\ window' = window
  BY Types DEF Tick, AdjustRate, vars, Elem
<1>2. Busy' = Busy /\ \A p \in Busy : SlotOf(p)' = SlotOf(p)
  BY <1>1 DEF Busy, At, SlotOf, Mine
<1> QED
  BY <1>1, <1>2 DEF Kept, Share

LEMMA DropStep ==
  ASSUME MaxClock < Word, RatesBounded, ProductFits
  PROVE  DropInv /\ [Next]_vars => DropInv'
<1> SUFFICES ASSUME DropInv, [Next]_vars
             PROVE  DropInv'
  OBVIOUS
<1>1. ContractInv'
  BY ContractStep DEF DropInv
<1>2. clock' <= MaxClock /\ Given'
  BY ClockStep, GivenStep
<1>3. ASSUME ~window'.shared, NEW bps \in Rates, NEW len \in Lens, Governs(bps, len)
      PROVE  Kept(bps, len)'
  <2>1. /\ TypeOK /\ TypeOK' /\ window \in Window
    BY <1>1, Types DEF ContractInv, BurstInv
  <2>2. window'.denied = 0 => Kept(bps, len)'
    BY <2>1, NothingDenied
  <2>3. CASE OpenWindow \/ (\E r \in Rates : PutRate(r)) \/ (\E p \in CPU : Admit(p))
    <3>1. OpenWindow => window'.denied = 0
      BY DEF OpenWindow
    <3>2. ASSUME NEW r \in Rates, PutRate(r) PROVE window'.denied = 0
      BY <2>1, <3>2 DEF PutRate, Window
    <3>3. ASSUME NEW p \in CPU, Admit(p) PROVE window'.denied = 0
      BY <2>1, <3>3 DEF Admit, Window
    <3> QED
      BY <2>2, <2>3, <3>1, <3>2, <3>3
  <2>4. CASE ~(OpenWindow \/ (\E r \in Rates : PutRate(r)) \/ (\E p \in CPU : Admit(p)))
    <3>1. ~window.shared
      BY <1>3, <2>1, <2>4 DEF Next, Environment, vars, Tick, AdjustRate, CpuStep, Enter,
         LoadSlot, LoadLast, ReadClock, Unlimited, Drop, WriteSlot, WriteLast, Window
    <3>2. Kept(bps, len)
      BY <1>3, <3>1 DEF DropInv, AllKept
    <3>3. CASE Tick \/ (\E r \in Rates : AdjustRate(r)) \/ UNCHANGED vars
      BY <3>2, <3>3, EnvironmentKeeps
    <3>4. ASSUME NEW p \in CPU, Enter(p) \/ CpuStep(p), ~Admit(p)
          PROVE  Kept(bps, len)'
      BY <1>3, <3>1, <3>2, <3>4, EnterKeeps, LoadsKeep, DropKeeps, WriteLastKeeps DEF CpuStep
    <3> QED
      BY <2>4, <3>3, <3>4 DEF Next, Environment
  <2> QED
    BY <2>3, <2>4
<1>4. ~window'.shared => AllKept'
  BY <1>3 DEF AllKept, Governs
<1>5. ASSUME window'.shared PROVE window'.denied = 0
  <2>1. window \in Window /\ (window.shared => window.denied = 0)
    BY Types DEF DropInv
  <2>2. CASE Environment \/ UNCHANGED vars
    <3>1. ASSUME NEW r \in Rates, PutRate(r) PROVE window'.denied = 0
      BY <2>1, <3>1 DEF PutRate, Window
    <3>2. ~OpenWindow
      BY <1>5 DEF OpenWindow
    <3>3. ASSUME window' = window PROVE window'.denied = 0
      BY <1>5, <2>1, <3>3
    <3> QED
      BY <2>2, <3>1, <3>2, <3>3 DEF Environment, Tick, AdjustRate, vars
  <2>3. ASSUME NEW p \in CPU, Enter(p) \/ CpuStep(p) PROVE window'.denied = 0
    BY <1>5, <2>1, <2>3 DEF CpuStep, Enter, LoadSlot, LoadLast, ReadClock, Unlimited,
       Admit, Drop, WriteSlot, WriteLast, Window
  <2> QED
    BY <2>2, <2>3 DEF Next
<1> QED
  BY <1>1, <1>2, <1>4, <1>5 DEF DropInv

\* A burst as large as a packet and processors that take turns: drops that come a
\* microsecond or more after the packet before them end when a packet's length is gained,
\* also when a class's rate changes meanwhile.
THEOREM Drops ==
  ASSUME MaxClock < Word, RatesBounded, ProductFits
  PROVE  Spec => []DropsBounded
<1>1. Init => DropInv
  BY InitDrop
<1>2. DropInv /\ [Next]_vars => DropInv'
  BY DropStep
<1>3. DropInv => DropsBounded
  <2> SUFFICES ASSUME DropInv, NEW bps \in Rates, NEW len \in Lens, Governs(bps, len)
               PROVE  window.denied * Share(bps) < len
    BY DEF DropsBounded, Governs, Share
  <2>1. CASE window.shared
    BY <2>1, Amounts DEF DropInv
  <2>2. CASE ~window.shared
    BY <2>2 DEF DropInv, AllKept, Kept
  <2> QED
    BY <2>1, <2>2
<1> QED
  BY <1>1, <1>2, <1>3, PTL DEF Spec

=============================================================================
