----------------------------- MODULE AdjustRate -----------------------------
(***************************************************************************)
(* The rate controller of the dataplane: adjust_rate of bpf/qos_tc.c, run  *)
(* by every CPU on behalf of each packet the rate limiter let pass, on the *)
(* shared entries global_rate_map[direction] (read and written, no lock)   *)
(* and terway_global_cfg[direction] (written by the daemon with a map Put, *)
(* which copies the value while the dataplane may be reading it).          *)
(*                                                                         *)
(* One direction is modelled, the other is an identical, independent copy. *)
(* A configuration is in bytes per second, of which adjust_rate reads      *)
(* whole MEGABYTEs, the unit of all its locals: less than one is read as   *)
(* 0.  The entry's rates and the average are counted in MEGABYTEs, which   *)
(* loses nothing of the rates: they start at 0 and are only ever written   *)
(* as x * MEGABYTE.  A rate of 0 is what accept() lets through without a   *)
(* limit.                                                                  *)
(*                                                                         *)
(* A priority class is a number, 0 the most important: L0, L1, L2.  The    *)
(* upper bound of L0 is the host bandwidth.                                *)
(***************************************************************************)
EXTENDS Integers

CONSTANTS
  CPU,        \* the processors that run the program
  Confs,      \* the configurations the daemon may write, in bytes
  BootConfs,  \* what the configuration entry may hold when the model starts
  Loads,      \* the averages that may be measured, in MEGABYTEs
  MEGABYTE,   \* in bytes
  Second,     \* NSEC_PER_SEC, in ticks of the clock
  Word,       \* 2^64: clock values and their differences are modulo Word
  MaxClock    \* bound on the clock; no bound when it is Word

Class == 0..2

Conf == [min : [Class -> Nat], max : [Class -> Nat]]

\* Default and Validate accept a configuration that is zero in every field,
\* which is also what a fresh array map holds.
ZeroConf == [min |-> [k \in Class |-> 0], max |-> [k \in Class |-> 0]]

Configs == Confs \cup BootConfs

ASSUME ConfsAssumption ==
  /\ Confs \subseteq Conf
  /\ BootConfs \subseteq Confs \cup {ZeroConf}
  /\ \A c \in Confs : \A k \in Class : c.min[k] <= c.max[k]

ASSUME BoundsAssumption ==
  /\ Loads \subseteq Nat
  /\ MEGABYTE \in Nat \ {0}
  /\ Second \in Nat \ {0}
  /\ Word \in Nat
  /\ 2 * Second < Word
  /\ MaxClock \in Second..Word

\* A configuration as adjust_rate reads it (lines 305-310).
InMegabytes(c) == [min |-> [k \in Class |-> c.min[k] \div MEGABYTE],
                   max |-> [k \in Class |-> c.max[k] \div MEGABYTE]]

Known == {InMegabytes(c) : c \in Configs}

Time == 0..(Word - 1)

Elapsed(from, to) == (to - from) % Word    \* u64 subtraction

-----------------------------------------------------------------------------

VARIABLES
  cfg,       \* terway_global_cfg[direction]
  incoming,  \* the value a Put is copying over cfg; cfg when there is none
  rate,      \* l0_bps, l1_bps, l2_bps of global_rate_map[direction]
  tLast,     \* t_last of global_rate_map[direction]
  clock,     \* bpf_ktime_get_ns()
  load,      \* what get_average_rate returns
  cpu        \* the locals of adjust_rate, per processor

vars == <<cfg, incoming, rate, tLast, clock, load, cpu>>

Pc == {"idle", "config", "rates", "last", "check", "stamp", "measure",
       "suppress", "recover"}

IdleCpu == [pc |-> "idle", now |-> 0, last |-> 0, conf |-> ZeroConf,
            cur |-> [k \in Class |-> 0], avg |-> 0, overflow |-> 0, class |-> 0]

At(p, pc) == cpu[p].pc = pc

Return(p) == cpu' = [cpu EXCEPT ![p] = IdleCpu]

\* The entry of global_rate_map is an array element: it exists from the start,
\* zeroed, and the code that would create it never runs.
Init ==
  /\ cfg \in BootConfs
  /\ incoming = cfg
  /\ rate = [k \in Class |-> 0]
  /\ tLast = 0
  /\ clock = Second
  /\ load \in Loads
  /\ cpu = [p \in CPU |-> IdleCpu]

-----------------------------------------------------------------------------
(* The environment: time, the measured traffic, the daemon.                *)

\* Time passes.  The guard says that fewer than Word ticks (584 years) pass
\* between two adjustments.
Tick ==
  /\ clock < MaxClock
  /\ Elapsed(tLast, clock + 1) # 0
  /\ clock' = (clock + 1) % Word
  /\ UNCHANGED <<cfg, incoming, rate, tLast, load, cpu>>

Measured ==
  /\ load' \in Loads \ {load}
  /\ UNCHANGED <<cfg, incoming, rate, tLast, clock, cpu>>

\* updateIfNotEqual writes only what differs from the entry.
PutStart ==
  /\ incoming = cfg
  /\ incoming' \in Confs \ {cfg}
  /\ UNCHANGED <<cfg, rate, tLast, clock, load, cpu>>

PutDone ==
  /\ incoming # cfg
  /\ cfg' = incoming
  /\ UNCHANGED <<incoming, rate, tLast, clock, load, cpu>>

-----------------------------------------------------------------------------
(* The arithmetic of the two cascades, for one class.                      *)

Minus(a, b) == IF a > b THEN a - b ELSE 0
Larger(a, b) == IF a > b THEN a ELSE b
Smaller(a, b) == IF a < b THEN a ELSE b

\* Mutation: the comparison with the room above the minimum is forgotten.
SuppressedUnguarded(cur, min, overflow) ==
  IF cur > min THEN cur - overflow ELSE min

\* Mutation: the floor at the minimum is dropped.
SuppressedFloorless(cur, min, overflow) == Minus(cur, overflow)

\* The rate a class is cut to when the classes below it left `overflow'
\* to absorb.
Suppressed(cur, min, overflow) == Larger(min, Minus(cur, overflow))

\* Mutation: the next class is charged with the whole excess again.
OverflowKeptAfterSuppress(cur, min, overflow) == overflow

\* Mutation: what a class cannot absorb is not handed on.
OverflowLostAfterSuppress(cur, min, overflow) == 0

OverflowAfterSuppress(cur, min, overflow) ==
  Minus(overflow, Minus(cur, min))

\* Mutation: no comparison with the class's maximum.
RecoveredUncapped(cur, max, overflow) == cur + overflow

\* The rate a class is raised to when the classes above it left `overflow'
\* to use.
Recovered(cur, max, overflow) == Smaller(max, cur + overflow)

\* Mutation: the next class is given the whole spare bandwidth again.
OverflowKeptAfterRecover(cur, max, overflow) == overflow

\* Mutation: what a class cannot use is not handed on.
OverflowLostAfterRecover(cur, max, overflow) == 0

OverflowAfterRecover(cur, max, overflow) ==
  Minus(overflow, Minus(max, cur))

-----------------------------------------------------------------------------
(* adjust_rate on processor p, one action per access to shared memory.  A  *)
(* local that is not read again is reset, but for what the properties look *)
(* back at (avg and cur), and all of them on return.                       *)

\* A packet passed its rate limit; `now' is read before anything else.
Enter(p) ==
  /\ At(p, "idle")
  /\ cpu' = [cpu EXCEPT ![p].pc = "config", ![p].now = clock]
  /\ UNCHANGED <<cfg, incoming, rate, tLast, clock, load>>

\* Every field is the old or the new one while a Put copies the value.
Torn(old, new) == { f \in [Class -> {old[k] : k \in Class} \cup {new[k] : k \in Class}] :
                      \A k \in Class : f[k] \in {old[k], new[k]} }

LoadConfig(p) ==
  /\ At(p, "config")
  /\ LET old == InMegabytes(cfg)
         new == InMegabytes(incoming)
     IN  \E min \in Torn(old.min, new.min), max \in Torn(old.max, new.max) :
           cpu' = [cpu EXCEPT ![p].pc = "rates", ![p].class = 0,
                              ![p].conf = [min |-> min, max |-> max]]
  /\ UNCHANGED <<cfg, incoming, rate, tLast, clock, load>>

LoadRate(p) ==
  /\ At(p, "rates")
  /\ LET k == cpu[p].class IN
       cpu' = [cpu EXCEPT ![p].cur[k] = rate[k],
                          ![p].pc = IF k = 2 THEN "last" ELSE "rates",
                          ![p].class = IF k = 2 THEN 0 ELSE k + 1]
  /\ UNCHANGED <<cfg, incoming, rate, tLast, clock, load>>

LoadLast(p) ==
  /\ At(p, "last")
  /\ cpu' = [cpu EXCEPT ![p].pc = "check", ![p].last = tLast]
  /\ UNCHANGED <<cfg, incoming, rate, tLast, clock, load>>

Due(p) == Elapsed(cpu[p].last, cpu[p].now) >= Second

TooSoon(p) ==
  /\ At(p, "check")
  /\ ~Due(p)
  /\ Return(p)
  /\ UNCHANGED <<cfg, incoming, rate, tLast, clock, load>>

Proceed(p) ==
  /\ At(p, "check")
  /\ Due(p)
  /\ cpu' = [cpu EXCEPT ![p].pc = "stamp", ![p].last = 0]
  /\ UNCHANGED <<cfg, incoming, rate, tLast, clock, load>>

Stamp(p) ==
  /\ At(p, "stamp")
  /\ tLast' = cpu[p].now
  /\ cpu' = [cpu EXCEPT ![p].pc = "measure", ![p].now = 0]
  /\ UNCHANGED <<cfg, incoming, rate, clock, load>>

Hw(p) == cpu[p].conf.max[0]

Contended(p) ==
  /\ At(p, "measure")
  /\ load > Hw(p)
  /\ cpu' = [cpu EXCEPT ![p].pc = "suppress", ![p].class = 2, ![p].avg = load,
                        ![p].overflow = load - Hw(p)]
  /\ UNCHANGED <<cfg, incoming, rate, tLast, clock, load>>

Spare(p) ==
  /\ At(p, "measure")
  /\ load < Hw(p)
  /\ cpu' = [cpu EXCEPT ![p].pc = "recover", ![p].class = 0, ![p].avg = load,
                        ![p].overflow = Hw(p) - load]
  /\ UNCHANGED <<cfg, incoming, rate, tLast, clock, load>>

Balanced(p) ==
  /\ At(p, "measure")
  /\ load = Hw(p)
  /\ Return(p)
  /\ UNCHANGED <<cfg, incoming, rate, tLast, clock, load>>

\* L2 is always written, L1 and L0 only while some overflow is left.
Suppress(p) ==
  LET k == cpu[p].class
      cur == cpu[p].cur[k]
      min == cpu[p].conf.min[k]
      left == OverflowAfterSuppress(cur, min, cpu[p].overflow)
  IN /\ At(p, "suppress")
     /\ rate' = [rate EXCEPT ![k] = Suppressed(cur, min, cpu[p].overflow)]
     /\ IF left > 0 /\ k > 0
          THEN cpu' = [cpu EXCEPT ![p].class = k - 1, ![p].overflow = left]
          ELSE Return(p)
     /\ UNCHANGED <<cfg, incoming, tLast, clock, load>>

\* L0 is always written, L1 and L2 only while some spare bandwidth is left.
Recover(p) ==
  LET k == cpu[p].class
      cur == cpu[p].cur[k]
      max == cpu[p].conf.max[k]
      left == OverflowAfterRecover(cur, max, cpu[p].overflow)
  IN /\ At(p, "recover")
     /\ rate' = [rate EXCEPT ![k] = Recovered(cur, max, cpu[p].overflow)]
     /\ IF left > 0 /\ k < 2
          THEN cpu' = [cpu EXCEPT ![p].class = k + 1, ![p].overflow = left]
          ELSE Return(p)
     /\ UNCHANGED <<cfg, incoming, tLast, clock, load>>

-----------------------------------------------------------------------------

CpuStep(p) ==
  \/ LoadConfig(p)
  \/ LoadRate(p)
  \/ LoadLast(p)
  \/ TooSoon(p)
  \/ Proceed(p)
  \/ Stamp(p)
  \/ Contended(p)
  \/ Spare(p)
  \/ Balanced(p)
  \/ Suppress(p)
  \/ Recover(p)

Environment == Tick \/ Measured \/ PutStart \/ PutDone

Next == Environment \/ \E p \in CPU : Enter(p) \/ CpuStep(p)

Spec == Init /\ [][Next]_vars

\* The program runs to completion once it is entered, time passes, and some
\* packet always gets through to it.  Nothing is assumed of the traffic or of
\* the daemon.
Fairness ==
  /\ WF_vars(Tick)
  /\ \A p \in CPU : WF_vars(Enter(p)) /\ WF_vars(CpuStep(p))

FairSpec == Spec /\ Fairness

-----------------------------------------------------------------------------
(* What is checked.                                                        *)

CpuState == [pc : Pc, now : Time, last : Time, conf : Conf,
             cur : [Class -> Nat], avg : Nat, overflow : Nat, class : Class]

\* Every variable has its type; in particular no subtraction of the cascades
\* (lines 323-410 of qos_tc.c) goes below zero, which in a u64 would be a
\* rate of about 2^64.
TypeOK ==
  /\ cfg \in Configs
  /\ incoming \in Configs
  /\ rate \in [Class -> Nat]
  /\ tLast \in Time
  /\ clock \in Time
  /\ load \in Nat
  /\ cpu \in [CPU -> CpuState]

\* Whatever the processors interleave, however many configurations the daemon
\* wrote and however a read of one was torn by a Put, no class is given more
\* than the maximum some configuration allows it.
RateCapped == \A k \in Class : \E c \in Known : rate[k] <= c.max[k]

\* A class loses its limit only when some configuration has no minimum for it, or
\* less than a MEGABYTE: otherwise no adjustment takes its rate back to 0, which
\* accept() reads as "no limit", however the processors interleave and whatever the
\* other classes are given.  (README.md:33, the upper limits of L1 and L2 hold under
\* any circumstances.)
StaysLimited ==
  [][\A k \in Class : rate[k] > 0 /\ rate'[k] = 0 => \E c \in Known : c.min[k] = 0]_vars

\* A class that has a limit keeps one, whatever its minimum.
NeverUnlimited == [][\A k \in Class : rate[k] > 0 => rate'[k] > 0]_vars

\* Two adjustments are at least a second apart, also when the clock wraps in
\* between (lines 316-319).
AdjustmentsSpaced == [][tLast' # tLast => Elapsed(tLast, tLast') >= Second]_vars

\* An adjustment made in contention leaves every class at or above its minimum
\* (README.md:34).
ContentionKeepsMinimum ==
  [][\A p \in CPU :
       At(p, "suppress") /\ cpu'[p].pc = "idle"
         => \A k \in Class : rate'[k] >= cpu[p].conf.min[k]]_vars

\* What the classes have above their minima and below their maxima, together.
Above(r, min) == Minus(r[0], min[0]) + Minus(r[1], min[1]) + Minus(r[2], min[2])
Below(r, max) == Minus(max[0], r[0]) + Minus(max[1], r[1]) + Minus(max[2], r[2])

\* An adjustment in contention takes from the classes together exactly what the
\* average was above the host bandwidth, or all they have above their minima: no
\* share is charged to two classes and none is lost from one to the next, also
\* when the average changes meanwhile (lines 323-367).
ExcessTaken ==
  [][\A p \in CPU :
       At(p, "suppress") /\ cpu'[p].pc = "idle"
         => LET min == cpu[p].conf.min
            IN Above(rate', min) = Minus(Above(cpu[p].cur, min), cpu[p].avg - Hw(p))]_vars

\* An adjustment with bandwidth to spare gives the classes together exactly that,
\* or all they lack to their maxima (lines 368-410).
SpareGiven ==
  [][\A p \in CPU :
       At(p, "recover") /\ cpu'[p].pc = "idle"
         => LET max == cpu[p].conf.max
            IN Below(rate', max) = Minus(Below(cpu[p].cur, max), Hw(p) - cpu[p].avg)]_vars

\* Once the first adjustment has been made L1 and L2 have a limit
\* (README.md:33).
LimitedOnceAdjusted ==
  tLast # 0 /\ (\A p \in CPU : At(p, "idle")) => rate[1] > 0 /\ rate[2] > 0

\* A host that stays in contention ends with every class at its minimum, one
\* that always has bandwidth to spare with every class at its maximum: the
\* cascade hands what one class cannot absorb to the next (README.md:35).
ContentionReachesMinima ==
  <>[](load > InMegabytes(cfg).max[0]) => <>[](rate = InMegabytes(cfg).min)

SpareReachesMaxima ==
  <>[](load < InMegabytes(cfg).max[0]) => <>[](rate = InMegabytes(cfg).max)

\* When the daemon has written a configuration and writes no other, L1 and L2
\* come under its upper limits (README.md:33).
NewCapTakesEffect ==
  \A c \in Confs :
    <>[](cfg = c /\ incoming = c)
      => []<>(\A k \in 1..2 : rate[k] <= InMegabytes(c).max[k])

-----------------------------------------------------------------------------
(* One processor under one configuration carries out the policy of the     *)
(* README.                                                                 *)

TheConf == InMegabytes(CHOOSE c \in Confs : TRUE)

Policy == INSTANCE PriorityPolicy WITH Min <- TheConf.min, Max <- TheConf.max

ImplementsPolicy == Policy!Spec

\* L2 has more than its minimum only while L1 has its maximum, and either only
\* while L0 has the whole host bandwidth: true between any two writes of an
\* adjustment, not only after it.
PriorityOrder == Policy!PriorityOrder

=============================================================================
