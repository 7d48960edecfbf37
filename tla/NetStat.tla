------------------------------ MODULE NetStat ------------------------------
(***************************************************************************)
(* The traffic meter of the dataplane: cal_rate, run by every processor on *)
(* every packet, and get_average_rate, which adjust_rate asks.  They share *)
(* the array terway_net_stat: for each direction N entries (10 in the      *)
(* code), the first one the state of the meter, the others the last rates  *)
(* it measured.  Nothing locks it: what the processors race for, the time  *)
(* stamp and the sum of a meter, is read and written in steps of their own *)
(* once a processor has found the meter running.                           *)
(***************************************************************************)
EXTENDS Integers, FiniteSetsExt

CONSTANTS
  CPU,
  N,          \* entries of one direction
  Lens,       \* packet lengths
  Sample,     \* 100 ms, in ticks
  Stale,      \* 300 ms
  Second,     \* 1 s
  Word,       \* 2^64
  MaxClock,   \* bound on the clock
  MaxBytes    \* bound on the bytes that wait for a sample

ASSUME MeterAssumption ==
  /\ N \in Nat /\ N >= 2
  /\ Lens \subseteq Nat \ {0}
  /\ Sample \in Nat \ {0} /\ Stale \in Nat /\ Second \in Nat
  /\ Sample <= Stale /\ Stale <= Second
  /\ Word \in Nat /\ MaxClock \in Nat /\ MaxBytes \in Nat
  /\ Second <= MaxClock /\ MaxClock + Second <= Word

INGRESS_TRAFFIC == 0
EGRESS_TRAFFIC == 1
Direction == {INGRESS_TRAFFIC, EGRESS_TRAFFIC}

index_shift(d) == d * N

Entries == 0..(2 * N - 1)
Own(d) == index_shift(d)..(index_shift(d) + N - 1)

VARIABLES
  stat,      \* terway_net_stat
  clock,     \* bpf_ktime_get_ns()
  cpu,       \* the locals of cal_rate
  owed,      \* observer: per direction, the bytes that may yet go into a sample
  outdated,  \* observer: processors that hold a sum another one has sampled since
  overtaken  \* observer: processors that another one stamped the meter ahead of

vars == <<stat, clock, cpu, owed, outdated, overtaken>>

IdleCpu == [pc |-> "idle", d |-> 0, len |-> 0, now |-> 0,
            index |-> 0, ts |-> 0, val |-> 0]

At(p, pc) == cpu[p].pc = pc

Meta(p) == index_shift(cpu[p].d)

\* now - t_last, in u64 arithmetic.
Gap(p) == (cpu[p].now - cpu[p].ts) % Word

Total(p) == cpu[p].val + cpu[p].len

Init ==
  /\ stat = [i \in Entries |-> [index |-> 0, ts |-> 0, val |-> 0]]
  /\ clock = Second
  /\ cpu = [p \in CPU |-> IdleCpu]
  /\ owed = [d \in Direction |-> 0]
  /\ outdated = {}
  /\ overtaken = {}

-----------------------------------------------------------------------------
(* What the observers see.                                                 *)

\* Where a processor has yet to read the time stamp, and where it holds the sum.
Entering == {"load"}
Holding == {"init", "sum", "clear"}

Others(p, pcs) == { q \in CPU \ {p} : cpu[q].pc \in pcs /\ cpu[q].d = cpu[p].d }

\* Processor p stamps its meter: those still to read the stamp read a later one
\* than their own.
Overtakes(p) == overtaken' = overtaken \cup Others(p, Entering)

\* What p adds to the bytes that may be sampled: its packet and, if it brings back
\* a sum that is sampled, that sum once more.
Added(p) == cpu[p].len + (IF p \in outdated THEN cpu[p].val ELSE 0)

Return(p) ==
  /\ cpu' = [cpu EXCEPT ![p] = IdleCpu]
  /\ overtaken' = overtaken \ {p}

-----------------------------------------------------------------------------

Tick ==
  /\ clock < MaxClock
  /\ clock' = clock + 1
  /\ UNCHANGED <<stat, cpu, owed, outdated, overtaken>>

\* A packet; the clock is the first thing read.
Enter(p) ==
  /\ At(p, "idle")
  /\ \E d \in Direction, len \in Lens :
       /\ owed[d] + len <= MaxBytes
       /\ cpu' = [cpu EXCEPT ![p].pc = "load", ![p].d = d, ![p].len = len,
                             ![p].now = clock]
  /\ UNCHANGED <<stat, clock, owed, outdated, overtaken>>

\* The index and the time stamp of the last sample.
LoadMeta(p) ==
  /\ At(p, "load")
  /\ cpu' = [cpu EXCEPT ![p].pc = "val", ![p].index = stat[Meta(p)].index,
                        ![p].ts = stat[Meta(p)].ts]
  /\ UNCHANGED <<stat, clock, owed, outdated, overtaken>>

\* The sum; then the meter starts over or goes on.
LoadSum(p) ==
  /\ At(p, "val")
  /\ cpu' = [cpu EXCEPT ![p].pc = IF cpu[p].index % N = 0 THEN "init" ELSE "sum",
                        ![p].val = stat[Meta(p)].val]
  /\ UNCHANGED <<stat, clock, owed, outdated, overtaken>>

\* Mutation: the sample after the last slot goes to slot 0.
IndexKept(p) == cpu[p].index

\* The slot the first sample after a restart goes to: the one after the index
\* that was read, whatever the direction.
AfterRestart(p) == cpu[p].index + 1

\* The index is at a multiple of N: the meter starts over.  The locals keep
\* what was read.
Restart(p) ==
  /\ At(p, "init")
  /\ stat' = [stat EXCEPT ![Meta(p)] =
                [index |-> Meta(p) + 1, ts |-> cpu[p].now, val |-> 0]]
  /\ cpu' = [cpu EXCEPT ![p].pc = "sum", ![p].index = AfterRestart(p)]
  /\ Overtakes(p)
  /\ UNCHANGED <<clock, owed, outdated>>

\* Less than Sample since the last sample: the packet is added up.
Accumulate(p) ==
  /\ At(p, "sum")
  /\ Gap(p) < Sample
  /\ stat' = [stat EXCEPT ![Meta(p)].val = Total(p)]
  /\ owed' = [owed EXCEPT ![cpu[p].d] = @ + Added(p)]
  /\ outdated' = outdated \ {p}
  /\ Return(p)
  /\ UNCHANGED clock

\* Mutation: the time stamp is that of the next sample.
NextStamp(p) == cpu[p].now + Sample

NewStamp(p) == cpu[p].now

\* A sample is due, from now on.
Stamp(p) ==
  /\ At(p, "sum")
  /\ Gap(p) >= Sample
  /\ stat' = [stat EXCEPT ![Meta(p)].ts = NewStamp(p)]
  /\ cpu' = [cpu EXCEPT ![p].pc = "clear"]
  /\ Overtakes(p)
  /\ UNCHANGED <<clock, owed, outdated>>

\* Mutation: the bytes of the last sample are left in the sum.
SumKept(p) == stat[Meta(p)].val

\* What a sample leaves in the sum.
SumAfterSample(p) == 0

\* What is in the sum now, it may be more than what was read, is dropped.  Whoever
\* holds the sum of before holds bytes that are sampled.
Clear(p) ==
  /\ At(p, "clear")
  /\ stat' = [stat EXCEPT ![Meta(p)].val = SumAfterSample(p)]
  /\ owed' = [owed EXCEPT ![cpu[p].d] = @ + Added(p) - Total(p)]
  /\ outdated' = (outdated \ {p}) \cup Others(p, Holding)
  /\ cpu' = [cpu EXCEPT ![p].pc = "store"]
  /\ UNCHANGED <<clock, overtaken>>

\* A rate over more than Stale means nothing and counts as 0.
Rate(p) == IF Gap(p) > Stale THEN 0 ELSE (Total(p) * Second) \div Gap(p)

\* Mutation: an entry is taken to be there.
HasEntryUnchecked(p) == TRUE

\* The array has an entry for the index.
HasEntry(p) == cpu[p].index \in Entries

\* It has none: the sample is lost.
NoSlot(p) ==
  /\ At(p, "store")
  /\ ~HasEntry(p)
  /\ Return(p)
  /\ UNCHANGED <<stat, clock, owed, outdated>>

Store(p) ==
  /\ At(p, "store")
  /\ HasEntry(p)
  /\ stat' = [stat EXCEPT ![cpu[p].index].val = Rate(p),
                          ![cpu[p].index].ts = cpu[p].now]
  /\ cpu' = [cpu EXCEPT ![p] = [IdleCpu EXCEPT !.pc = "move", !.d = cpu[p].d,
                                               !.index = cpu[p].index]]
  /\ UNCHANGED <<clock, owed, outdated, overtaken>>

Move(p) ==
  /\ At(p, "move")
  /\ stat' = [stat EXCEPT ![Meta(p)].index = cpu[p].index + 1]
  /\ Return(p)
  /\ UNCHANGED <<clock, owed, outdated>>

CpuStep(p) ==
  \/ Enter(p) \/ LoadMeta(p) \/ LoadSum(p)
  \/ Restart(p) \/ Accumulate(p) \/ Stamp(p) \/ Clear(p)
  \/ NoSlot(p) \/ Store(p) \/ Move(p)

Next == Tick \/ \E p \in CPU : CpuStep(p)

Spec == Init /\ [][Next]_vars

-----------------------------------------------------------------------------

\* get_average_rate: the first N - 1 entries of a direction, the meter's own
\* among them, as far as they are not older than a second.
Average(d) ==
  LET fresh == { i \in index_shift(d)..(index_shift(d) + N - 2) :
                   (clock - stat[i].ts) % Word < Second }
  IN MapThenSumSet(LAMBDA i : stat[i].val, fresh) \div (N - 1)

-----------------------------------------------------------------------------

Pc == {"idle", "load", "val", "init", "sum",
       "clear", "store", "move"}

\* Every variable has its type; the index of a meter stays within the array,
\* one past its end at most.
TypeOK ==
  /\ stat \in [Entries -> [index : 0..(2 * N), ts : 0..MaxClock, val : Nat]]
  /\ clock \in 0..MaxClock
  /\ cpu \in [CPU -> [pc : Pc, d : Direction, len : Nat, now : 0..MaxClock,
                      index : Nat, ts : 0..MaxClock, val : Nat]]
  /\ owed \in [Direction -> Nat]
  /\ outdated \subseteq CPU
  /\ overtaken \subseteq CPU

\* A sample is never written over the state of a meter, of either direction,
\* however the index runs through the array and from one direction's entries
\* into the other's.
MetersSpared ==
  \A p \in CPU : At(p, "store") => cpu[p].index % N # 0

\* Whatever the processors interleave, a byte goes into two samples only through a
\* processor that read the sum, saw another one sample it, and then wrote it back or
\* sampled it itself (lines 55, 72 and 78 of qos_tc.c).  Nothing else makes the
\* sum more than what is owed: no race of two packets that are added up, no restart
\* of the meter, no sample that is lost.
NoDoubleCount ==
  \A d \in Direction : stat[index_shift(d)].val <= owed[d]

\* The time since the last sample wraps only for a packet that another processor
\* overtook between the reads of the clock and of the time stamp, whatever the
\* processors stored before (lines 38, 54 and 71 of qos_tc.c).
WrapsOvertaken ==
  \A p \in CPU : At(p, "sum") /\ cpu[p].ts > cpu[p].now => p \in overtaken

\* The last sample is never from the future: the subtraction of time stamps
\* does not wrap (the comment on line 70 of qos_tc.c).
ElapsedValid ==
  \A p \in CPU : At(p, "sum") => cpu[p].ts <= cpu[p].now

\* A meter keeps its samples in its own direction's entries (index_shift; the
\* comments on lines 16 and 47 of qos_tc.c).
OwnEntries ==
  \A p \in CPU : At(p, "move") => cpu[p].index \in Own(cpu[p].d)

=============================================================================
