-------------------------------- MODULE Edt ---------------------------------
(***************************************************************************)
(* Earliest departure time: edt and global_edt of bpf/qos_tc.c, compiled   *)
(* with FEAT_EDT for the egress direction in place of the token buckets.   *)
(* Nothing is dropped to slow a sender down: a packet is stamped with the  *)
(* time at which it may leave, and dropped only when that is too far away. *)
(*                                                                         *)
(* A shaper is a t_last with a rate: the element of cgroup_rate_map of a   *)
(* pod with a limit, then the fields of the packet's class in              *)
(* global_rate_map.  A packet goes through both on one processor; other    *)
(* processors use the same shapers with no lock.  The clock does not go    *)
(* round (584 years).                                                      *)
(***************************************************************************)
EXTENDS Integers

CONSTANTS
  CPU,
  Pods,      \* pods with an entry in pod_map
  NoPod,     \* stands for the pod of any other packet
  Elements,  \* elements of cgroup_rate_map, present and future
  Classes,   \* the priorities with a rate of their own: PRIO_ONLINE, ...
  NoClass,   \* stands for any other priority
  Rates,     \* the rates a shaper may be given
  Lens,      \* packet lengths
  Ahead,     \* how far ahead of the clock a packet may be stamped on arrival
  Second,    \* NSEC_PER_SEC, in ticks
  Horizon,   \* T_HORIZON_DROP, in ticks
  MaxClock   \* bound on the clock

Shaper == Elements \cup Classes

ASSUME EdtAssumption ==
  /\ NoPod \notin Pods /\ NoClass \notin Shaper
  /\ Elements \cap Classes = {}
  /\ Rates \subseteq Nat
  /\ Lens \subseteq Nat \ {0}
  /\ Second \in Nat \ {0} /\ Horizon \in Nat \ {0}
  /\ Ahead \subseteq Nat
  /\ MaxClock \in Nat

VARIABLES
  elem,   \* the element of each pod
  unused, \* elements that no Put has made yet
  last,   \* t_last of each shaper
  rate,   \* its rate
  clock,  \* bpf_ktime_get_ns()
  cpu,    \* the packet and the locals of edt and global_edt, per processor
  tail,   \* an observer: the last departure scheduled by a shaper, or 0 when a
          \* processor has overwritten what another had scheduled
  brought \* an observer: the stamps that packets of each shaper arrived with, those
          \* still a horizon or more ahead of the clock

vars == <<elem, unused, last, rate, clock, cpu, tail, brought>>

\* lost: another processor has written the shaper since it was loaded.
IdleCpu == [pc |-> "idle", at |-> NoClass, class |-> NoClass, len |-> 0, stamp |-> 0,
            now |-> 0, delay |-> 0, next |-> 0, lost |-> FALSE]

At(c, pc) == cpu[c].pc = pc

\* The elements that the daemon Put have no time stamp.
Init ==
  /\ elem \in [Pods -> Elements]
  /\ \A p, q \in Pods : elem[p] = elem[q] => p = q
  /\ unused = Elements \ {elem[p] : p \in Pods}
  /\ last = [s \in Shaper |-> 0]
  /\ rate \in [Shaper -> Rates]
  /\ clock = 0
  /\ cpu = [c \in CPU |-> IdleCpu]
  /\ tail = [s \in Shaper |-> 0]
  /\ brought = [s \in Shaper |-> {}]

-----------------------------------------------------------------------------
(* Time, the daemon and adjust_rate.                                       *)

Tick ==
  /\ clock < MaxClock
  /\ clock' = clock + 1
  /\ brought' = [s \in Shaper |-> {x \in brought[s] : x >= clock' + Horizon}]
  /\ UNCHANGED <<elem, unused, last, rate, cpu, tail>>

\* The daemon Puts another rate: a new element takes the place of the old one, and
\* a processor that looked the old one up goes on with it.
PutRate(pod, e) ==
  /\ e \in unused
  /\ rate[e] # rate[elem[pod]]
  /\ elem' = [elem EXCEPT ![pod] = e]
  /\ unused' = unused \ {e}
  /\ UNCHANGED <<last, rate, clock, cpu, tail, brought>>

AdjustRate(class, bps) ==
  /\ bps # rate[class]
  /\ rate' = [rate EXCEPT ![class] = bps]
  /\ UNCHANGED <<elem, unused, last, clock, cpu, tail, brought>>

-----------------------------------------------------------------------------

\* The packet is handed to a shaper, or leaves.
ToShaper(l, s) == [l EXCEPT !.pc = "clock", !.at = s, !.now = 0, !.delay = 0,
                            !.next = 0, !.lost = FALSE]

\* Mutation: the last class taken for all the rest.
ToClassAny(l) == ToShaper(l, l.class)

ToClass(l) == IF l.class \in Classes THEN ToShaper(l, l.class) ELSE IdleCpu

\* The shapers that a packet meets from here on.
Route(l) == {l.at, l.class} \cap Shaper

\* A packet, stamped perhaps by its sender: with any time, which nobody checks.  The
\* element of its pod is asked only when it has a rate (line 496).
Enter(c) ==
  /\ At(c, "idle")
  /\ \E pod \in Pods \cup {NoPod}, class \in Classes \cup {NoClass}, len \in Lens,
        stamp \in {0} \cup {clock + a : a \in Ahead} :
       LET l == [IdleCpu EXCEPT !.class = class, !.len = len, !.stamp = stamp]
           m == IF pod \in Pods /\ rate[elem[pod]] > 0 THEN ToShaper(l, elem[pod])
                ELSE ToClass(l)
       IN  /\ cpu' = [cpu EXCEPT ![c] = m]
           /\ brought' = [s \in Shaper |->
                brought[s] \cup {x \in {stamp} : s \in Route(m) /\ x >= clock + Horizon}]
  /\ UNCHANGED <<elem, unused, last, rate, clock, tail>>

ReadClock(c) ==
  /\ At(c, "clock")
  /\ cpu' = [cpu EXCEPT ![c].pc = "load", ![c].now = clock]
  /\ UNCHANGED <<elem, unused, last, rate, clock, tail, brought>>

\* A division by 0 yields 0 in BPF: a class without a rate adds no delay.
Delay(len, bps) == IF bps = 0 THEN 0 ELSE (len * Second) \div bps

\* The rate is loaded just before t_last: nothing but a change of the rate could
\* come between the two, and it does not touch t_last.
Load(c) ==
  /\ At(c, "load")
  /\ LET s == cpu[c].at
         delay == Delay(cpu[c].len, rate[s])
     IN  cpu' = [cpu EXCEPT ![c].pc = "write", ![c].delay = delay,
                            ![c].next = last[s] + delay]
  /\ UNCHANGED <<elem, unused, last, rate, clock, tail, brought>>

\* When the packet could leave if the shaper were idle.
Earliest(c) == IF cpu[c].stamp < cpu[c].now THEN cpu[c].now ELSE cpu[c].stamp

\* The class's shaper, after the pod's; then the packet is on its way.
Onward(l) == IF l.at \in Classes THEN IdleCpu ELSE ToClass(l)

\* Processor c leaves `departure' in its shaper for the packets to come.
Schedule(c, departure) ==
  LET s == cpu[c].at
  IN  /\ last' = [last EXCEPT ![s] = departure]
      /\ tail' = [tail EXCEPT ![s] = IF cpu[c].lost THEN 0 ELSE departure]

\* Processor c goes on with packet l; others that have loaded the shaper lose what
\* it has scheduled.
Leave(c, l) ==
  cpu' = [d \in CPU |->
            IF d = c THEN Onward(l)
            ELSE IF At(d, "write") /\ cpu[d].at = cpu[c].at
                   THEN [cpu[d] EXCEPT !.lost = TRUE]
            ELSE cpu[d]]

\* Mutation: the clock, not the time the packet leaves, becomes t_last.
EarlyDepartureNow(c) == cpu[c].now

EarlyDeparture(c) == Earliest(c)

\* The shaper is idle: the packet leaves as it is stamped.
Early(c) ==
  /\ At(c, "write")
  /\ cpu[c].next <= Earliest(c)
  /\ Schedule(c, EarlyDeparture(c))
  /\ Leave(c, cpu[c])
  /\ UNCHANGED <<elem, unused, rate, clock, brought>>

\* Mutation: how far ahead of the packet's own time, not of the clock.
TooFarFromStamp(c) == cpu[c].next - Earliest(c) >= Horizon

TooFar(c) == cpu[c].next - cpu[c].now >= Horizon

Drop(c) ==
  /\ At(c, "write")
  /\ cpu[c].next > Earliest(c)
  /\ TooFar(c)
  /\ cpu' = [cpu EXCEPT ![c] = IdleCpu]
  /\ UNCHANGED <<elem, unused, last, rate, clock, tail, brought>>

Delayed(c) ==
  /\ At(c, "write")
  /\ cpu[c].next > Earliest(c)
  /\ ~TooFar(c)
  /\ Schedule(c, cpu[c].next)
  /\ Leave(c, [cpu[c] EXCEPT !.stamp = cpu[c].next])
  /\ UNCHANGED <<elem, unused, rate, clock, brought>>

-----------------------------------------------------------------------------

CpuStep(c) == ReadClock(c) \/ Load(c) \/ Early(c) \/ Drop(c) \/ Delayed(c)

Environment ==
  \/ Tick
  \/ \E pod \in Pods, e \in Elements : PutRate(pod, e)
  \/ \E class \in Classes, bps \in Rates : AdjustRate(class, bps)

Next == Environment \/ \E c \in CPU : Enter(c) \/ CpuStep(c)

Spec == Init /\ [][Next]_vars

-----------------------------------------------------------------------------

CpuState == [pc : {"idle", "clock", "load", "write"}, at : Shaper \cup {NoClass},
             class : Classes \cup {NoClass}, len : Nat, stamp : Nat, now : Nat,
             delay : Nat, next : Nat, lost : BOOLEAN]

\* Every variable has its type, and a packet that is held up is at a shaper.
TypeOK ==
  /\ elem \in [Pods -> Elements]
  /\ unused \subseteq Elements
  /\ last \in [Shaper -> Nat]
  /\ rate \in [Shaper -> Rates]
  /\ clock \in Nat
  /\ cpu \in [CPU -> CpuState]
  /\ \A c \in CPU : At(c, "idle") <=> cpu[c].at = NoClass
  /\ tail \in [Shaper -> Nat]
  /\ brought \in [Shaper -> SUBSET Nat]

\* A time that shaper s may hold: within the horizon, or what the sender of one of
\* its own packets asked for.
Allowed(time, s) == time < clock + Horizon \/ time \in brought[s]

\* The question of the comment at line 254, "if t_last is so big": delays alone never
\* take a t_last, or a packet's stamp, to the horizon, however many processors
\* overwrite one another's t_last, whatever becomes of the rates, and even behind a
\* packet whose sender stamped it further ahead than that.  A t_last beyond the
\* horizon is to the tick the stamp of such a packet of the same shaper: never that
\* stamp and a delay, never another pod's.
WithinHorizon ==
  /\ \A s \in Shaper : Allowed(last[s], s)
  /\ \A c \in CPU : \A s \in Route(cpu[c]) : Allowed(cpu[c].stamp, s)

\* What a shaper is for: packets that go through it leave at least one packet's
\* delay after the one before, those stamped ahead of the clock included, unless
\* another processor has written t_last between this one's read and write.
Spaced ==
  [][\A s \in Shaper : tail'[s] \notin {0, tail[s]} =>
       \E c \in CPU : cpu[c].at = s /\ tail'[s] >= tail[s] + cpu[c].delay]_vars

\* No pod's limit costs another pod anything: a packet that meets no rate leaves as
\* it came.
UnlimitedUndelayed ==
  [][\A c \in CPU : cpu[c].at \in Classes /\ cpu[c].delay = 0 => ~Delayed(c)]_vars

=============================================================================
