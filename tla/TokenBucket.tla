---------------------------- MODULE TokenBucket ----------------------------
(***************************************************************************)
(* One token bucket of the dataplane: tb_rate_limit on an element of       *)
(* cgroup_rate_map, or one case of global_tb_rate_limit on the fields of a *)
(* class in global_rate_map, with the accept() both call.  The processors  *)
(* read, compute and write back with no lock.                              *)
(*                                                                         *)
(* The rate of an element of cgroup_rate_map changes when the daemon Puts  *)
(* a new element, with no tokens and no time stamp; a processor that       *)
(* looked the old one up goes on with it.  The rate of a class is written  *)
(* in place by adjust_rate, and 0 is one of its values.                    *)
(***************************************************************************)
EXTENDS Integers

CONSTANTS
  CPU,
  Kinds,     \* which of the two maps the bucket is in
  Rates,     \* the rates it may be given, in bytes per second
  Lens,      \* packet lengths
  NsPerUs,   \* ticks of the clock in a microsecond (1000 in accept)
  Megabyte,  \* MEGABYTE: the least rate that is enforced, and microseconds
             \* in a second
  Word,      \* 2^64
  MaxClock,  \* bound on the clock; no bound when it is Word
  MaxBytes,  \* bound on what the observer counts
  MaxPuts    \* bound on the Puts of a window

Second == NsPerUs * Megabyte

ASSUME BucketAssumption ==
  /\ Kinds \subseteq {"cgroup", "class"}
  /\ Rates \subseteq Nat /\ Rates # {}
  /\ Lens \subseteq Nat \ {0}
  /\ NsPerUs \in Nat \ {0} /\ Megabyte \in Nat \ {0}
  /\ Word \in Nat /\ NsPerUs * Megabyte < Word
  /\ MaxClock \in Nat /\ NsPerUs * Megabyte <= MaxClock /\ MaxClock <= Word
  /\ MaxBytes \in Nat /\ MaxPuts \in Nat

VARIABLES
  kind,    \* "cgroup" or "class", the same in a whole behaviour
  elem,    \* the element in the map
  old,     \* the element it replaced, as the processors that hold it see it
  clock,   \* bpf_ktime_get_ns()
  cpu,     \* the locals of tb_rate_limit and accept
  window   \* an observer: what one processor after the other has let through
           \* since some moment, until two are at work at the same time

vars == <<kind, elem, old, clock, cpu, window>>

Time == 0..(Word - 1)
Elem == [bps : Rates, slot : Nat, last : Time]

Window == [from : Time,    \* when it was opened
           bytes : Nat,    \* what has conformed since
           puts : Nat,     \* Puts since
           denied : Nat,   \* drops with tokens gained before them, in a row
           shared : BOOLEAN]  \* processors have overlapped: it says no more

Pc == {"idle", "slot", "last", "now", "accept", "writeSlot", "writeLast"}

IdleCpu == [pc |-> "idle", replaced |-> FALSE, len |-> 0, tokens |-> 0,
            last |-> 0, bps |-> 0, now |-> 0]

At(p, pc) == cpu[p].pc = pc

\* What Put writes.
Fresh(bps) == [bps |-> bps, slot |-> 0, last |-> 0]

Init ==
  /\ kind \in Kinds
  /\ elem \in {Fresh(bps) : bps \in Rates}
  /\ old = elem
  /\ clock = Second
  /\ cpu = [p \in CPU |-> IdleCpu]
  /\ window = [from |-> clock, bytes |-> 0, puts |-> 0, denied |-> 0, shared |-> FALSE]

-----------------------------------------------------------------------------

\* Fewer than Word ticks (584 years) pass between two packets.
Tick ==
  /\ clock < MaxClock
  /\ (clock + 1 - elem.last) % Word # 0
  /\ clock' = (clock + 1) % Word
  /\ UNCHANGED <<kind, elem, old, cpu, window>>

\* The daemon changes a cgroup's rate: a new element.  Puts are seconds apart,
\* so no processor is still at work on the element before the last one.
PutRate(bps) ==
  /\ kind = "cgroup"
  /\ bps # elem.bps
  /\ window.puts < MaxPuts
  /\ \A p \in CPU : ~cpu[p].replaced
  /\ old' = elem
  /\ elem' = Fresh(bps)
  /\ cpu' = [p \in CPU |-> IF At(p, "idle") THEN cpu[p]
                           ELSE [cpu[p] EXCEPT !.replaced = TRUE]]
  /\ window' = [window EXCEPT !.puts = @ + 1, !.denied = 0]
  /\ UNCHANGED <<kind, clock>>

\* adjust_rate changes a class's rate: tokens and time stamp stay.
AdjustRate(bps) ==
  /\ kind = "class"
  /\ bps # elem.bps
  /\ elem' = [elem EXCEPT !.bps = bps]
  /\ UNCHANGED <<kind, old, clock, cpu, window>>

Busy == {p \in CPU : ~At(p, "idle")}

\* The observer starts over, with one processor at work at most.  A Put counts
\* while a packet of the element it replaced is still on its way.
OpenWindow ==
  /\ \A p, q \in Busy : p = q
  /\ window' = [from |-> clock, bytes |-> 0, denied |-> 0,
                puts |-> IF \E p \in CPU : cpu[p].replaced THEN 1 ELSE 0,
                shared |-> FALSE]
  /\ UNCHANGED <<kind, elem, old, clock, cpu>>

-----------------------------------------------------------------------------

\* Mutation: the clock is read on entry, before the element's time stamp.
ClockFirst == [slot |-> "now", now |-> "last", last |-> "accept"]

\* The order of the reads: tokens and time stamp in tb_rate_limit, then the
\* clock in accept.
Following == [slot |-> "last", last |-> "now", now |-> "accept"]

\* The element processor p has looked up.
Mine(p) == IF cpu[p].replaced THEN old ELSE elem

Write(p, e) == IF cpu[p].replaced THEN old' = e /\ elem' = elem
                                  ELSE elem' = e /\ old' = old

Smaller(a, b) == IF a < b THEN a ELSE b

\* Whole microseconds since the bucket was last filled.
Micros(p) == ((cpu[p].now - cpu[p].last) % Word) \div NsPerUs

\* Mutation: the tokens are not limited to one second's worth.
FilledUncapped(tokens, us, bps) ==
  IF us > 0 THEN tokens + ((bps * us) % Word) \div Megabyte ELSE tokens

Filled(tokens, us, bps) ==
  IF us > 0
    THEN Smaller(bps, tokens + ((bps * us) % Word) \div Megabyte)
    ELSE tokens

Limited(p) == cpu[p].bps >= Megabyte

\* Mutation: off by one.
FitsWithOneMore(p) == Filled(cpu[p].tokens, Micros(p), cpu[p].bps) + 1 >= cpu[p].len

Tokens(p) == Filled(cpu[p].tokens, Micros(p), cpu[p].bps)

Fits(p) == Tokens(p) >= cpu[p].len

\* A packet reaches the bucket.  An element of cgroup_rate_map with rate 0 is
\* not asked (line 496).
Enter(p) ==
  /\ At(p, "idle")
  /\ kind = "cgroup" => elem.bps > 0
  /\ \E len \in Lens : cpu' = [cpu EXCEPT ![p].pc = "slot", ![p].len = len]
  /\ window' = IF Busy = {} THEN window
               ELSE [window EXCEPT !.shared = TRUE, !.from = 0, !.bytes = 0,
                                   !.denied = 0]
  /\ UNCHANGED <<kind, elem, old, clock>>

LoadSlot(p) ==
  /\ At(p, "slot")
  /\ cpu' = [cpu EXCEPT ![p].pc = Following.slot, ![p].tokens = Mine(p).slot]
  /\ UNCHANGED <<kind, elem, old, clock, window>>

LoadLast(p) ==
  /\ At(p, "last")
  /\ cpu' = [cpu EXCEPT ![p].pc = Following.last, ![p].last = Mine(p).last]
  /\ UNCHANGED <<kind, elem, old, clock, window>>

\* The rate is loaded just before the clock is read; only a change of the rate
\* could come between the two, and it has nothing to do with the clock.
ReadClock(p) ==
  /\ At(p, "now")
  /\ cpu' = [cpu EXCEPT ![p].pc = Following.now, ![p].bps = Mine(p).bps,
                        ![p].now = clock]
  /\ UNCHANGED <<kind, elem, old, clock, window>>

\* Below a MEGABYTE per second nothing is limited; the copies of tokens and
\* time stamp are written back as they were read.
Unlimited(p) ==
  /\ At(p, "accept")
  /\ ~Limited(p)
  /\ cpu' = [cpu EXCEPT ![p].pc = "writeSlot", ![p].now = 0, ![p].bps = 0]
  /\ UNCHANGED <<kind, elem, old, clock, window>>

\* The observer counts a packet at the time it was stamped with.
Admit(p) ==
  /\ At(p, "accept")
  /\ Limited(p)
  /\ Fits(p)
  /\ cpu' = [cpu EXCEPT ![p].pc = "writeSlot", ![p].last = cpu[p].now, ![p].now = 0,
                        ![p].bps = 0, ![p].tokens = Tokens(p) - cpu[p].len]
  /\ window' = [window EXCEPT !.denied = 0,
                  !.bytes = IF cpu[p].now >= window.from /\ ~window.shared
                              THEN Smaller(MaxBytes, @ + cpu[p].len) ELSE @]
  /\ UNCHANGED <<kind, elem, old, clock>>

\* Mutation: the tokens gained since the last packet are not kept.
DroppedTokensLost(p) == cpu[p].tokens

\* What accept leaves in the bucket when it drops the packet.
DroppedTokens(p) == Tokens(p)

Drop(p) ==
  /\ At(p, "accept")
  /\ Limited(p)
  /\ ~Fits(p)
  /\ cpu' = [cpu EXCEPT ![p].pc = "writeSlot", ![p].last = cpu[p].now, ![p].now = 0,
                        ![p].bps = 0, ![p].tokens = DroppedTokens(p)]
  /\ window' = [window EXCEPT
                  !.denied = IF Micros(p) > 0 /\ ~window.shared /\ ~cpu[p].replaced
                               THEN Smaller(MaxBytes, @ + 1) ELSE @]
  /\ UNCHANGED <<kind, elem, old, clock>>

WriteSlot(p) ==
  /\ At(p, "writeSlot")
  /\ Write(p, [Mine(p) EXCEPT !.slot = cpu[p].tokens])
  /\ cpu' = [cpu EXCEPT ![p].pc = "writeLast"]
  /\ UNCHANGED <<kind, clock, window>>

WriteLast(p) ==
  /\ At(p, "writeLast")
  /\ Write(p, [Mine(p) EXCEPT !.last = cpu[p].last])
  /\ cpu' = [cpu EXCEPT ![p] = IdleCpu]
  /\ UNCHANGED <<kind, clock, window>>

-----------------------------------------------------------------------------

CpuStep(p) ==
  \/ LoadSlot(p) \/ LoadLast(p) \/ ReadClock(p)
  \/ Unlimited(p) \/ Admit(p) \/ Drop(p)
  \/ WriteSlot(p) \/ WriteLast(p)

Environment ==
  \/ Tick
  \/ OpenWindow
  \/ \E bps \in Rates : PutRate(bps) \/ AdjustRate(bps)

Next == Environment \/ \E p \in CPU : Enter(p) \/ CpuStep(p)

Spec == Init /\ [][Next]_vars

\* The program runs to completion, time passes, and packets keep coming.
FairSpec ==
  /\ Spec
  /\ WF_vars(Tick)
  /\ \A p \in CPU : WF_vars(Enter(p)) /\ WF_vars(CpuStep(p))

-----------------------------------------------------------------------------

CpuState == [pc : Pc, replaced : BOOLEAN, len : Nat, tokens : Nat,
             last : Time, bps : Nat, now : Time]

\* Every variable has its type; the tokens of a bucket, a u64 decremented on
\* every packet, never go below zero.
TypeOK ==
  /\ kind \in Kinds
  /\ elem \in Elem
  /\ old \in Elem
  /\ clock \in Time
  /\ cpu \in [CPU -> CpuState]
  /\ window \in Window

\* However the processors overwrite one another's tokens, the bucket never
\* holds more than one second of some rate it was given: no interleaving of
\* the reads and writes mints a burst larger than that.
BurstBounded == \E bps \in Rates : elem.slot <= bps

\* No time stamp, in the map or read from it, is ahead of the clock that will
\* be read after it: now - *t_last of accept cannot wrap round, whichever
\* processor wrote the time stamp meanwhile.  (adjust_rate and cal_rate read
\* the clock first and have no such property.)
StampsPast ==
  /\ elem.last <= clock /\ old.last <= clock
  /\ \A p \in CPU : /\ cpu[p].last <= clock
                    /\ At(p, "accept") => cpu[p].last <= cpu[p].now

\* The contract of the rate limit: whatever moment one starts to count from,
\* and however bad the races before it were, what is let through while the
\* processors take turns is at most one burst and the rate times the time that
\* has passed, plus one burst for every Put that replaced the bucket.
HighestRate == CHOOSE r \in Rates : \A s \in Rates : s <= r

Conforms ==
  window.shared \/
  window.bytes * Second
    <= HighestRate * ((1 + window.puts) * Second + (clock - window.from))

\* What a rate limit owes: when the burst is as large as a packet and the
\* processors take turns, drops that come a microsecond or more after the packet
\* before them end when they have gained a packet's length, drops in between
\* and changes of a class's rate notwithstanding: a drop keeps what was gained.
\* (As long as the product of line 130 fits a word: after hours without a packet
\* it may not, and the first one gains nothing.)
DropsBounded ==
  \A bps \in Rates, len \in Lens :
    /\ bps >= Megabyte /\ len <= bps
    /\ \A r \in Rates : r >= Megabyte => bps <= r
    /\ \A l \in Lens : l <= len
    => window.denied * (bps \div Megabyte) < len

\* A class that keeps sending keeps a share of the bandwidth (README.md:34).
NeverStarved == []<><<\E p \in CPU : Admit(p) \/ Unlimited(p)>>_vars

=============================================================================
