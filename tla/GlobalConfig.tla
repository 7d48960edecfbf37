---------------------------- MODULE GlobalConfig ----------------------------
(***************************************************************************)
(* The bandwidth of the host: from the file global_bps_config, or the      *)
(* options of `config global set', through Default, Validate and           *)
(* WriteGlobalConfig to the entries of terway_global_cfg that adjust_rate  *)
(* reads.  The daemon's file loop and the commands are processes of their  *)
(* own that write the same two pinned entries, one map operation at a time *)
(* and with no lock.                                                       *)
(*                                                                         *)
(* A file is the numbers parseConfig finds in it; a key that is missing or *)
(* unreadable is 0.  The file is mounted from a ConfigMap, so it changes   *)
(* as a whole, and the watcher never sees its name: only ticks read it.  A *)
(* Put is one step here; AdjustRate has what the dataplane sees of it.     *)
(***************************************************************************)
EXTENDS Integers

CONSTANTS
  Daemon,      \* the process with the file loop
  Commands,    \* processes of the command line
  Missing,     \* no file
  Contents,    \* what the file may say: a Source for each direction
  Options,     \* the options a command may be given: the same
  Megabyte,    \* MEGABYTE of the dataplane
  Word,        \* 2^64
  MaxChanges,  \* bound on the changes of the file
  MaxRuns,     \* bound on the runs of commands
  MaxFaults    \* bound on failing map operations and killed processes

Dir == {"ingress", "egress"}
Number == 0..(Word - 1)

\* types.GlobalConfig, as Default finds it.
Source == [hw : Number, burst : Number, l0max : Number, l0min : Number,
           l1max : Number, l1min : Number, l2max : Number, l2min : Number]

\* globalRateCfg, but for its two constant fields.
Entry == [hw : Number, l0min : Number, l1max : Number, l1min : Number,
          l2max : Number, l2min : Number]

\* A file has no key for the burst; a command gives the bandwidth for it.
ASSUME ConfigAssumption ==
  /\ Word \in Nat \ {0} /\ Megabyte \in Nat \ {0}
  /\ Contents \subseteq [Dir -> Source]
  /\ \A c \in Contents : \A d \in Dir : c[d].burst = 0
  /\ Options \subseteq [Dir -> Source]
  /\ \A o \in Options : \A d \in Dir : o[d].burst = o[d].hw
  /\ MaxChanges \in Nat /\ MaxRuns \in Nat /\ MaxFaults \in Nat

ASSUME NamesAssumption == Missing \notin Contents /\ Daemon \notin Commands

Writer == Commands \cup {Daemon}

VARIABLES
  file,     \* the content of global_bps_config, or Missing
  entry,    \* terway_global_cfg
  writer,   \* the locals of WriteGlobalConfig, per process
  changes, runs, faults   \* what the bounds count

vars == <<file, entry, writer, changes, runs, faults>>

-----------------------------------------------------------------------------
(* Default, Validate and the entry that is written, in u64 arithmetic.     *)

\* Mutation: signed numbers.
SubSigned(a, b) == a - b

Sub(a, b) == (a - b) % Word

Filled(field, value) == IF field = 0 THEN value ELSE field

Default(s) ==
  [s EXCEPT !.burst = Filled(@, s.hw),
            !.l0max = Filled(@, s.hw),
            !.l0min = Filled(@, Sub(Sub(s.hw, s.l1min), s.l2min))]

AllZero(s) == /\ s.burst = 0 /\ s.l0max = 0 /\ s.l0min = 0
              /\ s.l1max = 0 /\ s.l1min = 0 /\ s.l2max = 0 /\ s.l2min = 0

\* Mutation: the maxima are not compared with the bandwidth as a sum.
ValidateEach(s) ==
  \/ AllZero(s)
  \/ /\ s.hw <= s.burst /\ s.hw >= s.l1max /\ s.hw >= s.l2max
     /\ s.l1min <= s.l1max /\ s.l2min <= s.l2max

Validate(s) ==
  \/ AllZero(s)
  \/ /\ s.hw <= s.burst /\ s.hw >= s.l1max /\ s.hw >= s.l2max
     /\ s.l1min <= s.l1max /\ s.l2min <= s.l2max
     /\ s.hw >= (s.l2max + s.l1max) % Word

\* Mutation: ingress is validated twice.
AcceptedByIngress(c) == Validate(Default(c["ingress"]))

\* Both directions are looked at before anything is written.
Accepted(c) == \A d \in Dir : Validate(Default(c[d]))

Derived(s) == [hw |-> s.hw, l0min |-> Sub(Sub(s.hw, s.l1min), s.l2min),
               l1max |-> s.l1max, l1min |-> s.l1min,
               l2max |-> s.l2max, l2min |-> s.l2min]

-----------------------------------------------------------------------------

ZeroSource == [hw |-> 0, burst |-> 0, l0max |-> 0, l0min |-> 0,
               l1max |-> 0, l1min |-> 0, l2max |-> 0, l2min |-> 0]

\* undisturbed: nobody else has written since this writer began.
Idle == [pc |-> "idle", dir |-> "ingress", config |-> [d \in Dir |-> ZeroSource],
         undisturbed |-> TRUE]

At(w, pc) == writer[w].pc = pc

\* The array map is zeroed when it is created.
Init ==
  /\ file \in Contents \cup {Missing}
  /\ entry = [d \in Dir |-> Derived(ZeroSource)]
  /\ writer = [w \in Writer |-> Idle]
  /\ changes = 0 /\ runs = 0 /\ faults = 0

FileChanged ==
  /\ changes < MaxChanges
  /\ changes' = changes + 1
  /\ file' \in (Contents \cup {Missing}) \ {file}
  /\ UNCHANGED <<entry, writer, runs, faults>>

\* WriteGlobalConfig is entered with an acceptable configuration; another one
\* is an error, and nothing is done.
Begin(w, c) ==
  /\ At(w, "idle")
  /\ Accepted(c)
  /\ writer' = [writer EXCEPT ![w] = [Idle EXCEPT !.pc = "lookup", !.config = c]]

\* A tick of the file loop: syncGlobalConfig with what the file says now.
Sync ==
  /\ file # Missing
  /\ Begin(Daemon, file)
  /\ UNCHANGED <<file, entry, changes, runs, faults>>

\* `config global set'.
Set(c) ==
  /\ runs < MaxRuns
  /\ runs' = runs + 1
  /\ \E o \in Options : Begin(c, o)
  /\ UNCHANGED <<file, entry, changes, faults>>

-----------------------------------------------------------------------------
(* updateIfNotEqual for one direction, then for the other.                 *)

Wanted(w) == Derived(writer[w].config[writer[w].dir])

\* Mutation: the lookup uses the index of ingress for both.
FoundIngress(w) == entry["ingress"]

Found(w) == entry[writer[w].dir]

\* Mutation: no difference in one direction ends the whole function.
ReturnsWhenEqual(l) == [l EXCEPT !.pc = "done"]

\* What follows a lookup that found the wanted entry.
AfterEqual(l) == IF l.dir = "ingress" THEN [l EXCEPT !.pc = "lookup", !.dir = "egress"]
                                      ELSE [l EXCEPT !.pc = "done"]

AfterPut(l) == IF l.dir = "ingress" THEN [l EXCEPT !.pc = "lookup", !.dir = "egress"]
                                    ELSE [l EXCEPT !.pc = "done"]

Lookup(w) ==
  /\ At(w, "lookup")
  /\ writer' = [writer EXCEPT ![w] = IF Found(w) = Wanted(w) THEN AfterEqual(@)
                                     ELSE [@ EXCEPT !.pc = "put"]]
  /\ UNCHANGED <<file, entry, changes, runs, faults>>

Put(w) ==
  /\ At(w, "put")
  /\ entry' = [entry EXCEPT ![writer[w].dir] = Wanted(w)]
  /\ writer' = [v \in Writer |->
                  IF v = w THEN AfterPut(writer[w])
                  ELSE IF At(v, "idle") THEN writer[v]
                  ELSE [writer[v] EXCEPT !.undisturbed = FALSE]]
  /\ UNCHANGED <<file, changes, runs, faults>>

\* No error.
Return(w) ==
  /\ At(w, "done")
  /\ writer' = [writer EXCEPT ![w] = Idle]
  /\ UNCHANGED <<file, entry, changes, runs, faults>>

\* Mutation: the error of the first direction is not returned.
CarriesOn(l) == AfterPut(l)

AfterError(l) == Idle

\* A map operation fails.
Error(w) ==
  /\ At(w, "lookup") \/ At(w, "put")
  /\ faults < MaxFaults
  /\ faults' = faults + 1
  /\ writer' = [writer EXCEPT ![w] = AfterError(@)]
  /\ UNCHANGED <<file, entry, changes, runs>>

\* The process ends between two operations; the daemon is started again.
Killed(w) ==
  /\ ~At(w, "idle")
  /\ faults < MaxFaults
  /\ faults' = faults + 1
  /\ writer' = [writer EXCEPT ![w] = Idle]
  /\ UNCHANGED <<file, entry, changes, runs>>

-----------------------------------------------------------------------------

Step(w) == Lookup(w) \/ Put(w) \/ Return(w)

Next ==
  \/ FileChanged
  \/ Sync
  \/ \E c \in Commands : Set(c)
  \/ \E w \in Writer : Step(w) \/ Error(w) \/ Killed(w)

Spec == Init /\ [][Next]_vars

\* The ticker ticks and the daemon, when it runs, gets on.  Nothing is said of
\* commands.
FairSpec == Spec /\ WF_vars(Sync) /\ WF_vars(Step(Daemon))

-----------------------------------------------------------------------------

Locals == [pc : {"idle", "lookup", "put", "done"}, dir : Dir,
           config : [Dir -> Source], undisturbed : BOOLEAN]

\* Every variable has its type; what is in the map was derived from numbers
\* that fit a u64.
TypeOK ==
  /\ file \in Contents \cup {Missing}
  /\ entry \in [Dir -> Entry]
  /\ writer \in [Writer -> Locals]
  /\ changes \in Nat /\ runs \in Nat /\ faults \in Nat

\* The limits of a class as adjust_rate sees them, in MEGABYTEs per second: class
\* 0's upper bound is the bandwidth.
MinOf(e) == [k \in 0..2 |-> (CASE k = 0 -> e.l0min [] k = 1 -> e.l1min
                               [] k = 2 -> e.l2min) \div Megabyte]
MaxOf(e) == [k \in 0..2 |-> (CASE k = 0 -> e.hw [] k = 1 -> e.l1max
                               [] k = 2 -> e.l2max) \div Megabyte]

\* Unless the bandwidth is so large that Validate's own sum may wrap, what is in
\* force has every minimum below its maximum, the least rate of class 0 has not
\* wrapped, and the offline classes fit in the bandwidth together, whichever
\* writers raced, failed or were killed: what AdjustRate assumes of a
\* configuration (ConfsAssumption).
InForceValid ==
  \A d \in Dir :
    LET e == entry[d]
    IN  2 * e.hw < Word =>
          /\ \A k \in 0..2 : MinOf(e)[k] <= MaxOf(e)[k]
          /\ e.l0min + e.l1min + e.l2min = e.hw
          /\ e.l1max + e.l2max <= e.hw

\* A direction only changes to what an acceptable pair of directions says of it: a
\* configuration of which one direction is refused takes no effect in the other
\* (WriteGlobalConfig validates both before it writes).
Sources == Contents \cup Options

VettedTogether ==
  [][\A d \in Dir : entry'[d] # entry[d] =>
       \E c \in Sources : /\ \A b \in Dir : Validate(Default(c[b]))
                          /\ entry'[d] = Derived(c[d])]_vars

\* Who returns without an error, and nobody else wrote meanwhile, has brought both
\* directions into force, whatever he found there and whoever wrote them before.
SuccessMeansBoth ==
  \A w \in Writer : At(w, "done") /\ writer[w].undisturbed =>
    \A d \in Dir : entry[d] = Derived(writer[w].config[d])

\* An acceptable file that stays comes into force in both directions and remains
\* so, over failures, kills and commands in between, however these left the two
\* entries (the ticker's sync is the repair).
FileTakesEffect ==
  \A c \in Contents :
    <>[](file = c /\ Accepted(c)) => <>[](\A d \in Dir : entry[d] = Derived(c[d]))

=============================================================================
