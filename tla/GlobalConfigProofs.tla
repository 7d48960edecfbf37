------------------------- MODULE GlobalConfigProofs -------------------------
(***************************************************************************)
(* What is proved of GlobalConfig: for any word length, any files and      *)
(* options, any number of commands, and any failures between two map       *)
(* operations.                                                             *)
(***************************************************************************)
EXTENDS GlobalConfig, TLAPS

-----------------------------------------------------------------------------
(* Arithmetic.                                                             *)

LEMMA ModSmall ==
  ASSUME NEW n \in Nat, n < Word
  PROVE  n % Word = n
  BY ConfigAssumption

LEMMA SubType ==
  ASSUME NEW a \in Number, NEW b \in Number
  PROVE  Sub(a, b) \in Number /\ (b <= a => Sub(a, b) = a - b)
<1>1. a - b \in Int /\ Word \in Nat \ {0}
  BY ConfigAssumption DEF Number
<1>2. \A n \in Int : n % Word \in 0..(Word - 1)
  BY <1>1
<1>3. b <= a => a - b \in Nat /\ a - b < Word
  BY <1>1 DEF Number
<1> QED
  BY <1>1, <1>2, <1>3, ModSmall DEF Sub, Number

LEMMA DivMonotone ==
  ASSUME NEW a \in Nat, NEW b \in Nat, a <= b, NEW m \in Nat \ {0}
  PROVE  a \div m <= b \div m
<1>1. /\ a \div m \in Int /\ b \div m \in Int
      /\ a = m * (a \div m) + (a % m) /\ a % m \in 0..(m - 1)
      /\ b = m * (b \div m) + (b % m) /\ b % m \in 0..(m - 1)
  OBVIOUS
<1>2. ASSUME NEW x \in Int, NEW y \in Int, x >= y + 1
      PROVE  m * x >= m * y + m
  BY <1>2
<1> DEFINE x == a \div m
           y == b \div m
<1>3. x \in Int /\ y \in Int /\ (x >= y + 1 => m * x >= m * y + m)
  BY <1>1, <1>2
<1>4. m * x \in Int /\ m * y \in Int
  BY <1>3
<1>5. /\ a = m * x + (a % m) /\ a % m \in 0..(m - 1)
      /\ b = m * y + (b % m) /\ b % m \in 0..(m - 1)
  BY <1>1
<1> HIDE DEF x, y
<1>6. ~(x >= y + 1)
  BY <1>3, <1>4, <1>5
<1>7. x <= y
  BY <1>3, <1>6
<1> QED
  BY <1>7 DEF x, y

-----------------------------------------------------------------------------
(* Default and Validate.                                                   *)

LEMMA SourceFields ==
  ASSUME NEW s \in Source
  PROVE  /\ s.hw \in Number /\ s.burst \in Number /\ s.l0max \in Number
         /\ s.l0min \in Number /\ s.l1max \in Number /\ s.l1min \in Number
         /\ s.l2max \in Number /\ s.l2min \in Number
  BY DEF Source

LEMMA DefaultFields ==
  ASSUME NEW s \in Source
  PROVE  /\ Default(s).hw = s.hw /\ Default(s).burst = Filled(s.burst, s.hw)
         /\ Default(s).l1max = s.l1max /\ Default(s).l1min = s.l1min
         /\ Default(s).l2max = s.l2max /\ Default(s).l2min = s.l2min
  BY DEF Source, Default

\* What Validate guarantees when its sum cannot wrap.
LEMMA ValidLimits ==
  ASSUME NEW s \in Source, Validate(Default(s)), 2 * s.hw < Word
  PROVE  /\ s.l1min <= s.l1max /\ s.l2min <= s.l2max
         /\ s.l1max + s.l2max <= s.hw
<1>0. /\ s.hw \in Nat /\ s.burst \in Nat /\ s.l1max \in Nat /\ s.l1min \in Nat
      /\ s.l2max \in Nat /\ s.l2min \in Nat
  BY SourceFields DEF Number
<1>1. CASE AllZero(Default(s))
  <2>1. /\ s.l1max = 0 /\ s.l1min = 0 /\ s.l2max = 0 /\ s.l2min = 0
    BY <1>1, DefaultFields DEF AllZero
  <2> QED
    BY <1>0, <2>1
<1>2. CASE ~AllZero(Default(s))
  <2>1. /\ s.hw >= s.l1max /\ s.hw >= s.l2max
        /\ s.l1min <= s.l1max /\ s.l2min <= s.l2max
        /\ s.hw >= (s.l2max + s.l1max) % Word
    BY <1>2, DefaultFields DEF Validate
  <2>2. s.l2max + s.l1max \in Nat /\ s.l2max + s.l1max < Word
    BY <1>0, <2>1, ConfigAssumption
  <2>3. (s.l2max + s.l1max) % Word = s.l2max + s.l1max
    BY <2>2, ModSmall
  <2> QED
    BY <1>0, <2>1, <2>3
<1> QED
  BY <1>1, <1>2

Sound(e) ==
  2 * e.hw < Word =>
    /\ \A k \in 0..2 : MinOf(e)[k] <= MaxOf(e)[k]
    /\ e.l0min + e.l1min + e.l2min = e.hw
    /\ e.l1max + e.l2max <= e.hw

LEMMA DerivedType ==
  ASSUME NEW s \in Source
  PROVE  Derived(s) \in Entry
<1>1. Sub(s.hw, s.l1min) \in Number /\ Sub(Sub(s.hw, s.l1min), s.l2min) \in Number
  BY SourceFields, SubType
<1> QED
  BY <1>1, SourceFields DEF Derived, Entry

\* A validated direction gives the dataplane a configuration that meets the
\* assumption of AdjustRate (maps.go:119-138, types/config.go:72-99).
LEMMA DerivedSound ==
  ASSUME NEW s \in Source, Validate(Default(s))
  PROVE  Sound(Derived(s))
<1> DEFINE e == Derived(s)
<1>0. /\ e.hw = s.hw /\ e.l0min = Sub(Sub(s.hw, s.l1min), s.l2min)
      /\ e.l1max = s.l1max /\ e.l1min = s.l1min
      /\ e.l2max = s.l2max /\ e.l2min = s.l2min
  BY DEF Derived
<1> SUFFICES ASSUME 2 * s.hw < Word
             PROVE  /\ \A k \in 0..2 : MinOf(e)[k] <= MaxOf(e)[k]
                    /\ e.l0min + e.l1min + e.l2min = e.hw
                    /\ e.l1max + e.l2max <= e.hw
  BY <1>0 DEF Sound
<1>1. /\ s.l1min <= s.l1max /\ s.l2min <= s.l2max
      /\ s.l1max + s.l2max <= s.hw
  BY ValidLimits
<1>2. /\ s.hw \in Nat /\ s.l1max \in Nat /\ s.l1min \in Nat
      /\ s.l2max \in Nat /\ s.l2min \in Nat
      /\ s.hw \in Number /\ s.l1min \in Number /\ s.l2min \in Number
  BY SourceFields DEF Number
<1>3. Sub(s.hw, s.l1min) = s.hw - s.l1min /\ Sub(s.hw, s.l1min) \in Number
  BY <1>1, <1>2, SubType
<1>4. e.l0min = s.hw - s.l1min - s.l2min
  <2>1. s.l2min <= Sub(s.hw, s.l1min)
    BY <1>1, <1>2, <1>3
  <2>2. Sub(Sub(s.hw, s.l1min), s.l2min) = Sub(s.hw, s.l1min) - s.l2min
    BY <1>2, <1>3, <2>1, SubType
  <2> QED
    BY <1>0, <1>3, <2>2
<1>5. e.l0min \in Nat /\ e.l0min <= e.hw
  BY <1>0, <1>1, <1>2, <1>4
<1>6. ASSUME NEW k \in 0..2 PROVE MinOf(e)[k] <= MaxOf(e)[k]
  <2> HIDE DEF e
  <2>1. Megabyte \in Nat \ {0}
    BY ConfigAssumption
  <2>2. CASE k = 0
    <3>1. MinOf(e)[k] = e.l0min \div Megabyte /\ MaxOf(e)[k] = e.hw \div Megabyte
      BY <2>2 DEF MinOf, MaxOf
    <3> QED
      BY <1>0, <1>2, <1>5, <2>1, <3>1, DivMonotone
  <2>3. CASE k = 1
    <3>1. MinOf(e)[k] = e.l1min \div Megabyte /\ MaxOf(e)[k] = e.l1max \div Megabyte
      BY <2>3 DEF MinOf, MaxOf
    <3> QED
      BY <1>0, <1>1, <1>2, <2>1, <3>1, DivMonotone
  <2>4. CASE k = 2
    <3>1. MinOf(e)[k] = e.l2min \div Megabyte /\ MaxOf(e)[k] = e.l2max \div Megabyte
      BY <2>4 DEF MinOf, MaxOf
    <3> QED
      BY <1>0, <1>1, <1>2, <2>1, <3>1, DivMonotone
  <2> QED
    BY <2>2, <2>3, <2>4
<1> QED
  BY <1>0, <1>1, <1>2, <1>4, <1>6

-----------------------------------------------------------------------------
(* Type correctness.                                                       *)

LEMMA SourcesType == \A c \in Sources : c \in [Dir -> Source]
  BY ConfigAssumption DEF Sources

LEMMA ZeroType == ZeroSource \in Source /\ Validate(Default(ZeroSource))
<1>1. 0 \in Number
  BY ConfigAssumption DEF Number
<1>2. ZeroSource \in Source
  BY <1>1 DEF ZeroSource, Source
<1>3. /\ ZeroSource.hw = 0 /\ ZeroSource.burst = 0 /\ ZeroSource.l1max = 0
      /\ ZeroSource.l1min = 0 /\ ZeroSource.l2max = 0 /\ ZeroSource.l2min = 0
      /\ ZeroSource.l0max = 0 /\ ZeroSource.l0min = 0
  BY DEF ZeroSource
<1>4. /\ Default(ZeroSource).l0max = 0
      /\ Default(ZeroSource).l0min = Sub(Sub(0, 0), 0)
      /\ Default(ZeroSource).burst = 0
  BY <1>2, <1>3 DEF Default, Filled, Source
<1>5. Sub(Sub(0, 0), 0) = 0
  BY <1>1, SubType
<1> QED
  BY <1>2, <1>3, <1>4, <1>5, DefaultFields DEF Validate, AllZero

LEMMA IdleType == Idle \in Locals
  BY ZeroType DEF Idle, Locals, Dir

LEMMA WantedType ==
  ASSUME TypeOK, NEW w \in Writer
  PROVE  Wanted(w) \in Entry
<1>1. writer[w].config[writer[w].dir] \in Source
  BY DEF TypeOK, Locals
<1> QED
  BY <1>1, DerivedType DEF Wanted

LEMMA AfterType ==
  ASSUME NEW l \in Locals
  PROVE  /\ AfterEqual(l) \in Locals /\ AfterPut(l) \in Locals
         /\ AfterError(l) \in Locals /\ [l EXCEPT !.pc = "put"] \in Locals
  BY IdleType DEF AfterEqual, AfterPut, AfterError, Locals, Dir

\* A writer begins with one of the acceptable sources.
LEMMA BeginSource ==
  ASSUME TypeOK, Next, NEW w \in Writer, NEW c, Begin(w, c), c \in Sources
  PROVE  /\ writer' = [writer EXCEPT ![w] = [Idle EXCEPT !.pc = "lookup", !.config = c]]
         /\ [Idle EXCEPT !.pc = "lookup", !.config = c] \in Locals
         /\ Accepted(c)
  BY IdleType, SourcesType DEF Begin, Locals

LEMMA TypeInit == Init => TypeOK
<1> SUFFICES ASSUME Init PROVE TypeOK
  OBVIOUS
<1>1. entry \in [Dir -> Entry]
  BY ZeroType, DerivedType DEF Init
<1>2. writer \in [Writer -> Locals]
  BY IdleType DEF Init
<1> QED
  BY <1>1, <1>2 DEF Init, TypeOK

LEMMA TypeStep == TypeOK /\ [Next]_vars => TypeOK'
<1> SUFFICES ASSUME TypeOK, [Next]_vars
             PROVE  TypeOK'
  OBVIOUS
<1>1. CASE FileChanged
  BY <1>1 DEF FileChanged, TypeOK
<1>2. CASE Sync
  <2>1. Daemon \in Writer /\ file \in Sources /\ Begin(Daemon, file)
    BY <1>2 DEF Sync, TypeOK, Writer, Sources
  <2>2. writer' \in [Writer -> Locals]
    BY <1>2, <2>1, BeginSource DEF TypeOK, Next
  <2> QED
    BY <1>2, <2>2 DEF Sync, TypeOK
<1>3. ASSUME NEW p \in Commands, Set(p) PROVE TypeOK'
  <2>1. PICK o \in Options : Begin(p, o)
    BY <1>3 DEF Set
  <2>2. p \in Writer /\ o \in Sources /\ Next
    BY <1>3 DEF Writer, Sources, Next
  <2>3. writer' \in [Writer -> Locals]
    BY <2>1, <2>2, BeginSource DEF TypeOK
  <2> QED
    BY <1>3, <2>3 DEF Set, TypeOK
<1>4. ASSUME NEW w \in Writer, Step(w) \/ Error(w) \/ Killed(w) PROVE TypeOK'
  <2>0. writer[w] \in Locals
    BY DEF TypeOK
  <2>1. CASE Lookup(w)
    <3>1. writer' \in [Writer -> Locals]
      BY <2>0, <2>1, AfterType DEF Lookup, TypeOK
    <3> QED
      BY <2>1, <3>1 DEF Lookup, TypeOK
  <2>2. CASE Put(w)
    <3>1. entry' \in [Dir -> Entry]
      BY <2>2, WantedType DEF Put, TypeOK
    <3>2. \A v \in Writer : [writer[v] EXCEPT !.undisturbed = FALSE] \in Locals
      BY DEF TypeOK, Locals
    <3>3. writer' \in [Writer -> Locals]
      BY <2>0, <2>2, <3>2, AfterType DEF Put, TypeOK
    <3> QED
      BY <2>2, <3>1, <3>3 DEF Put, TypeOK
  <2>3. CASE Return(w)
    BY <2>3, IdleType DEF Return, TypeOK
  <2>4. CASE Error(w)
    <3>1. writer' \in [Writer -> Locals]
      BY <2>0, <2>4, AfterType DEF Error, TypeOK
    <3> QED
      BY <2>4, <3>1 DEF Error, TypeOK
  <2>5. CASE Killed(w)
    BY <2>5, IdleType DEF Killed, TypeOK
  <2> QED
    BY <1>4, <2>1, <2>2, <2>3, <2>4, <2>5 DEF Step
<1>5. CASE UNCHANGED vars
  BY <1>5 DEF vars, TypeOK
<1> QED
  BY <1>1, <1>2, <1>3, <1>4, <1>5 DEF Next

\* Whatever numbers a file or a command gives, what reaches the map fits.
THEOREM TypeCorrect == Spec => []TypeOK
<1> QED
  BY TypeInit, TypeStep, PTL DEF Spec

-----------------------------------------------------------------------------
(* What is written, and what is in force.                                  *)

Vetted(c) == c \in Sources /\ Accepted(c)

\* Whoever is at work carries an acceptable source, and an entry is what one says,
\* or zero as it was created.
ForceInv ==
  /\ TypeOK
  /\ \A w \in Writer : At(w, "idle") \/ Vetted(writer[w].config)
  /\ \A d \in Dir : \/ entry[d] = Derived(ZeroSource)
                    \/ \E c \in Sources : Vetted(c) /\ entry[d] = Derived(c[d])

LEMMA ForceInit == Init => ForceInv
  BY TypeInit DEF Init, ForceInv, Idle, At

\* A writer's locals keep the configuration they began with.
LEMMA AfterConfig ==
  ASSUME NEW l \in Locals
  PROVE  /\ AfterEqual(l).config = l.config /\ AfterPut(l).config = l.config
         /\ [l EXCEPT !.pc = "put"].config = l.config
         /\ [l EXCEPT !.undisturbed = FALSE].config = l.config
         /\ [l EXCEPT !.undisturbed = FALSE].pc = l.pc
  BY DEF AfterEqual, AfterPut, Locals

\* What a Put leaves in a direction: a vetted source's entry or what was there.
LEMMA PutEntry ==
  ASSUME ForceInv, NEW w \in Writer, Put(w), NEW d \in Dir, entry'[d] # entry[d]
  PROVE  \E c \in Sources : Vetted(c) /\ entry'[d] = Derived(c[d])
<1>1. writer[w] \in Locals /\ writer[w].dir \in Dir
  BY DEF ForceInv, TypeOK, Locals
<1>2. d = writer[w].dir /\ entry'[d] = Derived(writer[w].config[d])
  BY <1>1 DEF Put, Wanted, ForceInv, TypeOK
<1>3. Vetted(writer[w].config)
  BY DEF Put, At, ForceInv
<1> QED
  BY <1>2, <1>3 DEF Vetted

LEMMA EntrySteps ==
  ASSUME TypeOK, [Next]_vars, entry' # entry
  PROVE  \E w \in Writer : Put(w)
  BY DEF Next, FileChanged, Sync, Set, Step, Lookup, Return, Error, Killed, vars

LEMMA ForceStep == ForceInv /\ [Next]_vars => ForceInv'
<1> SUFFICES ASSUME ForceInv, [Next]_vars
             PROVE  ForceInv'
  OBVIOUS
<1>0. TypeOK /\ TypeOK' /\ writer \in [Writer -> Locals]
  BY TypeStep DEF ForceInv, TypeOK
<1>1. \A d \in Dir : \/ entry'[d] = Derived(ZeroSource)
                     \/ \E c \in Sources : Vetted(c) /\ entry'[d] = Derived(c[d])
  BY <1>0, EntrySteps, PutEntry DEF ForceInv
<1> DEFINE Carries(l) == l.pc = "idle" \/ Vetted(l.config)
<1>2. \A w \in Writer : Carries(writer[w])
  BY DEF ForceInv, At
<1>3. \A w \in Writer : Carries(writer'[w])
  <2>1. CASE FileChanged \/ UNCHANGED vars
    BY <1>2, <2>1 DEF FileChanged, vars
  <2>2. ASSUME NEW w \in Writer, NEW c, Begin(w, c), c \in Sources
        PROVE  \A v \in Writer : Carries(writer'[v])
    <3>1. Vetted(c)
      BY <2>2 DEF Begin, Vetted
    <3>2. /\ writer'[w].config = c
          /\ \A v \in Writer \ {w} : writer'[v] = writer[v]
      BY <1>0, <2>2 DEF Begin, Idle
    <3> QED
      BY <1>2, <3>1, <3>2
  <2>3. CASE Sync
    <3>1. file \in Sources /\ Daemon \in Writer /\ Begin(Daemon, file)
      BY <1>0, <2>3 DEF Sync, TypeOK, Sources, Writer
    <3> QED
      BY <2>2, <3>1
  <2>4. ASSUME NEW p \in Commands, Set(p) PROVE \A v \in Writer : Carries(writer'[v])
    <3>1. PICK o \in Options : Begin(p, o)
      BY <2>4 DEF Set
    <3> QED
      BY <2>2, <2>4, <3>1 DEF Writer, Sources
  <2>5. ASSUME NEW w \in Writer, Step(w) \/ Error(w) \/ Killed(w)
        PROVE  \A v \in Writer : Carries(writer'[v])
    <3>0. writer[w] \in Locals /\ Idle.pc = "idle"
      BY <1>0 DEF Idle
    <3>1. CASE Put(w)
      <4>1. ~At(w, "idle") /\ Vetted(writer[w].config)
        BY <1>2, <3>1 DEF Put, At
      <4>2. writer'[w] = AfterPut(writer[w])
        BY <1>0, <3>1 DEF Put
      <4>3. Carries(writer'[w])
        <5>1. writer'[w].config = writer[w].config
          BY <3>0, <4>2, AfterConfig
        <5> QED
          BY <4>1, <5>1
      <4>4. ASSUME NEW v \in Writer \ {w} PROVE Carries(writer'[v])
        <5>1. /\ writer[v] \in Locals
              /\ writer'[v] \in {writer[v], [writer[v] EXCEPT !.undisturbed = FALSE]}
          BY <1>0, <3>1 DEF Put
        <5> QED
          BY <1>2, <5>1, AfterConfig
      <4> QED
        BY <4>3, <4>4
    <3>2. CASE Lookup(w)
      <4>1. ~At(w, "idle") /\ Vetted(writer[w].config)
        BY <1>2, <3>2 DEF Lookup, At
      <4>2. /\ writer'[w] \in {AfterEqual(writer[w]), [writer[w] EXCEPT !.pc = "put"]}
            /\ \A v \in Writer \ {w} : writer'[v] = writer[v]
        BY <1>0, <3>2 DEF Lookup
      <4>3. writer'[w].config = writer[w].config
        BY <3>0, <4>2, AfterConfig
      <4> QED
        BY <1>2, <4>1, <4>2, <4>3
    <3>3. CASE Return(w) \/ Error(w) \/ Killed(w)
      <4>1. writer'[w].pc = "idle" /\ \A v \in Writer \ {w} : writer'[v] = writer[v]
        BY <1>0, <3>0, <3>3 DEF Return, Error, Killed, AfterError
      <4> QED
        BY <1>2, <4>1
    <3> QED
      BY <2>5, <3>1, <3>2, <3>3 DEF Step
  <2> QED
    BY <2>1, <2>3, <2>4, <2>5 DEF Next
<1> QED
  BY <1>0, <1>1, <1>3 DEF ForceInv, At

\* What is in force meets the assumption of AdjustRate, whichever writers raced.
THEOREM InForce == Spec => []InForceValid
<1>1. ForceInv => InForceValid
  <2> SUFFICES ASSUME ForceInv, NEW d \in Dir
               PROVE  Sound(entry[d])
    BY DEF InForceValid, Sound
  <2>1. CASE entry[d] = Derived(ZeroSource)
    BY <2>1, ZeroType, DerivedSound
  <2>2. ASSUME NEW c \in Sources, Vetted(c), entry[d] = Derived(c[d])
        PROVE  Sound(entry[d])
    <3>1. c[d] \in Source /\ Validate(Default(c[d]))
      BY <2>2, SourcesType DEF Vetted, Accepted
    <3> QED
      BY <2>2, <3>1, DerivedSound
  <2> QED
    BY <2>1, <2>2 DEF ForceInv
<1> QED
  BY <1>1, ForceInit, ForceStep, PTL DEF Spec

\* No direction ever takes a value of a configuration whose other direction is
\* refused.
THEOREM Together == Spec => VettedTogether
<1> DEFINE Changes == \A d \in Dir : entry'[d] # entry[d] =>
                        \E c \in Sources : /\ \A b \in Dir : Validate(Default(c[b]))
                                           /\ entry'[d] = Derived(c[d])
<1>1. ForceInv /\ [Next]_vars => [Changes]_vars
  <2> SUFFICES ASSUME ForceInv, [Next]_vars, NEW d \in Dir, entry'[d] # entry[d]
               PROVE  \E c \in Sources : /\ \A b \in Dir : Validate(Default(c[b]))
                                         /\ entry'[d] = Derived(c[d])
    OBVIOUS
  <2>1. PICK w \in Writer : Put(w)
    BY EntrySteps DEF ForceInv
  <2>2. PICK c \in Sources : Vetted(c) /\ entry'[d] = Derived(c[d])
    BY <2>1, PutEntry
  <2> QED
    BY <2>2 DEF Vetted, Accepted
<1> HIDE DEF Changes
<1>2. Spec => [][Changes]_vars
  BY <1>1, ForceInit, ForceStep, PTL DEF Spec
<1> QED
  BY <1>2 DEF VettedTogether, Changes

-----------------------------------------------------------------------------
(* What a return without an error says.                                    *)

\* How far an undisturbed writer has come.
Reached(l) ==
  l.pc # "idle" /\ l.undisturbed =>
    /\ l.dir = "egress" => entry["ingress"] = Derived(l.config["ingress"])
    /\ l.pc = "done" => \A d \in Dir : entry[d] = Derived(l.config[d])

SuccessInv == TypeOK /\ \A w \in Writer : Reached(writer[w])

LEMMA SuccessInit == Init => SuccessInv
  BY TypeInit DEF Init, SuccessInv, Idle, Reached

\* A direction that holds what is wanted is behind the writer.
LEMMA DirectionDone ==
  ASSUME NEW l \in Locals, Reached(l), l.pc # "idle",
         entry[l.dir] = Derived(l.config[l.dir])
  PROVE  Reached(AfterEqual(l)) /\ Reached(AfterPut(l))
<1>1. CASE l.dir = "ingress"
  <2>1. /\ AfterEqual(l) = AfterPut(l) /\ AfterPut(l).pc = "lookup"
        /\ AfterPut(l).config = l.config /\ AfterPut(l).undisturbed = l.undisturbed
    BY <1>1 DEF AfterEqual, AfterPut, Locals
  <2> QED
    BY <1>1, <2>1 DEF Reached
<1>2. CASE l.dir = "egress"
  <2>1. /\ AfterEqual(l) = AfterPut(l) /\ AfterPut(l).dir = l.dir
        /\ AfterPut(l).config = l.config /\ AfterPut(l).undisturbed = l.undisturbed
    BY <1>2 DEF AfterEqual, AfterPut, Locals
  <2>2. l.undisturbed => \A d \in Dir : entry[d] = Derived(l.config[d])
    BY <1>2 DEF Reached, Dir
  <2> QED
    BY <1>2, <2>1, <2>2 DEF Reached, Dir
<1> QED
  BY <1>1, <1>2 DEF Locals, Dir

LEMMA SuccessStep == SuccessInv /\ [Next]_vars => SuccessInv'
<1> SUFFICES ASSUME SuccessInv, [Next]_vars
             PROVE  SuccessInv'
  OBVIOUS
<1>0. TypeOK /\ TypeOK' /\ writer \in [Writer -> Locals]
  BY TypeStep DEF SuccessInv, TypeOK
\* A step that leaves the entries alone, and the locals of all but one.
<1>1. ASSUME NEW w \in Writer, entry' = entry, Reached(writer'[w]),
             \A v \in Writer \ {w} : writer'[v] = writer[v]
      PROVE  SuccessInv'
  BY <1>0, <1>1 DEF SuccessInv, Reached
<1>2. CASE FileChanged \/ UNCHANGED vars
  BY <1>0, <1>2 DEF FileChanged, vars, SuccessInv, Reached
<1>3. ASSUME NEW w \in Writer, NEW c, Begin(w, c), entry' = entry PROVE SuccessInv'
  <2>1. /\ writer'[w].dir = "ingress" /\ writer'[w].pc = "lookup"
        /\ \A v \in Writer \ {w} : writer'[v] = writer[v]
    BY <1>0, <1>3 DEF Begin, Idle
  <2> QED
    BY <1>1, <1>3, <2>1 DEF Reached
<1>4. CASE Sync
  <2>1. Daemon \in Writer /\ Begin(Daemon, file) /\ entry' = entry
    BY <1>4 DEF Sync, Writer
  <2> QED
    BY <1>3, <2>1
<1>5. ASSUME NEW p \in Commands, Set(p) PROVE SuccessInv'
  <2>1. PICK o \in Options : Begin(p, o)
    BY <1>5 DEF Set
  <2>2. p \in Writer /\ entry' = entry
    BY <1>5 DEF Set, Writer
  <2> QED
    BY <1>3, <2>1, <2>2
<1>6. ASSUME NEW w \in Writer, Step(w) \/ Error(w) \/ Killed(w) PROVE SuccessInv'
  <2>0. writer[w] \in Locals /\ Idle.pc = "idle" /\ Reached(writer[w])
    BY <1>0 DEF Idle, SuccessInv
  <2>1. CASE Lookup(w)
    <3>1. entry' = entry /\ \A v \in Writer \ {w} : writer'[v] = writer[v]
      BY <1>0, <2>1 DEF Lookup
    <3>2. CASE Found(w) = Wanted(w)
      <4>1. writer'[w] = AfterEqual(writer[w]) /\ writer[w].pc # "idle"
        BY <1>0, <2>1, <3>2 DEF Lookup, At
      <4> QED
        BY <1>1, <2>0, <3>1, <3>2, <4>1, DirectionDone DEF Found, Wanted
    <3>3. CASE Found(w) # Wanted(w)
      <4>1. writer'[w] = [writer[w] EXCEPT !.pc = "put"] /\ writer[w].pc # "idle"
        BY <1>0, <2>1, <3>3 DEF Lookup, At
      <4>2. Reached(writer'[w])
        BY <2>0, <4>1 DEF Reached, Locals
      <4> QED
        BY <1>1, <3>1, <4>2
    <3> QED
      BY <3>2, <3>3
  <2>2. CASE Put(w)
    <3> DEFINE l == writer[w]
    <3>1. /\ writer'[w] = AfterPut(l) /\ l \in Locals /\ l.pc = "put" /\ l.dir \in Dir
          /\ \A v \in Writer \ {w} : writer'[v] =
               IF At(v, "idle") THEN writer[v]
               ELSE [writer[v] EXCEPT !.undisturbed = FALSE]
      BY <1>0, <2>0, <2>2 DEF Put, At, Locals
    <3>2. /\ entry'[l.dir] = Derived(l.config[l.dir])
          /\ \A d \in Dir \ {l.dir} : entry'[d] = entry[d]
      BY <1>0, <2>2, <3>1 DEF Put, Wanted, TypeOK
    <3>3. ASSUME NEW v \in Writer \ {w} PROVE Reached(writer[v])'
      <4>1. CASE At(v, "idle")
        BY <3>1, <4>1 DEF Reached, At
      <4>2. CASE ~At(v, "idle")
        <5>1. writer'[v] = [writer[v] EXCEPT !.undisturbed = FALSE] /\ writer[v] \in Locals
          BY <1>0, <3>1, <4>2
        <5>2. writer'[v].undisturbed = FALSE
          BY <5>1 DEF Locals
        <5> QED
          BY <5>2 DEF Reached
      <4> QED
        BY <4>1, <4>2
    <3>4. Reached(writer[w])'
      <4>1. CASE l.dir = "ingress"
        <5>1. AfterPut(l).pc = "lookup" /\ AfterPut(l).config = l.config
          BY <3>1, <4>1 DEF AfterPut, Locals
        <5> QED
          BY <3>1, <3>2, <4>1, <5>1 DEF Reached
      <4>2. CASE l.dir = "egress"
        <5>1. /\ AfterPut(l).config = l.config
              /\ AfterPut(l).undisturbed = l.undisturbed
          BY <3>1, <4>2 DEF AfterPut, Locals
        <5>2. l.undisturbed => entry'["ingress"] = Derived(l.config["ingress"])
          BY <2>0, <3>1, <3>2, <4>2 DEF Reached, Dir
        <5>3. l.undisturbed => \A d \in Dir : entry'[d] = Derived(l.config[d])
          BY <3>2, <4>2, <5>2 DEF Dir
        <5> QED
          BY <3>1, <5>1, <5>2, <5>3 DEF Reached
      <4> QED
        BY <3>1, <4>1, <4>2 DEF Dir
    <3> QED
      BY <1>0, <3>3, <3>4 DEF SuccessInv
  <2>3. CASE Return(w) \/ Error(w) \/ Killed(w)
    <3>1. /\ writer'[w].pc = "idle" /\ entry' = entry
          /\ \A v \in Writer \ {w} : writer'[v] = writer[v]
      BY <1>0, <2>0, <2>3 DEF Return, Error, Killed, AfterError
    <3> QED
      BY <1>1, <3>1 DEF Reached
  <2> QED
    BY <1>6, <2>1, <2>2, <2>3 DEF Step
<1> QED
  BY <1>2, <1>4, <1>5, <1>6 DEF Next

\* Who returns without an error, and was not overwritten meanwhile, has brought
\* both directions into force.
THEOREM Success == Spec => []SuccessMeansBoth
<1>1. SuccessInv => SuccessMeansBoth
  BY DEF SuccessInv, SuccessMeansBoth, Reached, At
<1> QED
  BY <1>1, SuccessInit, SuccessStep, PTL DEF Spec

=============================================================================
