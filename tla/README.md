# Verification of terway-qos

TLA+ models of terway-qos, model-checked with TLC; what they must keep safe is proved
with TLAPS. Paths are relative to the repository's root (`src/` in the map of
`PROJECT.json`).

terway-qos limits the bandwidth of pods on a Kubernetes node. A daemon writes
configurations, limits and pod addresses into BPF maps; a BPF program on every
network device reads them for each packet, measures the traffic, shares the
host's bandwidth between three classes (L0 online, L1 and L2 offline) and limits
each pod to its own rate.

## Inventory

| Component | State | Operations | Hard behaviour | What makes it correct |
|---|---|---|---|---|
| **Rate adjustment**, `bpf/qos_tc.c` `adjust_rate` | `global_rate_map[direction]`: a rate and a time stamp for each class | once a second, from the average: suppress L2, L1, L0, or recover L0, L1, L2 | every processor runs it on shared memory with no lock; the daemon rewrites the configuration under it; u64 subtractions; 0 means "no limit" | no rate above its maximum; no limit lifted; order of the classes; minima and maxima are reached |
| **Token bucket**, `accept`, `tb_rate_limit`, `global_tb_rate_limit` | tokens and time stamp of `cgroup_rate_map` elements and of the classes | fill, spend, drop, write back | unlocked read-compute-write; truncation to microseconds; replaced elements | bounded burst; what conforms in a window; nobody is starved |
| **Meter**, `cal_rate`, `get_average_rate` | `terway_net_stat`: per direction a meter and nine samples | accumulate, close a sample every 100 ms, average | the index runs through both directions; lost updates; wrap of time differences | samples do not overwrite meters; no byte twice; contention is noticed |
| **EDT**, `edt`, `global_edt` | the time stamps of the same elements | stamp a packet with the time it may leave, or drop it | unlocked time stamps; a time stamp that runs ahead of the clock; rates of 0 | spacing of departures; nothing is held up beyond the horizon. Compiled only with `FEAT_EDT` |
| **Classification**, `qos_cgroup`, `qos_global`, `qos_prog_*` | `pod_map`, `qos_prog_map`, the mark in `cb[0]` | mark the direction, look the pod up by address, set priority (from the cgroup's classid for other packets on kernels from 5.10), tail-call | an element is replaced or deleted while in use; a missing program lets packets pass; one hook's mark is there at the next | each packet meets every limit of its own direction |
| **Pod controller**, `pkg/k8s` | work queue | `Reconcile`: delete, requeue, update | queue merges events; requeues and retries; addresses pass to other pods | what is settled is mapped, what is gone is not |
| **Syncer, PodCache**, `pkg/config/syncer.go`, `record.go` | cached pods | `DeletePod`, `UpdatePod`, file syncs on events and every 5 s | two goroutines and one lock; three sources of limits; errors half way; nil and aliased pointers | limits come from the right source; failed steps are repaired |
| **Cgroup lookup**, `pkg/config/config.go` | expiring cache by pod UID; `net_cls.classid` | look up, set class | the directory comes later than the pod; cached for 10 min | right cgroup, right class |
| **Map writer**, `pkg/bpf/maps.go` | pinned maps | `WritePodInfo`, `DeletePodInfo`, `WriteCgroupRate`, `WriteGlobalConfig` | several map operations per call, each may fail; early returns; maps outlive the daemon | see Syncer; success of `WriteGlobalConfig` means both directions |
| **Global configuration**, `pkg/config/config.go`, `pkg/types/config.go`, `cmd/config.go` | `terway_global_cfg` | parse, `Default`, `Validate`, write | unsigned differences, all zeros; daemon and command line write the same map | the limits in force are a valid configuration |
| **Link manager**, `pkg/bpf/manager.go`, `compile.go` | qdiscs, filters, loaded programs | list, subscribe, attach or detach per link and direction | links change between list and subscribe, and while they are worked on; filter before program; errors are fatal at the start and ignored later; restarts with other options over what is attached | every valid link is limited |
| **Command line**, `cmd/` | none | daemon, list and set commands | | |
| Annotations parsing, version, byte order, charts, scripts, generated objects | none | | | |

How they interact. The controller's worker calls `Syncer.DeletePod` and
`UpdatePod`; the file loop calls `syncGlobalConfig`, `syncCgroupRate` and
`syncPodConfig`; both go through the Writer to the BPF maps, which are the only
thing the daemon shares with the dataplane. For a packet the dataplane runs
`qos_prog_* -> qos_cgroup` (meter, pod lookup, the pod's bucket) `-> qos_global`
(the class's bucket, then `adjust_rate`, which reads the meter and writes the
classes' rates). The hazards of each part, at their lines, are in `PROJECT.json`.

## Modules

### `AdjustRate`, `PriorityPolicy`

`AdjustRate` is `adjust_rate` for one direction, one action per access to shared
memory: `Enter` (the clock, line 304), `LoadConfig` (the six limits, each old or
new while a Put copies the value: `Torn`), `LoadRate` (three), `LoadLast`,
`TooSoon` / `Proceed`, `Stamp`, then `Contended` / `Spare` / `Balanced` on the
measured average and one `Suppress` or `Recover` per written rate. Locals are
`cpu[p]`, the average and the rates among them until the return, so that
`ExcessTaken` and `SpareGiven` can say of the last step what the whole cascade did. `PutStart` and `PutDone` are the two ends of the daemon's Put,
`Measured` changes the average freely, `Tick` moves the clock modulo `Word`.
A configuration is in bytes per second; what is read of it is whole
`MEGABYTE`s (`InMegabytes`, the divisions of lines 305-310), so a minimum below one
is read as 0. Everything else is in `MEGABYTE`s, the unit of the code's own locals. The
rates start at 0: `global_rate_map` is an array, so `qos_global`'s branch for a
missing entry is dead.

`PriorityPolicy` is the README's promise with nothing about measurement or
intervals: cut from the lowest class, grow from the highest. One processor
under one configuration implements it (`ImplementsPolicy`).

### `TokenBucket`

One bucket, of a pod's cgroup or of a class. `LoadSlot`, `LoadLast`,
`ReadClock`, `Unlimited` / `Admit` / `Drop`, `WriteSlot`, `WriteLast` are the
accesses of `tb_rate_limit` and `accept`. `PutRate` is the daemon's Put of a new
element (processors that hold the old one continue on `old`), `AdjustRate` the
in-place change of a class's rate. A refill is a u64 product; the compiled code
and the model agree that it is taken modulo `Word`.

`window` is an observer. It opens at any moment at which at most one processor
is at work (`OpenWindow`), whatever the races before have left in the bucket,
counts what conforms and the drops in a row, and says no more once two
processors overlap (`shared`). So `Conforms` and `DropsBounded` are about
stretches of time in which processors take turns, with races before them, and
not only about machines with one processor.

### `NetStat`

`cal_rate` for both directions over one array, and `get_average_rate` as the
operator `Average`. `Enter` reads the clock, `LoadMeta` the index and the time stamp,
`LoadSum` the sum; then `Restart`, `Accumulate`, or `Stamp`, `Clear`, `Store` (or
`NoSlot`) and `Move` write. What the processors race for, the time stamp and the sum,
is read and written in steps of their own; the three stores of a restart are one. The
local index and the stored one differ after a restart, as in the code (`AfterRestart`).

Three observers name the races, so that the properties can say what they do and that
nothing else does: `owed` counts the bytes that may yet go into a sample, and again
those that a processor brings back after another one has sampled them; `outdated` are
the processors that hold such a sum; `overtaken` are those that another one stamped the
meter ahead of between their reads of the clock and of the time stamp.

### `PodSync`

The daemon between the API server and the maps.

| Model | Code |
|---|---|
| `Created` ... `Removed`, `CgroupUp`, `CgroupDown`, `FileWritten` | external: API server, kubelet, ConfigMap |
| `Notified` | the predicates |
| `Get`, `Gone`, `Postpone`, `Retry`, `Done` | `Reconcile`: the object is read first, acted on later |
| `DeletePod`, `UpdatePod` (`Config`), `CgroupMissing` | `Syncer` under its lock, one action each, with the Writer's operations; `done` says how many succeeded |
| `PodInfo`, `CgroupRate`, `Deleted`, `Cleaned` | `WritePodInfo`, `WriteCgroupRate`, `DeletePodInfo`, `DeleteCgroupRate` |
| `Lookup`, `Forget` | `GetCgroupByPodUID` and its expiry |
| `Tick`, `FileEvent`, `ReadFile` | the file loop; a file is read before the lock is taken |
| `SkipLine`, `SyncLine`, `Panic`, `CleanUp` | `podChanged`: one step per line (no cached pod; `podChangeLocked`, which may fail or dereference nil), then the limits that no line named; `sync.locked` from the first line to the last step |
| `Crash`, `Restarted` | the daemon starts again over pinned maps and lists the pods |

A pod's cgroup path and inode are its UID. `pod.json` is a set, because Go
iterates its map in any order; `per_cgroup_bps_limit` is a sequence. `Aliased`
is the loop variable of `podChanged`, one for all iterations in Go 1.21
(`go.mod`). The file loop holds the lock over many steps and `DeletePod`,
`UpdatePod` and `CgroupMissing` wait for it; a crash, the cluster and the expiry of
the cgroup cache come between two lines. The worker's calls under the lock are one
action: nobody else can see the maps change but the dataplane, which is not part of
this module. A cgroup that goes between the two system calls of one such action, or
of one line, is what is lost by it.

`OwnLimits`, a pod is written no limits but its own, does not hold, because of that
variable (`PodAlias`). `LimitsConfined` says how far it reaches: only into a pod
whose name has an annotation in that direction (`UpdatePod` then takes the cached limit,
`LimitTaken`), and only from a line of a file that lists the pod as well.

### `GlobalConfig`

The host's bandwidth on its way from the file, or from the options of `config
global set`, into the two entries of `terway_global_cfg`. `Default`, `Validate`
and `Derived` are the code's arithmetic modulo `Word`, so a difference that goes
below zero and a sum that wraps are what they are in Go. `Sync` (the file loop)
and `Set` (a command) enter `WriteGlobalConfig` when both directions are valid
(`Begin`); then `Lookup` and `Put` alternate per direction
(`updateIfNotEqual`), each may fail (`Error`), and the process may be killed in
between (`Killed`). Commands are processes of their own: nothing orders them with
the daemon. A Put is one step; what `adjust_rate` sees of it while it is copied
is `Torn` of `AdjustRate`. `InForceValid` is what `ConfsAssumption` of
`AdjustRate` and its theorems rest on: lemma `DerivedSound` proves it of
every valid configuration.

### `Edt`

`edt` for the pod and then `global_edt` for the class, one packet per processor.
A shaper is a `t_last` with its rate. `ReadClock`, `Load`, and `Early`, `Drop` or
`Delayed` are the accesses; `PutRate` and `AdjustRate` change rates as in
`TokenBucket`. A packet may come with a stamp ahead of the clock (a socket's
pacing, or another hook), by any amount: lines 224-230, 247-257, 270 and 282 take
it as it is and make it `t_last` when the shaper is idle, beyond the horizon too, after
which packets without such a stamp are dropped until the clock comes near. `tail` and
`brought` are observers: what a shaper last promised, until a processor overwrites it
with what it computed from an older `t_last`; and the stamps that packets of a shaper
arrived with, as long as they are a horizon or more ahead. `WithinHorizon` says of every
`t_last` and stamp that it is within the horizon or one of the latter, to the tick.
A division by a rate of 0 yields 0 in BPF. The module covers the egress
direction; ingress keeps the token buckets.

### `LinkMgr`, `Dataplane`

`LinkMgr` is `Mgr`: `Load`, `List`, `NextListed`, `Subscribe` are `Start`,
`Receive` its event loop, and `Qdisc`, `FilterReplace`, `PutCgroup`, `PutGlobal`,
`FilterDel` the system calls of `ensureBpfProg`, ingress before egress.
`EnsureFails` is an error: the daemon ends during the start (`Exits`), and logs
it in the loop (`Logged`). Links go up, down or away at any step (`Change`);
events queue up once the daemon has subscribed. A daemon may be killed
at any step and starts again with any of `Settings`, over the pinned maps and the
filters that are there. A link is listed as the system call saw it, so work may
go on for a link that is gone. `missed` is an observer: the links whose last
change the daemon was not told of, or gave up on.

`Dataplane` extends it with packets: `Enter` (`qos_prog_*`: mark and jump), `NotIp`,
`QosCgroup`, `QosGlobal`, with tail calls into `qos_prog_map` as it is at that
moment. What a limit decides is an arbitrary choice here (`TokenBucket` and `Edt`
have it), and so is the pod of a packet (`PodSync` has who writes `pod_map`).

## Runs

Passing runs (`expect: pass`):

| Run | Question | Bounds and why they are enough |
|---|---|---|
| `adjust_one_cpu` | Does one processor carry out the policy, in order, without underflow, does an adjustment take or give exactly what it should, and does it arrive at the minima and maxima? | two bytes to the `MEGABYTE`; averages from 0 to 9 around a host bandwidth of 5, minima 1, maxima 2 and 3: a cascade ends in each class, with and without a remainder; the clock wraps after 6 ticks (a second is 2), so behaviours are infinite and deadlock is checked |
| `adjust_smp` | Do races and Puts lift a limit or pass a maximum? | two processors (a lost update needs two), two configurations that differ in a minimum and a maximum (torn reads), one of them with a minimum of one byte for L2, which is read as 0; contention and spare; the daemon has written a configuration, before that everything is 0 and unlimited |
| `token_bucket` | What survives two processors, and what is kept whenever they take turns? | rates below and above the enforced least, lengths 1 and 2, one Put, both maps; a clock of two seconds; a packet can lack half of its tokens and gain them over two drops |
| `meter` | Do the indices of both directions spare the meters; which races count a byte twice or wrap the elapsed time? | two processors in any interleaving (`NoDoubleCount` and `WrapsOvertaken` are about what one does between two accesses of the other); two entries per direction, so the index passes the end of both directions and of the array within three samples (`NoSlot`); one byte at a time waits for a sample, a sample is due each tick and, for who read an old time stamp, again |
| `pod_lifecycle` | Is what is settled classed, what is gone unmapped? | a dual-stack pod without class and a host network pod whose annotated class changes while `pod.json` gives it another, both other than a new cgroup's when first set, every order of the events of both |
| `pod_restart` | Do restarts and panics take anything from pods that are there (`KeptUntilGone`), and how far do the limits of one line reach? | two pods and one file with different limits for each, in rx and tx and from the annotation, which comes and goes: whatever reaches a wrong cgroup shows; one restart at any step; the pod without class makes the daemon panic, and is deleted at once when it is (`AtOnce`), the other one terminates first |
| `pod_liveness` | Is what is settled mapped, do the files come into force, are limits of gone pods removed? | a dual-stack pod with late addresses, a change of tx only, one failing write or delete and one restart, anywhere |
| `global_config` | Is what is in force valid, whole and the file's? | a word of 32; files whose directions are valid, too crowded, zero, unreadable or so large that sums wrap, and a refused one whose valid half is in no other; the daemon and two commands, one failure or kill; two runs of commands interleave with a sync |
| `edt` | Does the horizon bound what delays do to a time stamp, are departures spaced? | two processors (an overwritten `t_last`), a pod's and a class's shaper, one Put; the horizon is longer than one packet's delay and as long as two; packets stamped ahead by less than the horizon and by as much; rates 0 and 1 |
| `dataplane` | Does every link end up as the settings say, does every packet meet its limits? | two links that change twice, one failing call, one kill, two settings (both directions; egress with a link excluded); one processor: packets share nothing but the maps |

Each property of a passing run has a mutant, a plausible bug in the code, that
the run finds. The mutants' operators are in the modules, marked "Mutation".

Runs that end in a violation: the code does not do what a document or a comment
says. `PROJECT.json` quotes the line.

| Run | Property | What TLC finds |
|---|---|---|
| `pod_ip_reuse` | `PodsMapped` | the old owner's deletion removes the new owner's entry |
| `pod_annotation` | `AnnotationEnforced` | a file sync deletes the limit an annotation asked for |

`CHECK_DEADLOCK FALSE` stands where the clock, the bytes, the UIDs or the faults
are bounded and the model may come to its end, and for the link manager, which
waits for events.

`pod_lifecycle`, `pod_restart` and `pod_liveness` give every pod its own
addresses, name and UID: reuse of an address breaks `PodsMapped`
(`pod_ip_reuse`), and so does reuse of a name (below). What they say is that
nothing else loses an entry: late addresses, late cgroups, retries, file syncs,
failing writes, restarts. `GoneUnmapped` is checked without restarts, failing
deletions and moving addresses, which break it (below).

### Instances beside the runs

Configurations kept for the deviations that were met while modelling. Each
violates its property in seconds (`tlc -config <name>.cfg <module>`). One more,
`TokenContract` (`MCTokenBucket`), passes: `Conforms` and `DropsBounded` with one
processor, two enforced rates and a longer clock.

| Configuration | Module | Property | Line | What TLC finds |
|---|---|---|---|---|
| `AdjustRace` | `MCAdjustRate` | `AdjustmentsSpaced` | `qos_tc.c:316` | two processors adjust in one interval |
| `AdjustFloorless` | `MCAdjustRate` | `NeverUnlimited` | `qos_tc.c:330` | a minimum below a `MEGABYTE` becomes a rate of 0, which is no limit |
| `AdjustHotMinimum` | `MCAdjustRate` | `ContentionKeepsMinimum` | `qos_tc.c:340` | a raised minimum is not restored by an adjustment in contention |
| `AdjustBoot` | `MCAdjustRate` | `LimitedOnceAdjusted` | `qos_tc.c:531` | L1 and L2 are unlimited after the first adjustment |
| `AdjustStaleCap` | `MCAdjustRate` | `NewCapTakesEffect` | `qos_tc.c:370` | a lowered maximum is never applied while the average equals the host bandwidth |
| `TokenStarvation` | `MCTokenBucket` | `NeverStarved` | `qos_tc.c:136` | packets faster than a microsecond get no tokens |
| `MeterSteady` | `MCMeterSteady` | `ContentionSeen` | `qos_tc.c:106` | the loop covers the meter and eight of nine samples and divides by nine: steady traffic 5% above the host bandwidth is averaged below it |
| `MeterRace` | `MCNetStat` | `ElapsedValid` | `qos_tc.c:71` | the elapsed time wraps |
| `MeterOwnEntries` | `MCNetStat` | `OwnEntries` | `qos_tc.c:62` | egress writes among ingress's samples |
| `PodRecreated` | `MCPodSync` | `PodsMapped` | `syncer.go:183` | a pod recreated under its name keeps the old cgroup |
| `PodLeak` | `MCPodSync` | `GoneUnmapped` | `syncer.go:155` | the entry of a pod that went while the daemon was down stays |
| `PodMoved` | `MCPodSync` | `GoneUnmapped` | `syncer.go:218` | the entry of a former address stays |
| `PodPanic` | `MCPodSync` | `NoPanic` | `syncer.go:358` | a nil priority is dereferenced |
| `PodAlias` | `MCPodSync` | `OwnLimits` | `syncer.go:273` | a pod with an annotation is written the limits of another line |
| `EdtHeadOfLine` | `MCEdt` | `UnlimitedUndelayed` | `qos_tc.c:257` | a packet that its pod's limit stamped ahead leaves that stamp in its class's time stamp, and the class's next packet, which met no rate, waits for it |
| `LinkMissed` | `MCDataplane` | `NoneMissed` | `manager.go:146` | a link that comes up between list and subscription is never limited |
| `LinkNotReady` | `MCDataplane` | `FiltersReady` | `manager.go:192` | the first link has its filter before the programs are in the array |
| `LinkExcluded` | `MCDataplane` | `ExcludedSpared` | `damon.go:111` | a link that is excluded from a restart on keeps its filter |
| `PacketsDropped` | `MCDataplane` | `TrafficAdjusts` | `qos_tc.c:559` | a class whose packets are all dropped never adjusts the rates |

## Fairness

* Dataplane: a BPF program runs to completion (`WF` of each processor's step),
  time passes, packets keep coming (`WF` of `Enter`). `ContentionReachesMinima` and
  `SpareReachesMaxima` name their conditions on the load. `DropsBounded` says as
  an invariant what fairness would turn into service.
* Daemon: the file loop goes on (`WF`), and the worker gets the lock although it is
  free only now and then (`SF` of `Reconcile`: a Go mutex is handed to whoever has
  waited for a millisecond); the work queue serves each name in turn and the ticker
  is served although file events may come first (`SF`: a `select` chooses among
  ready cases at random); the kubelet creates
  the cgroup of a running pod (`WF`). Nothing is assumed about the cluster
  otherwise, nor that map operations succeed, only that failures are finite
  (`MaxFaults`).
* `GlobalConfig`: the ticker ticks and the daemon, once it writes, gets on (`WF` of
  `Sync` and of `Step(Daemon)`); nothing is assumed of commands, which may stop
  half way for good.
* `Dataplane`: the daemon is scheduled and started again when it ends (`WF` of
  `Work`; Kubernetes restarts the container), a program on a packet ends. Neither
  packets nor changes of links are assumed to come. Changes, faults and kills are
  finite, and `EventuallyAttached` would not hold of a link that never rests.

## Proofs

| Theorem | Says | Argument |
|---|---|---|
| `AdjustRateProofs!TypeCorrect` | `[]TypeOK`, so no subtraction underflows | inductive as it stands, with `SuppressedBounds`, `RecoveredBounds` |
| `AdjustRateProofs!Capped` | no rate above the largest configured maximum | `CapInv`: also the configurations and rates in the processors' locals are bounded, a torn read by fields of known configurations |
| `AdjustRateProofs!LimitsKept` | `StaysLimited`: a rate becomes 0 only in a class that some configuration is read with a minimum of 0 for | `LimitedInv`: for the other classes (`Floored`) the minima and maxima a processor has read are positive, torn or not (`KnownConf`, `ReadConf`), and a recovery has some overflow |
| `AdjustRateProofs!Taken` | one processor takes in contention exactly the excess, or all there is above the minima, and charges none of it twice (`ExcessTaken`) | `CascadeInv`: the locals of the one processor are the rates, what it has taken and what is left in the overflow add up to the excess (`HandedOn`), and where it is in a cascade says which classes are at their minimum; `SuppressMoves` is one rate's share of it |
| `AdjustRateProofs!Given` | with bandwidth to spare it gives exactly that, or all that lacks to the maxima (`SpareGiven`) | the same invariant, upwards; `RecoverMoves` |
| `AdjustRateProofs!Implements` | refines `PriorityPolicy` | `PolicyInv`: `CascadeInv`, and whatever is read is the one configuration |
| `AdjustRateProofs!Ordered` | `[]PriorityOrder` | the same invariant and the steps of the policy |
| `AdjustRateProofs!MinimumKept` | an adjustment in contention leaves no class below its minimum | `PolicyInv` and `PriorityOrder`: the class that stops a cascade had more than its minimum, so the classes above it have their maxima |
| `TokenBucketProofs!TypeCorrect` | `[]TypeOK`, tokens never negative | inductive as it stands |
| `TokenBucketProofs!Burst` | no interleaving leaves more than one second of some rate | `BurstInv`: the same of the replaced element and of each processor's copy |
| `TokenBucketProofs!Stamps` | no time stamp ahead of the clock read after it | `StampInv`: a stamp read is in the past, and the clock is read after it |
| `TokenContractProofs!Contract` | `[]Conforms`: one burst, the rate times the time, a burst per Put | `ContractInv`: while processors take turns either the bytes and what the bucket holds are paid for by the time up to its last filling, or a whole burst is still to come (`Paid`); `Gain` and `PaidFilled` do the arithmetic of a refill, truncation and wrap included |
| `TokenContractProofs!Drops` | `[]DropsBounded` | `DropInv`: the bucket holds a microsecond's share for each drop |
| `NetStatProofs!TypeCorrect` | `[]TypeOK` | `CountInv` with `Local`, what a processor's locals are between its accesses |
| `NetStatProofs!Spared` | no sample overwrites a meter | the same invariant: every index stored or read is an entry's |
| `NetStatProofs!CountedOnce` | `[]NoDoubleCount`, for any number of processors | `CountInv`: what a processor holds is owed as long as nobody has sampled it (`Backed`), and `outdated` has everyone else |
| `NetStatProofs!Overtaken` | `[]WrapsOvertaken`, for any number of processors | `TimeInv`: no stored time stamp is ahead of the clock, and whoever has yet to read one is either in `overtaken` or will read none ahead of its own (`Ordinal`) |
| `GlobalConfigProofs!TypeCorrect` | `[]TypeOK`: all numbers are u64 | inductive as it stands |
| `GlobalConfigProofs!InForce` | `[]InForceValid` | `ForceInv`: an entry is derived from a valid source, and so is what each writer is about to Put; `DerivedSound` does the arithmetic |
| `GlobalConfigProofs!Together` | `VettedTogether` | a writer's configuration is one of the sources and both of its directions are valid |
| `GlobalConfigProofs!Success` | `[]SuccessMeansBoth` | `SuccessInv`: the directions an undisturbed writer has passed are as it wants them |
| `EdtProofs!TypeCorrect` | `[]TypeOK` | with the invariant below: a packet at a shaper of its own |
| `EdtProofs!HorizonKept` | `[]WithinHorizon`, for any stamps on arrival | `IInv`: a packet's stamp is one that all the shapers still before it may hold (`Allowed`), and the clock only grows |
| `EdtProofs!DeparturesSpaced` | `Spaced` | `IInv`: a processor that nobody overwrote has computed from the shaper's `tail` |
| `DataplaneProofs!TypeCorrect` | `[]TypeOK` | inductive with the conjuncts on `step` |
| `DataplaneProofs!SettledAttached` | `[]AttachedWhenSettled` | `LinkInv`: the last event queued for a link tells it as it is (`QueueCurrent`), and a valid link that was not missed is attached, at work, or still to come (`Tended`) |
| `DataplaneProofs!Directed` | `[]DirectionKept` | `PacketInv`: the mark is the hook's alone |
| `DataplaneProofs!Limited` | `[]LimitedOnceReady` | `PacketInv`, and the program array only grows (`ProgGrows`), restarts included |
| `PodSyncProofs!TypeCorrect` | `[]TypeOK`, the lock and the lines included | inductive as it stands |
| `PodSyncProofs!Reconciled` | `[]PodsMapped` | `ServedInv`: the worker has read what there is or the name is queued again (`Current`), what is cached is of the name's pod (`Owned`), a class came from the annotation or from `pod.json` (`Suits`, `FromFiles`) |
| `PodSyncProofs!NeverUnmapped` | `KeptUntilGone`: no step takes the entries of a pod that runs or terminates | `ThereInv`: every name queued or at work had a pod (`Announced`), and what the worker has read as gone is gone for good (`Departed`), so `DeletePod` is only ever called of what is gone; `PutThere` of the writes |
| `PodSyncProofs!HostNetworkClassed` | `[]HostClassed` | `ServedInv` again, which says of classes what it does of addresses |
| `PodSyncProofs!LimitsReach` | `[]LimitsConfined`, without any assumption on files, names or addresses | `LimitsInv`: the limits cached of a pod are its own or those of a line beside one of its own (`Kept`), and `UpdatePod` does not read them without an annotation; the lines to come and the names done are of one file (`OneFile`) |
| `PodSyncProofs!Forgotten` | `[]GoneUnmapped` | `GoneInv`: each entry of `pod_map` has a cached owner that `DeletePod` will find (`MapOwned`), and what is cached of a settled name is alive (`Remembered`, from `Stays`) |

Assumptions: those of the modules (`ConfsAssumption`, `BoundsAssumption`,
`BucketAssumption`, `MeterAssumption`, `ConfigAssumption`, `NamesAssumption`,
`EdtAssumption`, `LinkAssumption`, `SyncAssumption`) and of the theorems:

* one processor (`Sole`) for `Taken` and `Given`, which are about the sums of one
  cascade: two processors each take the whole excess, one of them from rates the other
  has cut. One processor and one configuration (`Alone`) for `Implements`, `Ordered` and
  `MinimumKept`. `AdjustRace` and `AdjustHotMinimum` are what happens without;
* a clock that has not wrapped (`MaxClock < Word`, 584 years) for `Stamps`, `Contract`
  and `Drops`, for the last two that the rates have a highest (`RatesBounded`), and for
  `Drops` that the product of line 130 fits a word (`ProductFits`): at 1 GB/s it does
  for five hours without a packet;
* one pod per name (`OnePodPerName`) for `Reconciled`, `NeverUnmapped`,
  `HostNetworkClassed` and `Forgotten` (`PodRecreated`); addresses that are never
  another pod's (`OwnAddresses`) for the first two only (`PodIpReuse`): classes and
  clean-up survive that an address passes on. Restarts, panics and failures are free.
  `Forgotten` also needs addresses that stay, deletions that succeed and no restart
  (`FixedAddresses`, `NoLeak`; `PodMoved`, `PodLeak`).

Otherwise they hold for any set of processors and any finite or infinite set of
configurations, loads, rates and lengths.

Only model-checked: all liveness (fairness and `ENABLED` are out of the prover's
reach): `FileTakesEffect`, `EventuallyAttached`, `PodFileTakesEffect`,
`RatesReclaimed`, `ContentionReachesMinima`, `SpareReachesMaxima`. Every invariant and
every action property of a passing run is a theorem.

## Not modelled

* Parsing of files, annotations and quantities, listing, logging, wording: a file
  is the numbers or entries found in it, an annotation a limit or none.
* Compiling and loading the BPF objects (`compile.go`, `getBpfObj`): one step of
  `LinkMgr` that succeeds; the daemon that fails there is one that has not started.
* Which packet has which class on its way to `qos_global`: an arbitrary choice.
  Host network packets get their cgroup's classid on kernels from 5.10 and keep
  their priority before that.
* A link that is renamed: its name is fixed while it is up.
* A deleted or replaced element of a hash map that the kernel gives to another key
  while a processor still holds it (preallocated maps): `old` is only ever the
  replaced element.
* An end of the netlink subscription, after which the event loop is over and the
  daemon goes on without it: the kernel would have to fail a receive.
* Most of the C lines of the repository are vendored kernel and libbpf headers
  (`src/bpf/headers`: helper prototypes, structures, macros). They have no behaviour
  to model, so the share of all lines that the modules stand for is small
  by nature; of the program's own `qos_tc.c`, `qos_tc.h` and the Go packages, what
  changes state is modelled.

## Plan

1. Classes of packets in `Dataplane`, from the writers of `pod_map` in `PodSync`.
2. Parsing of annotations and quantities as a conversion, where rounding and range
   checks decide a limit.
