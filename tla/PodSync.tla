------------------------------ MODULE PodSync ------------------------------
(***************************************************************************)
(* The daemon's path from a pod to the BPF maps: the pod controller        *)
(* (pkg/k8s), the Syncer with its PodCache and cgroup lookup (pkg/config)  *)
(* and the Writer (pkg/bpf/maps.go).  Two goroutines change the state      *)
(* under the Syncer's lock: the controller's worker, one pod name at a     *)
(* time, and the file loop, on a file event or a tick of 5 seconds.  The   *)
(* worker holds the lock for one action, the file loop from the first line *)
(* of a file to the cleaning up.                                           *)
(*                                                                         *)
(* A pod's cgroup is named by the pod's UID: path and inode are one to one *)
(* with it.  The maps are pinned and outlive the daemon, everything else   *)
(* is lost when it restarts.                                               *)
(***************************************************************************)
EXTENDS Integers, FiniteSets, SequencesExt

CONSTANTS
  Name,         \* namespace/name of the pods of this node
  Uid, Ip,
  V4,           \* the IPv4 addresses among Ip: they are written first
  Nil,          \* a nil pointer, an absent object or map entry
  Objects,      \* what the API server may hold for a name
  CgroupFiles,  \* what the file per_cgroup_bps_limit may hold, in lines
  PodFiles,     \* what the file pod.json may hold, a JSON object: no order
  MovingIps,    \* whether the addresses of a running pod may change
  Faulty,       \* the map operations that may fail: "write", "delete"
  MaxFaults,    \* bound on how often they do
  MaxCrashes    \* bound on restarts of the daemon, its own panics included

Prio == 0..2
Limit == Nat    \* bytes per second; 0 in a map stands for no entry

\* What the daemon reads of a pod: addresses, host network or not, the
\* bandwidth annotations and the priority of the class annotation.
Object == [name : Name, uid : Uid, ips : SUBSET Ip, host : BOOLEAN,
           rx : Limit \cup {Nil}, tx : Limit \cup {Nil}, prio : Prio \cup {Nil}]

Entry == [cg : Uid, rx : Limit, tx : Limit, prio : Prio \cup {Nil}]

\* What PodCache holds of a pod.
Cached == [ips : SUBSET Ip, host : BOOLEAN, prio : Prio \cup {Nil}, cg : Uid,
           class : Prio, rx : Limit \cup {Nil}, tx : Limit \cup {Nil}]

\* The value of pod_map.
CgroupInfo == [cg : Uid, class : Prio]

ASSUME SyncAssumption ==
  /\ Objects \subseteq Object
  /\ V4 \subseteq Ip
  /\ \A f \in CgroupFiles : f \in Seq(Entry) /\ \A i \in DOMAIN f : f[i].prio = Nil
  /\ \A f \in PodFiles : f \subseteq Entry /\ IsFiniteSet(f)
  /\ Faulty \subseteq {"write", "delete"}
  /\ MaxFaults \in Nat /\ MaxCrashes \in Nat
  /\ MovingIps \in BOOLEAN
  /\ Nil \notin Nat \cup Name \cup Objects \cup Cached \cup CgroupInfo \cup Seq(Entry)

VARIABLES
  api,       \* the pod objects, as the controller's cache shows them
  phase,     \* deletion timestamp: none, in the future, passed
  used,      \* UIDs that were given to a pod: never again
  cgroups,   \* cgroup directories that exist
  classid,   \* net_cls.classid of each
  cgFile, podFile,
  queue,     \* names the controller has still to reconcile
  worker,    \* the reconciliation under way: the object that was read
  cache,     \* PodCache, by PodID
  lru,       \* the cgroup cache, by UID: the class that was read
  sync,      \* the file loop: files still to sync, lines that were read and
             \* are still to come, pods and cgroups of those that are done
  podMap,    \* pod_map, by address
  rates,     \* cgroup_rate_map, by inode, both directions
  faults, crashes

cluster == <<api, phase, used, cgroups, cgFile, podFile>>
daemon == <<queue, worker, cache, lru, sync>>
maps == <<podMap, rates>>
budget == <<faults, crashes>>
vars == <<cluster, classid, daemon, maps, budget>>

IdleWorker == [name |-> Nil, obj |-> Nil, phase |-> "run"]
IdleSync == [todo |-> <<>>, entries |-> Nil, locked |-> FALSE, names |-> {}, current |-> {}]
NoLimit == [rx |-> 0, tx |-> 0]

Init ==
  /\ api = [n \in Name |-> Nil]
  /\ phase = [n \in Name |-> "run"]
  /\ used = {} /\ cgroups = {}
  /\ classid = [u \in Uid |-> 0]
  /\ cgFile \in CgroupFiles /\ podFile \in PodFiles
  /\ queue = {} /\ worker = IdleWorker
  /\ cache = [n \in Name |-> Nil]
  /\ lru = [u \in Uid |-> Nil]
  /\ sync = IdleSync
  /\ podMap = [ip \in Ip |-> Nil]
  /\ rates = [u \in Uid |-> NoLimit]
  /\ faults = 0 /\ crashes = 0

-----------------------------------------------------------------------------
(* The cluster: pods, their cgroups, the files.                            *)

\* An address is free once the pod that had it is gone or its deletion
\* timestamp has passed (the comments in Reconcile).
Free(ips, n) ==
  \A m \in Name \ {n} :
    api[m] # Nil /\ ~api[m].host /\ phase[m] # "expired" => api[m].ips \cap ips = {}

\* The predicates let an event through when the object has an address.
Notified(n, o) == IF o.ips = {} THEN queue ELSE queue \cup {n}

Created(n) ==
  /\ api[n] = Nil
  /\ \E o \in Objects :
       /\ o.name = n /\ o.uid \notin used
       /\ o.host \/ Free(o.ips, n)
       /\ api' = [api EXCEPT ![n] = o]
       /\ used' = used \cup {o.uid}
       /\ queue' = Notified(n, o)
  /\ phase' = [phase EXCEPT ![n] = "run"]
  /\ UNCHANGED <<cgroups, cgFile, podFile, classid, worker, cache, lru, sync, maps, budget>>

Updated(n) ==
  /\ api[n] # Nil /\ phase[n] = "run"
  /\ \E o \in Objects \ {api[n]} :
       /\ o.name = n /\ o.uid = api[n].uid /\ o.host = api[n].host
       /\ MovingIps \/ api[n].ips = {} \/ o.ips = api[n].ips
       /\ o.host \/ Free(o.ips, n)
       /\ api' = [api EXCEPT ![n] = o]
       /\ queue' = Notified(n, o)
  /\ UNCHANGED <<phase, used, cgroups, cgFile, podFile, classid, worker, cache, lru, sync, maps, budget>>

Terminating(n) ==
  /\ api[n] # Nil /\ phase[n] = "run"
  /\ phase' = [phase EXCEPT ![n] = "term"]
  /\ queue' = Notified(n, api[n])
  /\ UNCHANGED <<api, used, cgroups, cgFile, podFile, classid, worker, cache, lru, sync, maps, budget>>

\* Time passes: no event.
Expired(n) ==
  /\ api[n] # Nil /\ phase[n] = "term"
  /\ phase' = [phase EXCEPT ![n] = "expired"]
  /\ UNCHANGED <<api, used, cgroups, cgFile, podFile, classid, daemon, maps, budget>>

Removed(n) ==
  /\ api[n] # Nil
  /\ api' = [api EXCEPT ![n] = Nil]
  /\ phase' = [phase EXCEPT ![n] = "run"]
  /\ queue' = queue \cup {n}
  /\ UNCHANGED <<used, cgroups, cgFile, podFile, classid, worker, cache, lru, sync, maps, budget>>

Running(u) == \E n \in Name : api[n] # Nil /\ api[n].uid = u /\ phase[n] = "run"

CgroupUp(u) ==
  /\ u \notin cgroups /\ Running(u)
  /\ cgroups' = cgroups \cup {u}
  /\ UNCHANGED <<api, phase, used, cgFile, podFile, classid, daemon, maps, budget>>

CgroupDown(u) ==
  /\ u \in cgroups /\ ~Running(u)
  /\ cgroups' = cgroups \ {u}
  /\ UNCHANGED <<api, phase, used, cgFile, podFile, classid, daemon, maps, budget>>

\* The files are the keys of one ConfigMap.
FileWritten ==
  /\ cgFile' \in CgroupFiles /\ podFile' \in PodFiles
  /\ cgFile' # cgFile \/ podFile' # podFile
  /\ UNCHANGED <<api, phase, used, cgroups, classid, daemon, maps, budget>>

Cluster ==
  \/ \E n \in Name : Created(n) \/ Updated(n) \/ Terminating(n) \/ Expired(n) \/ Removed(n)
  \/ \E u \in Uid : CgroupUp(u) \/ CgroupDown(u)
  \/ FileWritten

-----------------------------------------------------------------------------
(* The Writer.                                                             *)

\* pod_map after the entries of some of a pod's addresses were put or deleted.
Put(map, ips, c) == [ip \in Ip |-> IF ip \in ips THEN [cg |-> c.cg, class |-> c.class] ELSE map[ip]]

\* Mutation: IPv6 addresses are forgotten.
DeletedV4(map, ips) == [ip \in Ip |-> IF ip \in ips \cap V4 THEN Nil ELSE map[ip]]

Deleted(map, ips) == [ip \in Ip |-> IF ip \in ips THEN Nil ELSE map[ip]]

RxKept(old, rx) == rx # 0 /\ rx = old.rx

\* WriteCgroupRate compares rx first and returns when it is what the map has:
\* tx is not looked at then.
CgroupRate(old, rx, tx) == IF RxKept(old, rx) THEN old ELSE [rx |-> rx, tx |-> tx]

OrZero(limit) == IF limit = Nil THEN 0 ELSE limit

\* WritePodInfo: the maps after it, when `done' of its operations, the puts of
\* the IPv4 and the IPv6 address, the rx and the tx limit, have succeeded.
All == 4
PodInfo(m, c, done) ==
  LET old == m.rates[c.cg]
      new == CgroupRate(old, OrZero(c.rx), OrZero(c.tx))
      ips == IF done = 0 THEN {} ELSE IF done = 1 THEN c.ips \cap V4 ELSE c.ips
  IN IF c.host THEN m
     ELSE [podMap |-> Put(m.podMap, ips, c),
           rates  |-> [m.rates EXCEPT ![c.cg] =
                         [rx |-> IF done >= 3 THEN new.rx ELSE old.rx,
                          tx |-> IF done = All THEN new.tx ELSE old.tx]]]

\* How far it may get when one operation fails.
Partial(m, c) ==
  CASE c.host -> {}
    [] ~c.host /\ RxKept(m.rates[c.cg], OrZero(c.rx)) -> 0..2
    [] OTHER -> 0..3

MapState == [podMap |-> podMap, rates |-> rates]

\* SetCgroupClassID: needs the directory.
SetsClass(c) == c.host /\ c.prio # Nil

\* Mutation: a class that was set is left as it is.
ClassifiedOnce(ids, c) ==
  IF SetsClass(c) /\ ids[c.cg] = 0 THEN [ids EXCEPT ![c.cg] = c.prio] ELSE ids

Classified(ids, c) == IF SetsClass(c) THEN [ids EXCEPT ![c.cg] = c.prio] ELSE ids

Fault(op) == op \in Faulty /\ faults < MaxFaults /\ faults' = faults + 1

-----------------------------------------------------------------------------
(* The pod controller.                                                     *)

\* Reconcile reads the object.
Get(n) ==
  /\ worker = IdleWorker /\ n \in queue
  /\ queue' = queue \ {n}
  /\ worker' = [name |-> n, obj |-> api[n], phase |-> phase[n]]
  /\ UNCHANGED <<cluster, classid, cache, lru, sync, maps, budget>>

Done == worker' = IdleWorker /\ queue' = queue
\* Mutation: what failed is not tried again.
RetryDropped == worker' = IdleWorker /\ queue' = queue

\* An error or RequeueAfter.
Retry == worker' = IdleWorker /\ queue' = queue \cup {worker.name}

\* Mutation: a deletion timestamp in the future counts as passed.
GoneWhenTerminating == worker.obj = Nil \/ worker.phase # "run"

Gone == worker.obj = Nil \/ worker.phase = "expired"

\* DeletePod, of a pod that is cached or not.
DeletePod ==
  /\ worker # IdleWorker /\ Gone /\ ~sync.locked
  /\ cache' = [cache EXCEPT ![worker.name] = Nil]
  /\ LET c == cache[worker.name]
         deletes == c # Nil /\ ~c.host
     IN \/ /\ podMap' = IF deletes THEN Deleted(podMap, c.ips) ELSE podMap
           /\ Done /\ UNCHANGED faults
        \/ /\ deletes /\ Fault("delete")
           /\ \E ips \in {{}, c.ips \cap V4} \ {c.ips} : podMap' = Deleted(podMap, ips)
           /\ Retry
  /\ UNCHANGED <<cluster, classid, lru, sync, rates, crashes>>

\* The deletion timestamp is in the future, or the pod has no address.
Postpone ==
  /\ worker # IdleWorker /\ ~Gone
  /\ worker.phase = "term" \/ worker.obj.ips = {}
  /\ Retry
  /\ UNCHANGED <<cluster, classid, cache, lru, sync, maps, budget>>

ToUpdate == worker # IdleWorker /\ ~Gone /\ worker.phase = "run" /\ worker.obj.ips # {}

Prev == cache[worker.name]

\* GetCgroupByPodUID: on a miss every cgroup that exists is cached.
Lookup(u) ==
  IF lru[u] # Nil THEN lru
  ELSE [v \in Uid |-> IF v \in cgroups THEN classid[v] ELSE lru[v]]

\* Mutation: the cached limit, with an annotation or without.
LimitCached(annotated, known, cached) == IF known THEN cached ELSE annotated

\* An annotation gives way to the limit cached; without one there is no limit.
LimitTaken(annotated, known, cached) ==
  IF known /\ annotated # Nil THEN cached ELSE annotated

\* Mutation: the class is taken from the annotation, present or not.
ConfigUnclassed(o, prev) ==
  LET known == prev # Nil
  IN [ips   |-> o.ips, host |-> o.host, prio |-> o.prio,
      cg    |-> IF known THEN prev.cg ELSE o.uid,
      class |-> o.prio, rx |-> o.rx, tx |-> o.tx]

\* The configuration UpdatePod caches and writes.  Of a pod that was cached
\* it keeps the cgroup, and the cached limit where there is an annotation.
Config(o, prev) ==
  LET known == prev # Nil
      class == IF known THEN prev.class ELSE Lookup(o.uid)[o.uid]
  IN [ips   |-> o.ips, host |-> o.host, prio |-> o.prio,
      cg    |-> IF known THEN prev.cg ELSE o.uid,
      class |-> IF o.prio # Nil THEN o.prio ELSE class,
      rx    |-> LimitTaken(o.rx, known, prev.rx),
      tx    |-> LimitTaken(o.tx, known, prev.tx)]

CgroupMissing ==
  /\ ToUpdate /\ ~sync.locked /\ Prev = Nil
  /\ Lookup(worker.obj.uid)[worker.obj.uid] = Nil
  /\ lru' = Lookup(worker.obj.uid)
  /\ Retry
  /\ UNCHANGED <<cluster, classid, cache, sync, maps, budget>>

UpdatePod ==
  /\ ToUpdate /\ ~sync.locked
  /\ lru' = IF Prev = Nil THEN Lookup(worker.obj.uid) ELSE lru
  /\ Prev # Nil \/ lru'[worker.obj.uid] # Nil
  /\ LET c == Config(worker.obj, Prev)
     IN /\ cache' = [cache EXCEPT ![worker.name] = c]
        /\ IF SetsClass(c) /\ c.cg \notin cgroups
             THEN Retry /\ UNCHANGED <<classid, maps, faults>>
             ELSE /\ classid' = Classified(classid, c)
                  /\ \E done \in {All} \cup Partial(MapState, c) :
                       LET m == PodInfo(MapState, c, done)
                       IN /\ podMap' = m.podMap /\ rates' = m.rates
                          /\ \/ done = All /\ Done /\ UNCHANGED faults
                             \/ done < All /\ Fault("write") /\ Retry
  /\ UNCHANGED <<cluster, sync, crashes>>

\* The expiry of the cgroup cache, after 10 minutes.
Forget ==
  /\ \E u \in Uid : lru[u] # Nil /\ lru' = [lru EXCEPT ![u] = Nil]
  /\ UNCHANGED <<cluster, classid, queue, worker, cache, sync, maps, budget>>

Reconcile == DeletePod \/ Postpone \/ CgroupMissing \/ UpdatePod

-----------------------------------------------------------------------------
(* The file loop.                                                          *)

Tick ==
  /\ sync = IdleSync
  /\ sync' = [IdleSync EXCEPT !.todo = <<"cgroup", "pod">>]
  /\ UNCHANGED <<cluster, classid, queue, worker, cache, lru, maps, budget>>

FileEvent ==
  /\ sync = IdleSync
  /\ \E file \in {"cgroup", "pod"} : sync' = [IdleSync EXCEPT !.todo = <<file>>]
  /\ UNCHANGED <<cluster, classid, queue, worker, cache, lru, maps, budget>>

\* parsePerCgroupConfig, parsePodConfig: before the lock is taken.
ReadFile ==
  /\ sync.todo # <<>> /\ sync.entries = Nil
  /\ \E entries \in IF Head(sync.todo) = "cgroup" THEN {cgFile} ELSE SetToSeqs(podFile) :
       sync' = [sync EXCEPT !.entries = entries]
  /\ UNCHANGED <<cluster, classid, queue, worker, cache, lru, maps, budget>>

\* The cached pod of a line: ByCgroupPath, if the cgroup exists.
Owners(e) == { n \in Name : e.cg \in cgroups /\ cache[n] # Nil /\ cache[n].cg = e.cg }

Merged(c, e) ==
  [c EXCEPT !.rx = e.rx, !.tx = e.tx,
            !.prio = IF e.prio # Nil THEN e.prio ELSE @,
            !.class = IF e.prio # Nil THEN e.prio ELSE @]

\* The limits cached of a file's pods are pointers into the loop variable, one
\* for all the iterations: they all read the limits of the line it is at.
Aliased(pods, names, e) ==
  [n \in Name |-> IF n \in names THEN [pods[n] EXCEPT !.rx = e.rx, !.tx = e.tx] ELSE pods[n]]

LineToDo == sync.entries # Nil /\ sync.entries # <<>>

NextLine(names, current) ==
  sync' = [sync EXCEPT !.entries = Tail(@), !.locked = TRUE,
                       !.names = names, !.current = current]

NextFile == sync' = [IdleSync EXCEPT !.todo = Tail(sync.todo)]

\* A line without a cached pod.
SkipLine ==
  /\ LineToDo
  /\ LET e == Head(sync.entries)
     IN /\ Owners(e) = {}
        /\ cache' = Aliased(cache, sync.names, e)
  /\ NextLine(sync.names, sync.current)
  /\ UNCHANGED <<cluster, classid, queue, worker, lru, maps, budget>>

\* podChangeLocked logs *config.Prio, which may be nil.
Panics ==
  LineToDo /\ LET e == Head(sync.entries)
              IN \E n \in Owners(e) : Merged(cache[n], e).prio = Nil

\* podChangeLocked for the pod of a line.  An error ends the file's sync, with
\* no further line and no cleaning up.
SyncLine ==
  /\ LineToDo
  /\ LET e == Head(sync.entries)
     IN \E n \in Owners(e) :
          LET c == Merged(cache[n], e)
              names == sync.names \cup {n}
          IN /\ c.prio # Nil
             /\ cache' = Aliased([cache EXCEPT ![n] = c], names, e)
             /\ classid' = Classified(classid, c)
             /\ \E done \in {All} \cup Partial(MapState, c) :
                  LET m == PodInfo(MapState, c, done)
                  IN /\ podMap' = m.podMap /\ rates' = m.rates
                     /\ \/ /\ done = All /\ UNCHANGED faults
                           /\ NextLine(names, sync.current \cup {e.cg})
                        \/ done < All /\ Fault("write") /\ NextFile
  /\ UNCHANGED <<cluster, queue, worker, lru, crashes>>

\* Mutation: nothing is cleaned up.
CleanedNothing(r, current) == r

\* What is not in this file loses its limits.
Cleaned(r, current) == [u \in Uid |-> IF u \in current THEN r[u] ELSE NoLimit]

\* A limit that cannot be deleted, egress first, is left for the next time.
CleanUp ==
  /\ sync.entries = <<>>
  /\ LET cleaned == Cleaned(rates, sync.current)
     IN \/ rates' = cleaned /\ UNCHANGED faults
        \/ \E u \in Uid \ sync.current :
             /\ rates[u] # NoLimit /\ Fault("delete")
             /\ \E tx \in {0, rates[u].tx} :
                  rates' = [cleaned EXCEPT ![u] = [rx |-> rates[u].rx, tx |-> tx]]
  /\ NextFile
  /\ UNCHANGED <<cluster, classid, queue, worker, cache, lru, podMap, crashes>>

SyncStep == ReadFile \/ SkipLine \/ SyncLine \/ CleanUp

-----------------------------------------------------------------------------

\* The daemon starts again: the controller lists the pods.
Restarted ==
  /\ crashes < MaxCrashes /\ crashes' = crashes + 1
  /\ cache' = [n \in Name |-> Nil]
  /\ lru' = [u \in Uid |-> Nil]
  /\ worker' = IdleWorker /\ sync' = IdleSync
  /\ queue' = { n \in Name : api[n] # Nil /\ api[n].ips # {} }

Crash ==
  /\ Restarted
  /\ UNCHANGED <<cluster, classid, maps, faults>>

\* What the lines before have written stays.
Panic ==
  /\ Panics
  /\ Restarted
  /\ UNCHANGED <<cluster, classid, maps, faults>>

Daemon ==
  \/ \E n \in Name : Get(n)
  \/ Reconcile \/ Forget
  \/ Tick \/ FileEvent \/ SyncStep
  \/ Crash \/ Panic

Next == Cluster \/ Daemon

Spec == Init /\ [][Next]_vars

\* The worker and the file loop keep running and both get the lock (a Go mutex
\* is handed to whoever has waited for a millisecond), every queued name is taken
\* in turn, the ticker fires, the kubelet creates the cgroups of running pods.
Fairness ==
  /\ SF_vars(Reconcile) /\ WF_vars(SyncStep)
  /\ SF_vars(Tick)
  /\ \A n \in Name : SF_vars(Get(n))
  /\ \A u \in Uid : WF_vars(CgroupUp(u))

FairSpec == Spec /\ Fairness

-----------------------------------------------------------------------------

\* Every variable has its type.
TypeOK ==
  /\ api \in [Name -> Objects \cup {Nil}]
  /\ phase \in [Name -> {"run", "term", "expired"}]
  /\ used \subseteq Uid /\ cgroups \subseteq Uid
  /\ classid \in [Uid -> Prio]
  /\ cgFile \in CgroupFiles /\ podFile \in PodFiles
  /\ queue \subseteq Name
  /\ worker \in {IdleWorker} \cup [name : Name, obj : Objects \cup {Nil},
                                   phase : {"run", "term", "expired"}]
  /\ cache \in [Name -> Cached \cup {Nil}]
  /\ lru \in [Uid -> Prio \cup {Nil}]
  /\ sync \in [todo : Seq({"cgroup", "pod"}), entries : Seq(Entry) \cup {Nil},
               locked : BOOLEAN, names : SUBSET Name, current : SUBSET Uid]
  /\ sync.entries # Nil => sync.todo # <<>>
  /\ \A n \in sync.names : sync.locked /\ cache[n] # Nil
  /\ podMap \in [Ip -> CgroupInfo \cup {Nil}]
  /\ rates \in [Uid -> [rx : Limit, tx : Limit]]
  /\ faults \in 0..MaxFaults /\ crashes \in 0..MaxCrashes

\* Nothing is left to do for a name.
Settled(n) == n \notin queue /\ worker.name # n

Limitable(n) ==
  Settled(n) /\ api[n] # Nil /\ phase[n] = "run" /\ api[n].ips # {} /\ ~api[n].host

\* Whatever the order of events, retries, file syncs and restarts, once a
\* running pod has nothing left to reconcile the dataplane finds its cgroup
\* and class under each of its addresses, and the class is the annotated one
\* unless pod.json gives it another (pod_map, "index by pod ip", qos_tc.h:104).
PodsMapped ==
  \A n \in Name : Limitable(n) =>
    \A ip \in api[n].ips :
      /\ podMap[ip] # Nil
      /\ podMap[ip].cg = api[n].uid
      /\ \/ api[n].prio \in {Nil, podMap[ip].class}
         \/ \E f \in PodFiles : \E e \in f : e.cg = api[n].uid

\* A pod that is gone, or whose addresses may be given to another, leaves
\* nothing behind in the cache or under any address.
GoneUnmapped ==
  /\ \A n \in Name : Settled(n) /\ (api[n] = Nil \/ phase[n] = "expired") => cache[n] = Nil
  /\ \A ip \in Ip : podMap[ip] # Nil =>
       \E n \in Name : cache[n] # Nil /\ ip \in cache[n].ips /\ cache[n].cg = podMap[ip].cg

\* What a pod has in pod_map it keeps until its object is gone or its deletion
\* timestamp has passed, also while it terminates: whatever the worker has read,
\* and whichever restarts, retries and other pods' deletions come in between, no
\* step removes its entries or gives them to another cgroup (pods.go:107-124).
KeptUntilGone ==
  [][\A n \in Name : api[n] # Nil /\ ~api[n].host /\ phase[n] # "expired" =>
       \A ip \in api[n].ips :
         podMap[ip] # Nil /\ podMap[ip].cg = api[n].uid
           => podMap'[ip] # Nil /\ podMap'[ip].cg = api[n].uid]_vars

\* A pod of the host network has its annotated class on its cgroup once it is
\* reconciled, unless a file gives it another.
HostClassed ==
  \A n \in Name :
    Settled(n) /\ api[n] # Nil /\ phase[n] = "run" /\ api[n].ips # {} /\ api[n].host /\ api[n].prio # Nil
      => \/ classid[api[n].uid] = api[n].prio
         \/ \E f \in PodFiles : \E e \in f : e.cg = api[n].uid /\ e.prio = classid[e.cg]

\* No limit, or one of a pod's own annotations or own lines in the files.
OwnRx(u, x) ==
  \/ x = 0
  \/ \E o \in Objects : o.uid = u /\ o.rx = x
  \/ \E f \in CgroupFiles : \E i \in DOMAIN f : f[i].cg = u /\ f[i].rx = x
  \/ \E f \in PodFiles : \E e \in f : e.cg = u /\ e.rx = x

OwnTx(u, x) ==
  \/ x = 0
  \/ \E o \in Objects : o.uid = u /\ o.tx = x
  \/ \E f \in CgroupFiles : \E i \in DOMAIN f : f[i].cg = u /\ f[i].tx = x
  \/ \E f \in PodFiles : \E e \in f : e.cg = u /\ e.tx = x

\* The lines of a file, of either kind.
Lines == PodFiles \cup { {f[i] : i \in DOMAIN f} : f \in CgroupFiles }

\* The limit of any line of a file that has a line of the cgroup.
BesideRx(u, x) == \E f \in Lines : \E d, e \in f : d.cg = u /\ e.rx = x
BesideTx(u, x) == \E f \in Lines : \E d, e \in f : d.cg = u /\ e.tx = x

\* A pod of the cgroup's name has, or may be given, the annotation.
AnnotatedRx(u) == \E o, q \in Objects : o.uid = u /\ q.name = o.name /\ q.rx # Nil
AnnotatedTx(u) == \E o, q \in Objects : o.uid = u /\ q.name = o.name /\ q.tx # Nil

ConfinedRx(u, x) == OwnRx(u, x) \/ (AnnotatedRx(u) /\ BesideRx(u, x))
ConfinedTx(u, x) == OwnTx(u, x) \/ (AnnotatedTx(u) /\ BesideTx(u, x))

\* How far the limits of one pod can reach another, although those cached of a
\* file's pods are pointers into one loop variable (syncer.go:273): a cgroup is
\* limited to what its own pod's annotations or its own lines say, and only in a
\* direction its pod is annotated for to another line of a file that has one of
\* its own.  That holds at any line of a file, after one that ended half way, and
\* whatever pods come, go and take the name of others.
LimitsConfined == \A u \in Uid : ConfinedRx(u, rates[u].rx) /\ ConfinedTx(u, rates[u].tx)

\* A cgroup is limited only to what its own pod's annotations or its own lines
\* in the files say.
OwnLimits == \A u \in Uid : OwnRx(u, rates[u].rx) /\ OwnTx(u, rates[u].tx)

\* Once a pod is reconciled the limit in force is the annotated one, also after
\* the annotation changed (README.md:88), and it stays.
AnnotationEnforced ==
  \A n \in Name : Limitable(n) /\ api[n].rx # Nil => rates[api[n].uid].rx = api[n].rx

\* A nil priority is legal (podChangeLocked tests for it): it ends no daemon.
NoPanic == ~Panics

\* What pod.json says is in force again and again, also when a write failed or
\* only tx was changed, which WriteCgroupRate alone would not notice.
PodFileTakesEffect ==
  \A f \in PodFiles :
    <>[](podFile = f) =>
      []<>(\A e \in f : e.cg \in cgroups /\ (\E n \in Name : cache[n] # Nil /\ cache[n].cg = e.cg)
                          => rates[e.cg] = [rx |-> e.rx, tx |-> e.tx])

\* The limits of a cgroup that is gone are removed for good, although
\* DeletePod does not touch them.
RatesReclaimed ==
  \A u \in Uid :
    (u \in used /\ u \notin cgroups /\ \A n \in Name : api[n] = Nil \/ api[n].uid # u)
      ~> [](rates[u] = NoLimit)

=============================================================================
