--------------------------- MODULE PodSyncProofs ---------------------------
(***************************************************************************)
(* What the daemon keeps of the pods, for any set of pods, addresses and   *)
(* files: types, what is mapped and classed once a pod is reconciled, and  *)
(* what is left of one that is gone.                                       *)
(***************************************************************************)
EXTENDS PodSync, FiniteSetTheorems, TLAPS

-----------------------------------------------------------------------------
(* Types.                                                                  *)

Maps == [podMap : [Ip -> CgroupInfo \cup {Nil}],
         rates : [Uid -> [rx : Limit, tx : Limit]]]

LEMMA NilNoFile == Nil # <<>> /\ \A entries \in Seq(Entry) : entries # Nil
<1>1. <<>> \in Seq(Entry)
  OBVIOUS
<1> QED
  BY <1>1, SyncAssumption

LEMMA PutType ==
  ASSUME NEW map \in [Ip -> CgroupInfo \cup {Nil}],
         NEW ips \in SUBSET Ip, NEW c \in Cached
  PROVE  Put(map, ips, c) \in [Ip -> CgroupInfo \cup {Nil}]
<1>1. [cg |-> c.cg, class |-> c.class] \in CgroupInfo
  BY DEF Cached, CgroupInfo
<1> QED
  BY <1>1 DEF Put

LEMMA DeletedType ==
  ASSUME NEW map \in [Ip -> CgroupInfo \cup {Nil}], NEW ips
  PROVE  Deleted(map, ips) \in [Ip -> CgroupInfo \cup {Nil}]
BY DEF Deleted

LEMMA CgroupRateType ==
  ASSUME NEW old \in [rx : Limit, tx : Limit], NEW rx \in Limit, NEW tx \in Limit
  PROVE  CgroupRate(old, rx, tx) \in [rx : Limit, tx : Limit]
BY DEF CgroupRate

\* What WritePodInfo leaves, however far it gets.
LEMMA PodInfoMaps ==
  ASSUME NEW m \in Maps, NEW c \in Cached, NEW done
  PROVE  /\ PodInfo(m, c, done) \in Maps
         /\ \E ips \in SUBSET c.ips :
              /\ PodInfo(m, c, done).podMap = IF c.host THEN m.podMap ELSE Put(m.podMap, ips, c)
              /\ done = All => ips = c.ips
<1> DEFINE old == m.rates[c.cg]
           new == CgroupRate(old, OrZero(c.rx), OrZero(c.tx))
           ips == IF done = 0 THEN {} ELSE IF done = 1 THEN c.ips \cap V4 ELSE c.ips
           rate == [rx |-> IF done >= 3 THEN new.rx ELSE old.rx,
                    tx |-> IF done = All THEN new.tx ELSE old.tx]
<1>1. /\ c.cg \in Uid /\ c.ips \in SUBSET Ip
      /\ OrZero(c.rx) \in Limit /\ OrZero(c.tx) \in Limit
  BY DEF Cached, OrZero, Limit
<1>2. old \in [rx : Limit, tx : Limit]
  BY <1>1 DEF Maps
<1>3. new \in [rx : Limit, tx : Limit]
  BY <1>1, <1>2, CgroupRateType
<1>4. rate \in [rx : Limit, tx : Limit]
  BY <1>2, <1>3
<1>5. ips \in SUBSET c.ips /\ (done = All => ips = c.ips)
  BY DEF All
<1>6. CASE c.host
  BY <1>5, <1>6 DEF PodInfo
<1>7. CASE ~c.host
  <2>1. PodInfo(m, c, done) = [podMap |-> Put(m.podMap, ips, c), rates |-> [m.rates EXCEPT ![c.cg] = rate]]
    BY <1>7 DEF PodInfo
  <2> HIDE DEF ips, rate
  <2>2. Put(m.podMap, ips, c) \in [Ip -> CgroupInfo \cup {Nil}]
    BY <1>1, <1>5, PutType DEF Maps
  <2>3. [m.rates EXCEPT ![c.cg] = rate] \in [Uid -> [rx : Limit, tx : Limit]]
    BY <1>4 DEF Maps
  <2>6. PodInfo(m, c, done) \in Maps
    BY <2>1, <2>2, <2>3 DEF Maps
  <2>7. PodInfo(m, c, done).podMap = Put(m.podMap, ips, c)
    BY <2>1
  <2> QED
    BY <1>5, <1>7, <2>6, <2>7
<1> QED
  BY <1>6, <1>7

LEMMA ClassifiedType ==
  ASSUME NEW ids \in [Uid -> Prio], NEW c \in Cached
  PROVE  Classified(ids, c) \in [Uid -> Prio]
BY DEF Classified, SetsClass, Cached

LEMMA LookupType ==
  ASSUME TypeOK, NEW u \in Uid
  PROVE  Lookup(u) \in [Uid -> Prio \cup {Nil}]
BY DEF Lookup, TypeOK

LEMMA MapsType ==
  ASSUME TypeOK
  PROVE  MapState \in Maps
BY DEF TypeOK, MapState, Maps

LEMMA InitType == Init => TypeOK
<1> SUFFICES ASSUME Init PROVE TypeOK
  OBVIOUS
<1>1. 0 \in Prio /\ NoLimit \in [rx : Limit, tx : Limit]
  BY DEF Prio, Limit, NoLimit
<1>2. IdleSync \in [todo : Seq({"cgroup", "pod"}), entries : Seq(Entry) \cup {Nil},
                    locked : BOOLEAN, names : SUBSET Name, current : SUBSET Uid]
  BY DEF IdleSync
<1>3. IdleSync.names = {} /\ IdleSync.entries = Nil
  BY DEF IdleSync
<1> QED
  BY <1>1, <1>2, <1>3, SyncAssumption DEF Init, TypeOK

LEMMA ClusterType ==
  ASSUME TypeOK, Cluster
  PROVE  TypeOK'
<1> USE DEF TypeOK
<1>1. ASSUME NEW n \in Name, Created(n) PROVE TypeOK'
  <2>1. PICK o \in Objects : /\ api' = [api EXCEPT ![n] = o]
                             /\ used' = used \cup {o.uid}
                             /\ queue' = Notified(n, o)
    BY <1>1 DEF Created
  <2>2. o.uid \in Uid /\ queue' \subseteq Name
    BY <2>1, SyncAssumption DEF Object, Notified
  <2> QED
    BY <1>1, <2>1, <2>2 DEF Created, maps, budget
<1>2. ASSUME NEW n \in Name, Updated(n) PROVE TypeOK'
  BY <1>2 DEF Updated, Notified, maps, budget
<1>3. ASSUME NEW n \in Name, Terminating(n) PROVE TypeOK'
  BY <1>3 DEF Terminating, Notified, maps, budget
<1>4. ASSUME NEW n \in Name, Expired(n) PROVE TypeOK'
  BY <1>4 DEF Expired, daemon, maps, budget
<1>5. ASSUME NEW n \in Name, Removed(n) PROVE TypeOK'
  BY <1>5 DEF Removed, maps, budget
<1>6. ASSUME NEW u \in Uid, CgroupUp(u) \/ CgroupDown(u) PROVE TypeOK'
  BY <1>6 DEF CgroupUp, CgroupDown, daemon, maps, budget
<1>7. CASE FileWritten
  BY <1>7 DEF FileWritten, daemon, maps, budget
<1> QED
  BY <1>1, <1>2, <1>3, <1>4, <1>5, <1>6, <1>7 DEF Cluster

LEMMA GetType ==
  ASSUME TypeOK, NEW n \in Name, Get(n)
  PROVE  TypeOK'
BY DEF TypeOK, Get, cluster, maps, budget

LEMMA WorkerType ==
  ASSUME TypeOK, worker # IdleWorker
  PROVE  worker \in [name : Name, obj : Objects \cup {Nil}, phase : {"run", "term", "expired"}]
BY DEF TypeOK

\* Both ends of a reconciliation leave the worker and its queue well typed.
LEMMA RetryType ==
  ASSUME TypeOK, worker # IdleWorker, Retry \/ Done
  PROVE  worker' = IdleWorker /\ queue' \subseteq Name
BY WorkerType DEF TypeOK, Retry, Done

LEMMA DeletePodType ==
  ASSUME TypeOK, DeletePod
  PROVE  TypeOK'
<1>1. worker # IdleWorker /\ worker.name \in Name
  BY WorkerType DEF DeletePod
<1>2. worker' = IdleWorker /\ queue' \subseteq Name
  BY <1>1, RetryType DEF DeletePod
<1>3. cache' \in [Name -> Cached \cup {Nil}]
  BY DEF DeletePod, TypeOK
<1>4. podMap' \in [Ip -> CgroupInfo \cup {Nil}]
  BY DeletedType DEF DeletePod, TypeOK
<1>5. faults' \in 0..MaxFaults
  BY SyncAssumption DEF DeletePod, TypeOK, Fault
<1>6. UNCHANGED <<cluster, classid, lru, sync, rates, crashes>> /\ ~sync.locked
  BY DEF DeletePod
<1> QED
  BY <1>2, <1>3, <1>4, <1>5, <1>6 DEF TypeOK, cluster

LEMMA PostponeType ==
  ASSUME TypeOK, Postpone \/ CgroupMissing
  PROVE  TypeOK'
<1>1. worker # IdleWorker
  BY DEF Postpone, CgroupMissing, ToUpdate
<1>2. worker' = IdleWorker /\ queue' \subseteq Name
  BY <1>1, RetryType DEF Postpone, CgroupMissing
<1>3. CASE Postpone
  BY <1>2, <1>3 DEF Postpone, TypeOK, cluster, maps, budget
<1>4. CASE CgroupMissing
  <2>1. worker.obj \in Objects
    BY <1>1, <1>4, WorkerType DEF CgroupMissing, ToUpdate, Gone
  <2>2. lru' \in [Uid -> Prio \cup {Nil}]
    BY <1>4, <2>1, LookupType, SyncAssumption DEF CgroupMissing, Object
  <2> QED
    BY <1>2, <1>4, <2>2 DEF CgroupMissing, TypeOK, cluster, maps, budget
<1> QED
  BY <1>3, <1>4

\* What UpdatePod caches, and the lookup it rests on.
LEMMA ConfigType ==
  ASSUME TypeOK, ToUpdate, Prev # Nil \/ Lookup(worker.obj.uid)[worker.obj.uid] # Nil
  PROVE  /\ worker.name \in Name /\ worker.obj \in Objects
         /\ Config(worker.obj, Prev) \in Cached
         /\ Lookup(worker.obj.uid) \in [Uid -> Prio \cup {Nil}]
<1>1. worker # IdleWorker /\ worker.name \in Name /\ worker.obj \in Objects
  BY WorkerType DEF ToUpdate, Gone
<1>2. worker.obj \in Object /\ worker.obj.uid \in Uid
  BY <1>1, SyncAssumption DEF Object
<1>3. Lookup(worker.obj.uid) \in [Uid -> Prio \cup {Nil}]
  BY <1>2, LookupType
<1>4. Prev # Nil => Prev \in Cached
  BY <1>1 DEF TypeOK, Prev
<1> DEFINE o == worker.obj
           class == IF Prev # Nil THEN Prev.class ELSE Lookup(o.uid)[o.uid]
<1>5. class \in Prio
  BY <1>2, <1>3, <1>4 DEF Cached
<1> HIDE DEF class
<1>6. Config(o, Prev) =
        [ips   |-> o.ips, host |-> o.host, prio |-> o.prio,
         cg    |-> IF Prev # Nil THEN Prev.cg ELSE o.uid,
         class |-> IF o.prio # Nil THEN o.prio ELSE class,
         rx    |-> IF Prev # Nil /\ o.rx # Nil THEN Prev.rx ELSE o.rx,
         tx    |-> IF Prev # Nil /\ o.tx # Nil THEN Prev.tx ELSE o.tx]
  BY DEF Config, LimitTaken, class
<1>7. Config(o, Prev) \in Cached
  BY <1>2, <1>4, <1>5, <1>6 DEF Cached, Object
<1> QED
  BY <1>1, <1>3, <1>7

LEMMA UpdatePodType ==
  ASSUME TypeOK, UpdatePod
  PROVE  TypeOK'
<1> DEFINE c == Config(worker.obj, Prev)
<1>1. ToUpdate /\ (Prev # Nil \/ Lookup(worker.obj.uid)[worker.obj.uid] # Nil)
  BY DEF UpdatePod
<1>2. /\ worker.name \in Name /\ c \in Cached
      /\ Lookup(worker.obj.uid) \in [Uid -> Prio \cup {Nil}]
  BY <1>1, ConfigType
<1> HIDE DEF c
<1>3. worker' = IdleWorker /\ queue' \subseteq Name
  BY <1>1, RetryType DEF UpdatePod, ToUpdate
<1>4. cache' \in [Name -> Cached \cup {Nil}] /\ lru' \in [Uid -> Prio \cup {Nil}]
  BY <1>2 DEF UpdatePod, TypeOK, c
<1>5. /\ podMap' \in [Ip -> CgroupInfo \cup {Nil}]
      /\ rates' \in [Uid -> [rx : Limit, tx : Limit]]
      /\ faults' \in 0..MaxFaults /\ classid' \in [Uid -> Prio]
  <2>1. CASE UNCHANGED <<classid, maps, faults>>
    BY <2>1 DEF TypeOK, maps
  <2>2. CASE /\ classid' = Classified(classid, c)
             /\ \E done : /\ podMap' = PodInfo(MapState, c, done).podMap
                          /\ rates' = PodInfo(MapState, c, done).rates
             /\ Fault("write") \/ UNCHANGED faults
    <3>1. PICK done : /\ podMap' = PodInfo(MapState, c, done).podMap
                      /\ rates' = PodInfo(MapState, c, done).rates
      BY <2>2
    <3>2. PodInfo(MapState, c, done) \in Maps
      BY <1>2, MapsType, PodInfoMaps
    <3>3. faults' \in 0..MaxFaults
      BY <2>2, SyncAssumption DEF TypeOK, Fault
    <3>4. classid' \in [Uid -> Prio]
      BY <1>2, <2>2, ClassifiedType DEF TypeOK
    <3> QED
      BY <3>1, <3>2, <3>3, <3>4 DEF Maps
  <2> QED
    BY <2>1, <2>2 DEF UpdatePod, c
<1>6. UNCHANGED <<cluster, sync, crashes>> /\ ~sync.locked
  BY DEF UpdatePod
<1> QED
  BY <1>3, <1>4, <1>5, <1>6 DEF TypeOK, cluster

SyncType == [todo : Seq({"cgroup", "pod"}), entries : Seq(Entry) \cup {Nil},
             locked : BOOLEAN, names : SUBSET Name, current : SUBSET Uid]

LEMMA IdleSyncType ==
  /\ IdleSync \in SyncType
  /\ IdleSync.names = {} /\ IdleSync.entries = Nil
BY DEF IdleSync, SyncType

\* The orders pod.json may be read in.
LEMMA OrdersType ==
  ASSUME NEW f \in PodFiles, NEW entries \in SetToSeqs(f)
  PROVE  entries \in Seq(f) /\ f \subseteq Entry
<1>1. f \subseteq Entry /\ Cardinality(f) \in Nat
  BY SyncAssumption, FS_CardinalityType
<1>2. entries \in [1..Cardinality(f) -> f]
  BY DEF SetToSeqs
<1> QED
  BY <1>1, <1>2

LEMMA ReadFileType ==
  ASSUME TypeOK, ReadFile
  PROVE  /\ TypeOK'
         /\ sync' = [sync EXCEPT !.entries = sync'.entries]
         /\ \/ sync'.entries \in CgroupFiles
            \/ \E f \in PodFiles : sync'.entries \in Seq(f)
<1>1. PICK entries : /\ sync' = [sync EXCEPT !.entries = entries]
                     /\ entries \in IF Head(sync.todo) = "cgroup" THEN {cgFile} ELSE SetToSeqs(podFile)
  BY DEF ReadFile
<1>2. /\ entries \in Seq(Entry)
      /\ \/ entries \in CgroupFiles
         \/ \E f \in PodFiles : entries \in Seq(f)
  <2>1. CASE entries = cgFile
    BY <2>1, SyncAssumption DEF TypeOK
  <2>2. CASE entries \in SetToSeqs(podFile)
    <3>1. podFile \in PodFiles
      BY DEF TypeOK
    <3>2. entries \in Seq(podFile) /\ podFile \subseteq Entry
      BY <2>2, <3>1, OrdersType
    <3> QED
      BY <3>1, <3>2
  <2> QED
    BY <1>1, <2>1, <2>2
<1>3. sync \in SyncType
  BY DEF TypeOK, SyncType
<1>4. sync' \in SyncType /\ sync'.entries = entries
  BY <1>1, <1>2, <1>3 DEF SyncType
<1>5. sync'.todo # <<>> /\ sync'.names = sync.names /\ sync'.locked = sync.locked
  BY <1>1, <1>3 DEF ReadFile, SyncType
<1>6. UNCHANGED <<cluster, classid, queue, worker, cache, lru, maps, budget>>
  BY DEF ReadFile
<1>7. TypeOK'
  BY <1>4, <1>5, <1>6 DEF TypeOK, SyncType, cluster, maps, budget
<1> QED
  BY <1>1, <1>2, <1>4, <1>7

LEMMA StartType ==
  ASSUME TypeOK, Tick \/ FileEvent
  PROVE  TypeOK' /\ sync'.entries = Nil /\ sync'.names = {}
<1>1. PICK todo \in Seq({"cgroup", "pod"}) : sync' = [IdleSync EXCEPT !.todo = todo]
  <2>1. <<"cgroup", "pod">> \in Seq({"cgroup", "pod"})
    OBVIOUS
  <2>2. \A file \in {"cgroup", "pod"} : <<file>> \in Seq({"cgroup", "pod"})
    OBVIOUS
  <2>3. CASE Tick
    BY <2>1, <2>3 DEF Tick
  <2>4. CASE FileEvent
    BY <2>2, <2>4 DEF FileEvent
  <2> QED
    BY <2>3, <2>4
<1>2. sync' \in SyncType /\ sync'.names = {} /\ sync'.entries = Nil
  BY <1>1, IdleSyncType DEF SyncType
<1>3. UNCHANGED <<cluster, classid, queue, worker, cache, lru, maps, budget>>
  BY DEF Tick, FileEvent
<1> QED
  BY <1>2, <1>3 DEF TypeOK, SyncType, cluster, maps, budget

LEMMA NextFileType ==
  ASSUME TypeOK, sync.entries # Nil, NextFile
  PROVE  sync' \in SyncType /\ sync'.names = {} /\ sync'.entries = Nil
<1>1. Tail(sync.todo) \in Seq({"cgroup", "pod"})
  BY DEF TypeOK
<1> QED
  BY <1>1, IdleSyncType DEF NextFile, SyncType

LEMMA NextLineType ==
  ASSUME TypeOK, LineToDo, NEW names \in SUBSET Name, NEW current \in SUBSET Uid,
         NextLine(names, current)
  PROVE  /\ sync' \in SyncType
         /\ sync'.names = names /\ sync'.locked /\ sync'.todo = sync.todo
         /\ sync'.entries = Tail(sync.entries)
<1>1. sync \in SyncType /\ Tail(sync.entries) \in Seq(Entry)
  BY DEF TypeOK, LineToDo, SyncType
<1> QED
  BY <1>1 DEF NextLine, SyncType

LEMMA LineType ==
  ASSUME TypeOK, LineToDo
  PROVE  Head(sync.entries) \in Entry /\ sync.entries \in Seq(Entry) /\ sync.todo # <<>>
BY DEF TypeOK, LineToDo

LEMMA LineTail ==
  ASSUME TypeOK, LineToDo
  PROVE  Tail(sync.entries) # Nil
<1>1. Tail(sync.entries) \in Seq(Entry)
  BY LineType DEF LineToDo
<1> QED
  BY <1>1, NilNoFile

LEMMA AliasedAt ==
  ASSUME NEW pods \in [Name -> Cached \cup {Nil}], NEW names \in SUBSET Name,
         NEW e \in Entry, \A n \in names : pods[n] # Nil, NEW m \in Name
  PROVE  /\ Aliased(pods, names, e)[m] \in Cached \cup {Nil}
         /\ Aliased(pods, names, e)[m] = Nil <=> pods[m] = Nil
<1>1. e.rx \in Limit /\ e.tx \in Limit
  BY DEF Entry
<1>2. CASE m \in names
  <2>1. pods[m] \in Cached
    BY <1>2
  <2>2. [pods[m] EXCEPT !.rx = e.rx, !.tx = e.tx] \in Cached
    BY <1>1, <2>1 DEF Cached
  <2>3. Aliased(pods, names, e)[m] = [pods[m] EXCEPT !.rx = e.rx, !.tx = e.tx]
    BY <1>2 DEF Aliased
  <2>4. Nil \notin Cached
    BY SyncAssumption
  <2> QED
    BY <2>1, <2>2, <2>3, <2>4
<1>3. CASE m \notin names
  BY <1>3 DEF Aliased
<1> QED
  BY <1>2, <1>3

LEMMA AliasedType ==
  ASSUME NEW pods \in [Name -> Cached \cup {Nil}], NEW names \in SUBSET Name,
         NEW e \in Entry, \A n \in names : pods[n] # Nil
  PROVE  Aliased(pods, names, e) \in [Name -> Cached \cup {Nil}]
<1>1. \A m \in Name : Aliased(pods, names, e)[m] \in Cached \cup {Nil}
  BY AliasedAt
<1>2. Aliased(pods, names, e) = [m \in Name |-> Aliased(pods, names, e)[m]]
  BY DEF Aliased
<1> QED
  BY <1>1, <1>2

LEMMA MergedType ==
  ASSUME NEW c \in Cached, NEW e \in Entry
  PROVE  /\ Merged(c, e) \in Cached
         /\ Merged(c, e).ips = c.ips /\ Merged(c, e).host = c.host /\ Merged(c, e).cg = c.cg
         /\ Merged(c, e).prio = IF e.prio # Nil THEN e.prio ELSE c.prio
         /\ Merged(c, e).class = IF e.prio # Nil THEN e.prio ELSE c.class
<1>1. /\ e.rx \in Limit /\ e.tx \in Limit /\ e.prio \in Prio \cup {Nil}
  BY DEF Entry
<1> QED
  BY <1>1 DEF Merged, Cached

LEMMA SkipLineType ==
  ASSUME TypeOK, SkipLine
  PROVE  TypeOK'
<1> DEFINE e == Head(sync.entries)
<1>1. e \in Entry /\ LineToDo /\ sync.todo # <<>>
  BY LineType DEF SkipLine
<1> HIDE DEF e
<1>2. /\ sync' \in SyncType /\ sync'.names = sync.names /\ sync'.locked
      /\ sync'.todo = sync.todo
  BY <1>1, NextLineType DEF SkipLine, TypeOK
<1>3. /\ cache' \in [Name -> Cached \cup {Nil}]
      /\ \A n \in Name : cache'[n] = Nil <=> cache[n] = Nil
  <2>1. /\ cache \in [Name -> Cached \cup {Nil}] /\ sync.names \in SUBSET Name
        /\ \A n \in sync.names : cache[n] # Nil
    BY DEF TypeOK
  <2>2. cache' = Aliased(cache, sync.names, e)
    BY DEF SkipLine, e
  <2> QED
    <3>1. Aliased(cache, sync.names, e) \in [Name -> Cached \cup {Nil}]
      BY <1>1, <2>1, AliasedType
    <3>2. ASSUME NEW n \in Name PROVE Aliased(cache, sync.names, e)[n] = Nil <=> cache[n] = Nil
      BY <1>1, <2>1, AliasedAt
    <3> QED
      BY <2>2, <3>1, <3>2
<1>4. UNCHANGED <<cluster, classid, queue, worker, lru, maps, budget>>
  BY DEF SkipLine
<1>5. sync.names \subseteq Name
  BY DEF TypeOK
<1> QED
  BY <1>1, <1>2, <1>3, <1>4, <1>5 DEF TypeOK, SyncType, cluster, maps, budget

\* The pod of a line and what is written of it.
LEMMA SyncLineStep ==
  ASSUME TypeOK, SyncLine
  PROVE  \E n \in Name :
           LET e == Head(sync.entries)
               c == Merged(cache[n], e)
               names == sync.names \cup {n}
           IN /\ e \in Entry /\ cache[n] \in Cached /\ cache[n].cg = e.cg
              /\ cache' = Aliased([cache EXCEPT ![n] = c], names, e)
              /\ c.prio # Nil
              /\ classid' = Classified(classid, c)
              /\ \E done : /\ podMap' = PodInfo(MapState, c, done).podMap
                           /\ rates' = PodInfo(MapState, c, done).rates
              /\ Fault("write") \/ UNCHANGED faults
              /\ NextLine(names, sync.current \cup {e.cg}) \/ NextFile
<1>1. LineToDo /\ Head(sync.entries) \in Entry
  BY LineType DEF SyncLine
<1>2. PICK n \in Owners(Head(sync.entries)) :
           LET e == Head(sync.entries)
               c == Merged(cache[n], e)
               names == sync.names \cup {n}
           IN /\ cache' = Aliased([cache EXCEPT ![n] = c], names, e)
              /\ c.prio # Nil
              /\ classid' = Classified(classid, c)
              /\ \E done : /\ podMap' = PodInfo(MapState, c, done).podMap
                           /\ rates' = PodInfo(MapState, c, done).rates
              /\ Fault("write") \/ UNCHANGED faults
              /\ NextLine(names, sync.current \cup {e.cg}) \/ NextFile
  BY DEF SyncLine
<1>3. n \in Name /\ cache[n] \in Cached /\ cache[n].cg = Head(sync.entries).cg
  BY DEF Owners, TypeOK
<1> QED
  BY <1>1, <1>2, <1>3

\* What a line leaves of the cache: limits, and the class of its pod.
LEMMA SyncLineCache ==
  ASSUME TypeOK, NEW n \in Name, NEW c \in Cached, NEW e \in Entry, cache[n] # Nil,
         cache' = Aliased([cache EXCEPT ![n] = c], sync.names \cup {n}, e)
  PROVE  /\ cache' \in [Name -> Cached \cup {Nil}]
         /\ \A m \in Name : cache'[m] = Nil <=> cache[m] = Nil
<1>1. /\ cache \in [Name -> Cached \cup {Nil}] /\ sync.names \in SUBSET Name
      /\ \A m \in sync.names : cache[m] # Nil
  BY DEF TypeOK
<1> DEFINE pods == [cache EXCEPT ![n] = c]
<1>2. c # Nil
  BY SyncAssumption
<1>3. /\ pods \in [Name -> Cached \cup {Nil}]
      /\ \A m \in Name : pods[m] = Nil <=> cache[m] = Nil
  BY <1>1, <1>2
<1> HIDE DEF pods
<1>4. \A m \in sync.names \cup {n} : pods[m] # Nil
  BY <1>1, <1>3
<1>5. cache' = Aliased(pods, sync.names \cup {n}, e)
  BY DEF pods
<1>6. Aliased(pods, sync.names \cup {n}, e) \in [Name -> Cached \cup {Nil}]
  <2>1. sync.names \cup {n} \in SUBSET Name
    BY <1>1
  <2> QED
    BY <1>3, <1>4, <2>1, AliasedType
<1>7. ASSUME NEW m \in Name
      PROVE  Aliased(pods, sync.names \cup {n}, e)[m] = Nil <=> pods[m] = Nil
  <2>1. sync.names \cup {n} \in SUBSET Name
    BY <1>1
  <2> QED
    BY <1>3, <1>4, <2>1, AliasedAt
<1> QED
  BY <1>3, <1>5, <1>6, <1>7

LEMMA SyncLineType ==
  ASSUME TypeOK, SyncLine
  PROVE  TypeOK'
<1> DEFINE e == Head(sync.entries)
<1>1. PICK n \in Name :
        LET c == Merged(cache[n], e)
            names == sync.names \cup {n}
        IN /\ e \in Entry /\ cache[n] \in Cached /\ cache[n].cg = e.cg
           /\ cache' = Aliased([cache EXCEPT ![n] = c], names, e)
           /\ c.prio # Nil
           /\ classid' = Classified(classid, c)
           /\ \E done : /\ podMap' = PodInfo(MapState, c, done).podMap
                        /\ rates' = PodInfo(MapState, c, done).rates
           /\ Fault("write") \/ UNCHANGED faults
           /\ NextLine(names, sync.current \cup {e.cg}) \/ NextFile
  BY SyncLineStep
<1> HIDE DEF e
<1> DEFINE c == Merged(cache[n], e)
<1>2. c \in Cached
  BY <1>1, MergedType
<1> HIDE DEF c
<1>3. cache[n] # Nil
  BY <1>1, SyncAssumption
<1>4. /\ cache' \in [Name -> Cached \cup {Nil}]
      /\ \A m \in Name : cache'[m] = Nil <=> cache[m] = Nil
  <2>1. cache' = Aliased([cache EXCEPT ![n] = c], sync.names \cup {n}, e)
    BY <1>1 DEF c
  <2> QED
    BY <1>1, <1>2, <1>3, <2>1, SyncLineCache
<1>5. /\ podMap' \in [Ip -> CgroupInfo \cup {Nil}]
      /\ rates' \in [Uid -> [rx : Limit, tx : Limit]]
  <2>1. PICK done : /\ podMap' = PodInfo(MapState, c, done).podMap
                    /\ rates' = PodInfo(MapState, c, done).rates
    BY <1>1 DEF c
  <2>2. PodInfo(MapState, c, done) \in Maps
    BY <1>2, MapsType, PodInfoMaps
  <2> QED
    BY <2>1, <2>2 DEF Maps
<1>6. classid' \in [Uid -> Prio] /\ faults' \in 0..MaxFaults
  <2>1. classid' = Classified(classid, c)
    BY <1>1 DEF c
  <2>2. classid' \in [Uid -> Prio]
    BY <1>2, <2>1, ClassifiedType DEF TypeOK
  <2>3. faults' \in 0..MaxFaults
    BY <1>1, SyncAssumption DEF TypeOK, Fault
  <2> QED
    BY <2>2, <2>3
<1>7. /\ sync' \in SyncType
      /\ sync'.entries # Nil => sync'.todo # <<>>
      /\ \A m \in sync'.names : sync'.locked /\ cache[m] # Nil
  <2>1. LineToDo /\ sync.todo # <<>> /\ sync.entries # Nil
    BY LineType DEF SyncLine, LineToDo
  <2>2. CASE NextFile
    BY <2>1, <2>2, NextFileType
  <2>3. CASE NextLine(sync.names \cup {n}, sync.current \cup {e.cg})
    <3>1. /\ sync.names \cup {n} \in SUBSET Name /\ sync.current \cup {e.cg} \in SUBSET Uid
          /\ \A m \in sync.names : cache[m] # Nil
      BY <1>1 DEF TypeOK, Entry
    <3>2. /\ sync' \in SyncType
          /\ sync'.names = sync.names \cup {n} /\ sync'.locked /\ sync'.todo = sync.todo
      BY <2>1, <2>3, <3>1, NextLineType
    <3> QED
      BY <1>3, <2>1, <3>1, <3>2
  <2> QED
    BY <1>1, <2>2, <2>3
<1>8. UNCHANGED <<cluster, queue, worker, lru, crashes>>
  BY DEF SyncLine
<1>9. sync'.names \subseteq Name
  BY <1>7 DEF SyncType
<1> QED
  BY <1>4, <1>5, <1>6, <1>7, <1>8, <1>9 DEF TypeOK, SyncType, cluster

LEMMA CleanUpType ==
  ASSUME TypeOK, CleanUp
  PROVE  TypeOK'
<1>1. sync.entries # Nil
  BY NilNoFile DEF CleanUp
<1>2. sync' \in SyncType /\ sync'.names = {} /\ sync'.entries = Nil
  BY <1>1, NextFileType DEF CleanUp
<1>3. Cleaned(rates, sync.current) \in [Uid -> [rx : Limit, tx : Limit]]
  BY DEF Cleaned, NoLimit, Limit, TypeOK
<1>4. rates' \in [Uid -> [rx : Limit, tx : Limit]] /\ faults' \in 0..MaxFaults
  <2>1. CASE rates' = Cleaned(rates, sync.current) /\ UNCHANGED faults
    BY <1>3, <2>1 DEF TypeOK
  <2>2. ASSUME NEW u \in Uid, Fault("delete"), NEW tx \in {0, rates[u].tx},
               rates' = [Cleaned(rates, sync.current) EXCEPT ![u] = [rx |-> rates[u].rx, tx |-> tx]]
        PROVE  rates' \in [Uid -> [rx : Limit, tx : Limit]] /\ faults' \in 0..MaxFaults
    <3>1. rates[u] \in [rx : Limit, tx : Limit]
      BY DEF TypeOK
    <3>2. [rx |-> rates[u].rx, tx |-> tx] \in [rx : Limit, tx : Limit]
      BY <3>1 DEF Limit
    <3> QED
      BY <1>3, <2>2, <3>2, SyncAssumption DEF TypeOK, Fault
  <2> QED
    BY <2>1, <2>2 DEF CleanUp
<1>5. UNCHANGED <<cluster, classid, queue, worker, cache, lru, podMap, crashes>>
  BY DEF CleanUp
<1> QED
  BY <1>2, <1>4, <1>5 DEF TypeOK, SyncType, cluster

LEMMA ForgetType ==
  ASSUME TypeOK, Forget
  PROVE  TypeOK'
BY DEF TypeOK, Forget, cluster, maps, budget

LEMMA RestartType ==
  ASSUME TypeOK, Crash \/ Panic
  PROVE  TypeOK'
<1>1. Restarted /\ UNCHANGED <<cluster, classid, maps, faults>>
  BY DEF Crash, Panic
<1> QED
  BY <1>1, IdleSyncType, SyncAssumption DEF TypeOK, SyncType, Restarted, cluster, maps

LEMMA NextType ==
  ASSUME TypeOK, [Next]_vars
  PROVE  TypeOK'
<1>1. CASE Cluster
  BY <1>1, ClusterType
<1>2. CASE \E n \in Name : Get(n)
  BY <1>2, GetType
<1>3. CASE Reconcile
  BY <1>3, DeletePodType, PostponeType, UpdatePodType DEF Reconcile
<1>4. CASE Forget \/ Tick \/ FileEvent
  BY <1>4, ForgetType, StartType
<1>5. CASE SyncStep
  BY <1>5, ReadFileType, SkipLineType, SyncLineType, CleanUpType DEF SyncStep
<1>6. CASE Crash \/ Panic
  BY <1>6, RestartType
<1>7. CASE UNCHANGED vars
  BY <1>7 DEF TypeOK, vars, cluster, daemon, maps, budget
<1> QED
  BY <1>1, <1>2, <1>3, <1>4, <1>5, <1>6, <1>7 DEF Next, Daemon

\* Whatever pods, files and failures there are, the maps hold classes and
\* limits, a pod of the line that is handled is cached, and the lock is held
\* while any line of a file is behind the file loop (syncer.go:249).
THEOREM TypeCorrect == Spec => []TypeOK
<1>1. TypeOK /\ [Next]_vars => TypeOK'
  BY NextType
<1> QED
  BY InitType, <1>1, PTL DEF Spec

-----------------------------------------------------------------------------
(* Pods that are reconciled.  The strengthening says what the worker has   *)
(* looked at, whose addresses and cgroup are cached, and where a class     *)
(* came from.                                                              *)

\* A name stands for one pod, and a pod that is on the host network stays there.
OnePodPerName ==
  \A o, q \in Objects : /\ o.name = q.name <=> o.uid = q.uid
                        /\ o.name = q.name => o.host = q.host

\* No two pods ever have the same address, the host's excepted.
OwnAddresses ==
  \A o, q \in Objects : o.name # q.name /\ ~o.host /\ ~q.host => o.ips \cap q.ips = {}

Live(n) == api[n] # Nil /\ phase[n] = "run" /\ api[n].ips # {}

Named ==
  /\ \A n \in Name : api[n] # Nil => api[n].name = n
  /\ worker.obj # Nil => worker.obj.name = worker.name

\* The worker has read what there is, or the name is queued again.
Current ==
  \A n \in Name : worker.name = n /\ n \notin queue /\ Live(n)
                    => worker.obj = api[n] /\ worker.phase = "run"

FileLine == { e \in Entry : e.prio # Nil => \E f \in PodFiles : e \in f }

\* Only pod.json gives a class.
FromFiles == sync.entries # Nil => sync.entries \in Seq(FileLine)

\* What is cached under a name is of its pod.
OwnedBy(n, c) ==
  \E o \in Objects : o.name = n /\ o.uid = c.cg /\ o.ips = c.ips /\ o.host = c.host

Owned == \A n \in Name : cache[n] # Nil => OwnedBy(n, cache[n])

Asked(u, prio) == \E f \in PodFiles : \E e \in f : e.cg = u /\ e.prio = prio

Suits(o, prio) == o.prio \in {Nil, prio} \/ Asked(o.uid, prio)

Known(n) == cache[n] # Nil /\ Suits(api[n], cache[n].class) /\ Suits(api[n], cache[n].prio)

Mapped(n) ==
  \A ip \in api[n].ips :
    podMap[ip] # Nil /\ podMap[ip].cg = api[n].uid /\ Suits(api[n], podMap[ip].class)

Classed(n) == api[n].host => Suits(api[n], classid[api[n].uid])

Served(n) == Known(n) /\ (OwnAddresses /\ ~api[n].host => Mapped(n)) /\ Classed(n)

AllServed == \A n \in Name : Settled(n) /\ Live(n) => Served(n)

ServedInv == TypeOK /\ Named /\ Current /\ FromFiles /\ Owned /\ AllServed

-----------------------------------------------------------------------------
(* Steps, by what they leave alone.                                        *)

ApiStep(n) == Created(n) \/ Updated(n) \/ Terminating(n) \/ Expired(n) \/ Removed(n)

Quiet ==
  /\ UNCHANGED <<api, phase, queue, worker, cache, classid, podMap>>
  /\ ReadFile \/ sync'.entries \in {sync.entries, Nil}

LEMMA StepCases ==
  ASSUME TypeOK, [Next]_vars
  PROVE  \/ \E n \in Name : ApiStep(n) \/ Get(n)
         \/ Quiet
         \/ DeletePod \/ Postpone \/ CgroupMissing \/ UpdatePod
         \/ SkipLine \/ SyncLine
         \/ Crash \/ Panic
<1>1. CASE \E u \in Uid : CgroupUp(u) \/ CgroupDown(u)
  BY <1>1 DEF CgroupUp, CgroupDown, Quiet, daemon, maps
<1>2. CASE FileWritten \/ UNCHANGED vars
  BY <1>2 DEF FileWritten, Quiet, vars, cluster, daemon, maps
<1>3. CASE Forget
  BY <1>3 DEF Forget, Quiet, cluster, maps
<1>4. CASE Tick \/ FileEvent
  <2>1. sync'.entries = Nil
    BY <1>4, StartType
  <2> QED
    BY <1>4, <2>1 DEF Tick, FileEvent, Quiet, cluster, maps
<1>5. CASE ReadFile
  BY <1>5 DEF ReadFile, Quiet, cluster, maps
<1>6. CASE CleanUp
  <2>1. sync.entries # Nil
    BY <1>6, NilNoFile DEF CleanUp
  <2>2. sync'.entries = Nil
    BY <1>6, <2>1, NextFileType DEF CleanUp
  <2> QED
    BY <1>6, <2>2 DEF CleanUp, Quiet, cluster
<1> QED
  BY <1>1, <1>2, <1>3, <1>4, <1>5, <1>6 DEF Next, Cluster, Daemon, Reconcile, SyncStep, ApiStep

LEMMA ApiFrame ==
  ASSUME ServedInv, NEW n \in Name, ApiStep(n)
  PROVE  /\ UNCHANGED <<worker, cache, classid, podMap, sync>>
         /\ \A m \in Name \ {n} : api'[m] = api[m] /\ phase'[m] = phase[m]
         /\ queue \subseteq queue' /\ queue' \subseteq queue \cup {n}
         /\ api'[n] # Nil => api'[n].name = n
         /\ Live(n)' => n \in queue'
         /\ Live(n) /\ ~MovingIps => n \in queue'
<1> USE DEF ServedInv, Named, TypeOK, Live, Notified
<1>1. CASE Created(n)
  BY <1>1 DEF Created, maps
<1>2. CASE Updated(n)
  BY <1>2 DEF Updated, maps
<1>3. CASE Terminating(n)
  BY <1>3 DEF Terminating, maps
<1>4. CASE Expired(n)
  BY <1>4 DEF Expired, daemon, maps
<1>5. CASE Removed(n)
  BY <1>5 DEF Removed, maps
<1> QED
  BY <1>1, <1>2, <1>3, <1>4, <1>5 DEF ApiStep

\* A pod that is looked after stays so when nothing of it changes.
LEMMA ServedStays ==
  ASSUME NEW n \in Name, Served(n),
         api'[n] = api[n], cache'[n] = cache[n],
         api[n].host => classid'[api[n].uid] = classid[api[n].uid],
         OwnAddresses /\ ~api[n].host => \A ip \in api[n].ips : podMap'[ip] = podMap[ip]
  PROVE  Served(n)'
BY DEF Served, Known, Mapped, Classed, Suits, Asked

LEMMA IdleFacts ==
  IdleWorker.name = Nil /\ IdleWorker.obj = Nil /\ Nil \notin Name
BY SyncAssumption DEF IdleWorker

LEMMA ApiServed ==
  ASSUME ServedInv, NEW n \in Name, ApiStep(n)
  PROVE  (Named /\ Current /\ FromFiles /\ Owned /\ AllServed)'
<1>1. /\ UNCHANGED <<worker, cache, classid, podMap, sync>>
      /\ \A m \in Name \ {n} : api'[m] = api[m] /\ phase'[m] = phase[m]
      /\ queue \subseteq queue'
      /\ api'[n] # Nil => api'[n].name = n
      /\ Live(n)' => n \in queue'
  BY ApiFrame
<1>2. Named'
  BY <1>1 DEF ServedInv, Named
<1>3. Current'
  BY <1>1 DEF ServedInv, Current, Live
<1>4. FromFiles' /\ Owned'
  BY <1>1 DEF ServedInv, FromFiles, Owned
<1>5. ASSUME NEW m \in Name, Settled(m)', Live(m)' PROVE Served(m)'
  <2>1. m # n /\ Settled(m) /\ Live(m)
    BY <1>1, <1>5 DEF Settled, Live
  <2> QED
    BY <1>1, <2>1, ServedStays DEF ServedInv, AllServed
<1> QED
  BY <1>2, <1>3, <1>4, <1>5 DEF AllServed

LEMMA QuietServed ==
  ASSUME ServedInv, Quiet
  PROVE  (Named /\ Current /\ FromFiles /\ Owned /\ AllServed)'
<1>1. UNCHANGED <<api, phase, queue, worker, cache, classid, podMap>>
  BY DEF Quiet
<1>2. Named' /\ Current' /\ Owned'
  BY <1>1 DEF ServedInv, Named, Current, Live, Owned
<1>3. AllServed'
  <2> SUFFICES ASSUME NEW m \in Name, Settled(m)', Live(m)' PROVE Served(m)'
    BY DEF AllServed
  <2> QED
    BY <1>1, ServedStays DEF ServedInv, AllServed, Settled, Live
<1>4. FromFiles'
  <2>1. CASE sync'.entries \in {sync.entries, Nil}
    BY <2>1 DEF ServedInv, FromFiles
  <2>2. CASE ReadFile
    <3>1. sync'.entries \in CgroupFiles \/ \E f \in PodFiles : sync'.entries \in Seq(f)
      BY <2>2, ReadFileType DEF ServedInv
    <3>2. CASE sync'.entries \in CgroupFiles
      BY <3>2, SyncAssumption DEF FromFiles, FileLine
    <3>3. ASSUME NEW f \in PodFiles, sync'.entries \in Seq(f) PROVE FromFiles'
      <4>1. f \subseteq FileLine
        BY SyncAssumption DEF FileLine
      <4> QED
        BY <3>3, <4>1 DEF FromFiles
    <3> QED
      BY <3>1, <3>2, <3>3
  <2> QED
    BY <2>1, <2>2 DEF Quiet
<1> QED
  BY <1>2, <1>3, <1>4

LEMMA GetServed ==
  ASSUME ServedInv, NEW n \in Name, Get(n)
  PROVE  (Named /\ Current /\ FromFiles /\ Owned /\ AllServed)'
<1>1. /\ worker = IdleWorker /\ queue' = queue \ {n}
      /\ worker' = [name |-> n, obj |-> api[n], phase |-> phase[n]]
      /\ UNCHANGED <<api, phase, cache, classid, podMap, sync>>
  BY DEF Get, cluster, maps
<1>2. Named' /\ Current' /\ FromFiles' /\ Owned'
  BY <1>1 DEF ServedInv, Named, Current, FromFiles, Owned, Live
<1>3. ASSUME NEW m \in Name, Settled(m)', Live(m)' PROVE Served(m)'
  <2>1. Settled(m) /\ Live(m)
    BY <1>1, <1>3, IdleFacts DEF Settled, Live
  <2> QED
    BY <1>1, <2>1, ServedStays DEF ServedInv, AllServed
<1> QED
  BY <1>2, <1>3 DEF AllServed

\* The end of any reconciliation.
LEMMA WorkerEnds ==
  ASSUME ServedInv, worker # IdleWorker, Retry \/ Done,
         UNCHANGED <<api, phase, sync>>
  PROVE  /\ worker.name \in Name /\ Named' /\ Current' /\ FromFiles'
         /\ \A m \in Name : Settled(m)' => m \notin queue /\ (m = worker.name => Done)
<1>1. worker' = IdleWorker /\ worker.name \in Name
  BY RetryType, WorkerType DEF ServedInv
<1>2. Named' /\ Current' /\ FromFiles'
  BY <1>1, IdleFacts DEF ServedInv, Named, Current, FromFiles
<1> QED
  BY <1>1, <1>2 DEF Settled, Retry, Done

LEMMA PostponeServed ==
  ASSUME ServedInv, Postpone \/ CgroupMissing
  PROVE  (Named /\ Current /\ FromFiles /\ Owned /\ AllServed)'
<1>1. /\ worker # IdleWorker /\ Retry
      /\ UNCHANGED <<api, phase, cache, classid, podMap, sync>>
  BY DEF Postpone, CgroupMissing, ToUpdate, cluster, maps
<1>2. /\ worker.name \in Name /\ Named' /\ Current' /\ FromFiles'
      /\ queue' = queue \cup {worker.name}
  BY <1>1, WorkerEnds DEF Retry
<1>3. Owned'
  BY <1>1 DEF ServedInv, Owned
<1>4. ASSUME NEW m \in Name, Settled(m)', Live(m)' PROVE Served(m)'
  <2>1. Settled(m) /\ Live(m)
    BY <1>1, <1>2, <1>4 DEF Settled, Live
  <2> QED
    BY <1>1, <2>1, ServedStays DEF ServedInv, AllServed
<1> QED
  BY <1>2, <1>3, <1>4 DEF AllServed

\* What is cached under two names has no address in common.
LEMMA OtherAddresses ==
  ASSUME ServedInv, OwnAddresses, NEW n \in Name, NEW m \in Name \ {n}, Live(m), ~api[m].host,
         NEW c, OwnedBy(n, c), ~c.host
  PROVE  api[m].ips \cap c.ips = {}
<1>1. api[m] \in Objects /\ api[m].name = m
  BY DEF ServedInv, TypeOK, Named, Live
<1> QED
  BY <1>1 DEF OwnAddresses, OwnedBy

LEMMA OtherCgroups ==
  ASSUME ServedInv, OnePodPerName, NEW n \in Name, NEW m \in Name, Live(m), NEW c, OwnedBy(n, c)
  PROVE  /\ n # m => api[m].uid # c.cg
         /\ n = m => api[m].uid = c.cg /\ api[m].host = c.host
<1>1. api[m] \in Objects /\ api[m].name = m
  BY DEF ServedInv, TypeOK, Named, Live
<1> QED
  BY <1>1 DEF OnePodPerName, OwnedBy

LEMMA DeletePodServed ==
  ASSUME ServedInv, DeletePod
  PROVE  (Named /\ Current /\ FromFiles /\ Owned /\ AllServed)'
<1> DEFINE n == worker.name
           c == cache[n]
<1>1. /\ worker # IdleWorker /\ (Retry \/ Done) /\ Gone
      /\ UNCHANGED <<api, phase, sync, classid>>
  BY DEF DeletePod, cluster
<1>2. /\ n \in Name /\ Named' /\ Current' /\ FromFiles'
      /\ \A m \in Name : Settled(m)' => m \notin queue /\ (m = n => Done)
  BY <1>1, WorkerEnds
<1>3. cache' = [cache EXCEPT ![n] = Nil] /\ cache \in [Name -> Cached \cup {Nil}]
  BY DEF DeletePod, ServedInv, TypeOK
<1>4. \/ podMap' = podMap
      \/ c # Nil /\ ~c.host /\ \E ips \in SUBSET c.ips : podMap' = Deleted(podMap, ips)
  BY DEF DeletePod
<1>5. Owned'
  BY <1>2, <1>3 DEF ServedInv, Owned, OwnedBy
<1>6. ASSUME NEW m \in Name, Settled(m)', Live(m)' PROVE Served(m)'
  <2>1. m # n
    BY <1>1, <1>2, <1>6 DEF ServedInv, Current, Gone, Live
  <2>2. Settled(m) /\ Live(m)
    BY <1>1, <1>2, <1>6, <2>1 DEF Settled, Live
  <2>3. Served(m)
    BY <2>2 DEF ServedInv, AllServed
  <2>4. ASSUME OwnAddresses, ~api[m].host, NEW ip \in api[m].ips PROVE podMap'[ip] = podMap[ip]
    <3>1. CASE podMap' = podMap
      BY <3>1
    <3>2. ASSUME c # Nil, ~c.host, NEW ips \in SUBSET c.ips, podMap' = Deleted(podMap, ips)
          PROVE  podMap'[ip] = podMap[ip]
      <4>1. ip \notin c.ips
        BY <1>2, <2>1, <2>2, <2>4, <3>2, OtherAddresses DEF ServedInv, Owned
      <4>2. ip \in Ip
        BY <2>2, <2>4, SyncAssumption DEF ServedInv, TypeOK, Live, Object
      <4> QED
        BY <3>2, <4>1, <4>2 DEF Deleted
    <3> QED
      BY <1>4, <3>1, <3>2
  <2> QED
    BY <1>1, <1>2, <1>3, <2>1, <2>3, <2>4, ServedStays
<1> QED
  BY <1>2, <1>5, <1>6 DEF AllServed

\* A write for one pod leaves the others as they are.
LEMMA OthersServed ==
  ASSUME ServedInv, OnePodPerName,
         NEW n \in Name, NEW m \in Name \ {n}, Live(m), Served(m),
         NEW c \in Cached, OwnedBy(n, c), NEW done,
         podMap' \in {podMap, PodInfo(MapState, c, done).podMap},
         classid' \in {classid, Classified(classid, c)}
  PROVE  /\ OwnAddresses /\ ~api[m].host => \A ip \in api[m].ips : podMap'[ip] = podMap[ip]
         /\ classid'[api[m].uid] = classid[api[m].uid]
<1>1. api[m] \in Objects /\ api[m].uid \in Uid /\ api[m].ips \subseteq Ip
  BY SyncAssumption DEF ServedInv, TypeOK, Live, Object
<1>2. classid'[api[m].uid] = classid[api[m].uid]
  <2>1. api[m].uid # c.cg
    BY OtherCgroups
  <2> QED
    BY <1>1, <2>1 DEF Classified, ServedInv, TypeOK
<1>3. ASSUME OwnAddresses, ~api[m].host, NEW ip \in api[m].ips PROVE podMap'[ip] = podMap[ip]
  <2>1. CASE podMap' = podMap \/ c.host
    <3>1. c.host => PodInfo(MapState, c, done).podMap = podMap
      BY DEF PodInfo, MapState
    <3> QED
      BY <2>1, <3>1
  <2>2. CASE podMap' = PodInfo(MapState, c, done).podMap /\ ~c.host
    <3>1. PICK ips \in SUBSET c.ips : PodInfo(MapState, c, done).podMap = Put(MapState.podMap, ips, c)
      BY <2>2, MapsType, PodInfoMaps DEF ServedInv
    <3>2. ip \notin c.ips
      BY <1>3, <2>2, OtherAddresses
    <3> QED
      BY <1>1, <2>2, <3>1, <3>2 DEF Put, MapState
  <2> QED
    BY <2>1, <2>2
<1> QED
  BY <1>2, <1>3

\* UpdatePod keeps the cgroup of a cached pod: it is the pod's own.
LEMMA ConfigOwned ==
  ASSUME ServedInv, OnePodPerName, ToUpdate,
         Prev # Nil \/ Lookup(worker.obj.uid)[worker.obj.uid] # Nil
  PROVE  LET o == worker.obj
             c == Config(o, Prev)
         IN /\ worker.name \in Name /\ c \in Cached /\ OwnedBy(worker.name, c)
            /\ c.ips = o.ips /\ c.host = o.host /\ c.cg = o.uid /\ c.prio = o.prio
            /\ Suits(o, c.class)
<1> DEFINE o == worker.obj
           c == Config(o, Prev)
           n == worker.name
<1>1. n \in Name /\ o \in Objects /\ c \in Cached
  BY ConfigType DEF ServedInv
<1>2. o # Nil /\ o.name = n
  BY DEF ToUpdate, Gone, ServedInv, Named
<1>3. c.ips = o.ips /\ c.host = o.host /\ c.prio = o.prio
  BY DEF Config, LimitTaken
<1>4. c.cg = IF Prev # Nil THEN Prev.cg ELSE o.uid
  BY DEF Config, LimitTaken
<1>5. o.prio # Nil => c.class = o.prio
  BY DEF Config, LimitTaken
<1>6. c.cg = o.uid
  <2>1. CASE Prev = Nil
    BY <1>4, <2>1
  <2>2. CASE Prev # Nil
    <3>1. PICK q \in Objects : q.name = n /\ q.uid = Prev.cg
      BY <1>1, <2>2 DEF ServedInv, Owned, OwnedBy, Prev
    <3> QED
      BY <1>1, <1>2, <1>4, <2>2, <3>1 DEF OnePodPerName
  <2> QED
    BY <2>1, <2>2
<1> HIDE DEF c
<1>7. OwnedBy(n, c)
  BY <1>1, <1>2, <1>3, <1>6 DEF OwnedBy
<1>8. Suits(o, c.class)
  BY <1>5 DEF Suits
<1> QED
  BY <1>1, <1>3, <1>6, <1>7, <1>8 DEF c

LEMMA UpdatePodServed ==
  ASSUME ServedInv, OnePodPerName, UpdatePod
  PROVE  (Named /\ Current /\ FromFiles /\ Owned /\ AllServed)'
<1>0. PICK n : n = worker.name
  OBVIOUS
<1> DEFINE o == worker.obj
           c == Config(o, Prev)
<1>1. ToUpdate /\ (Prev # Nil \/ Lookup(o.uid)[o.uid] # Nil)
  BY DEF UpdatePod
<1>2. /\ n \in Name /\ c \in Cached /\ OwnedBy(n, c)
      /\ c.ips = o.ips /\ c.host = o.host /\ c.cg = o.uid /\ c.prio = o.prio
      /\ Suits(o, c.class)
  BY <1>0, <1>1, ConfigOwned
<1>3. /\ cache' = [cache EXCEPT ![n] = c] /\ cache \in [Name -> Cached \cup {Nil}]
      /\ UNCHANGED <<api, phase, sync>>
  BY <1>0 DEF UpdatePod, cluster, ServedInv, TypeOK
<1>4. PICK done :
        \/ Retry /\ UNCHANGED <<classid, podMap>>
        \/ /\ classid' = Classified(classid, c)
           /\ podMap' = PodInfo(MapState, c, done).podMap
           /\ Retry \/ (Done /\ done = All)
  BY DEF UpdatePod, maps
<1> HIDE DEF c
<1>5. /\ Named' /\ Current' /\ FromFiles'
      /\ \A m \in Name : Settled(m)' => m \notin queue /\ (m = n => Done)
  BY <1>0, <1>1, <1>3, <1>4, WorkerEnds DEF ToUpdate
<1>6. Owned'
  BY <1>2, <1>3 DEF ServedInv, Owned, OwnedBy
<1>7. ASSUME NEW m \in Name, m # n, Settled(m)', Live(m)' PROVE Served(m)'
  <2>1. Settled(m) /\ Live(m)
    BY <1>0, <1>3, <1>5, <1>7 DEF Settled, Live
  <2>2. Served(m)
    BY <2>1 DEF ServedInv, AllServed
  <2>3. /\ OwnAddresses /\ ~api[m].host => \A ip \in api[m].ips : podMap'[ip] = podMap[ip]
        /\ classid'[api[m].uid] = classid[api[m].uid]
    BY <1>2, <1>4, <1>7, <2>1, <2>2, OthersServed
  <2> QED
    BY <1>2, <1>3, <1>7, <2>2, <2>3, ServedStays
<1>8. ASSUME Settled(n)', Live(n)' PROVE Served(n)'
  <2>1. Live(n) /\ n \notin queue /\ ~Retry
    BY <1>0, <1>2, <1>3, <1>5, <1>8 DEF Live, Settled, Retry
  <2>2. o = api[n] /\ o # Nil
    BY <1>0, <1>2, <2>1 DEF ServedInv, Current, Live
  <2>3. /\ classid' = Classified(classid, c)
        /\ podMap' = PodInfo(MapState, c, All).podMap
    BY <1>4, <2>1
  <2> HIDE DEF o
  <2>4. api'[n] = o /\ cache'[n] = c /\ c # Nil
    BY <1>2, <1>3, <2>2, SyncAssumption
  <2>5. Known(n)'
    BY <1>2, <2>4 DEF Known, Suits, Asked
  <2>6. ASSUME OwnAddresses, ~o.host PROVE Mapped(n)'
    <3>1. podMap' = Put(podMap, o.ips, c)
      BY <1>2, <2>3, <2>6, MapsType, PodInfoMaps DEF ServedInv, MapState
    <3>2. o.ips \subseteq Ip
      BY <1>2 DEF Cached
    <3>3. ASSUME NEW ip \in o.ips PROVE podMap'[ip] = [cg |-> c.cg, class |-> c.class]
      BY <3>1, <3>2, <3>3 DEF Put
    <3>4. [cg |-> c.cg, class |-> c.class] # Nil
      BY <1>2, SyncAssumption DEF Cached, CgroupInfo
    <3> QED
      BY <1>2, <2>4, <3>3, <3>4 DEF Mapped, Suits, Asked
  <2>7. Classed(n)'
    <3>1. c.cg \in Uid /\ classid \in [Uid -> Prio]
      BY <1>2 DEF Cached, ServedInv, TypeOK
    <3> QED
      BY <1>2, <2>3, <2>4, <3>1 DEF Classed, Suits, Classified, SetsClass
  <2> QED
    BY <2>4, <2>5, <2>6, <2>7 DEF Served
<1> QED
  BY <1>5, <1>6, <1>7, <1>8 DEF AllServed

\* Two cached configurations that differ in their limits only.
Same(c, d) ==
  /\ c.ips = d.ips /\ c.host = d.host /\ c.prio = d.prio /\ c.cg = d.cg /\ c.class = d.class

LEMMA AliasedSame ==
  ASSUME NEW pods \in [Name -> Cached \cup {Nil}], NEW names \in SUBSET Name,
         NEW e \in Entry, NEW m \in Name, pods[m] # Nil
  PROVE  Same(Aliased(pods, names, e)[m], pods[m])
<1>1. pods[m] \in Cached
  OBVIOUS
<1>2. Aliased(pods, names, e)[m] \in {pods[m], [pods[m] EXCEPT !.rx = e.rx, !.tx = e.tx]}
  BY DEF Aliased
<1> QED
  BY <1>1, <1>2 DEF Same, Cached

LEMMA FromFilesNext ==
  ASSUME ServedInv, LineToDo,
         sync'.entries = Tail(sync.entries) \/ sync'.entries = Nil
  PROVE  FromFiles' /\ Head(sync.entries) \in FileLine
<1>1. sync.entries \in Seq(FileLine) /\ sync.entries # <<>>
  BY DEF ServedInv, FromFiles, LineToDo
<1>2. Tail(sync.entries) \in Seq(FileLine) /\ Head(sync.entries) \in FileLine
  BY <1>1
<1> QED
  BY <1>2 DEF FromFiles

LEMMA SkipLineServed ==
  ASSUME ServedInv, SkipLine
  PROVE  (Named /\ Current /\ FromFiles /\ Owned /\ AllServed)'
<1>1. PICK e \in Entry : cache' = Aliased(cache, sync.names, e)
  BY LineType DEF SkipLine, ServedInv
<1>2. UNCHANGED <<api, phase, queue, worker, classid, podMap>>
  BY DEF SkipLine, cluster, maps
<1>3. /\ cache \in [Name -> Cached \cup {Nil}] /\ sync.names \in SUBSET Name
      /\ \A n \in sync.names : cache[n] # Nil
      /\ sync.current \in SUBSET Uid
  BY DEF ServedInv, TypeOK
<1>4. ASSUME NEW m \in Name
      PROVE  /\ cache'[m] = Nil <=> cache[m] = Nil
             /\ cache[m] # Nil => Same(cache'[m], cache[m])
  BY <1>1, <1>3, AliasedAt, AliasedSame
<1>5. LineToDo /\ sync'.entries = Tail(sync.entries)
  BY <1>3, NextLineType DEF SkipLine, ServedInv
<1>6. Named' /\ Current' /\ FromFiles'
  BY <1>2, <1>5, FromFilesNext DEF ServedInv, Named, Current, Live
<1>7. Owned'
  BY <1>4 DEF ServedInv, Owned, OwnedBy, Same
<1>8. ASSUME NEW m \in Name, Settled(m)', Live(m)' PROVE Served(m)'
  <2>1. Served(m)
    BY <1>2, <1>8 DEF Settled, Live, ServedInv, AllServed
  <2> QED
    BY <1>2, <1>4, <2>1 DEF Served, Known, Mapped, Classed, Suits, Asked, Same
<1> QED
  BY <1>6, <1>7, <1>8 DEF AllServed

LEMMA SyncLineServed ==
  ASSUME ServedInv, OnePodPerName, SyncLine
  PROVE  (Named /\ Current /\ FromFiles /\ Owned /\ AllServed)'
<1>1. PICK e : e = Head(sync.entries)
  OBVIOUS
<1>2. PICK n \in Name :
        LET d == Merged(cache[n], e)
            names == sync.names \cup {n}
        IN /\ e \in Entry /\ cache[n] \in Cached /\ cache[n].cg = e.cg
           /\ cache' = Aliased([cache EXCEPT ![n] = d], names, e)
           /\ d.prio # Nil
           /\ classid' = Classified(classid, d)
           /\ \E done : podMap' = PodInfo(MapState, d, done).podMap
           /\ NextLine(names, sync.current \cup {e.cg}) \/ NextFile
  BY <1>1, SyncLineStep DEF ServedInv
<1>3. PICK c : c = Merged(cache[n], e)
  OBVIOUS
<1>4. PICK done : podMap' = PodInfo(MapState, c, done).podMap
  BY <1>2, <1>3
<1>5. /\ c \in Cached /\ c # Nil /\ cache[n] # Nil
      /\ c.ips = cache[n].ips /\ c.host = cache[n].host /\ c.cg = cache[n].cg
      /\ c.prio = IF e.prio # Nil THEN e.prio ELSE cache[n].prio
      /\ c.class = IF e.prio # Nil THEN e.prio ELSE cache[n].class
  BY <1>2, <1>3, MergedType, SyncAssumption
<1>6. UNCHANGED <<api, phase, queue, worker>>
  BY DEF SyncLine, cluster
<1>7. cache \in [Name -> Cached \cup {Nil}] /\ sync.names \in SUBSET Name
  BY DEF ServedInv, TypeOK
<1>8. \A m \in Name : cache'[m] = Nil <=> cache[m] = Nil
  <2>1. cache' = Aliased([cache EXCEPT ![n] = c], sync.names \cup {n}, e)
    BY <1>2, <1>3
  <2> QED
    BY <1>2, <1>5, <2>1, SyncLineCache DEF ServedInv
<1>9. /\ Same(cache'[n], c)
      /\ \A m \in Name \ {n} : cache[m] # Nil => Same(cache'[m], cache[m])
  <2>1. PICK pods : pods = [cache EXCEPT ![n] = c]
    OBVIOUS
  <2>2. /\ pods \in [Name -> Cached \cup {Nil}] /\ pods[n] = c
        /\ \A m \in Name \ {n} : pods[m] = cache[m]
    BY <1>2, <1>5, <1>7, <2>1
  <2>3. cache' = Aliased(pods, sync.names \cup {n}, e)
    BY <1>2, <1>3, <2>1
  <2> QED
    BY <1>2, <1>5, <1>7, <2>2, <2>3, AliasedSame
<1>10. LineToDo /\ (sync'.entries = Tail(sync.entries) \/ sync'.entries = Nil)
  <2>1. LineToDo /\ sync.entries # Nil
    BY DEF SyncLine, LineToDo
  <2>2. CASE NextFile
    BY <2>1, <2>2, NextFileType DEF ServedInv
  <2>3. CASE NextLine(sync.names \cup {n}, sync.current \cup {e.cg})
    <3>1. sync.names \cup {n} \in SUBSET Name /\ sync.current \cup {e.cg} \in SUBSET Uid
      BY <1>2 DEF ServedInv, TypeOK, Entry
    <3> QED
      BY <2>1, <2>3, <3>1, NextLineType DEF ServedInv
  <2> QED
    BY <1>2, <2>1, <2>2, <2>3
<1>11. Named' /\ Current' /\ FromFiles' /\ e \in FileLine
  BY <1>1, <1>6, <1>10, FromFilesNext DEF ServedInv, Named, Current, Live
<1>12. OwnedBy(n, c)
  BY <1>2, <1>5 DEF ServedInv, Owned, OwnedBy
<1>13. Owned'
  BY <1>8, <1>9, <1>12 DEF ServedInv, Owned, OwnedBy, Same
<1>14. ASSUME NEW m \in Name, m # n, Settled(m)', Live(m)' PROVE Served(m)'
  <2>1. Settled(m) /\ Live(m)
    BY <1>6, <1>14 DEF Settled, Live
  <2>2. Served(m)
    BY <2>1 DEF ServedInv, AllServed
  <2>3. /\ OwnAddresses /\ ~api[m].host => \A ip \in api[m].ips : podMap'[ip] = podMap[ip]
        /\ classid'[api[m].uid] = classid[api[m].uid]
    BY <1>2, <1>3, <1>4, <1>5, <1>12, <1>14, <2>1, <2>2, OthersServed
  <2> QED
    BY <1>6, <1>8, <1>9, <1>14, <2>2, <2>3 DEF Served, Known, Mapped, Classed, Suits, Asked, Same
<1>15. ASSUME Settled(n)', Live(n)' PROVE Served(n)'
  <2>1. Settled(n) /\ Live(n) /\ Served(n)
    BY <1>6, <1>15 DEF Settled, Live, ServedInv, AllServed
  <2>2. api[n].uid = c.cg /\ api[n].host = c.host
    BY <1>12, <2>1, OtherCgroups
  <2>3. e.prio # Nil => Asked(api[n].uid, e.prio)
    BY <1>2, <1>5, <1>11, <2>2 DEF FileLine, Asked
  <2>4. Suits(api[n], c.class) /\ Suits(api[n], c.prio)
    BY <1>5, <2>1, <2>3 DEF Served, Known, Suits
  <2>5. Known(n)'
    BY <1>5, <1>6, <1>8, <1>9, <2>4 DEF Known, Suits, Asked, Same
  <2>6. ASSUME OwnAddresses, ~api[n].host PROVE Mapped(n)'
    <3>1. PICK ips \in SUBSET c.ips : podMap' = Put(podMap, ips, c)
      BY <1>4, <1>5, <2>2, <2>6, MapsType, PodInfoMaps DEF ServedInv, MapState
    <3>2. ASSUME NEW ip \in api[n].ips
          PROVE  podMap'[ip] \in {podMap[ip], [cg |-> c.cg, class |-> c.class]}
      <4>1. ip \in Ip
        BY <2>1, SyncAssumption DEF ServedInv, TypeOK, Live, Object
      <4> QED
        BY <3>1, <4>1 DEF Put
    <3>3. [cg |-> c.cg, class |-> c.class] # Nil
      BY <1>5, SyncAssumption DEF Cached, CgroupInfo
    <3> QED
      BY <1>6, <2>1, <2>2, <2>4, <2>6, <3>2, <3>3 DEF Served, Mapped, Suits, Asked
  <2>7. Classed(n)'
    <3>1. c.cg \in Uid /\ classid \in [Uid -> Prio] /\ classid' = Classified(classid, c)
      BY <1>2, <1>3, <1>5 DEF Cached, ServedInv, TypeOK
    <3>2. classid'[c.cg] \in {classid[c.cg], c.prio}
      BY <3>1 DEF Classified
    <3> QED
      BY <1>6, <2>1, <2>2, <2>4, <3>2 DEF Served, Classed, Suits, Asked
  <2> QED
    BY <1>6, <2>5, <2>6, <2>7 DEF Served
<1> QED
  BY <1>11, <1>13, <1>14, <1>15 DEF AllServed

LEMMA RestartServed ==
  ASSUME ServedInv, Crash \/ Panic
  PROVE  (Named /\ Current /\ FromFiles /\ Owned /\ AllServed)'
<1>1. /\ cache' = [n \in Name |-> Nil] /\ worker' = IdleWorker /\ sync' = IdleSync
      /\ queue' = { n \in Name : api[n] # Nil /\ api[n].ips # {} }
      /\ UNCHANGED <<api, phase>>
  BY DEF Crash, Panic, Restarted, cluster
<1>2. Named' /\ Current' /\ FromFiles' /\ Owned'
  BY <1>1, IdleFacts, IdleSyncType DEF ServedInv, Named, Current, FromFiles, Owned
<1>3. \A m \in Name : ~(Settled(m)' /\ Live(m)')
  BY <1>1 DEF Settled, Live
<1> QED
  BY <1>2, <1>3 DEF AllServed

LEMMA ServedInit == Init => ServedInv
<1> SUFFICES ASSUME Init PROVE ServedInv
  OBVIOUS
<1>1. Named /\ Current /\ FromFiles /\ Owned /\ AllServed
  BY IdleFacts, IdleSyncType DEF Init, Named, Current, FromFiles, Owned, AllServed, Live
<1> QED
  BY <1>1, InitType DEF ServedInv

LEMMA ServedNext ==
  ASSUME ServedInv, OnePodPerName, [Next]_vars
  PROVE  ServedInv'
<1>1. TypeOK'
  BY NextType DEF ServedInv
<1>2. (Named /\ Current /\ FromFiles /\ Owned /\ AllServed)'
  <2>1. ASSUME NEW n \in Name, ApiStep(n) PROVE (Named /\ Current /\ FromFiles /\ Owned /\ AllServed)'
    BY <2>1, ApiServed
  <2>2. ASSUME NEW n \in Name, Get(n) PROVE (Named /\ Current /\ FromFiles /\ Owned /\ AllServed)'
    BY <2>2, GetServed
  <2>3. CASE Quiet
    BY <2>3, QuietServed
  <2>4. CASE DeletePod
    BY <2>4, DeletePodServed
  <2>5. CASE Postpone \/ CgroupMissing
    BY <2>5, PostponeServed
  <2>6. CASE UpdatePod
    BY <2>6, UpdatePodServed
  <2>7. CASE SkipLine
    BY <2>7, SkipLineServed
  <2>8. CASE SyncLine
    BY <2>8, SyncLineServed
  <2>9. CASE Crash \/ Panic
    BY <2>9, RestartServed
  <2> QED
    BY <2>1, <2>2, <2>3, <2>4, <2>5, <2>6, <2>7, <2>8, <2>9, StepCases DEF ServedInv
<1> QED
  BY <1>1, <1>2 DEF ServedInv

LEMMA ServedMapped ==
  ASSUME ServedInv, OwnAddresses
  PROVE  PodsMapped
BY DEF PodsMapped, Limitable, ServedInv, AllServed, Live, Served, Mapped, Suits, Asked

\* Pods of their own names and addresses are mapped once they are reconciled,
\* under any failures of map operations, any number of restarts and panics, and
\* whatever the files say (UpdatePod, syncer.go:166).
THEOREM Reconciled ==
  ASSUME OnePodPerName, OwnAddresses
  PROVE  Spec => []PodsMapped
<1>1. ServedInv /\ [Next]_vars => ServedInv'
  BY ServedNext
<1>2. ServedInv => PodsMapped
  BY ServedMapped
<1> QED
  BY ServedInit, <1>1, <1>2, PTL DEF Spec

\* When no two pods share a name, the cgroup of a pod of the host network has its
\* class, which podChangeLocked may set too (syncer.go:365), whoever has or gets
\* the pods' addresses.
THEOREM HostNetworkClassed ==
  ASSUME OnePodPerName
  PROVE  Spec => []HostClassed
<1>1. ServedInv /\ [Next]_vars => ServedInv'
  BY ServedNext
<1>2. ServedInv => HostClassed
  BY DEF HostClassed, ServedInv, AllServed, Live, Served, Classed, Suits, Asked
<1> QED
  BY ServedInit, <1>1, <1>2, PTL DEF Spec

-----------------------------------------------------------------------------
(* Pods that are gone.                                                     *)

\* Once a pod has addresses it keeps them.
FixedAddresses ==
  /\ ~MovingIps
  /\ \A o, q \in Objects : o.name = q.name /\ o.ips # {} /\ q.ips # {} => o.ips = q.ips

\* The daemon is not restarted and what it deletes is deleted.
NoLeak == MaxCrashes = 0 /\ "delete" \notin Faulty

\* A running pod that the worker has read is still there, or queued again.
Stays ==
  LET n == worker.name
  IN worker.obj # Nil /\ worker.phase = "run" /\ worker.obj.ips # {} /\ n \notin queue
       => api[n] = worker.obj /\ phase[n] = "run"

Remembered == \A n \in Name : Settled(n) /\ cache[n] # Nil => Live(n)

Owns(n, ip) ==
  cache[n] # Nil /\ ~cache[n].host /\ ip \in cache[n].ips /\ cache[n].cg = podMap[ip].cg

MapOwned == \A ip \in Ip : podMap[ip] # Nil => \E n \in Name : Owns(n, ip)

GoneInv == ServedInv /\ Stays /\ Remembered /\ MapOwned

LEMMA ApiGone ==
  ASSUME GoneInv, FixedAddresses, NEW n \in Name, ApiStep(n)
  PROVE  (Stays /\ Remembered /\ MapOwned)'
<1>1. /\ UNCHANGED <<worker, cache, classid, podMap, sync>>
      /\ \A m \in Name \ {n} : api'[m] = api[m] /\ phase'[m] = phase[m]
      /\ queue \subseteq queue'
      /\ Live(n) => n \in queue'
  BY ApiFrame DEF GoneInv, FixedAddresses
<1>2. worker.obj # Nil => worker.name \in Name
  BY WorkerType, IdleFacts DEF GoneInv, ServedInv
<1>3. Stays'
  BY <1>1, <1>2 DEF GoneInv, Stays, Live
<1>4. Remembered'
  BY <1>1 DEF GoneInv, Remembered, Settled, Live
<1>5. MapOwned'
  BY <1>1 DEF GoneInv, MapOwned, Owns
<1> QED
  BY <1>3, <1>4, <1>5

LEMMA QuietGone ==
  ASSUME GoneInv, Quiet
  PROVE  (Stays /\ Remembered /\ MapOwned)'
BY DEF GoneInv, Quiet, Stays, Remembered, MapOwned, Owns, Settled, Live

LEMMA GetGone ==
  ASSUME GoneInv, NEW n \in Name, Get(n)
  PROVE  (Stays /\ Remembered /\ MapOwned)'
<1>1. /\ worker = IdleWorker /\ queue' = queue \ {n}
      /\ worker' = [name |-> n, obj |-> api[n], phase |-> phase[n]]
      /\ UNCHANGED <<api, phase, cache, podMap>>
  BY DEF Get, cluster, maps
<1> QED
  BY <1>1, IdleFacts DEF GoneInv, Stays, Remembered, MapOwned, Owns, Settled, Live

\* A write for one pod, whose cgroup and addresses are what they were.
LEMMA WriteOwned ==
  ASSUME GoneInv, NEW n \in Name, NEW c \in Cached, NEW done,
         cache[n] # Nil /\ ~cache[n].host
           => c.cg = cache[n].cg /\ ~c.host /\ cache[n].ips \subseteq c.ips,
         cache'[n] # Nil /\ Same(cache'[n], c),
         \A m \in Name \ {n} : cache[m] # Nil => cache'[m] # Nil /\ Same(cache'[m], cache[m]),
         podMap' \in {podMap, PodInfo(MapState, c, done).podMap}
  PROVE  MapOwned'
<1>1. ASSUME NEW ip \in Ip, podMap'[ip] = podMap[ip], podMap[ip] # Nil
      PROVE  \E m \in Name : Owns(m, ip)'
  <2>1. PICK m \in Name : Owns(m, ip)
    BY <1>1 DEF GoneInv, MapOwned
  <2>2. Owns(m, ip)'
    BY <1>1, <2>1 DEF Owns, Same
  <2> QED
    BY <2>2
<1>2. ASSUME NEW ip \in c.ips, podMap'[ip] = [cg |-> c.cg, class |-> c.class], ~c.host
      PROVE  Owns(n, ip)'
  BY <1>2 DEF Owns, Same
<1>3. CASE podMap' = podMap \/ c.host
  <2>1. podMap' = podMap
    BY <1>3 DEF PodInfo, MapState
  <2> QED
    BY <1>1, <2>1 DEF MapOwned
<1>4. CASE podMap' = PodInfo(MapState, c, done).podMap /\ ~c.host
  <2>1. PICK ips \in SUBSET c.ips : podMap' = Put(podMap, ips, c)
    BY <1>4, MapsType, PodInfoMaps DEF GoneInv, ServedInv, MapState
  <2>2. \A ip \in Ip : podMap'[ip] = IF ip \in ips THEN [cg |-> c.cg, class |-> c.class] ELSE podMap[ip]
    BY <2>1 DEF Put
  <2> SUFFICES ASSUME NEW ip \in Ip, podMap'[ip] # Nil
               PROVE  \E m \in Name : Owns(m, ip)'
    BY DEF MapOwned
  <2>3. CASE ip \in ips
    BY <1>2, <1>4, <2>2, <2>3
  <2>4. CASE ip \notin ips
    BY <1>1, <2>2, <2>4
  <2> QED
    BY <2>3, <2>4
<1> QED
  BY <1>3, <1>4

LEMMA DeletePodGone ==
  ASSUME GoneInv, NoLeak, DeletePod
  PROVE  (Stays /\ Remembered /\ MapOwned)'
<1>1. PICK n : n = worker.name
  OBVIOUS
<1>2. /\ worker # IdleWorker /\ Done /\ cache' = [cache EXCEPT ![n] = Nil]
      /\ podMap' = IF cache[n] # Nil /\ ~cache[n].host THEN Deleted(podMap, cache[n].ips) ELSE podMap
      /\ UNCHANGED <<api, phase, sync>>
  BY <1>1 DEF DeletePod, cluster, Fault, NoLeak
<1>3. /\ n \in Name /\ worker' = IdleWorker /\ queue' = queue
      /\ cache \in [Name -> Cached \cup {Nil}]
  BY <1>1, <1>2, WorkerEnds DEF GoneInv, ServedInv, TypeOK, Done
<1>4. Stays'
  BY <1>3, IdleFacts DEF Stays
<1>5. Remembered'
  BY <1>1, <1>2, <1>3 DEF GoneInv, Remembered, Settled, Live
<1>6. ASSUME NEW ip \in Ip, podMap'[ip] # Nil PROVE \E m \in Name : Owns(m, ip)'
  <2>1. podMap'[ip] = podMap[ip] /\ (cache[n] # Nil /\ ~cache[n].host => ip \notin cache[n].ips)
    BY <1>2, <1>6 DEF Deleted
  <2>2. PICK m \in Name : Owns(m, ip)
    BY <1>6, <2>1 DEF GoneInv, MapOwned
  <2>3. m # n
    BY <2>1, <2>2 DEF Owns
  <2> QED
    BY <1>2, <1>3, <2>1, <2>2, <2>3 DEF Owns
<1> QED
  BY <1>4, <1>5, <1>6 DEF MapOwned

LEMMA PostponeGone ==
  ASSUME GoneInv, Postpone \/ CgroupMissing
  PROVE  (Stays /\ Remembered /\ MapOwned)'
<1>1. /\ worker' = IdleWorker /\ queue' = queue \cup {worker.name}
      /\ UNCHANGED <<api, phase, cache, podMap>>
  BY DEF Postpone, CgroupMissing, Retry, cluster, maps
<1> QED
  BY <1>1, IdleFacts DEF GoneInv, Stays, Remembered, MapOwned, Owns, Settled, Live

LEMMA UpdatePodGone ==
  ASSUME GoneInv, OnePodPerName, FixedAddresses, UpdatePod
  PROVE  (Stays /\ Remembered /\ MapOwned)'
<1>1. PICK n, c : n = worker.name /\ c = Config(worker.obj, Prev)
  OBVIOUS
<1>2. ToUpdate /\ (Prev # Nil \/ Lookup(worker.obj.uid)[worker.obj.uid] # Nil)
  BY DEF UpdatePod
<1>3. /\ n \in Name /\ c \in Cached /\ OwnedBy(n, c) /\ c.ips = worker.obj.ips
  BY <1>1, <1>2, ConfigOwned DEF GoneInv
<1>4. /\ cache' = [cache EXCEPT ![n] = c] /\ cache \in [Name -> Cached \cup {Nil}]
      /\ UNCHANGED <<api, phase, sync>>
  BY <1>1 DEF UpdatePod, cluster, GoneInv, ServedInv, TypeOK
<1>5. \E done : podMap' \in {podMap, PodInfo(MapState, c, done).podMap}
  BY <1>1 DEF UpdatePod, maps
<1>6. Retry \/ Done
  BY DEF UpdatePod
<1>7. worker' = IdleWorker /\ queue \subseteq queue'
  BY <1>6 DEF Retry, Done
<1>8. Stays'
  BY <1>7, IdleFacts DEF Stays
<1>9. Remembered'
  <2>1. n \notin queue => Live(n)
    BY <1>1, <1>2 DEF GoneInv, Stays, Live, ToUpdate, Gone
  <2> QED
    BY <1>1, <1>3, <1>4, <1>7, <2>1 DEF GoneInv, Remembered, Settled, Live
<1>10. ASSUME cache[n] # Nil
       PROVE  c.cg = cache[n].cg /\ c.host = cache[n].host /\ cache[n].ips \subseteq c.ips
  <2>1. OwnedBy(n, cache[n])
    BY <1>3, <1>10 DEF GoneInv, ServedInv, Owned
  <2>2. c.ips # {}
    BY <1>2, <1>3 DEF ToUpdate
  <2> QED
    BY <1>3, <2>1, <2>2 DEF OwnedBy, OnePodPerName, FixedAddresses
<1>11. cache'[n] # Nil /\ Same(cache'[n], c)
  BY <1>3, <1>4, SyncAssumption DEF Same
<1>12. \A m \in Name \ {n} : cache[m] # Nil => cache'[m] # Nil /\ Same(cache'[m], cache[m])
  BY <1>4 DEF Same
<1>13. MapOwned'
  BY <1>3, <1>5, <1>10, <1>11, <1>12, WriteOwned
<1> QED
  BY <1>8, <1>9, <1>13

LEMMA LineGone ==
  ASSUME GoneInv, SkipLine \/ SyncLine
  PROVE  (Stays /\ Remembered /\ MapOwned)'
<1>1. PICK e : e = Head(sync.entries)
  OBVIOUS
<1>2. UNCHANGED <<api, phase, queue, worker>>
  BY DEF SkipLine, SyncLine, cluster
<1>3. /\ cache \in [Name -> Cached \cup {Nil}] /\ sync.names \in SUBSET Name
      /\ \A n \in sync.names : cache[n] # Nil
  BY DEF GoneInv, ServedInv, TypeOK
<1>4. CASE SkipLine
  <2>1. e \in Entry /\ cache' = Aliased(cache, sync.names, e) /\ podMap' = podMap
    BY <1>1, <1>4, LineType DEF SkipLine, GoneInv, ServedInv, maps
  <2>2. ASSUME NEW m \in Name
        PROVE  /\ cache'[m] = Nil <=> cache[m] = Nil
               /\ cache[m] # Nil => Same(cache'[m], cache[m])
    BY <1>3, <2>1, AliasedAt, AliasedSame
  <2> QED
    BY <1>2, <2>1, <2>2 DEF GoneInv, Stays, Remembered, MapOwned, Owns, Settled, Live, Same
<1>5. CASE SyncLine
  <2>1. PICK n, c, done :
          /\ n \in Name /\ e \in Entry /\ cache[n] \in Cached /\ c = Merged(cache[n], e)
          /\ cache' = Aliased([cache EXCEPT ![n] = c], sync.names \cup {n}, e)
          /\ podMap' = PodInfo(MapState, c, done).podMap
    BY <1>1, <1>5, SyncLineStep DEF GoneInv, ServedInv
  <2>2. /\ c \in Cached /\ c # Nil /\ cache[n] # Nil
        /\ c.ips = cache[n].ips /\ c.host = cache[n].host /\ c.cg = cache[n].cg
    BY <2>1, MergedType, SyncAssumption
  <2>3. \A m \in Name : cache'[m] = Nil <=> cache[m] = Nil
    BY <2>1, <2>2, SyncLineCache DEF GoneInv, ServedInv
  <2>4. /\ Same(cache'[n], c)
        /\ \A m \in Name \ {n} : cache[m] # Nil => Same(cache'[m], cache[m])
    <3>1. PICK pods : pods = [cache EXCEPT ![n] = c]
      OBVIOUS
    <3>2. /\ pods \in [Name -> Cached \cup {Nil}] /\ pods[n] = c
          /\ \A m \in Name \ {n} : pods[m] = cache[m]
      BY <1>3, <2>1, <2>2, <3>1
    <3> QED
      BY <1>3, <2>1, <2>2, <3>1, <3>2, AliasedSame
  <2>5. MapOwned'
    BY <2>1, <2>2, <2>3, <2>4, WriteOwned
  <2> QED
    BY <1>2, <2>3, <2>5 DEF GoneInv, Stays, Remembered, Settled, Live
<1> QED
  BY <1>4, <1>5

LEMMA GoneNext ==
  ASSUME GoneInv, OnePodPerName, FixedAddresses, NoLeak, [Next]_vars
  PROVE  GoneInv'
<1>1. ServedInv'
  BY ServedNext DEF GoneInv
<1>2. ~(Crash \/ Panic)
  BY DEF NoLeak, Crash, Panic, Restarted, GoneInv, ServedInv, TypeOK
<1>3. (Stays /\ Remembered /\ MapOwned)'
  BY <1>2, ApiGone, GetGone, QuietGone, DeletePodGone, PostponeGone, UpdatePodGone, LineGone,
     StepCases DEF GoneInv, ServedInv
<1> QED
  BY <1>1, <1>3 DEF GoneInv

LEMMA GoneInit == Init => GoneInv
<1> SUFFICES ASSUME Init PROVE GoneInv
  OBVIOUS
<1>1. Stays /\ Remembered /\ MapOwned
  BY IdleFacts DEF Init, Stays, Remembered, MapOwned
<1> QED
  BY <1>1, ServedInit DEF GoneInv

LEMMA GoneImplies ==
  ASSUME GoneInv
  PROVE  GoneUnmapped
BY DEF GoneInv, GoneUnmapped, Remembered, MapOwned, Owns, Live

\* As long as the daemon is not restarted, deletions succeed and a pod's
\* addresses stay as they are, a pod that is gone leaves nothing behind, also of
\* an address that another pod has by then, whatever the order of events,
\* retries, failed writes and file syncs (DeletePod, syncer.go:150).
THEOREM Forgotten ==
  ASSUME OnePodPerName, FixedAddresses, NoLeak
  PROVE  Spec => []GoneUnmapped
<1>1. GoneInv /\ [Next]_vars => GoneInv'
  BY GoneNext
<1>2. GoneInv => GoneUnmapped
  BY GoneImplies
<1> QED
  BY GoneInit, <1>1, <1>2, PTL DEF Spec

-----------------------------------------------------------------------------
(* Whose limits are in force.  While a file is handled the limits cached   *)
(* of its pods are those of the line it is at (syncer.go:273), and they    *)
(* stay so after its end.  Only UpdatePod reads them, and only of a pod    *)
(* with an annotation (syncer.go:189).                                     *)

\* The cgroup cached is one of the name's pods, the limits are its own or those of
\* a line beside one of its own.
HeldRx(u, x) == OwnRx(u, x) \/ BesideRx(u, x)
HeldTx(u, x) == OwnTx(u, x) \/ BesideTx(u, x)

KeptOf(n, c) ==
  /\ \E o \in Objects : o.name = n /\ o.uid = c.cg
  /\ HeldRx(c.cg, OrZero(c.rx)) /\ HeldTx(c.cg, OrZero(c.tx))

Kept == \A n \in Name : cache[n] # Nil => KeptOf(n, cache[n])

\* The lines to come and those of the pods behind are of one file.
OneFile ==
  /\ sync.entries = Nil => sync.names = {}
  /\ sync.entries # Nil =>
       \E f \in Lines : /\ sync.entries \in Seq(f)
                        /\ \A n \in sync.names : \E d \in f : d.cg = cache[n].cg

LimitsInv == TypeOK /\ Named /\ Kept /\ OneFile /\ LimitsConfined

LEMMA LineOwn ==
  ASSUME NEW f \in Lines, NEW e \in f
  PROVE  e \in Entry /\ OwnRx(e.cg, e.rx) /\ OwnTx(e.cg, e.tx)
<1>1. CASE f \in PodFiles
  BY <1>1, SyncAssumption DEF OwnRx, OwnTx
<1>2. ASSUME NEW g \in CgroupFiles, f = {g[i] : i \in DOMAIN g}
      PROVE  e \in Entry /\ OwnRx(e.cg, e.rx) /\ OwnTx(e.cg, e.tx)
  <2>1. PICK i \in DOMAIN g : e = g[i]
    BY <1>2
  <2>2. g \in Seq(Entry)
    BY SyncAssumption
  <2>3. e \in Entry
    BY <2>1, <2>2
  <2> QED
    BY <2>1, <2>3 DEF OwnRx, OwnTx
<1> QED
  BY <1>1, <1>2 DEF Lines

\* A file that was read, in the order it is handled.
LEMMA FileOfLines ==
  ASSUME NEW entries,
         entries \in CgroupFiles \/ \E f \in PodFiles : entries \in Seq(f)
  PROVE  \E f \in Lines : entries \in Seq(f)
<1>1. CASE entries \in CgroupFiles
  <2>1. entries \in Seq(Entry)
    BY <1>1, SyncAssumption
  <2>2. entries \in Seq({entries[i] : i \in DOMAIN entries})
    BY <2>1
  <2> QED
    BY <1>1, <2>2 DEF Lines
<1>2. CASE \E f \in PodFiles : entries \in Seq(f)
  BY <1>2 DEF Lines
<1> QED
  BY <1>1, <1>2

\* WritePodInfo with limits that a pod may have leaves every cgroup such limits,
\* although it may keep the old ones, or one direction of them.
LEMMA WriteConfined ==
  ASSUME NEW m \in Maps, NEW c \in Cached, NEW done,
         ConfinedRx(c.cg, OrZero(c.rx)), ConfinedTx(c.cg, OrZero(c.tx)),
         \A u \in Uid : ConfinedRx(u, m.rates[u].rx) /\ ConfinedTx(u, m.rates[u].tx),
         NEW u \in Uid
  PROVE  /\ ConfinedRx(u, PodInfo(m, c, done).rates[u].rx)
         /\ ConfinedTx(u, PodInfo(m, c, done).rates[u].tx)
<1> DEFINE old == m.rates[c.cg]
           new == CgroupRate(old, OrZero(c.rx), OrZero(c.tx))
           rate == [rx |-> IF done >= 3 THEN new.rx ELSE old.rx,
                    tx |-> IF done = All THEN new.tx ELSE old.tx]
<1>1. c.cg \in Uid /\ m.rates \in [Uid -> [rx : Limit, tx : Limit]]
  BY DEF Cached, Maps
<1>2. /\ new.rx \in {old.rx, OrZero(c.rx)} /\ new.tx \in {old.tx, OrZero(c.tx)}
  BY DEF CgroupRate
<1>3. ConfinedRx(c.cg, rate.rx) /\ ConfinedTx(c.cg, rate.tx)
  <2>1. rate.rx \in {old.rx, OrZero(c.rx)} /\ rate.tx \in {old.tx, OrZero(c.tx)}
    BY <1>2
  <2> QED
    BY <1>1, <2>1
<1>4. CASE c.host
  BY <1>4 DEF PodInfo
<1>5. CASE ~c.host
  <2>1. PodInfo(m, c, done).rates = [m.rates EXCEPT ![c.cg] = rate]
    BY <1>5 DEF PodInfo
  <2> HIDE DEF rate
  <2>2. CASE u = c.cg
    BY <1>1, <1>3, <2>1, <2>2
  <2>3. CASE u # c.cg
    BY <1>1, <2>1, <2>3
  <2> QED
    BY <2>2, <2>3
<1> QED
  BY <1>4, <1>5

\* A pod behind is given the limits of another line of its file.
LEMMA AliasedKept ==
  ASSUME NEW pods \in [Name -> Cached \cup {Nil}], NEW names \in SUBSET Name,
         NEW f \in Lines, NEW e \in f,
         NEW n \in Name, pods[n] # Nil, KeptOf(n, pods[n]),
         n \in names => \E d \in f : d.cg = pods[n].cg
  PROVE  /\ KeptOf(n, Aliased(pods, names, e)[n])
         /\ Aliased(pods, names, e)[n].cg = pods[n].cg
<1> DEFINE c == Aliased(pods, names, e)[n]
<1>1. CASE n \notin names
  BY <1>1 DEF Aliased
<1>2. CASE n \in names
  <2>1. PICK d \in f : d.cg = pods[n].cg
    BY <1>2
  <2>2. pods[n] \in Cached /\ e \in Entry
    BY LineOwn
  <2>3. c = [pods[n] EXCEPT !.rx = e.rx, !.tx = e.tx]
    BY <1>2 DEF Aliased
  <2>4. c.cg = d.cg /\ c.rx = e.rx /\ c.tx = e.tx
    BY <2>1, <2>2, <2>3 DEF Cached
  <2>5. OrZero(e.rx) = e.rx /\ OrZero(e.tx) = e.tx
    BY <2>2, SyncAssumption DEF OrZero, Entry, Limit
  <2>6. BesideRx(d.cg, e.rx) /\ BesideTx(d.cg, e.tx)
    BY DEF BesideRx, BesideTx
  <2> QED
    BY <2>1, <2>4, <2>5, <2>6 DEF KeptOf, HeldRx, HeldTx
<1> QED
  BY <1>1, <1>2

LEMMA NamedNext ==
  ASSUME TypeOK, Named, [Next]_vars
  PROVE  Named'
<1>1. ASSUME NEW n \in Name, ApiStep(n) PROVE Named'
  <2>1. UNCHANGED worker /\ api'[n] # Nil => api'[n].name = n
    BY <1>1 DEF ApiStep, Created, Updated, Terminating, Expired, Removed, TypeOK, Named, daemon
  <2>2. \A m \in Name \ {n} : api'[m] = api[m]
    BY <1>1 DEF ApiStep, Created, Updated, Terminating, Expired, Removed, TypeOK
  <2>3. UNCHANGED worker
    BY <1>1 DEF ApiStep, Created, Updated, Terminating, Expired, Removed, daemon
  <2> QED
    BY <2>1, <2>2, <2>3 DEF Named
<1>2. ASSUME NEW n \in Name, Get(n) PROVE Named'
  BY <1>2 DEF Get, Named, cluster
<1>3. CASE Quiet
  BY <1>3 DEF Quiet, Named
<1>4. CASE DeletePod \/ Postpone \/ CgroupMissing \/ UpdatePod
  <2>1. UNCHANGED api /\ worker' = IdleWorker
    BY <1>4 DEF DeletePod, Postpone, CgroupMissing, UpdatePod, Retry, Done, cluster
  <2> QED
    BY <2>1, IdleFacts DEF Named
<1>5. CASE SkipLine \/ SyncLine
  BY <1>5 DEF SkipLine, SyncLine, Named, cluster
<1>6. CASE Crash \/ Panic
  BY <1>6, IdleFacts DEF Crash, Panic, Restarted, Named, cluster
<1> QED
  BY <1>1, <1>2, <1>3, <1>4, <1>5, <1>6, StepCases

LEMMA IdleLimits ==
  ASSUME LimitsInv, UNCHANGED <<cache, rates>>,
         \/ sync' = sync
         \/ sync'.entries = Nil /\ sync'.names = {}
  PROVE  (Kept /\ OneFile /\ LimitsConfined)'
BY DEF LimitsInv, Kept, OneFile, LimitsConfined

LEMMA ReadFileLimits ==
  ASSUME LimitsInv, ReadFile
  PROVE  (Kept /\ OneFile /\ LimitsConfined)'
<1>1. UNCHANGED <<cache, rates>> /\ sync.entries = Nil
  BY DEF ReadFile, maps
<1>2. /\ sync' = [sync EXCEPT !.entries = sync'.entries]
      /\ \E f \in Lines : sync'.entries \in Seq(f)
  BY ReadFileType, FileOfLines DEF LimitsInv
<1>3. sync'.names = {}
  BY <1>1, <1>2 DEF LimitsInv, OneFile, TypeOK
<1> QED
  BY <1>1, <1>2, <1>3 DEF LimitsInv, Kept, OneFile, LimitsConfined

\* The worker has the lock: no line is behind.
LEMMA UnlockedFile ==
  ASSUME LimitsInv, ~sync.locked, UNCHANGED sync
  PROVE  OneFile'
<1>1. sync.names = {}
  BY DEF LimitsInv, TypeOK
<1> QED
  BY <1>1 DEF LimitsInv, OneFile

LEMMA DeletePodLimits ==
  ASSUME LimitsInv, DeletePod
  PROVE  (Kept /\ OneFile /\ LimitsConfined)'
<1>1. /\ UNCHANGED <<sync, rates>> /\ ~sync.locked
      /\ cache' = [cache EXCEPT ![worker.name] = Nil]
  BY DEF DeletePod
<1>2. OneFile'
  BY <1>1, UnlockedFile
<1>3. Kept'
  BY <1>1 DEF LimitsInv, TypeOK, Kept
<1> QED
  BY <1>1, <1>2, <1>3 DEF LimitsInv, LimitsConfined

\* The configuration of an annotated pod takes the limits cached.
LEMMA ConfigKept ==
  ASSUME LimitsInv, ToUpdate, Prev # Nil \/ Lookup(worker.obj.uid)[worker.obj.uid] # Nil
  PROVE  LET c == Config(worker.obj, Prev)
         IN /\ worker.name \in Name /\ c \in Cached /\ KeptOf(worker.name, c)
            /\ ConfinedRx(c.cg, OrZero(c.rx)) /\ ConfinedTx(c.cg, OrZero(c.tx))
<1> DEFINE o == worker.obj
           c == Config(o, Prev)
           n == worker.name
<1>1. n \in Name /\ o \in Objects /\ c \in Cached
  BY ConfigType DEF LimitsInv
<1>2. o # Nil /\ o.name = n
  BY DEF ToUpdate, Gone, LimitsInv, Named
<1>3. /\ c.cg = IF Prev # Nil THEN Prev.cg ELSE o.uid
      /\ c.rx = IF Prev # Nil /\ o.rx # Nil THEN Prev.rx ELSE o.rx
      /\ c.tx = IF Prev # Nil /\ o.tx # Nil THEN Prev.tx ELSE o.tx
  BY DEF Config, LimitTaken
<1>4. Prev # Nil => KeptOf(n, Prev)
  BY <1>1 DEF LimitsInv, Kept, Prev
<1> HIDE DEF c
<1>5. \E q \in Objects : q.name = n /\ q.uid = c.cg
  BY <1>1, <1>2, <1>3, <1>4 DEF KeptOf
<1>6. HeldRx(c.cg, OrZero(c.rx)) /\ ConfinedRx(c.cg, OrZero(c.rx))
  <2>1. CASE o.rx = Nil
    BY <1>3, <2>1 DEF OrZero, OwnRx, HeldRx, ConfinedRx
  <2>2. CASE o.rx # Nil /\ Prev = Nil
    BY <1>1, <1>3, <2>2 DEF OrZero, OwnRx, HeldRx, ConfinedRx
  <2>3. CASE o.rx # Nil /\ Prev # Nil
    <3>1. AnnotatedRx(c.cg)
      BY <1>1, <1>2, <1>5, <2>3 DEF AnnotatedRx
    <3>2. HeldRx(c.cg, OrZero(c.rx))
      BY <1>3, <1>4, <2>3 DEF KeptOf
    <3> QED
      BY <3>1, <3>2 DEF HeldRx, ConfinedRx
  <2> QED
    BY <2>1, <2>2, <2>3
<1>7. HeldTx(c.cg, OrZero(c.tx)) /\ ConfinedTx(c.cg, OrZero(c.tx))
  <2>1. CASE o.tx = Nil
    BY <1>3, <2>1 DEF OrZero, OwnTx, HeldTx, ConfinedTx
  <2>2. CASE o.tx # Nil /\ Prev = Nil
    BY <1>1, <1>3, <2>2 DEF OrZero, OwnTx, HeldTx, ConfinedTx
  <2>3. CASE o.tx # Nil /\ Prev # Nil
    <3>1. AnnotatedTx(c.cg)
      BY <1>1, <1>2, <1>5, <2>3 DEF AnnotatedTx
    <3>2. HeldTx(c.cg, OrZero(c.tx))
      BY <1>3, <1>4, <2>3 DEF KeptOf
    <3> QED
      BY <3>1, <3>2 DEF HeldTx, ConfinedTx
  <2> QED
    BY <2>1, <2>2, <2>3
<1> QED
  BY <1>1, <1>5, <1>6, <1>7 DEF KeptOf, c

LEMMA UpdatePodLimits ==
  ASSUME LimitsInv, UpdatePod
  PROVE  (Kept /\ OneFile /\ LimitsConfined)'
<1>1. PICK n, c : n = worker.name /\ c = Config(worker.obj, Prev)
  OBVIOUS
<1>2. ToUpdate /\ (Prev # Nil \/ Lookup(worker.obj.uid)[worker.obj.uid] # Nil)
  BY DEF UpdatePod
<1>3. /\ n \in Name /\ c \in Cached /\ KeptOf(n, c)
      /\ ConfinedRx(c.cg, OrZero(c.rx)) /\ ConfinedTx(c.cg, OrZero(c.tx))
  BY <1>1, <1>2, ConfigKept
<1>4. /\ cache' = [cache EXCEPT ![n] = c] /\ cache \in [Name -> Cached \cup {Nil}]
      /\ UNCHANGED sync /\ ~sync.locked
  BY <1>1 DEF UpdatePod, LimitsInv, TypeOK
<1>5. PICK done : rates' \in {rates, PodInfo(MapState, c, done).rates}
  BY <1>1 DEF UpdatePod, maps
<1>6. OneFile'
  BY <1>4, UnlockedFile
<1>7. Kept'
  BY <1>3, <1>4 DEF LimitsInv, Kept
<1>8. LimitsConfined'
  <2>1. \A u \in Uid : ConfinedRx(u, MapState.rates[u].rx) /\ ConfinedTx(u, MapState.rates[u].tx)
    BY DEF LimitsInv, LimitsConfined, MapState
  <2>2. ASSUME NEW u \in Uid
        PROVE  /\ ConfinedRx(u, PodInfo(MapState, c, done).rates[u].rx)
               /\ ConfinedTx(u, PodInfo(MapState, c, done).rates[u].tx)
    BY <1>3, <2>1, MapsType, WriteConfined DEF LimitsInv
  <2> QED
    BY <1>5, <2>2 DEF LimitsInv, LimitsConfined
<1> QED
  BY <1>6, <1>7, <1>8

\* The line at hand and the file it is of.
LEMMA LineFile ==
  ASSUME LimitsInv, LineToDo
  PROVE  \E f \in Lines :
           /\ Head(sync.entries) \in f /\ Tail(sync.entries) \in Seq(f)
           /\ \A n \in sync.names : \E d \in f : d.cg = cache[n].cg
<1>1. PICK f \in Lines : /\ sync.entries \in Seq(f)
                         /\ \A n \in sync.names : \E d \in f : d.cg = cache[n].cg
  BY DEF LimitsInv, OneFile, LineToDo
<1>2. Head(sync.entries) \in f /\ Tail(sync.entries) \in Seq(f)
  BY <1>1 DEF LineToDo
<1> QED
  BY <1>1, <1>2

LEMMA SkipLineLimits ==
  ASSUME LimitsInv, SkipLine
  PROVE  (Kept /\ OneFile /\ LimitsConfined)'
<1>1. PICK e : e = Head(sync.entries)
  OBVIOUS
<1>2. /\ LineToDo /\ NextLine(sync.names, sync.current)
      /\ cache' = Aliased(cache, sync.names, e) /\ UNCHANGED rates
  BY <1>1 DEF SkipLine, maps
<1>3. PICK f \in Lines : /\ e \in f /\ Tail(sync.entries) \in Seq(f)
                         /\ \A n \in sync.names : \E d \in f : d.cg = cache[n].cg
  BY <1>1, <1>2, LineFile
<1>4. /\ cache \in [Name -> Cached \cup {Nil}] /\ sync.names \in SUBSET Name
      /\ sync.current \in SUBSET Uid /\ \A n \in sync.names : cache[n] # Nil
  BY DEF LimitsInv, TypeOK
<1>5. e \in Entry
  BY <1>3, LineOwn
<1>6. ASSUME NEW n \in Name, cache[n] # Nil
      PROVE  KeptOf(n, cache'[n]) /\ cache'[n].cg = cache[n].cg
  BY <1>2, <1>3, <1>4, <1>6, AliasedKept DEF LimitsInv, Kept
<1>7. \A n \in Name : cache'[n] = Nil <=> cache[n] = Nil
  BY <1>2, <1>4, <1>5, AliasedAt
<1>8. sync'.names = sync.names /\ sync'.entries = Tail(sync.entries)
  BY <1>2, <1>4, NextLineType DEF LimitsInv
<1>9. Kept'
  BY <1>6, <1>7 DEF Kept
<1>10. OneFile'
  <2>1. Tail(sync.entries) # Nil
    BY <1>2, LineTail DEF LimitsInv
  <2> QED
    BY <1>3, <1>4, <1>6, <1>8, <2>1 DEF OneFile
<1> QED
  BY <1>2, <1>9, <1>10 DEF LimitsInv, LimitsConfined

LEMMA SyncLineLimits ==
  ASSUME LimitsInv, SyncLine
  PROVE  (Kept /\ OneFile /\ LimitsConfined)'
<1>1. PICK e : e = Head(sync.entries)
  OBVIOUS
<1>2. PICK n \in Name :
        LET d == Merged(cache[n], e)
            names == sync.names \cup {n}
        IN /\ e \in Entry /\ cache[n] \in Cached /\ cache[n].cg = e.cg
           /\ cache' = Aliased([cache EXCEPT ![n] = d], names, e)
           /\ \E done : rates' = PodInfo(MapState, d, done).rates
           /\ NextLine(names, sync.current \cup {e.cg}) \/ NextFile
  BY <1>1, SyncLineStep DEF LimitsInv
<1>3. PICK c, names, pods : /\ c = Merged(cache[n], e) /\ names = sync.names \cup {n}
                            /\ pods = [cache EXCEPT ![n] = c]
  OBVIOUS
<1>4. PICK done : rates' = PodInfo(MapState, c, done).rates
  BY <1>2, <1>3
<1>5. LineToDo /\ sync.entries # Nil
  BY DEF SyncLine, LineToDo
<1>6. PICK f \in Lines : /\ e \in f /\ Tail(sync.entries) \in Seq(f)
                         /\ \A m \in sync.names : \E d \in f : d.cg = cache[m].cg
  BY <1>1, <1>5, LineFile
<1>7. /\ cache \in [Name -> Cached \cup {Nil}] /\ sync.names \in SUBSET Name
      /\ sync.current \in SUBSET Uid /\ \A m \in sync.names : cache[m] # Nil
  BY DEF LimitsInv, TypeOK
<1>8. c \in Cached /\ c # Nil /\ cache[n] # Nil /\ c.cg = e.cg /\ c.rx = e.rx /\ c.tx = e.tx
  <2>1. c \in Cached /\ c.cg = cache[n].cg
    BY <1>2, <1>3, MergedType
  <2>2. c.rx = e.rx /\ c.tx = e.tx
    BY <1>2, <1>3 DEF Merged, Cached
  <2> QED
    BY <1>2, <2>1, <2>2, SyncAssumption
<1>9. OrZero(e.rx) = e.rx /\ OrZero(e.tx) = e.tx
  BY <1>2, SyncAssumption DEF OrZero, Entry, Limit
<1>10. /\ HeldRx(c.cg, OrZero(c.rx)) /\ ConfinedRx(c.cg, OrZero(c.rx))
       /\ HeldTx(c.cg, OrZero(c.tx)) /\ ConfinedTx(c.cg, OrZero(c.tx))
  BY <1>6, <1>8, <1>9, LineOwn DEF HeldRx, ConfinedRx, HeldTx, ConfinedTx
<1>11. KeptOf(n, c)
  <2>1. \E o \in Objects : o.name = n /\ o.uid = c.cg
    BY <1>2, <1>8 DEF LimitsInv, Kept, KeptOf
  <2> QED
    BY <1>10, <2>1 DEF KeptOf
<1>12. /\ pods \in [Name -> Cached \cup {Nil}] /\ names \in SUBSET Name
       /\ cache' = Aliased(pods, names, e)
       /\ \A m \in Name : pods[m] = Nil <=> cache[m] = Nil
       /\ \A m \in names : pods[m] # Nil
  BY <1>2, <1>3, <1>7, <1>8
<1>13. ASSUME NEW m \in Name, pods[m] # Nil
       PROVE  /\ KeptOf(m, pods[m]) /\ pods[m].cg = cache[m].cg
              /\ m \in names => \E d \in f : d.cg = pods[m].cg
  <2>1. CASE m = n
    BY <1>2, <1>3, <1>6, <1>7, <1>8, <1>11, <2>1
  <2>2. CASE m # n
    BY <1>3, <1>6, <1>7, <1>13, <2>2 DEF LimitsInv, Kept
  <2> QED
    BY <2>1, <2>2
<1>14. ASSUME NEW m \in Name, pods[m] # Nil
       PROVE  KeptOf(m, cache'[m]) /\ cache'[m].cg = pods[m].cg
  BY <1>6, <1>12, <1>13, <1>14, AliasedKept
<1>15. \A m \in Name : cache'[m] = Nil <=> pods[m] = Nil
  BY <1>2, <1>12, AliasedAt
<1>16. Kept'
  BY <1>14, <1>15 DEF Kept
<1>17. OneFile'
  <2>1. CASE NextFile
    BY <1>5, <2>1, NextFileType DEF OneFile, LimitsInv
  <2>2. CASE NextLine(names, sync.current \cup {e.cg})
    <3>1. sync.current \cup {e.cg} \in SUBSET Uid
      BY <1>2, <1>7 DEF Entry
    <3>2. sync'.names = names /\ sync'.entries = Tail(sync.entries)
      BY <1>5, <1>12, <2>2, <3>1, NextLineType DEF LimitsInv
    <3>3. Tail(sync.entries) # Nil
      BY <1>5, LineTail DEF LimitsInv
    <3>4. ASSUME NEW m \in names PROVE \E d \in f : d.cg = cache'[m].cg
      <4>1. m \in Name /\ pods[m] # Nil
        BY <1>12
      <4> QED
        BY <1>13, <1>14, <4>1
    <3> QED
      BY <1>6, <3>2, <3>3, <3>4 DEF OneFile
  <2> QED
    BY <1>2, <1>3, <2>1, <2>2
<1>18. LimitsConfined'
  <2>1. \A u \in Uid : ConfinedRx(u, MapState.rates[u].rx) /\ ConfinedTx(u, MapState.rates[u].tx)
    BY DEF LimitsInv, LimitsConfined, MapState
  <2>2. ASSUME NEW u \in Uid
        PROVE  /\ ConfinedRx(u, PodInfo(MapState, c, done).rates[u].rx)
               /\ ConfinedTx(u, PodInfo(MapState, c, done).rates[u].tx)
    BY <1>8, <1>10, <2>1, MapsType, WriteConfined DEF LimitsInv
  <2> QED
    BY <1>4, <2>2 DEF LimitsConfined
<1> QED
  BY <1>16, <1>17, <1>18

\* Cleaning up takes limits away, or one direction of them.
LEMMA CleanUpLimits ==
  ASSUME LimitsInv, CleanUp
  PROVE  (Kept /\ OneFile /\ LimitsConfined)'
<1>1. sync.entries # Nil
  BY NilNoFile DEF CleanUp
<1>2. UNCHANGED cache /\ sync'.entries = Nil /\ sync'.names = {}
  BY <1>1, NextFileType DEF CleanUp, LimitsInv
<1>3. ASSUME NEW u \in Uid PROVE rates'[u].rx \in {0, rates[u].rx} /\ rates'[u].tx \in {0, rates[u].tx}
  <2>1. \A v \in Uid : Cleaned(rates, sync.current)[v] \in {NoLimit, rates[v]}
    BY DEF Cleaned
  <2>2. NoLimit.rx = 0 /\ NoLimit.tx = 0
    BY DEF NoLimit
  <2>3. CASE rates' = Cleaned(rates, sync.current)
    BY <2>1, <2>2, <2>3
  <2>4. ASSUME NEW v \in Uid, NEW tx \in {0, rates[v].tx},
               rates' = [Cleaned(rates, sync.current) EXCEPT ![v] = [rx |-> rates[v].rx, tx |-> tx]]
        PROVE  rates'[u].rx \in {0, rates[u].rx} /\ rates'[u].tx \in {0, rates[u].tx}
    <3>1. DOMAIN Cleaned(rates, sync.current) = Uid
      BY DEF Cleaned
    <3> QED
      BY <2>1, <2>2, <2>4, <3>1
  <2> QED
    BY <2>3, <2>4 DEF CleanUp
<1>4. \A u : ConfinedRx(u, 0) /\ ConfinedTx(u, 0)
  BY DEF OwnRx, OwnTx, ConfinedRx, ConfinedTx
<1> QED
  BY <1>2, <1>3, <1>4 DEF LimitsInv, Kept, OneFile, LimitsConfined

LEMMA RestartLimits ==
  ASSUME LimitsInv, Crash \/ Panic
  PROVE  (Kept /\ OneFile /\ LimitsConfined)'
<1>1. /\ cache' = [n \in Name |-> Nil] /\ sync' = IdleSync /\ UNCHANGED rates
  BY DEF Crash, Panic, Restarted, maps
<1> QED
  BY <1>1, IdleSyncType DEF LimitsInv, Kept, OneFile, LimitsConfined

\* The other steps touch neither the cache nor the limits, and start at most a
\* file.
LEMMA OtherLimits ==
  ASSUME LimitsInv,
         \/ Cluster \/ Forget \/ Tick \/ FileEvent \/ Postpone \/ CgroupMissing
         \/ (\E n \in Name : Get(n)) \/ UNCHANGED vars
  PROVE  (Kept /\ OneFile /\ LimitsConfined)'
<1>1. UNCHANGED <<cache, rates>>
  BY DEF Cluster, Created, Updated, Terminating, Expired, Removed, CgroupUp, CgroupDown,
         FileWritten, Forget, Tick, FileEvent, Postpone, CgroupMissing, Get, vars, daemon, maps
<1>2. CASE Tick \/ FileEvent
  <2>1. sync'.entries = Nil /\ sync'.names = {}
    BY <1>2, StartType DEF LimitsInv
  <2> QED
    BY <1>1, <2>1, IdleLimits
<1>3. CASE ~(Tick \/ FileEvent)
  <2>1. UNCHANGED sync
    BY <1>3 DEF Cluster, Created, Updated, Terminating, Expired, Removed, CgroupUp, CgroupDown,
         FileWritten, Forget, Postpone, CgroupMissing, Get, vars, daemon
  <2> QED
    BY <1>1, <2>1, IdleLimits
<1> QED
  BY <1>2, <1>3

LEMMA LimitsNext ==
  ASSUME LimitsInv, [Next]_vars
  PROVE  LimitsInv'
<1>1. TypeOK' /\ Named'
  BY NextType, NamedNext DEF LimitsInv
<1>2. (Kept /\ OneFile /\ LimitsConfined)'
  BY OtherLimits, ReadFileLimits, DeletePodLimits, UpdatePodLimits, SkipLineLimits,
     SyncLineLimits, CleanUpLimits, RestartLimits DEF Next, Daemon, Reconcile, SyncStep
<1> QED
  BY <1>1, <1>2 DEF LimitsInv

LEMMA LimitsInit == Init => LimitsInv
<1> SUFFICES ASSUME Init PROVE LimitsInv
  OBVIOUS
<1>1. Named /\ Kept /\ OneFile
  BY IdleFacts, IdleSyncType DEF Init, Named, Kept, OneFile
<1>2. LimitsConfined
  BY DEF Init, NoLimit, LimitsConfined, OwnRx, OwnTx, ConfinedRx, ConfinedTx
<1> QED
  BY <1>1, <1>2, InitType DEF LimitsInv

\* Whatever files are written and handled, also half way, and whatever pods come, go
\* and take the name or the addresses of others, the loop variable shared by a
\* file's pods (syncer.go:273) gives a pod another's limit only in a direction it
\* is annotated for, and only that of a line beside its own; every other pod has
\* its own (podChangeLocked, syncer.go:345).
THEOREM LimitsReach == Spec => []LimitsConfined
<1>1. LimitsInv => LimitsConfined
  BY DEF LimitsInv
<1> QED
  BY LimitsInit, LimitsNext, <1>1, PTL DEF Spec

-----------------------------------------------------------------------------
(* Pods that are still there.                                              *)

\* A name is queued or at work because a pod of it was there.
Heard(n) == \E o \in Objects : o.name = n /\ o.uid \in used

Announced ==
  /\ \A n \in Name : api[n] # Nil => api[n].uid \in used
  /\ \A n \in Name : n \in queue \/ worker.name = n => Heard(n)

\* What the worker has read of a pod that is gone is no older than that: its
\* name does not come back.
Departed ==
  \A n \in Name : worker.name = n /\ Gone => api[n] = Nil \/ phase[n] = "expired"

ThereInv == ServedInv /\ Announced /\ Departed

LEMMA ApiThere ==
  ASSUME ThereInv, OnePodPerName, NEW n \in Name, ApiStep(n)
  PROVE  (Announced /\ Departed)'
<1>1. /\ UNCHANGED worker /\ \A m \in Name \ {n} : api'[m] = api[m] /\ phase'[m] = phase[m]
      /\ queue' \subseteq queue \cup {n}
  BY ApiFrame DEF ThereInv
<1>2. /\ api \in [Name -> Objects \cup {Nil}] /\ phase \in [Name -> {"run", "term", "expired"}]
      /\ queue \subseteq Name
      /\ \A m \in Name : api[m] # Nil => api[m].name = m
  BY DEF ThereInv, ServedInv, TypeOK, Named
<1>3. /\ used \subseteq used'
      /\ api'[n] # Nil => api'[n].uid \in used'
      /\ Heard(n)'
  <2>1. CASE Created(n)
    BY <1>2, <2>1 DEF Created, Heard
  <2>2. CASE ~Created(n)
    <3>1. api[n] # Nil /\ UNCHANGED used
      BY <2>2 DEF ApiStep, Updated, Terminating, Expired, Removed
    <3>2. api[n].uid \in used /\ api[n] \in Objects /\ api[n].name = n
      BY <1>2, <3>1 DEF ThereInv, Announced
    <3>3. api'[n] # Nil => api'[n].uid = api[n].uid
      BY <1>2, <2>2 DEF ApiStep, Updated, Terminating, Expired, Removed
    <3> QED
      BY <3>1, <3>2, <3>3 DEF Heard
  <2> QED
    BY <2>1, <2>2
<1>4. Announced'
  <2>1. ASSUME NEW m \in Name, Heard(m) PROVE Heard(m)'
    BY <1>3, <2>1 DEF Heard
  <2> QED
    BY <1>1, <1>2, <1>3, <2>1 DEF ThereInv, Announced
<1>5. ASSUME worker.name = n, Gone PROVE api'[n] = Nil \/ phase'[n] = "expired"
  <2>1. api[n] = Nil \/ phase[n] = "expired"
    BY <1>5 DEF ThereInv, Departed
  <2>2. ~Created(n)
    <3>1. PICK o \in Objects : o.name = n /\ o.uid \in used
      BY <1>5 DEF ThereInv, Announced, Heard
    <3>2. \A q \in Objects : q.name = n => q.uid = o.uid
      BY <3>1 DEF OnePodPerName
    <3> QED
      BY <3>1, <3>2 DEF Created
  <2>3. CASE Removed(n)
    BY <1>2, <2>3 DEF Removed
  <2>4. CASE Updated(n) \/ Terminating(n) \/ Expired(n)
    BY <2>1, <2>4 DEF Updated, Terminating, Expired
  <2> QED
    BY <2>2, <2>3, <2>4 DEF ApiStep
<1>6. Departed'
  BY <1>1, <1>5 DEF ThereInv, Departed, Gone
<1> QED
  BY <1>4, <1>6

LEMMA ThereNext ==
  ASSUME ThereInv, OnePodPerName, [Next]_vars
  PROVE  ThereInv'
<1>1. ServedInv'
  BY ServedNext DEF ThereInv
<1>2. (Announced /\ Departed)'
  <2>1. ASSUME NEW n \in Name, ApiStep(n) PROVE (Announced /\ Departed)'
    BY <2>1, ApiThere
  <2>2. CASE ~\E n \in Name : ApiStep(n)
    <3>1. UNCHANGED <<api, phase, used>>
      BY <2>2 DEF Next, Cluster, CgroupUp, CgroupDown, FileWritten, Daemon, Get, Reconcile, DeletePod,
         Postpone, CgroupMissing, UpdatePod, Forget, Tick, FileEvent, SyncStep, ReadFile, SkipLine,
         SyncLine, CleanUp, Crash, Panic, ApiStep, cluster, vars
    <3>2. ASSUME NEW n \in Name, Get(n) PROVE (Announced /\ Departed)'
      <4>1. /\ n \in queue /\ queue' = queue \ {n}
            /\ worker' = [name |-> n, obj |-> api[n], phase |-> phase[n]]
        BY <3>2 DEF Get
      <4> QED
        BY <3>1, <4>1 DEF ThereInv, Announced, Heard, Departed, Gone
    <3>3. CASE Quiet \/ SkipLine \/ SyncLine
      <4>1. UNCHANGED <<queue, worker>>
        BY <3>3 DEF Quiet, SkipLine, SyncLine
      <4> QED
        BY <3>1, <4>1 DEF ThereInv, Announced, Heard, Departed, Gone
    <3>4. CASE DeletePod \/ Postpone \/ CgroupMissing \/ UpdatePod
      <4>1. worker' = IdleWorker /\ queue' \subseteq queue \cup {worker.name}
        BY <3>4 DEF DeletePod, Postpone, CgroupMissing, UpdatePod, Retry, Done
      <4> QED
        BY <3>1, <4>1, IdleFacts DEF ThereInv, Announced, Heard, Departed
    <3>5. CASE Crash \/ Panic
      <4>1. worker' = IdleWorker /\ queue' = { n \in Name : api[n] # Nil /\ api[n].ips # {} }
        BY <3>5 DEF Crash, Panic, Restarted
      <4>2. \A n \in Name : api[n] # Nil => Heard(n)
        BY DEF ThereInv, ServedInv, TypeOK, Named, Announced, Heard
      <4> QED
        BY <3>1, <4>1, <4>2, IdleFacts DEF ThereInv, Announced, Heard, Departed
    <3> QED
      BY <2>2, <3>2, <3>3, <3>4, <3>5, StepCases DEF ThereInv, ServedInv
  <2> QED
    BY <2>1, <2>2
<1> QED
  BY <1>1, <1>2 DEF ThereInv

LEMMA ThereInit == Init => ThereInv
<1> SUFFICES ASSUME Init PROVE ThereInv
  OBVIOUS
<1>1. Announced /\ Departed
  BY IdleFacts DEF Init, Announced, Departed
<1> QED
  BY <1>1, ServedInit DEF ThereInv

There(n) == api[n] # Nil /\ ~api[n].host /\ phase[n] # "expired"

\* An address of a pod that is there is cached under no other name.
LEMMA ThereAddresses ==
  ASSUME ServedInv, OnePodPerName, OwnAddresses, NEW n \in Name, There(n), NEW ip \in api[n].ips
  PROVE  /\ ip \in Ip
         /\ \A m \in Name, c \in Cached :
              OwnedBy(m, c) /\ ~c.host /\ ip \in c.ips => m = n /\ c.cg = api[n].uid
<1>1. api[n] \in Objects /\ api[n].name = n /\ ~api[n].host
  BY DEF ServedInv, TypeOK, Named, There
<1>2. ip \in Ip
  BY <1>1, SyncAssumption DEF Object
<1>3. ASSUME NEW m \in Name, NEW c \in Cached, OwnedBy(m, c), ~c.host, ip \in c.ips
      PROVE  m = n /\ c.cg = api[n].uid
  <2>1. PICK o \in Objects : o.name = m /\ o.uid = c.cg /\ o.ips = c.ips /\ o.host = c.host
    BY <1>3 DEF OwnedBy
  <2>2. m = n
    BY <1>1, <1>3, <2>1 DEF OwnAddresses
  <2> QED
    BY <1>1, <2>1, <2>2 DEF OnePodPerName
<1> QED
  BY <1>2, <1>3

\* A write of any pod's entries leaves the cgroup of an address that is there.
LEMMA PutThere ==
  ASSUME ServedInv, OnePodPerName, OwnAddresses, NEW n \in Name, There(n), NEW ip \in api[n].ips,
         podMap[ip] # Nil, podMap[ip].cg = api[n].uid,
         NEW m \in Name, NEW c \in Cached, OwnedBy(m, c), NEW done
  PROVE  LET map == PodInfo(MapState, c, done).podMap
         IN map[ip] # Nil /\ map[ip].cg = api[n].uid
<1>1. ip \in Ip /\ (~c.host /\ ip \in c.ips => c.cg = api[n].uid)
  BY ThereAddresses
<1>2. [cg |-> c.cg, class |-> c.class] # Nil
  BY SyncAssumption DEF Cached, CgroupInfo
<1>3. PICK ips \in SUBSET c.ips :
        PodInfo(MapState, c, done).podMap = IF c.host THEN podMap ELSE Put(podMap, ips, c)
  BY MapsType, PodInfoMaps DEF ServedInv, MapState
<1> QED
  BY <1>1, <1>2, <1>3 DEF Put

\* As long as no two pods share a name or an address no step takes a pod's
\* entries while it runs or terminates, however old what the worker has read,
\* and under any restarts, failures and file syncs (Reconcile, pods.go:93).
THEOREM NeverUnmapped ==
  ASSUME OnePodPerName, OwnAddresses
  PROVE  Spec => KeptUntilGone
<1> DEFINE KeptStep ==
      \A n \in Name : api[n] # Nil /\ ~api[n].host /\ phase[n] # "expired" =>
        \A ip \in api[n].ips :
          podMap[ip] # Nil /\ podMap[ip].cg = api[n].uid
            => podMap'[ip] # Nil /\ podMap'[ip].cg = api[n].uid
<1>1. ThereInv /\ [Next]_vars => ThereInv'
  BY ThereNext
<1>2. ThereInv /\ [Next]_vars => [KeptStep]_vars
  <2> SUFFICES ASSUME ThereInv, Next,
                      NEW n \in Name, There(n), NEW ip \in api[n].ips,
                      podMap[ip] # Nil, podMap[ip].cg = api[n].uid
               PROVE  podMap'[ip] # Nil /\ podMap'[ip].cg = api[n].uid
    BY DEF There
  <2>1. CASE podMap' = podMap
    BY <2>1
  <2>2. CASE DeletePod
    <3>1. PICK m : m = worker.name
      OBVIOUS
    <3>2. worker # IdleWorker /\ Gone
      BY <2>2 DEF DeletePod
    <3>3. m \in Name /\ m # n
      BY <3>1, <3>2, WorkerType DEF ThereInv, ServedInv, Departed, There
    <3>4. \/ podMap' = podMap
          \/ /\ cache[m] # Nil /\ ~cache[m].host
             /\ \E ips \in SUBSET cache[m].ips : podMap' = Deleted(podMap, ips)
      BY <2>2, <3>1 DEF DeletePod
    <3>5. cache[m] # Nil /\ ~cache[m].host => ip \notin cache[m].ips
      BY <3>3, ThereAddresses DEF ThereInv, ServedInv, TypeOK, Owned
    <3>6. ip \in Ip
      BY ThereAddresses DEF ThereInv
    <3> QED
      BY <2>1, <3>4, <3>5, <3>6 DEF Deleted
  <2>3. CASE UpdatePod
    <3>1. PICK m, c : m = worker.name /\ c = Config(worker.obj, Prev)
      OBVIOUS
    <3>2. ToUpdate /\ (Prev # Nil \/ Lookup(worker.obj.uid)[worker.obj.uid] # Nil)
      BY <2>3 DEF UpdatePod
    <3>3. m \in Name /\ c \in Cached /\ OwnedBy(m, c)
      BY <3>1, <3>2, ConfigOwned DEF ThereInv
    <3>4. PICK done : podMap' \in {podMap, PodInfo(MapState, c, done).podMap}
      BY <2>3, <3>1 DEF UpdatePod, maps
    <3> QED
      BY <2>1, <3>3, <3>4, PutThere DEF ThereInv
  <2>4. CASE SyncLine
    <3>1. PICK m \in Name :
            LET e == Head(sync.entries)
                c == Merged(cache[m], e)
            IN /\ e \in Entry /\ cache[m] \in Cached
               /\ \E done : podMap' = PodInfo(MapState, c, done).podMap
      BY <2>4, SyncLineStep DEF ThereInv, ServedInv
    <3>2. PICK c, done : /\ c = Merged(cache[m], Head(sync.entries))
                         /\ podMap' = PodInfo(MapState, c, done).podMap
      BY <3>1
    <3>3. /\ c \in Cached /\ cache[m] # Nil
          /\ c.ips = cache[m].ips /\ c.host = cache[m].host /\ c.cg = cache[m].cg
      BY <3>1, <3>2, MergedType, SyncAssumption
    <3>4. OwnedBy(m, c)
      BY <3>3 DEF ThereInv, ServedInv, Owned, OwnedBy
    <3> QED
      BY <3>2, <3>3, <3>4, PutThere DEF ThereInv
  <2>5. podMap' = podMap \/ DeletePod \/ UpdatePod \/ SyncLine
    BY DEF Next, Cluster, Created, Updated, Terminating, Expired, Removed, CgroupUp, CgroupDown,
       FileWritten, Daemon, Get, Reconcile, Postpone, CgroupMissing, Forget, Tick, FileEvent,
       SyncStep, ReadFile, SkipLine, CleanUp, Crash, Panic, daemon, maps
  <2> QED
    BY <2>1, <2>2, <2>3, <2>4, <2>5
<1> HIDE DEF KeptStep
<1>3. [][KeptStep]_vars => KeptUntilGone
  BY PTL DEF KeptUntilGone, KeptStep
<1> QED
  BY ThereInit, <1>1, <1>2, <1>3, PTL DEF Spec

=============================================================================
