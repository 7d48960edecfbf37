--------------------------- MODULE DataplaneProofs ---------------------------
(***************************************************************************)
(* What holds of the link manager and the packets for any links, settings  *)
(* and processors, and any number of changes, failures and restarts.       *)
(***************************************************************************)
EXTENDS Dataplane, TLAPS

-----------------------------------------------------------------------------
(* Types of the link manager.                                              *)

\* Manager's fields, one by one.
LEMMA ManagerFields ==
  ASSUME mgr \in Manager
  PROVE  /\ mgr.pc \in {"off", "list", "start", "loop"} /\ mgr.settings \in Settings
         /\ mgr.todo \subseteq Snapshot /\ mgr.job \in Links /\ mgr.dir \in Direction
         /\ mgr.step \in {"none", "qdisc", "filter", "cgroup", "global"}
         /\ mgr.settings.enabled \subseteq Direction
BY LinkAssumption DEF Manager

LEMMA NowType == \A l \in Links : Now(l) \in Snapshot
  BY DEF Now, Snapshot

LEMMA LinkInitType == LinkInit => LinkTypeOK
<1> SUFFICES ASSUME LinkInit PROVE LinkTypeOK
  OBVIOUS
<1>1. (CHOOSE l \in Links : TRUE) \in Links
  BY LinkAssumption
<1>2. /\ mgr \in Manager /\ mgr.step = "none" /\ mgr.dir = "ingress"
  BY <1>1 DEF LinkInit, Manager, Direction
<1>3. left \in Budget
  BY LinkAssumption DEF LinkInit, Budget
<1> QED
  BY <1>2, <1>3 DEF LinkInit, LinkTypeOK

\* The daemon when it ends, goes to another direction or logs an error.
LEMMA ExitsType ==
  ASSUME LinkTypeOK, Exits
  PROVE  /\ mgr' \in Manager /\ mgr'.pc = "off" /\ mgr'.step = "none"
         /\ mgr'.dir = "ingress" /\ mgr'.settings = mgr.settings
         /\ queue' = <<>> /\ queue' \in Seq(Snapshot)
<1>1. queue' = <<>> /\ <<>> \in Seq(Snapshot)
  BY DEF Exits
<1> QED
  BY <1>1, ManagerFields DEF LinkTypeOK, Exits, Manager, Direction

LEMMA NextDirectionType ==
  ASSUME LinkTypeOK
  PROVE  /\ NextDirection \in Manager /\ NextDirection.pc = mgr.pc
         /\ NextDirection.settings = mgr.settings /\ NextDirection.todo = mgr.todo
         /\ NextDirection.job = mgr.job
         /\ mgr.dir = "ingress" =>
              NextDirection.step = "filter" /\ NextDirection.dir = "egress"
         /\ mgr.dir # "ingress" =>
              NextDirection.step = "none" /\ NextDirection.dir = "ingress"
BY ManagerFields DEF LinkTypeOK, NextDirection, Manager, Direction

LEMMA EnsureType ==
  ASSUME NEW m \in Manager, NEW snapshot \in Snapshot, m.step = "none"
  PROVE  /\ Ensure(snapshot, m) \in Manager
         /\ Ensure(snapshot, m).pc = m.pc
         /\ Ensure(snapshot, m).settings = m.settings
         /\ Ensure(snapshot, m).todo = m.todo /\ Ensure(snapshot, m).dir = m.dir
         /\ Valid(snapshot) => /\ Ensure(snapshot, m).step = "qdisc"
                               /\ Ensure(snapshot, m).job = snapshot.link
         /\ ~Valid(snapshot) => Ensure(snapshot, m).step = "none"
BY DEF Ensure, Manager, Snapshot

LEMMA LeftType ==
  ASSUME LinkTypeOK
  PROVE  /\ Fault \/ Killed => left' \in Budget
         /\ \A l \in Links, to \in {"down", "up", "gone"} : Change(l, to) => left' \in Budget
BY LinkAssumption DEF LinkTypeOK, Fault, Change, Killed, Budget

\* The daemon's variables after a step that changes only mgr, filter and prog.
LEMMA LinkTypeStep ==
  ASSUME LinkTypeOK, LinkNext
  PROVE  LinkTypeOK'
<1> USE ManagerFields DEF LinkTypeOK
<1>1. ASSUME NEW l \in Links, NEW to \in {"down", "up", "gone"}, Change(l, to)
      PROVE  LinkTypeOK'
  <2>1. queue' \in Seq(Snapshot)
    <3>1. [link |-> l, up |-> to = "up"] \in Snapshot
      BY DEF Snapshot
    <3>2. Append(queue, [link |-> l, up |-> to = "up"]) \in Seq(Snapshot)
      BY <3>1
    <3> QED
      BY <1>1, <3>2 DEF Change
  <2>2. link' \in [Links -> {"down", "up", "gone"}] /\ filter' \in [Links -> SUBSET Direction]
    BY <1>1 DEF Change
  <2>3. missed' \subseteq Links /\ UNCHANGED <<prog, mgr>>
    BY <1>1 DEF Change
  <2>4. left' \in Budget
    BY <1>1, LeftType
  <2> QED
    BY <2>1, <2>2, <2>3, <2>4
<1>2. CASE Killed
  <2>1. UNCHANGED <<link, filter, prog, missed>>
    BY <1>2 DEF Killed
  <2>2. mgr' \in Manager /\ mgr'.step = "none" /\ mgr'.dir = "ingress" /\ queue' \in Seq(Snapshot)
    BY <1>2, ExitsType DEF Killed
  <2>3. left' \in Budget
    BY <1>2, LeftType
  <2> QED
    BY <2>1, <2>2, <2>3
<1>3. CASE StartFails
  <2>1. UNCHANGED <<link, filter, prog, missed>>
    BY <1>3 DEF StartFails
  <2>2. mgr' \in Manager /\ mgr'.step = "none" /\ mgr'.dir = "ingress" /\ queue' \in Seq(Snapshot)
    BY <1>3, ExitsType DEF StartFails
  <2>3. left' \in Budget
    BY <1>3, LeftType DEF StartFails
  <2> QED
    BY <2>1, <2>2, <2>3
<1>4. CASE Load
  <2>1. mgr' \in Manager /\ mgr'.step = mgr.step /\ mgr'.dir = mgr.dir /\ mgr'.pc = "list"
    BY <1>4 DEF Load, Manager
  <2> QED
    BY <1>4, <2>1 DEF Load, Pinned
<1>5. CASE List
  <2>1. {Now(l) : l \in {k \in Links : link[k] # "gone"}} \subseteq Snapshot
    BY NowType
  <2>2. /\ mgr' \in Manager /\ mgr'.step = mgr.step /\ mgr'.dir = mgr.dir
        /\ mgr'.pc = "start"
    BY <1>5, <2>1 DEF List, Manager
  <2> QED
    BY <1>5, <2>2 DEF List
<1>6. CASE NextListed
  <2>1. PICK snapshot \in mgr.todo :
          mgr' = Ensure(snapshot, [mgr EXCEPT !.todo = @ \ {snapshot}])
    BY <1>6 DEF NextListed
  <2> DEFINE m == [mgr EXCEPT !.todo = @ \ {snapshot}]
  <2>2. m \in Manager /\ m.step = "none" /\ m.dir = mgr.dir /\ m.pc = "start"
    BY <1>6 DEF NextListed, Manager
  <2> HIDE DEF m
  <2>3. mgr' = Ensure(snapshot, m) /\ snapshot \in Snapshot
    BY <2>1 DEF m
  <2>4. /\ mgr' \in Manager /\ mgr'.dir = "ingress" /\ mgr'.pc = "start"
    BY <2>2, <2>3, <1>6, EnsureType DEF NextListed
  <2> QED
    BY <1>6, <2>4 DEF NextListed
<1>7. CASE Subscribe
  <2>1. mgr' \in Manager /\ mgr'.step = mgr.step /\ mgr'.dir = mgr.dir /\ mgr'.pc = "loop"
    BY <1>7 DEF Subscribe, Manager
  <2> QED
    BY <1>7, <2>1 DEF Subscribe
<1>8. CASE Receive
  <2>1. Head(queue) \in Snapshot /\ Tail(queue) \in Seq(Snapshot)
    BY <1>8 DEF Receive
  <2>2. mgr' \in Manager /\ mgr'.dir = "ingress" /\ mgr'.pc = "loop"
    BY <1>8, <2>1, EnsureType DEF Receive
  <2> QED
    BY <1>8, <2>1, <2>2 DEF Receive
<1>9. CASE Qdisc
  <2>1. /\ mgr' \in Manager /\ mgr'.step = "filter" /\ mgr'.dir = mgr.dir
        /\ mgr'.pc = mgr.pc
    BY <1>9 DEF Qdisc, Manager
  <2> QED
    BY <1>9, <2>1 DEF Qdisc
<1>10. CASE FilterReplace
  <2>1. /\ mgr' \in Manager /\ mgr'.step = "cgroup" /\ mgr'.dir = mgr.dir
        /\ mgr'.pc = mgr.pc
    BY <1>10 DEF FilterReplace, Manager
  <2>2. filter' \in [Links -> SUBSET Direction]
    BY <1>10 DEF FilterReplace
  <2> QED
    BY <1>10, <2>1, <2>2 DEF FilterReplace
<1>11. CASE FilterDel
  <2>1. filter' \in [Links -> SUBSET Direction]
    BY <1>11 DEF FilterDel
  <2> QED
    BY <1>11, <2>1, NextDirectionType DEF FilterDel
<1>12. CASE FilterDelFails
  BY <1>12, NextDirectionType, LeftType DEF FilterDelFails
<1>13. CASE PutCgroup
  <2>1. /\ mgr' \in Manager /\ mgr'.step = "global" /\ mgr'.dir = mgr.dir
        /\ mgr'.pc = mgr.pc
    BY <1>13 DEF PutCgroup, Manager
  <2> QED
    BY <1>13, <2>1 DEF PutCgroup, Program
<1>14. CASE PutGlobal
  BY <1>14, NextDirectionType DEF PutGlobal, Program
<1>15. CASE EnsureFails
  <2>1. left' \in Budget
    BY <1>15, LeftType DEF EnsureFails, Fails
  <2>2. /\ mgr' \in Manager /\ mgr'.step = "none" /\ mgr'.dir = "ingress"
        /\ queue' \in Seq(Snapshot) /\ missed' \subseteq Links
    <3>1. CASE Exits /\ UNCHANGED missed
      <4>1. queue' \in Seq(Snapshot)
        BY <3>1, ExitsType
      <4> QED
        BY <3>1, <4>1, ExitsType
    <3>2. CASE mgr' = Logged /\ missed' = missed \cup {mgr.job} /\ UNCHANGED queue
      BY <3>2 DEF Logged, Manager, Direction
    <3> QED
      BY <1>15, <3>1, <3>2 DEF EnsureFails
  <2> QED
    BY <1>15, <2>1, <2>2 DEF EnsureFails
<1> QED
  BY <1>1, <1>2, <1>3, <1>4, <1>5, <1>6, <1>7, <1>8, <1>9, <1>10, <1>11, <1>12, <1>13,
     <1>14, <1>15 DEF LinkNext, Work

-----------------------------------------------------------------------------
(* The links that are settled.                                             *)

\* The daemon will hear of the link as it is.
Pending(l) ==
  \/ mgr.pc = "start" /\ Now(l) \in mgr.todo
  \/ mgr.pc = "loop" /\ \E i \in 1..Len(queue) : queue[i] = Now(l)

\* What the daemon has done for the link at work, before step in direction dir.
DoneWith(l, d) ==
  /\ d \in filter[l] <=> d \in mgr.settings.enabled
  /\ d \in mgr.settings.enabled => prog = Program

Working(l) ==
  /\ mgr.step # "none" /\ mgr.job = l
  /\ mgr.dir = "egress" => DoneWith(l, "ingress")
  /\ mgr.step \in {"cgroup", "global"} => Enabled /\ mgr.dir \in filter[l]
  /\ mgr.step = "global" => "cgroup" \in prog

\* A valid link that was not missed is known of, at work or attached.
Tended(l) ==
  mgr.pc \in {"start", "loop"} /\ Valid(Now(l)) /\ l \notin missed =>
    Pending(l) \/ Working(l) \/ Attached(l)

\* The last event of a link tells of it as it is.
QueueCurrent ==
  \A l \in Links, i \in 1..Len(queue) :
    queue[i].link = l => \E j \in i..Len(queue) : queue[j] = Now(l)

LinkInv ==
  /\ LinkTypeOK
  /\ mgr.pc # "loop" => queue = <<>>
  /\ QueueCurrent
  /\ \A l \in Links : Tended(l)

LEMMA LinkInvInit == LinkInit => LinkInv
<1> SUFFICES ASSUME LinkInit PROVE LinkInv
  OBVIOUS
<1>1. mgr.pc = "off" /\ queue = <<>>
  BY DEF LinkInit
<1>2. QueueCurrent
  BY <1>1 DEF QueueCurrent
<1>3. \A l \in Links : Tended(l)
  BY <1>1 DEF Tended
<1> QED
  BY <1>1, <1>2, <1>3, LinkInitType DEF LinkInv

\* The daemon is off, or has yet to list the links: nothing is promised.
LEMMA NothingPromised ==
  ASSUME LinkTypeOK', mgr'.pc \in {"off", "list"}, queue' = <<>>
  PROVE  LinkInv'
<1>1. QueueCurrent'
  BY DEF QueueCurrent
<1>2. (\A l \in Links : Tended(l))'
  BY DEF Tended
<1> QED
  BY <1>1, <1>2 DEF LinkInv

\* A step that does nothing to link l and takes nothing away.
LEMMA StaysTended ==
  ASSUME NEW l \in Links, LinkTypeOK, LinkTypeOK', Tended(l),
         mgr.step = "none" \/ mgr.job # l,
         mgr'.pc = mgr.pc, mgr'.settings = mgr.settings, mgr'.todo = mgr.todo,
         UNCHANGED <<link, queue>>, missed \subseteq missed',
         filter'[l] = filter[l], prog \subseteq prog'
  PROVE  Tended(l)'
<1>1. SUFFICES ASSUME mgr.pc \in {"start", "loop"}, Valid(Now(l)), l \notin missed
               PROVE  (Pending(l) \/ Attached(l))'
  BY DEF Tended, Valid, Now
<1>2. Pending(l) \/ Attached(l)
  BY <1>1 DEF Tended, Working
<1>3. CASE Pending(l)
  BY <1>3 DEF Pending, Now
<1>4. CASE Attached(l)
  BY <1>4 DEF Attached, LinkTypeOK
<1> QED
  BY <1>2, <1>3, <1>4

\* The queue after an event.
LEMMA QueueAfterChange ==
  ASSUME LinkTypeOK, QueueCurrent, NEW l \in Links, NEW up \in BOOLEAN,
         queue' = Append(queue, [link |-> l, up |-> up]),
         Now(l)' = [link |-> l, up |-> up],
         \A k \in Links \ {l} : Now(k)' = Now(k)
  PROVE  QueueCurrent'
<1> DEFINE n == Len(queue)
<1>1. /\ n \in Nat /\ Len(queue') = n + 1
      /\ queue'[n + 1] = [link |-> l, up |-> up]
      /\ \A i \in 1..n : queue'[i] = queue[i] /\ queue[i] \in Snapshot
  BY DEF LinkTypeOK
<1> SUFFICES ASSUME NEW k \in Links, NEW i \in 1..Len(queue'), queue'[i].link = k
             PROVE  \E j \in i..Len(queue') : queue'[j] = Now(k)'
  BY DEF QueueCurrent
<1>2. CASE k = l
  <2>1. n + 1 \in i..Len(queue')
    BY <1>1
  <2> QED
    BY <1>1, <1>2, <2>1
<1>3. CASE k # l
  <2>1. i \in 1..n /\ queue[i].link = k
    BY <1>1, <1>3
  <2>2. PICK j \in i..n : queue[j] = Now(k)
    BY <2>1 DEF QueueCurrent
  <2>3. j \in 1..n /\ j \in i..Len(queue')
    BY <1>1, <2>1, <2>2
  <2>4. queue'[j] = queue[j] /\ Now(k)' = Now(k)
    BY <1>1, <1>3, <2>3
  <2> QED
    BY <2>2, <2>3, <2>4
<1> QED
  BY <1>2, <1>3

LEMMA ChangeLinkInv ==
  ASSUME LinkInv, LinkTypeOK', NEW l \in Links, NEW to \in {"down", "up", "gone"},
         Change(l, to)
  PROVE  LinkInv'
<1>1. /\ Now(l)' = [link |-> l, up |-> to = "up"]
      /\ \A k \in Links \ {l} : Now(k)' = Now(k) /\ filter'[k] = filter[k]
      /\ UNCHANGED <<prog, mgr>>
  BY DEF Change, Now, LinkInv, LinkTypeOK
<1>2. queue' = IF mgr.pc = "loop" THEN Append(queue, [link |-> l, up |-> to = "up"])
               ELSE queue
  BY DEF Change
<1>3. mgr'.pc # "loop" => queue' = <<>>
  BY <1>1, <1>2 DEF LinkInv
<1>4. QueueCurrent'
  <2>1. CASE mgr.pc = "loop"
    BY <1>1, <1>2, <2>1, QueueAfterChange DEF LinkInv
  <2>2. CASE mgr.pc # "loop"
    BY <1>1, <1>3, <2>2 DEF QueueCurrent
  <2> QED
    BY <2>1, <2>2
<1>5. ASSUME NEW k \in Links PROVE Tended(k)'
  <2>1. CASE k = l
    <3>1. CASE mgr.pc = "loop" /\ to = "up"
      <4>1. Len(queue') \in 1..Len(queue') /\ queue'[Len(queue')] = Now(l)'
        BY <1>1, <1>2, <3>1 DEF LinkInv, LinkTypeOK
      <4> QED
        BY <1>1, <2>1, <3>1, <4>1 DEF Tended, Pending
    <3>2. CASE to # "up"
      <4>1. link'[l] # "up"
        BY <3>2 DEF Change, LinkInv, LinkTypeOK
      <4> QED
        BY <2>1, <4>1 DEF Tended, Valid, Now
    <3>3. CASE mgr.pc # "loop"
      BY <1>1, <2>1, <3>3 DEF Tended, Change, Blind
    <3> QED
      BY <3>1, <3>2, <3>3
  <2>2. CASE k # l
    <3>1. /\ Now(k)' = Now(k) /\ filter'[k] = filter[k]
          /\ Valid(Now(k))' <=> Valid(Now(k))
          /\ missed \subseteq missed'
      BY <1>1, <2>2 DEF Valid, Change
    <3>2. Tended(k)
      BY DEF LinkInv
    <3>3. SUFFICES ASSUME mgr.pc \in {"start", "loop"},
                          Pending(k) \/ Working(k) \/ Attached(k)
                   PROVE  (Pending(k) \/ Working(k) \/ Attached(k))'
      BY <1>1, <3>1, <3>2 DEF Tended
    <3>4. CASE Pending(k)
      <4>1. \A i \in 1..Len(queue) : i \in 1..Len(queue') /\ queue'[i] = queue[i]
        BY <1>2, <1>1 DEF LinkInv, LinkTypeOK
      <4> QED
        BY <1>1, <3>1, <3>4, <4>1 DEF Pending
    <3>5. CASE Working(k)
      BY <1>1, <3>1, <3>5 DEF Working, DoneWith, Enabled
    <3>6. CASE Attached(k)
      BY <1>1, <3>1, <3>6 DEF Attached
    <3> QED
      BY <3>3, <3>4, <3>5, <3>6
  <2> QED
    BY <2>1, <2>2
<1> QED
  BY <1>3, <1>4, <1>5 DEF LinkInv

\* The start: the links listed, one after the other.
LEMMA ListLinkInv ==
  ASSUME LinkInv, LinkTypeOK', List
  PROVE  LinkInv'
<1>1. /\ mgr'.pc = "start" /\ UNCHANGED <<link, filter, prog, queue>>
      /\ mgr'.todo = {Now(l) : l \in {k \in Links : link[k] # "gone"}}
  BY DEF List, LinkInv, LinkTypeOK, Manager
<1>2. QueueCurrent' /\ queue' = <<>>
  BY <1>1 DEF LinkInv, List, QueueCurrent
<1>3. ASSUME NEW l \in Links PROVE Tended(l)'
  <2>1. Now(l)' = Now(l)
    BY <1>1 DEF Now
  <2>2. CASE link[l] = "up"
    BY <1>1, <2>1, <2>2 DEF Tended, Pending
  <2>3. CASE link[l] # "up"
    BY <1>1, <2>3 DEF Tended, Valid, Now
  <2> QED
    BY <2>2, <2>3
<1> QED
  BY <1>2, <1>3 DEF LinkInv

LEMMA NextListedLinkInv ==
  ASSUME LinkInv, LinkTypeOK', NextListed
  PROVE  LinkInv'
<1>1. PICK snapshot \in mgr.todo :
        mgr' = Ensure(snapshot, [mgr EXCEPT !.todo = @ \ {snapshot}])
  BY DEF NextListed
<1> DEFINE m == [mgr EXCEPT !.todo = @ \ {snapshot}]
<1>2. /\ m \in Manager /\ m.step = "none" /\ m.pc = "start" /\ m.dir = "ingress"
      /\ m.todo = mgr.todo \ {snapshot} /\ m.settings = mgr.settings
      /\ snapshot \in Snapshot
  BY ManagerFields DEF NextListed, LinkInv, LinkTypeOK, Manager
<1>3. mgr' = Ensure(snapshot, m)
  BY <1>1
<1> HIDE DEF m
<1>4. /\ mgr'.pc = "start" /\ mgr'.settings = mgr.settings /\ mgr'.dir = "ingress"
      /\ mgr'.todo = mgr.todo \ {snapshot}
      /\ Valid(snapshot) => mgr'.step = "qdisc" /\ mgr'.job = snapshot.link
  BY <1>2, <1>3, EnsureType
<1>5. UNCHANGED <<link, filter, prog, queue, missed>> /\ queue = <<>>
  BY DEF NextListed, LinkInv
<1>6. QueueCurrent'
  BY <1>5 DEF QueueCurrent
<1>7. ASSUME NEW l \in Links PROVE Tended(l)'
  <2>1. Now(l)' = Now(l) /\ (Valid(Now(l))' <=> Valid(Now(l)))
    BY <1>4, <1>5 DEF Now, Valid
  <2>2. SUFFICES ASSUME Valid(Now(l)), l \notin missed
                 PROVE  (Pending(l) \/ Working(l) \/ Attached(l))'
    BY <1>5, <2>1 DEF Tended
  <2>3. Pending(l) \/ Attached(l)
    BY <2>2 DEF NextListed, LinkInv, Tended, Working
  <2>4. CASE Attached(l)
    BY <1>4, <1>5, <2>4 DEF Attached
  <2>5. CASE Pending(l) /\ snapshot = Now(l)
    BY <1>4, <2>2, <2>5 DEF Working, Now
  <2>6. CASE Pending(l) /\ snapshot # Now(l)
    BY <1>4, <2>1, <2>6 DEF Pending, NextListed
  <2> QED
    BY <2>3, <2>4, <2>5, <2>6
<1> QED
  BY <1>4, <1>5, <1>6, <1>7 DEF LinkInv

LEMMA SubscribeLinkInv ==
  ASSUME LinkInv, LinkTypeOK', Subscribe
  PROVE  LinkInv'
<1>1. /\ mgr.pc = "start" /\ mgr'.pc = "loop" /\ mgr'.settings = mgr.settings
      /\ UNCHANGED <<link, filter, prog, queue, missed>> /\ queue = <<>>
  BY DEF Subscribe, LinkInv, LinkTypeOK, Manager
<1>2. QueueCurrent'
  BY <1>1 DEF QueueCurrent
<1>3. ASSUME NEW l \in Links PROVE Tended(l)'
  <2>1. Valid(Now(l))' <=> Valid(Now(l))
    BY <1>1 DEF Now, Valid
  <2>2. Valid(Now(l)) /\ l \notin missed => Attached(l)
    BY <1>1 DEF Subscribe, LinkInv, Tended, Pending, Working
  <2>3. Attached(l) => Attached(l)'
    BY <1>1 DEF Attached
  <2> QED
    BY <1>1, <2>1, <2>2, <2>3 DEF Tended
<1> QED
  BY <1>1, <1>2, <1>3 DEF LinkInv

\* An event: either it tells of the link as it is, or another one follows that does.
LEMMA ReceiveLinkInv ==
  ASSUME LinkInv, LinkTypeOK', Receive
  PROVE  LinkInv'
<1> DEFINE head == Head(queue)
           n == Len(queue)
<1>1. /\ head = queue[1] /\ head \in Snapshot /\ n \in Nat \ {0}
      /\ Len(queue') = n - 1
      /\ \A i \in 1..(n - 1) : queue'[i] = queue[i + 1]
  BY DEF Receive, LinkInv, LinkTypeOK
<1> HIDE DEF head, n
<1>2. /\ mgr'.pc = "loop" /\ mgr'.settings = mgr.settings /\ mgr'.dir = "ingress"
      /\ mgr.pc = "loop" /\ mgr.step = "none"
      /\ Valid(head) => mgr'.step = "qdisc" /\ mgr'.job = head.link
  BY <1>1, EnsureType DEF Receive, LinkInv, LinkTypeOK, head
<1>3. UNCHANGED <<link, filter, prog>> /\ missed' = missed \ {head.link}
  BY DEF Receive, head
<1>4. \A l \in Links : Now(l)' = Now(l) /\ (Valid(Now(l))' <=> Valid(Now(l)))
  BY <1>2, <1>3 DEF Now, Valid
<1>5. QueueCurrent'
  <2> SUFFICES ASSUME NEW l \in Links, NEW i \in 1..Len(queue'), queue'[i].link = l
               PROVE  \E j \in i..Len(queue') : queue'[j] = Now(l)'
    BY DEF QueueCurrent
  <2>1. i + 1 \in 1..n /\ queue[i + 1].link = l
    BY <1>1
  <2>2. PICK j \in (i + 1)..n : queue[j] = Now(l)
    BY <2>1 DEF LinkInv, QueueCurrent, n
  <2>3. j - 1 \in i..Len(queue') /\ j - 1 \in 1..(n - 1) /\ (j - 1) + 1 = j
    BY <1>1, <2>1, <2>2
  <2>4. queue'[j - 1] = queue[j]
    BY <1>1, <2>3
  <2> QED
    BY <1>4, <2>2, <2>3, <2>4
<1>6. ASSUME NEW l \in Links PROVE Tended(l)'
  <2> SUFFICES ASSUME Valid(Now(l)), l \notin missed \/ l = head.link
               PROVE  (Pending(l) \/ Working(l) \/ Attached(l))'
    BY <1>3, <1>4 DEF Tended
  <2>1. (\E i \in 1..n : queue[i] = Now(l)) \/ Attached(l)
    <3>1. CASE l = head.link
      <4>1. 1 \in 1..n /\ queue[1].link = l
        BY <1>1, <3>1
      <4>2. \E j \in 1..n : queue[j] = Now(l)
        BY <4>1 DEF LinkInv, QueueCurrent, n
      <4> QED
        BY <4>2
    <3>2. CASE l # head.link
      BY <1>2, <3>2 DEF LinkInv, Tended, Pending, Working, n
    <3> QED
      BY <3>1, <3>2
  <2>2. CASE Attached(l)
    BY <1>2, <1>3, <2>2 DEF Attached
  <2>3. ASSUME NEW i \in 1..n, queue[i] = Now(l)
        PROVE  (Pending(l) \/ Working(l))'
    <3>1. CASE i = 1
      <4>1. head = Now(l) /\ Now(l).link = l
        BY <1>1, <2>3, <3>1 DEF Now
      <4> QED
        BY <1>2, <4>1 DEF Working
    <3>2. CASE i # 1
      <4>1. i - 1 \in 1..(n - 1) /\ (i - 1) + 1 = i /\ i - 1 \in 1..Len(queue')
        BY <1>1, <3>2
      <4>2. queue'[i - 1] = Now(l)'
        BY <1>1, <1>4, <2>3, <4>1
      <4> QED
        BY <1>2, <4>1, <4>2 DEF Pending
    <3> QED
      BY <3>1, <3>2
  <2> QED
    BY <2>1, <2>2, <2>3
<1> QED
  BY <1>2, <1>5, <1>6 DEF LinkInv

-----------------------------------------------------------------------------
(* ensureBpfProg.                                                          *)

\* What every step of ensureBpfProg leaves alone.
Proceeds ==
  /\ mgr.step # "none"
  /\ mgr'.pc = mgr.pc /\ mgr'.settings = mgr.settings /\ mgr'.todo = mgr.todo
  /\ UNCHANGED <<link, queue>> /\ missed \subseteq missed' /\ prog \subseteq prog'
  /\ \A l \in Links \ {mgr.job} : filter'[l] = filter[l]

\* It is enough that the link at work is got one step further, or done.
LEMMA ProceedsLinkInv ==
  ASSUME LinkInv, LinkTypeOK', Proceeds,
         NEW job \in Links, job = mgr.job,
         Attached(job) => filter'[job] = filter[job],
         Working(job) /\ job \notin missed' => Working(job)' \/ Attached(job)'
  PROVE  LinkInv'
<1>1. (mgr'.pc # "loop" => queue' = <<>>) /\ QueueCurrent'
  BY DEF Proceeds, LinkInv, QueueCurrent, Now
<1>2. ASSUME NEW l \in Links, l # job PROVE Tended(l)'
  BY <1>2, StaysTended DEF Proceeds, LinkInv
<1>3. ASSUME NEW l \in Links, l = job PROVE Tended(l)'
  <2>1. Now(l)' = Now(l) /\ (Valid(Now(l))' <=> Valid(Now(l)))
    BY DEF Proceeds, Now, Valid
  <2> SUFFICES ASSUME mgr.pc \in {"start", "loop"}, Valid(Now(l)), l \notin missed'
               PROVE  (Pending(l) \/ Working(l) \/ Attached(l))'
    BY <2>1 DEF Tended, Proceeds
  <2>2. Pending(l) \/ Working(l) \/ Attached(l)
    BY DEF LinkInv, Tended, Proceeds
  <2>3. CASE Pending(l)
    BY <2>1, <2>3 DEF Pending, Proceeds
  <2>4. CASE Working(l)
    BY <1>3, <2>4
  <2>5. CASE Attached(l)
    <3>1. filter'[l] = filter[l]
      BY <1>3, <2>5
    <3>2. mgr'.settings = mgr.settings /\ (prog = Program => prog' = Program)
      BY DEF Proceeds, LinkTypeOK
    <3> QED
      BY <2>5, <3>1, <3>2 DEF Attached
  <2> QED
    BY <2>2, <2>3, <2>4, <2>5
<1> QED
  BY <1>1, <1>2, <1>3 DEF LinkInv

\* A direction is done: egress is next, or the link is attached.
LEMMA DirectionDone ==
  ASSUME LinkTypeOK, LinkTypeOK', mgr' = NextDirection,
         NEW l \in Links, l = mgr.job, NEW d \in Direction, d = mgr.dir,
         DoneWith(l, d)', d = "egress" => DoneWith(l, "ingress")'
  PROVE  Working(l)' \/ Attached(l)'
<1>1. /\ mgr.dir \in Direction /\ mgr'.settings = mgr.settings /\ mgr'.job = l
      /\ filter'[l] \subseteq Direction /\ mgr.settings.enabled \subseteq Direction
  BY ManagerFields, NextDirectionType DEF LinkTypeOK
<1>2. CASE mgr.dir = "ingress"
  <2>1. mgr'.step = "filter" /\ mgr'.dir = "egress"
    BY <1>2, NextDirectionType
  <2>2. DoneWith(l, "ingress")'
    BY <1>2
  <2> QED
    BY <1>1, <2>1, <2>2 DEF Working
<1>3. CASE mgr.dir = "egress"
  <2>1. DoneWith(l, "ingress")' /\ DoneWith(l, "egress")'
    BY <1>3
  <2>2. \A e \in Direction : e \in filter'[l] <=> e \in mgr'.settings.enabled
    BY <2>1 DEF DoneWith, Direction
  <2>3. filter'[l] = mgr'.settings.enabled
    BY <1>1, <2>2
  <2>4. mgr'.settings.enabled # {} => prog' = Program
    BY <1>1, <2>1 DEF DoneWith, Direction
  <2> QED
    BY <2>3, <2>4 DEF Attached
<1> QED
  BY <1>1, <1>2, <1>3 DEF Direction

LEMMA QdiscLinkInv ==
  ASSUME LinkInv, LinkTypeOK', Qdisc
  PROVE  LinkInv'
<1>0. PICK l \in Links, d \in Direction : l = mgr.job /\ d = mgr.dir
  BY ManagerFields DEF LinkInv, LinkTypeOK
<1>1. /\ mgr'.pc = mgr.pc /\ mgr'.settings = mgr.settings /\ mgr'.todo = mgr.todo
      /\ mgr'.step = "filter" /\ mgr'.dir = "ingress" /\ mgr'.job = mgr.job
  BY DEF Qdisc, LinkInv, LinkTypeOK, Manager
<1>2. Proceeds
  BY <1>1 DEF Proceeds, Qdisc
<1>3. Working(l)'
  BY <1>0, <1>1 DEF Working
<1>4. filter' = filter
  BY DEF Qdisc
<1> QED
  BY <1>0, <1>2, <1>3, <1>4, ProceedsLinkInv

LEMMA FilterReplaceLinkInv ==
  ASSUME LinkInv, LinkTypeOK', FilterReplace
  PROVE  LinkInv'
<1>0. PICK l \in Links, d \in Direction : l = mgr.job /\ d = mgr.dir
  BY ManagerFields DEF LinkInv, LinkTypeOK
<1>1. /\ mgr'.pc = mgr.pc /\ mgr'.settings = mgr.settings /\ mgr'.todo = mgr.todo
      /\ mgr'.step = "cgroup" /\ mgr'.dir = mgr.dir /\ mgr'.job = l
  BY <1>0 DEF FilterReplace, LinkInv, LinkTypeOK, Manager
<1>2. /\ filter'[l] = filter[l] \cup {mgr.dir} /\ mgr.dir \in mgr.settings.enabled
      /\ \A k \in Links \ {l} : filter'[k] = filter[k] /\ prog' = prog
  BY <1>0, ManagerFields DEF FilterReplace, LinkInv, LinkTypeOK, Enabled
<1>3. Proceeds
  BY <1>0, <1>1, <1>2 DEF Proceeds, FilterReplace
<1>4. Attached(l) => filter'[l] = filter[l]
  BY <1>0, <1>2 DEF Attached
<1>5. Working(l) => Working(l)'
  <2>1. prog' = prog
    BY DEF FilterReplace
  <2> QED
    BY <1>0, <1>1, <1>2, <2>1 DEF Working, DoneWith, Enabled
<1> QED
  BY <1>0, <1>3, <1>4, <1>5, ProceedsLinkInv

LEMMA FilterDelLinkInv ==
  ASSUME LinkInv, LinkTypeOK', FilterDel
  PROVE  LinkInv'
<1>0. PICK l \in Links, d \in Direction : l = mgr.job /\ d = mgr.dir
  BY ManagerFields DEF LinkInv, LinkTypeOK
<1>1. /\ mgr'.pc = mgr.pc /\ mgr'.settings = mgr.settings /\ mgr'.todo = mgr.todo
      /\ mgr'.job = l
  BY <1>0, NextDirectionType DEF FilterDel, LinkInv
<1>2. /\ filter'[l] = filter[l] \ {mgr.dir} /\ mgr.dir \notin mgr.settings.enabled
      /\ \A k \in Links \ {l} : filter'[k] = filter[k]
      /\ prog' = prog
  BY <1>0, ManagerFields DEF FilterDel, LinkInv, LinkTypeOK, Enabled
<1>3. Proceeds
  BY <1>0, <1>1, <1>2 DEF Proceeds, FilterDel
<1>4. Attached(l) => filter'[l] = filter[l]
  BY <1>0, <1>2 DEF Attached
<1>5. ASSUME Working(l) PROVE Working(l)' \/ Attached(l)'
  <2>1. DoneWith(l, d)'
    BY <1>0, <1>1, <1>2 DEF DoneWith
  <2>2. mgr.dir = "egress" => DoneWith(l, "ingress")'
    BY <1>0, <1>1, <1>2, <1>5 DEF Working, DoneWith
  <2> QED
    BY <1>0, <2>1, <2>2, DirectionDone DEF FilterDel, LinkInv
<1> QED
  BY <1>0, <1>3, <1>4, <1>5, ProceedsLinkInv

LEMMA FilterDelFailsLinkInv ==
  ASSUME LinkInv, LinkTypeOK', FilterDelFails
  PROVE  LinkInv'
<1>1. /\ mgr'.pc = mgr.pc /\ mgr'.settings = mgr.settings /\ mgr'.todo = mgr.todo
  BY NextDirectionType DEF FilterDelFails, LinkInv
<1>2. Proceeds /\ filter' = filter /\ mgr.job \in missed' /\ mgr.job \in Links
  BY <1>1, ManagerFields DEF Proceeds, FilterDelFails, LinkInv, LinkTypeOK
<1> QED
  BY <1>2, ProceedsLinkInv

LEMMA PutCgroupLinkInv ==
  ASSUME LinkInv, LinkTypeOK', PutCgroup
  PROVE  LinkInv'
<1>0. PICK l \in Links, d \in Direction : l = mgr.job /\ d = mgr.dir
  BY ManagerFields DEF LinkInv, LinkTypeOK
<1>1. /\ mgr'.pc = mgr.pc /\ mgr'.settings = mgr.settings /\ mgr'.todo = mgr.todo
      /\ mgr'.step = "global" /\ mgr'.dir = mgr.dir /\ mgr'.job = l
      /\ filter' = filter /\ prog' = prog \cup {"cgroup"}
  BY <1>0 DEF PutCgroup, LinkInv, LinkTypeOK, Manager
<1>2. Proceeds
  BY <1>0, <1>1 DEF Proceeds, PutCgroup
<1>3. Working(l) => Working(l)'
  BY <1>0, <1>1 DEF Working, DoneWith, Enabled, PutCgroup, Program
<1> QED
  BY <1>0, <1>1, <1>2, <1>3, ProceedsLinkInv

LEMMA PutGlobalLinkInv ==
  ASSUME LinkInv, LinkTypeOK', PutGlobal
  PROVE  LinkInv'
<1>0. PICK l \in Links, d \in Direction : l = mgr.job /\ d = mgr.dir
  BY ManagerFields DEF LinkInv, LinkTypeOK
<1>1. /\ mgr'.pc = mgr.pc /\ mgr'.settings = mgr.settings /\ mgr'.todo = mgr.todo
      /\ mgr'.job = l /\ filter' = filter /\ prog' = prog \cup {"global"}
      /\ mgr' = NextDirection
  BY <1>0, NextDirectionType DEF PutGlobal, LinkInv
<1>2. Proceeds
  BY <1>0, <1>1 DEF Proceeds, PutGlobal
<1>3. ASSUME Working(l) PROVE Working(l)' \/ Attached(l)'
  <2>1. prog' = Program
    BY <1>0, <1>1, <1>3 DEF Working, PutGlobal, LinkInv, LinkTypeOK, Program
  <2>2. DoneWith(l, d)'
    BY <1>0, <1>1, <1>3, <2>1 DEF Working, DoneWith, Enabled, PutGlobal
  <2>3. mgr.dir = "egress" => DoneWith(l, "ingress")'
    BY <1>0, <1>1, <1>3, <2>1 DEF Working, DoneWith
  <2> QED
    BY <1>0, <1>1, <2>2, <2>3, DirectionDone DEF LinkInv
<1> QED
  BY <1>0, <1>1, <1>2, <1>3, ProceedsLinkInv

LEMMA EnsureFailsLinkInv ==
  ASSUME LinkInv, LinkTypeOK', EnsureFails
  PROVE  LinkInv'
<1>1. CASE Exits
  BY <1>1, ExitsType, NothingPromised DEF LinkInv
<1>2. CASE mgr' = Logged /\ missed' = missed \cup {mgr.job} /\ UNCHANGED queue
  <2>1. mgr'.pc = mgr.pc /\ mgr'.settings = mgr.settings /\ mgr'.todo = mgr.todo
    BY <1>2 DEF Logged, LinkInv, LinkTypeOK, Manager
  <2>2. Proceeds /\ filter' = filter /\ mgr.job \in missed' /\ mgr.job \in Links
    BY <1>2, <2>1, ManagerFields DEF Proceeds, EnsureFails, Fails, LinkInv, LinkTypeOK
  <2> QED
    BY <2>2, ProceedsLinkInv
<1> QED
  BY <1>1, <1>2 DEF EnsureFails

LEMMA LinkInvNext == LinkInv /\ LinkNext => LinkInv'
<1> SUFFICES ASSUME LinkInv, LinkNext PROVE LinkInv'
  OBVIOUS
<1>1. LinkTypeOK'
  BY LinkTypeStep DEF LinkInv
<1>2. CASE Killed \/ StartFails
  BY <1>1, <1>2, ExitsType, NothingPromised DEF Killed, StartFails, LinkInv
<1>3. CASE Load
  <2>1. mgr'.pc = "list" /\ queue' = <<>>
    BY <1>3 DEF Load, LinkInv, LinkTypeOK, Manager
  <2> QED
    BY <1>1, <2>1, NothingPromised
<1>4. CASE FilterDelFails \/ EnsureFails
  BY <1>1, <1>4, FilterDelFailsLinkInv, EnsureFailsLinkInv
<1>5. CASE List \/ NextListed \/ Subscribe \/ Receive
  BY <1>1, <1>5, ListLinkInv, NextListedLinkInv, SubscribeLinkInv, ReceiveLinkInv
<1>6. CASE Qdisc \/ FilterReplace \/ FilterDel \/ PutCgroup \/ PutGlobal
  BY <1>1, <1>6, QdiscLinkInv, FilterReplaceLinkInv, FilterDelLinkInv, PutCgroupLinkInv,
     PutGlobalLinkInv
<1>7. ASSUME NEW l \in Links, NEW to \in {"down", "up", "gone"}, Change(l, to)
      PROVE  LinkInv'
  BY <1>1, <1>7, ChangeLinkInv
<1> QED
  BY <1>2, <1>3, <1>4, <1>5, <1>6, <1>7 DEF LinkNext, Work

-----------------------------------------------------------------------------
(* The packets.                                                            *)

\* What a packet that was let through has been through.
AllOf(limited) == {"meter", "class", "adjust"} \cup (IF limited THEN {"pod"} ELSE {})

\* A packet under way has the mark of its hook and, if it was ready when it came, finds
\* the programs to come.
PacketInv(p) ==
  /\ p \in Packet
  /\ \A part \in p.through : part[2] = p.hook
  /\ p.pc \in {"cgroup", "global"} =>
       p.mark = {p.hook} /\ (p.ready => prog = Program)
  /\ p.pc = "global" =>
       p.through = ({"meter"} \cup (IF p.limited THEN {"pod"} ELSE {})) \X {p.hook}
  /\ p.pc = "passed" /\ p.ip /\ p.ready => p.through = AllOf(p.limited) \X {p.hook}

IInv == LinkInv /\ packet \in [CPU -> Packet] /\ \A c \in CPU : PacketInv(packet[c])

\* get_direction gives the hook back.
LEMMA DirOfMark == \A hook \in Direction : Dir({hook}) = hook
  BY DEF Dir, Direction

\* No step of the daemon takes a program out of the map, a restart included.
LEMMA ProgGrows ==
  ASSUME LinkTypeOK, LinkNext
  PROVE  prog \subseteq prog'
BY DEF LinkNext, Work, Load, Pinned, List, NextListed, Subscribe, Receive, Qdisc,
       FilterReplace, FilterDel, PutCgroup, PutGlobal, EnsureFails, StartFails,
       FilterDelFails, Killed, Change

LEMMA NoPacketInv == PacketInv(NoPacket)
<1>1. NoPacket \in Packet
  BY DEF NoPacket, Packet, Direction
<1> QED
  BY <1>1 DEF NoPacket, PacketInv

LEMMA InitIInv == Init => IInv
<1> SUFFICES ASSUME Init PROVE IInv
  OBVIOUS
<1>1. NoPacket \in Packet
  BY NoPacketInv DEF PacketInv
<1> QED
  BY <1>1, LinkInvInit, NoPacketInv DEF Init, IInv

\* A step of one processor.
LEMMA PacketMoves ==
  ASSUME IInv, NEW c \in CPU, NEW p \in Packet, PacketInv(p),
         packet' = [packet EXCEPT ![c] = p], UNCHANGED linkVars
  PROVE  IInv'
<1>1. LinkInv'
  BY DEF IInv, LinkInv, LinkTypeOK, QueueCurrent, Tended, Pending, Working, Attached,
         DoneWith, Enabled, Valid, Now, linkVars
<1>2. packet' \in [CPU -> Packet]
  BY DEF IInv
<1>3. prog' = prog
  BY DEF linkVars
<1>4. \A d \in CPU : PacketInv(packet[d])'
  BY <1>3 DEF IInv, PacketInv
<1> QED
  BY <1>1, <1>2, <1>4 DEF IInv

LEMMA EnterIInv ==
  ASSUME IInv, NEW c \in CPU, Enter(c)
  PROVE  IInv'
<1>0. PICK l \in Links : \E hook \in filter[l], mark \in SUBSET Direction, ip \in BOOLEAN :
        packet' = [packet EXCEPT ![c] =
                     [NoPacket EXCEPT !.pc = Jump("cgroup"), !.hook = hook, !.ip = ip,
                                      !.mark = Marked(mark, hook),
                                      !.ready = prog = Program]]
  BY DEF Enter
<1>1. PICK hook \in filter[l], mark \in SUBSET Direction, ip \in BOOLEAN :
        packet' = [packet EXCEPT ![c] =
                     [NoPacket EXCEPT !.pc = Jump("cgroup"), !.hook = hook, !.ip = ip,
                                      !.mark = Marked(mark, hook),
                                      !.ready = prog = Program]]
  BY <1>0
<1> DEFINE p == [NoPacket EXCEPT !.pc = Jump("cgroup"), !.hook = hook, !.ip = ip,
                                 !.mark = Marked(mark, hook), !.ready = prog = Program]
<1>2. hook \in Direction
  BY DEF IInv, LinkInv, LinkTypeOK
<1>3. Marked(mark, hook) = {hook}
  BY DEF Marked
<1>4. Jump("cgroup") \in {"cgroup", "passed"} /\ (prog = Program => Jump("cgroup") = "cgroup")
  BY DEF Jump, Program
<1>5. (prog = Program) \in BOOLEAN
  OBVIOUS
<1>6. /\ p \in Packet /\ p.pc = Jump("cgroup") /\ p.hook = hook /\ p.mark = {hook}
      /\ p.through = {} /\ (p.ready <=> prog = Program)
  BY <1>2, <1>3, <1>4, <1>5 DEF NoPacket, Packet, Direction
<1>7. packet' = [packet EXCEPT ![c] = p] /\ UNCHANGED linkVars
  BY <1>1 DEF Enter
<1> HIDE DEF p
<1>8. PacketInv(p)
  BY <1>4, <1>6 DEF PacketInv
<1> QED
  BY <1>6, <1>7, <1>8, PacketMoves

LEMMA NotIpIInv ==
  ASSUME IInv, NEW c \in CPU, NotIp(c)
  PROVE  IInv'
<1> DEFINE p == [packet[c] EXCEPT !.pc = "passed"]
<1>1. packet[c] \in Packet /\ PacketInv(packet[c])
  BY DEF IInv
<1>2. /\ p \in Packet /\ p.pc = "passed" /\ ~p.ip /\ p.through = packet[c].through
      /\ p.hook = packet[c].hook
  BY <1>1 DEF Packet, NotIp
<1>3. packet' = [packet EXCEPT ![c] = p] /\ UNCHANGED linkVars
  BY DEF NotIp
<1> HIDE DEF p
<1>4. PacketInv(p)
  BY <1>1, <1>2 DEF PacketInv
<1> QED
  BY <1>2, <1>3, <1>4, PacketMoves

LEMMA QosCgroupIInv ==
  ASSUME IInv, NEW c \in CPU, QosCgroup(c)
  PROVE  IInv'
<1> DEFINE q == packet[c]
<1>1. /\ q \in Packet /\ q.pc = "cgroup" /\ q.ip /\ q.hook \in Direction
      /\ q.mark = {q.hook} /\ (q.ready => prog = Program)
  BY DEF IInv, PacketInv, QosCgroup, Packet
<1>2. Dir(q.mark) = q.hook
  BY <1>1, DirOfMark DEF IInv, PacketInv, QosCgroup
<1>3. PICK limited \in BOOLEAN, drop \in BOOLEAN :
        packet' = [packet EXCEPT
                     ![c].pc = IF drop THEN "dropped" ELSE Jump("global"),
                     ![c].limited = limited,
                     ![c].through = {"meter"} \X {Dir(packet[c].mark)} \cup
                        (IF limited THEN {"pod"} ELSE {}) \X {Dir(packet[c].mark)}]
  BY DEF QosCgroup
<1> DEFINE through == {"meter"} \X {q.hook} \cup (IF limited THEN {"pod"} ELSE {}) \X {q.hook}
           pc == IF drop THEN "dropped" ELSE Jump("global")
           p == [q EXCEPT !.pc = pc, !.limited = limited, !.through = through]
<1>4. packet' = [packet EXCEPT ![c] = p]
  BY <1>2, <1>3
<1>5. /\ through = ({"meter"} \cup (IF limited THEN {"pod"} ELSE {})) \X {q.hook}
      /\ through \subseteq {"meter", "pod", "class", "adjust"} \X Direction
      /\ \A part \in through : part[2] = q.hook
  BY <1>1
<1>6. pc \in {"dropped", "global", "passed"} /\ (q.ready => pc # "passed")
  BY <1>1 DEF Jump, Program, IInv, PacketInv
<1> HIDE DEF through, pc
<1>7. /\ p \in Packet /\ p.pc = pc /\ p.limited = limited /\ p.through = through
      /\ p.hook = q.hook /\ p.mark = q.mark /\ p.ready = q.ready
  BY <1>1, <1>5, <1>6 DEF Packet
<1> HIDE DEF p
<1>8. PacketInv(p)
  BY <1>1, <1>5, <1>6, <1>7 DEF PacketInv
<1> QED
  BY <1>4, <1>7, <1>8, PacketMoves DEF QosCgroup

LEMMA QosGlobalIInv ==
  ASSUME IInv, NEW c \in CPU, QosGlobal(c)
  PROVE  IInv'
<1> DEFINE q == packet[c]
<1>1. /\ q \in Packet /\ PacketInv(q) /\ q.pc = "global" /\ q.hook \in Direction
      /\ q.mark = {q.hook} /\ q.limited \in BOOLEAN
      /\ q.through = ({"meter"} \cup (IF q.limited THEN {"pod"} ELSE {})) \X {q.hook}
  BY DEF IInv, PacketInv, QosGlobal, Packet
<1>2. Dir(q.mark) = q.hook
  BY <1>1, DirOfMark
<1>3. PICK drop \in BOOLEAN :
        packet' = [packet EXCEPT
                     ![c].pc = IF drop THEN "dropped" ELSE "passed",
                     ![c].through = @ \cup
                        (IF drop THEN {"class"} ELSE {"class", "adjust"})
                           \X {Dir(packet[c].mark)}]
  BY DEF QosGlobal
<1> DEFINE through == q.through \cup
                        (IF drop THEN {"class"} ELSE {"class", "adjust"}) \X {q.hook}
           pc == IF drop THEN "dropped" ELSE "passed"
           p == [q EXCEPT !.pc = pc, !.through = through]
<1>4. packet' = [packet EXCEPT ![c] = p]
  BY <1>2, <1>3
<1>5. /\ through \subseteq {"meter", "pod", "class", "adjust"} \X Direction
      /\ \A part \in through : part[2] = q.hook
      /\ ~drop => through = AllOf(q.limited) \X {q.hook}
  BY <1>1 DEF AllOf
<1>6. pc \in {"dropped", "passed"} /\ (pc = "passed" => ~drop)
  OBVIOUS
<1> HIDE DEF through, pc
<1>7. /\ p \in Packet /\ p.pc = pc /\ p.limited = q.limited /\ p.through = through
      /\ p.hook = q.hook
  BY <1>1, <1>5, <1>6 DEF Packet
<1> HIDE DEF p
<1>8. PacketInv(p)
  BY <1>5, <1>6, <1>7 DEF PacketInv
<1> QED
  BY <1>4, <1>7, <1>8, PacketMoves DEF QosGlobal

LEMMA NextIInv == IInv /\ [Next]_vars => IInv'
<1> SUFFICES ASSUME IInv, [Next]_vars PROVE IInv'
  OBVIOUS
<1>1. CASE LinkNext /\ UNCHANGED packet
  <2>1. LinkInv'
    BY <1>1, LinkInvNext DEF IInv
  <2>2. prog = Program => prog' = Program
    BY <1>1, <2>1, ProgGrows DEF IInv, LinkInv, LinkTypeOK
  <2>3. ASSUME NEW c \in CPU PROVE PacketInv(packet[c])'
    <3>1. PacketInv(packet[c]) /\ packet'[c] = packet[c]
      BY <1>1 DEF IInv
    <3> QED
      BY <2>2, <3>1 DEF PacketInv
  <2> QED
    BY <1>1, <2>1, <2>3 DEF IInv
<1>2. ASSUME NEW c \in CPU, Enter(c) \/ PacketStep(c)
      PROVE  IInv'
  BY <1>2, EnterIInv, NotIpIInv, QosCgroupIInv, QosGlobalIInv DEF PacketStep
<1>3. CASE UNCHANGED vars
  BY <1>3 DEF vars, linkVars, IInv, PacketInv, LinkInv, LinkTypeOK, QueueCurrent, Tended,
              Pending, Working, Attached, DoneWith, Enabled, Valid, Now
<1> QED
  BY <1>1, <1>2, <1>3 DEF Next

-----------------------------------------------------------------------------

\* Every variable of the link manager and of the packets keeps its type.
THEOREM TypeCorrect == Spec => []TypeOK
<1>1. IInv => TypeOK
  BY DEF IInv, LinkInv, TypeOK
<1> QED
  BY <1>1, InitIInv, NextIInv, PTL DEF Spec

\* With any number of links that come up, go down and disappear while the daemon starts,
\* fails, is killed and works off its events: when it is settled, every valid link that
\* was not missed is limited.
THEOREM SettledAttached == Spec => []AttachedWhenSettled
<1>1. IInv => AttachedWhenSettled
  BY DEF IInv, LinkInv, Tended, Pending, Working, AttachedWhenSettled, Settled
<1> QED
  BY <1>1, InitIInv, NextIInv, PTL DEF Spec

\* A packet is handled for the direction of its hook, whatever its mark was.
THEOREM Directed == Spec => []DirectionKept
<1>1. IInv => DirectionKept
  BY DEF IInv, PacketInv, DirectionKept
<1> QED
  BY <1>1, InitIInv, NextIInv, PTL DEF Spec

\* A packet that comes when the program array is complete meets every limit there is for
\* it, whatever the daemon does meanwhile.
THEOREM Limited == Spec => []LimitedOnceReady
<1>1. IInv => LimitedOnceReady
  BY DEF IInv, PacketInv, LimitedOnceReady, AllOf
<1> QED
  BY <1>1, InitIInv, NextIInv, PTL DEF Spec

=============================================================================
