----------------------------- MODULE MCPodSync -----------------------------
(* Instances of PodSync for TLC.                                            *)
EXTENDS PodSync

CONSTANTS n1, n2, u1, u2, a1, a2, a3

Pod(n, u, ips, host, rx, tx, prio) ==
  [name |-> n, uid |-> u, ips |-> ips, host |-> host, rx |-> rx, tx |-> tx, prio |-> prio]

Says(cg, rx, tx, prio) == [cg |-> cg, rx |-> rx, tx |-> tx, prio |-> prio]

NoLines == {<<>>}
NoPods == {{}}

\* A dual-stack pod without a class, and a host network pod whose class changes;
\* pod.json gives it a class that neither an annotation nor a new cgroup does.
Lifecycle ==
  { Pod(n1, u1, {a1, a2}, FALSE, 1, Nil, Nil),
    Pod(n2, u2, {a3}, TRUE, Nil, Nil, 1),
    Pod(n2, u2, {a3}, TRUE, Nil, Nil, 0) }

LifecycleFiles == { {Says(u2, 1, 1, 2)} }

\* A pod with a class that gets an annotation for its rx limit, or loses it, and one
\* without either, which panics the daemon: each listed with limits of its own.
Restarts ==
  { Pod(n1, u1, {a1}, FALSE, Nil, Nil, 1), Pod(n1, u1, {a1}, FALSE, 1, Nil, 1),
    Pod(n2, u2, {a2}, FALSE, Nil, Nil, Nil) }

RestartLines == { <<Says(u1, 3, 4, Nil), Says(u2, 5, 6, Nil)>> }

\* Bound: only the pod with a class terminates, the other one is deleted at once.
AtOnce == phase[n2] = "run"

\* A dual-stack pod that gets its addresses late, and pod.json changes its tx
\* limit only.
Late ==
  { Pod(n1, u1, {}, FALSE, Nil, Nil, Nil), Pod(n1, u1, {a1, a2}, FALSE, Nil, Nil, 1) }

Listed == { Pod(n1, u1, {a1}, FALSE, Nil, Nil, 1) }
ListedFiles == { {Says(u1, 1, 1, 1)}, {Says(u1, 1, 2, 1)} }

Annotated ==
  { Pod(n1, u1, {a1}, FALSE, 1, Nil, 1), Pod(n1, u1, {a1}, FALSE, 2, Nil, 1) }

Reused ==
  { Pod(n1, u1, {a1}, FALSE, Nil, Nil, 1), Pod(n2, u2, {a1}, FALSE, Nil, Nil, 2) }

Recreated ==
  { Pod(n1, u1, {a1}, FALSE, Nil, Nil, 1), Pod(n1, u2, {a2}, FALSE, Nil, Nil, 1) }

Moved ==
  { Pod(n1, u1, {a1}, FALSE, Nil, Nil, 1), Pod(n1, u1, {a2}, FALSE, Nil, Nil, 1) }

Together ==
  { Pod(n1, u1, {a1}, FALSE, Nil, Nil, 1), Pod(n1, u1, {a1}, FALSE, 1, Nil, 1),
    Pod(n2, u2, {a2}, FALSE, Nil, Nil, 2) }
TogetherFiles == { {}, {Says(u1, 1, 1, 1), Says(u2, 2, 2, 2)} }

Unclassed == { Pod(n1, u1, {a1}, FALSE, Nil, Nil, Nil) }
UnclassedLines == { <<>>, <<Says(u1, 1, 1, Nil)>> }
=============================================================================
