------------------------------ MODULE Dataplane ------------------------------
(***************************************************************************)
(* The programs of bpf/qos_tc.c on the links of LinkMgr: qos_prog_ingress  *)
(* and qos_prog_egress mark a packet and jump through qos_prog_map to      *)
(* qos_cgroup and on to qos_global, while the daemon attaches filters and  *)
(* puts entries into the map.                                              *)
(*                                                                         *)
(* What a limit decides is up to TokenBucket and Edt, so any packet may be *)
(* dropped by any limit it meets; which pod a packet belongs to, whether   *)
(* that pod has a limit and the packet's class depend on maps that PodSync *)
(* writes, so any packet may be limited.  Processors share nothing here.   *)
(***************************************************************************)
EXTENDS LinkMgr

CONSTANT CPU

VARIABLE packet \* the packet of each processor and what it has been through

vars == <<linkVars, packet>>

\* hook: where the packet is; mark: the bits of cb[0] that the programs set; ip: it is
\* IPv4 or IPv6; limited: its pod has a limit in this direction; through: the parts of
\* the program it went through and the direction they took it for.  ready, an
\* observer: the map was complete when the packet came.
Packet == [pc : {"idle", "cgroup", "global", "passed", "dropped"}, hook : Direction,
           mark : SUBSET Direction, ip : BOOLEAN, limited : BOOLEAN,
           through : SUBSET ({"meter", "pod", "class", "adjust"} \X Direction),
           ready : BOOLEAN]

NoPacket == [pc |-> "idle", hook |-> "ingress", mark |-> {}, ip |-> FALSE,
             limited |-> FALSE, through |-> {}, ready |-> FALSE]

Init == LinkInit /\ packet = [c \in CPU |-> NoPacket]

-----------------------------------------------------------------------------

\* A jump to a program that is not in the map comes back, and the packet passes.
Jump(program) == IF program \in prog THEN program ELSE "passed"

\* Mutation: the mark of another hook is not cleared.
MarkedToo(mark, hook) == mark \cup {hook}

\* mark_ingress, mark_egress: cb[0] may come with the mark of another hook.
Marked(mark, hook) == (mark \ Direction) \cup {hook}

\* get_direction.
Dir(mark) == IF "ingress" \in mark THEN "ingress" ELSE "egress"

\* qos_prog_ingress or qos_prog_egress, as the filter says.
Enter(c) ==
  /\ packet[c].pc \notin {"cgroup", "global"}
  /\ \E l \in Links : link[l] = "up" /\
       \E hook \in filter[l], mark \in SUBSET Direction, ip \in BOOLEAN :
         packet' = [packet EXCEPT ![c] =
                      [NoPacket EXCEPT !.pc = Jump("cgroup"), !.hook = hook, !.ip = ip,
                                       !.mark = Marked(mark, hook),
                                       !.ready = prog = Program]]
  /\ UNCHANGED linkVars

\* A packet that is not IP, or too short, passes unmetered.
NotIp(c) ==
  /\ packet[c].pc = "cgroup" /\ ~packet[c].ip
  /\ packet' = [packet EXCEPT ![c].pc = "passed"]
  /\ UNCHANGED linkVars

\* The meter, then the limit of the pod whose address the packet has: the receiver's
\* on ingress, the sender's on egress.
QosCgroup(c) ==
  /\ packet[c].pc = "cgroup" /\ packet[c].ip
  /\ \E limited, drop \in BOOLEAN :
       /\ drop => limited
       /\ packet' = [packet EXCEPT
                       ![c].pc = IF drop THEN "dropped" ELSE Jump("global"),
                       ![c].limited = limited,
                       ![c].through = {"meter"} \X {Dir(packet[c].mark)} \cup
                          (IF limited THEN {"pod"} ELSE {}) \X {Dir(packet[c].mark)}]
  /\ UNCHANGED linkVars

\* The limit of the packet's class; a packet that it drops adjusts nothing.  The two
\* lookups before it are in arrays and find an entry.
QosGlobal(c) ==
  /\ packet[c].pc = "global"
  /\ \E drop \in BOOLEAN :
       packet' = [packet EXCEPT
                    ![c].pc = IF drop THEN "dropped" ELSE "passed",
                    ![c].through = @ \cup
                       (IF drop THEN {"class"} ELSE {"class", "adjust"})
                          \X {Dir(packet[c].mark)}]
  /\ UNCHANGED linkVars

-----------------------------------------------------------------------------

PacketStep(c) == NotIp(c) \/ QosCgroup(c) \/ QosGlobal(c)

Next ==
  \/ LinkNext /\ UNCHANGED packet
  \/ \E c \in CPU : Enter(c) \/ PacketStep(c)

Spec == Init /\ [][Next]_vars

\* The daemon is scheduled and, if it ends, is started again; a BPF program runs to its
\* end.  Nothing makes packets come or links change.
FairSpec ==
  /\ Spec
  /\ WF_vars(Work /\ UNCHANGED packet)
  /\ \A c \in CPU : WF_vars(PacketStep(c))

-----------------------------------------------------------------------------

\* Every variable has its type.
TypeOK == LinkTypeOK /\ packet \in [CPU -> Packet]

\* A packet is metered, charged to its pod and limited with its class in the direction
\* of the hook it is at, whatever mark an earlier hook left on it.
DirectionKept ==
  \A c \in CPU : \A part \in packet[c].through : part[2] = packet[c].hook

\* An IP packet that comes when the map is complete and is let through went through
\* every limit there is for it, though the daemon may meanwhile be killed, start anew
\* and attach the programs again.
LimitedOnceReady ==
  \A c \in CPU :
    packet[c].pc = "passed" /\ packet[c].ip /\ packet[c].ready =>
      packet[c].through =
        ({"meter", "class", "adjust"} \cup (IF packet[c].limited THEN {"pod"} ELSE {}))
          \X {packet[c].hook}

\* Traffic keeps the adjustment going (line 559).
TrafficAdjusts ==
  \A c \in CPU :
    []<>(packet[c].pc = "global") =>
      []<>(\E d \in Direction : <<"adjust", d>> \in packet[c].through)

=============================================================================
