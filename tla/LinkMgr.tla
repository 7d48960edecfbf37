------------------------------ MODULE LinkMgr -------------------------------
(***************************************************************************)
(* Mgr of pkg/bpf/manager.go: the daemon lists the links, attaches the     *)
(* programs to each valid one, subscribes to link events and then handles  *)
(* them one by one.  An error before the subscription ends the daemon,     *)
(* which is started again; an error after it is logged.  The filters and   *)
(* the program array are in the kernel and outlive the daemon.             *)
(*                                                                         *)
(* Links are those validDevice accepts when they are up and not excluded:  *)
(* devices other than loopback.  A link keeps its name while it is up.     *)
(***************************************************************************)
EXTENDS Integers, Sequences

CONSTANTS
  Links,
  Settings,   \* what the daemon may be started with: [enabled, excluded]
  MaxChanges, \* bound on the changes of links
  MaxFaults,  \* bound on the system calls that fail
  MaxKills    \* bound on the times the daemon is killed

Direction == {"ingress", "egress"}
Program == {"cgroup", "global"}

ASSUME LinkAssumption ==
  /\ Links # {} /\ Settings # {}
  /\ Settings \subseteq [enabled : SUBSET Direction, excluded : SUBSET Links]
  /\ MaxChanges \in Nat /\ MaxFaults \in Nat /\ MaxKills \in Nat

VARIABLES
  link,   \* "down", "up" or "gone"; an index is not used again
  filter, \* the directions in which a link has the program
  prog,   \* the entries of qos_prog_map, pinned
  mgr,    \* the daemon: see Manager
  queue,  \* the link events sent and not yet received
  missed, \* an observer: links whose last change the daemon has not handled
  left    \* changes, faults and kills left

linkVars == <<link, filter, prog, mgr, queue, missed, left>>

\* What LinkList or an event tells of a link.
Now(l) == [link |-> l, up |-> link[l] = "up"]

Snapshot == [link : Links, up : BOOLEAN]

\* step: what to do next for link job in direction dir, or "none".
Manager == [pc : {"off", "list", "start", "loop"}, settings : Settings,
            todo : SUBSET Snapshot, step : {"none", "qdisc", "filter", "cgroup", "global"},
            job : Links, dir : Direction]

Budget == [changes : 0..MaxChanges, faults : 0..MaxFaults, kills : 0..MaxKills]

LinkInit ==
  /\ link \in [Links -> {"down", "up"}]
  /\ filter = [l \in Links |-> {}]
  /\ prog = {}
  /\ mgr \in [pc : {"off"}, settings : Settings, todo : {{}}, step : {"none"},
              job : {CHOOSE l \in Links : TRUE}, dir : {"ingress"}]
  /\ queue = <<>>
  /\ missed = {}
  /\ left = [changes |-> MaxChanges, faults |-> MaxFaults, kills |-> MaxKills]

-----------------------------------------------------------------------------
(* The links.                                                              *)

\* Listed and not yet subscribed: nobody tells the daemon of a change.
Blind == mgr.pc = "start"

Change(l, to) ==
  /\ left.changes > 0
  /\ <<link[l], to>> \in {<<"down", "up">>, <<"up", "down">>, <<"down", "gone">>}
  /\ link' = [link EXCEPT ![l] = to]
  /\ filter' = [filter EXCEPT ![l] = IF to = "gone" THEN {} ELSE @]
  /\ queue' = IF mgr.pc = "loop" THEN Append(queue, [link |-> l, up |-> to = "up"])
              ELSE queue
  /\ missed' = IF Blind THEN missed \cup {l} ELSE missed
  /\ left' = [left EXCEPT !.changes = @ - 1]
  /\ UNCHANGED <<prog, mgr>>

-----------------------------------------------------------------------------
(* Start.                                                                  *)

Exits ==
  /\ mgr' = [mgr EXCEPT !.pc = "off", !.todo = {}, !.step = "none", !.dir = "ingress"]
  /\ queue' = <<>>

Fault ==
  /\ left.faults > 0
  /\ left' = [left EXCEPT !.faults = @ - 1]

Killed ==
  /\ mgr.pc # "off"
  /\ left.kills > 0
  /\ Exits
  /\ left' = [left EXCEPT !.kills = @ - 1]
  /\ UNCHANGED <<link, filter, prog, missed>>

\* Mutation: the collection is loaded over fresh maps.
Unpinned == {}

\* The maps are found where the daemon before pinned them.
Pinned == prog

\* NewBpfMgr, in a container with settings of its own.
Load ==
  /\ mgr.pc = "off"
  /\ \E s \in Settings : mgr' = [mgr EXCEPT !.pc = "list", !.settings = s]
  /\ prog' = Pinned
  /\ UNCHANGED <<link, filter, queue, missed, left>>

\* The links are taken one by one, in any order.
List ==
  /\ mgr.pc = "list"
  /\ mgr' = [mgr EXCEPT !.pc = "start", !.todo = {Now(l) : l \in {k \in Links : link[k] # "gone"}}]
  /\ missed' = {}
  /\ UNCHANGED <<link, filter, prog, queue, left>>

\* A link that is not valid is left alone, whatever it has.
Valid(snapshot) == snapshot.up /\ snapshot.link \notin mgr.settings.excluded

Ensure(snapshot, m) ==
  IF Valid(snapshot) THEN [m EXCEPT !.step = "qdisc", !.job = snapshot.link] ELSE m

NextListed ==
  /\ mgr.pc = "start" /\ mgr.step = "none"
  /\ \E snapshot \in mgr.todo :
       mgr' = Ensure(snapshot, [mgr EXCEPT !.todo = @ \ {snapshot}])
  /\ UNCHANGED <<link, filter, prog, queue, missed, left>>

Subscribe ==
  /\ mgr.pc = "start" /\ mgr.step = "none" /\ mgr.todo = {}
  /\ mgr' = [mgr EXCEPT !.pc = "loop"]
  /\ UNCHANGED <<link, filter, prog, queue, missed, left>>

Receive ==
  /\ mgr.pc = "loop" /\ mgr.step = "none"
  /\ queue # <<>>
  /\ mgr' = Ensure(Head(queue), mgr)
  /\ queue' = Tail(queue)
  /\ missed' = missed \ {Head(queue).link}
  /\ UNCHANGED <<link, filter, prog, left>>

\* LinkList or LinkSubscribe fails.
StartFails ==
  /\ \/ mgr.pc = "list"
     \/ mgr.pc = "start" /\ mgr.step = "none" /\ mgr.todo = {}
  /\ Exits
  /\ Fault
  /\ UNCHANGED <<link, filter, prog, missed>>

-----------------------------------------------------------------------------
(* ensureBpfProg.                                                          *)

\* The kernel still has the link.
Exists == link[mgr.job] # "gone"

Enabled == mgr.dir \in mgr.settings.enabled

Qdisc ==
  /\ mgr.step = "qdisc"
  /\ Exists
  /\ mgr' = [mgr EXCEPT !.step = "filter"]
  /\ UNCHANGED <<link, filter, prog, queue, missed, left>>

FilterReplace ==
  /\ mgr.step = "filter" /\ Enabled
  /\ Exists
  /\ filter' = [filter EXCEPT ![mgr.job] = @ \cup {mgr.dir}]
  /\ mgr' = [mgr EXCEPT !.step = "cgroup"]
  /\ UNCHANGED <<link, prog, queue, missed, left>>

\* Mutation: a disabled direction is the last.
NextDirectionReturns ==
  IF mgr.dir = "ingress" /\ Enabled
    THEN [mgr EXCEPT !.dir = "egress", !.step = "filter"]
    ELSE [mgr EXCEPT !.dir = "ingress", !.step = "none"]

\* Egress comes after ingress, and then the link is done.
NextDirection ==
  IF mgr.dir = "ingress" THEN [mgr EXCEPT !.dir = "egress", !.step = "filter"]
  ELSE [mgr EXCEPT !.dir = "ingress", !.step = "none"]

\* Whether there was a filter or not.
FilterDel ==
  /\ mgr.step = "filter" /\ ~Enabled
  /\ filter' = [filter EXCEPT ![mgr.job] = @ \ {mgr.dir}]
  /\ mgr' = NextDirection
  /\ UNCHANGED <<link, prog, queue, missed, left>>

\* The error is logged and ensureBpfProg goes on.
FilterDelFails ==
  /\ mgr.step = "filter" /\ ~Enabled
  /\ Fault
  /\ mgr' = NextDirection
  /\ missed' = missed \cup {mgr.job}
  /\ UNCHANGED <<link, filter, prog, queue>>

PutCgroup ==
  /\ mgr.step = "cgroup"
  /\ prog' = prog \cup {"cgroup"}
  /\ mgr' = [mgr EXCEPT !.step = "global"]
  /\ UNCHANGED <<link, filter, queue, missed, left>>

PutGlobal ==
  /\ mgr.step = "global"
  /\ prog' = prog \cup {"global"}
  /\ mgr' = NextDirection
  /\ UNCHANGED <<link, filter, queue, missed, left>>

\* A call that fails because the link is gone, or for a reason of its own.
Fails ==
  /\ mgr.step # "none" /\ (mgr.step = "filter" => Enabled)
  /\ \/ Fault
     \/ ~Exists /\ mgr.step \in {"qdisc", "filter"} /\ UNCHANGED left

\* Mutation: the error ends the goroutine that handles the events.
LoggedReturns == [mgr EXCEPT !.pc = "stopped", !.step = "none", !.dir = "ingress"]

\* Mutation: the next link is begun where this one was left.
LoggedHalfway == [mgr EXCEPT !.step = "none"]

\* An error in the loop is logged; nothing is tried again.
Logged == [mgr EXCEPT !.step = "none", !.dir = "ingress"]

EnsureFails ==
  /\ Fails
  /\ \/ mgr.pc = "start" /\ Exits /\ UNCHANGED missed
     \/ mgr.pc = "loop" /\ mgr' = Logged /\ missed' = missed \cup {mgr.job}
                        /\ UNCHANGED queue
  /\ UNCHANGED <<link, filter, prog>>

-----------------------------------------------------------------------------

\* What the daemon does by itself; failures and kills come from outside.
Work ==
  \/ Load \/ List \/ NextListed \/ Subscribe \/ Receive
  \/ Qdisc \/ FilterReplace \/ FilterDel \/ PutCgroup \/ PutGlobal \/ EnsureFails

LinkNext ==
  \/ Work
  \/ StartFails \/ FilterDelFails \/ Killed
  \/ \E l \in Links, to \in {"down", "up", "gone"} : Change(l, to)

-----------------------------------------------------------------------------

\* Every variable has its type; a direction is worked on only while a link is.
LinkTypeOK ==
  /\ link \in [Links -> {"down", "up", "gone"}]
  /\ filter \in [Links -> SUBSET Direction]
  /\ prog \subseteq Program
  /\ mgr \in Manager
  /\ queue \in Seq(Snapshot)
  /\ missed \subseteq Links
  /\ left \in Budget
  /\ mgr.step \in {"none", "qdisc"} => mgr.dir = "ingress"
  /\ mgr.step # "none" => mgr.pc \in {"start", "loop"}

\* The daemon waits for events and none is under way.
Settled == mgr.pc = "loop" /\ mgr.step = "none" /\ queue = <<>>

\* A link has what the daemon was told to give it, and the programs to go with it.
Attached(l) ==
  /\ filter[l] = mgr.settings.enabled
  /\ mgr.settings.enabled # {} => prog = Program

\* Once the daemon is settled every valid link is limited as the settings say: the
\* one just attached, those of the start, and those that came and went meanwhile.
\* The exceptions are the links missed: changed between the list and the
\* subscription, or given up after an error (manager.go:146, 154).
AttachedWhenSettled ==
  Settled => \A l \in Links : Valid(Now(l)) /\ l \notin missed => Attached(l)

\* Every valid link that was not missed is limited in the end, through errors at the
\* start, restarts with other settings and links that disappear at work.
EventuallyAttached ==
  \A l \in Links : []<>(Valid(Now(l)) /\ l \notin missed => Attached(l))

\* No link is missed: what a reader of Start would expect (line 146).
NoneMissed == Settled => \A l \in Links : Valid(Now(l)) => Attached(l)

\* A filter finds the programs it jumps to (line 192).
FiltersReady == \A l \in Links : filter[l] # {} => prog = Program

\* A link that is excluded is not limited (exclude-interfaces, damon.go:51).
ExcludedSpared == Settled => \A l \in mgr.settings.excluded : filter[l] = {}

=============================================================================
