--------------------------- MODULE MCMeterSteady ---------------------------
(* NetStat under steady traffic: what get_average_rate makes of it.         *)
EXTENDS NetStat

VARIABLE sent    \* ingress packets so far

\* Ingress traffic of one byte a tick and nothing else, for as long as the
\* clock runs; the true rate is Second bytes a second.
SteadySpec ==
  /\ Init /\ sent = 0
  /\ [][ /\ Next
         /\ sent' = sent + (IF \E p \in CPU : At(p, "idle") /\ cpu'[p].pc # "idle" THEN 1 ELSE 0)
         /\ \A p \in CPU : cpu'[p].d = INGRESS_TRAFFIC
         /\ sent' <= 1 + clock - Second
         /\ clock' # clock => /\ sent = 1 + clock - Second
                              /\ \A p \in CPU : At(p, "idle") ]_<<vars, sent>>

\* A host bandwidth the traffic exceeds by a twentieth.
HostBandwidth == Second - Second \div 20

\* Traffic that exceeds the host bandwidth for a full second and more is seen
\* as contention: adjust_rate compares the average with the host bandwidth
\* (README.md:27).
ContentionSeen ==
  clock >= 3 * Second => Average(INGRESS_TRAFFIC) > HostBandwidth
=============================================================================
