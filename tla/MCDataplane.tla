----------------------------- MODULE MCDataplane -----------------------------
(* Instances of Dataplane for TLC. *)
EXTENDS Dataplane

CONSTANT l1

\* Both directions, or egress only with a link excluded.
MCSettings == {[enabled |-> {"ingress", "egress"}, excluded |-> {}],
               [enabled |-> {"egress"}, excluded |-> {l1}]}
==============================================================================
